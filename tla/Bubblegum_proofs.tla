--------------------------- MODULE Bubblegum_proofs ---------------------------
(***************************************************************************)
(* Proofs about Bubblegum, for any tree, any instructions and any number of  *)
(* workers.                                                                 *)
(***************************************************************************)
EXTENDS Bubblegum, TLAPS

\* The value of a cell after an instruction that carries it.
After(cell, i) ==
    IF NotOlder(cell.seq, SeqOf[i]) THEN [by |-> i, seq |-> SeqOf[i]] ELSE cell

\* Only decompression writes sequence number 0.
NotZero == \A l \in Leaf \ Decompressed : asset[l].seq # 0

-----------------------------------------------------------------------------
(* The upserts, row by row *)

\* Sequence numbers are positive and Null is not a number.
LEMMA SeqFacts ==
    ASSUME NEW i \in Ix
    PROVE  /\ SeqOf[i] \in Nat /\ SeqOf[i] > 0 /\ SeqOf[i] # Null
           /\ LeafOf[i] \in Leaf /\ SlotOf[i] \in Nat /\ SlotOf[i] # Null
           /\ i # Null /\ i # Saved
    BY TreeAssumption, RowAssumption

\* A group of columns still holds the newest value after one more instruction.
LEMMA NewestStep ==
    ASSUME NEW i \in Ix, NEW S \in SUBSET Ix, NEW cell \in Cell(Ix \cup {Saved}, Nat),
           Newest(cell, S)
    PROVE  /\ Newest(After(cell, i), S \cup {i})
           /\ cell.seq # 0
           /\ After(cell, i) \in Cell(Ix, Nat)
           /\ UpsertBySeq(cell, i, SeqOf[i]) = After(cell, i)
    <1>1. CASE S = {}
        BY <1>1, SeqFacts, RowAssumption
           DEF Newest, After, NotOlder, Unset, Cell, UpsertBySeq, NotOlderNorDecompressed
    <1>2. CASE S # {}
        <2>1. cell.by \in Ix /\ cell.seq = SeqOf[cell.by]
            BY Zenon, <1>2 DEF Newest
        <2>2. cell.seq \in Nat /\ cell.seq > 0 /\ cell.seq # Null
            BY Zenon, <2>1, SeqFacts
        <2>3. \A j \in S : SeqOf[j] \in Nat /\ SeqOf[j] <= cell.seq
            BY Zenon, <1>2, SeqFacts DEF Newest
        <2>4. CASE SeqOf[i] >= cell.seq
            <3>1. After(cell, i) = [by |-> i, seq |-> SeqOf[i]]
                BY Zenon, <2>4 DEF After, NotOlder
            <3>2. \A j \in S \cup {i} : SeqOf[j] <= SeqOf[i]
                BY <2>2, <2>3, <2>4, SeqFacts
            <3> QED BY <2>2, <2>4, <3>1, <3>2, SeqFacts
                    DEF Newest, Cell, UpsertBySeq, NotOlderNorDecompressed
        <2>5. CASE ~(SeqOf[i] >= cell.seq)
            <3>1. After(cell, i) = cell
                BY Zenon, <2>2, <2>5 DEF After, NotOlder
            <3>2. SeqOf[i] <= cell.seq
                BY <2>2, <2>5, SeqFacts
            <3> QED BY <1>2, <2>1, <2>2, <2>3, <2>5, <3>1, <3>2
                    DEF Newest, Cell, UpsertBySeq, NotOlderNorDecompressed
        <2> QED BY Zenon, <2>4, <2>5
    <1> QED BY Zenon, <1>1, <1>2

\* The upserts of table asset on a compressed asset: each changes its group
\* as After says and leaves the other groups alone.
LEMMA CompressedRow ==
    ASSUME NEW a \in AssetType, a.seq # 0, NEW i \in Ix
    PROVE  /\ LET b == upsert_asset_with_leaf_info(a, i, SeqOf[i])
              IN  b \in AssetType /\ b.seq = a.seq /\ b.leaf = After(a.leaf, i)
                  /\ b.owner = a.owner /\ b.base = a.base
           /\ LET b == upsert_asset_with_owner_and_delegate_info(a, i, SeqOf[i])
              IN  b \in AssetType /\ b.seq = a.seq /\ b.owner = After(a.owner, i)
                  /\ b.leaf = a.leaf /\ b.base = a.base
           /\ LET b == upsert_asset_base_info(a, i, SeqOf[i])
              IN  b \in AssetType /\ b.seq = a.seq /\ b.base = After(a.base, i)
                  /\ b.leaf = a.leaf /\ b.owner = a.owner
           /\ LET b == upsert_asset_with_compression_info(a, i)
              IN  b \in AssetType /\ b.seq = a.seq /\ b.base = a.base
                  /\ b.leaf = a.leaf /\ b.owner = a.owner
           /\ LET b == upsert_asset_with_seq(a, SeqOf[i])
              IN  b \in AssetType /\ b.base = a.base /\ b.leaf = a.leaf
                  /\ b.owner = a.owner /\ b.seq \in Nat /\ b.seq # 0
                  /\ SeqOf[i] <= b.seq /\ (a.seq # Null => a.seq <= b.seq)
           /\ LET b == set_burnt(a)
              IN  b \in AssetType /\ b.seq = a.seq /\ b.base = a.base
                  /\ b.leaf = a.leaf /\ b.owner = a.owner
    <1> USE SeqFacts, RowAssumption
    <1>1. LET b == upsert_asset_with_leaf_info(a, i, SeqOf[i])
          IN  b \in AssetType /\ b.seq = a.seq /\ b.leaf = After(a.leaf, i)
              /\ b.owner = a.owner /\ b.base = a.base
        BY DEF upsert_asset_with_leaf_info, Compressed, After, AssetType, Cell
    <1>2. LET b == upsert_asset_with_owner_and_delegate_info(a, i, SeqOf[i])
          IN  b \in AssetType /\ b.seq = a.seq /\ b.owner = After(a.owner, i)
              /\ b.leaf = a.leaf /\ b.base = a.base
        BY DEF upsert_asset_with_owner_and_delegate_info, Compressed, After, AssetType, Cell
    <1>3. LET b == upsert_asset_base_info(a, i, SeqOf[i])
          IN  b \in AssetType /\ b.seq = a.seq /\ b.base = After(a.base, i)
              /\ b.leaf = a.leaf /\ b.owner = a.owner
        <2> DEFINE slot == IF a = NoAsset THEN Null ELSE Greatest(a.slot_updated, SlotOf[i])
        <2>1. a.slot_updated \in Nat \cup {Null}
            BY Zenon DEF AssetType
        <2>2. slot \in Nat \cup {Null}
            BY Zenon, <2>1 DEF Greatest
        <2>3. [by |-> i, seq |-> SeqOf[i]] \in Cell(Ix \cup {Saved}, Nat)
            BY Zenon DEF Cell
        <2>4. upsert_asset_base_info(a, i, SeqOf[i]) =
                  IF NotOlder(a.base.seq, SeqOf[i])
                  THEN [a EXCEPT !.base = [by |-> i, seq |-> SeqOf[i]],
                                 !.slot_updated = slot]
                  ELSE a
            BY Zenon DEF upsert_asset_base_info, Compressed
        <2> HIDE DEF slot
        <2> DEFINE cell == [by |-> i, seq |-> SeqOf[i]]
                   b == [a EXCEPT !.base = cell, !.slot_updated = slot]
        <2> HIDE DEF cell
        <2>5. cell \in Cell(Ix \cup {Saved}, Nat)
            BY Zenon, <2>3 DEF cell
        <2>6. /\ b \in AssetType /\ b.seq = a.seq /\ b.base = cell
              /\ b.leaf = a.leaf /\ b.owner = a.owner
            BY <2>2, <2>5, Zenon DEF AssetType
        <2> HIDE DEF b
        <2>7. upsert_asset_base_info(a, i, SeqOf[i]) =
                  IF NotOlder(a.base.seq, SeqOf[i]) THEN b ELSE a
            BY Zenon, <2>4 DEF b, cell
        <2>8. After(a.base, i) = IF NotOlder(a.base.seq, SeqOf[i]) THEN cell ELSE a.base
            BY Zenon DEF After, cell
        <2> QED BY Zenon, <2>6, <2>7, <2>8
    <1>4. LET b == upsert_asset_with_compression_info(a, i)
          IN  b \in AssetType /\ b.seq = a.seq /\ b.base = a.base
              /\ b.leaf = a.leaf /\ b.owner = a.owner
        BY Zenon DEF upsert_asset_with_compression_info, Compressed, AssetType
    <1>5. LET b == upsert_asset_with_seq(a, SeqOf[i])
          IN  b \in AssetType /\ b.base = a.base /\ b.leaf = a.leaf
              /\ b.owner = a.owner /\ b.seq \in Nat /\ b.seq # 0
              /\ SeqOf[i] <= b.seq /\ (a.seq # Null => a.seq <= b.seq)
        BY DEF upsert_asset_with_seq, NotOlderNorDecompressed, AssetType
    <1>6. LET b == set_burnt(a)
          IN  b \in AssetType /\ b.seq = a.seq /\ b.base = a.base
              /\ b.leaf = a.leaf /\ b.owner = a.owner
        BY Zenon DEF set_burnt, AssetType
    <1> QED BY Zenon, <1>1, <1>2, <1>3, <1>4, <1>5, <1>6
\* The three upserts that most handlers end with.
LEMMA LeafOwnerSeqRow ==
    ASSUME NEW a \in AssetType, a.seq # 0, NEW i \in Ix
    PROVE  LET b == LeafOwnerSeq(a, i)
           IN  b \in AssetType /\ b.leaf = After(a.leaf, i) /\ b.owner = After(a.owner, i)
               /\ b.base = a.base /\ b.seq \in Nat /\ b.seq # 0 /\ SeqOf[i] <= b.seq
               /\ (a.seq # Null => a.seq <= b.seq)
    <1> DEFINE b1 == upsert_asset_with_leaf_info(a, i, SeqOf[i])
               b2 == upsert_asset_with_owner_and_delegate_info(b1, i, SeqOf[i])
    <1>1. b1 \in AssetType /\ b1.seq = a.seq /\ b1.leaf = After(a.leaf, i)
          /\ b1.owner = a.owner /\ b1.base = a.base
        BY CompressedRow, Zenon
    <1>2. b2 \in AssetType /\ b2.seq = a.seq /\ b2.leaf = After(a.leaf, i)
          /\ b2.owner = After(a.owner, i) /\ b2.base = a.base
        <2> HIDE DEF b1
        <2>1. b1.seq # 0
            BY Zenon, <1>1
        <2>2. b2 \in AssetType /\ b2.seq = b1.seq /\ b2.owner = After(b1.owner, i)
              /\ b2.leaf = b1.leaf /\ b2.base = b1.base
            BY Zenon, <1>1, <2>1, CompressedRow
        <2> QED BY Zenon, <1>1, <2>2
    <1> HIDE DEF b2
    <1> QED BY <1>2, CompressedRow, Zenon DEF LeafOwnerSeq, b2

\* The two upserts of the handlers that leave the owner alone.
LEMMA LeafSeqRow ==
    ASSUME NEW a \in AssetType, a.seq # 0, NEW i \in Ix
    PROVE  LET b == LeafSeq(a, i)
           IN  b \in AssetType /\ b.leaf = After(a.leaf, i) /\ b.owner = a.owner
               /\ b.base = a.base /\ b.seq \in Nat /\ b.seq # 0 /\ SeqOf[i] <= b.seq
               /\ (a.seq # Null => a.seq <= b.seq)
    <1> DEFINE b1 == upsert_asset_with_leaf_info(a, i, SeqOf[i])
    <1>1. b1 \in AssetType /\ b1.seq = a.seq /\ b1.leaf = After(a.leaf, i)
          /\ b1.owner = a.owner /\ b1.base = a.base
        BY CompressedRow, Zenon
    <1> HIDE DEF b1
    <1> QED BY Zenon, <1>1, CompressedRow DEF LeafSeq, b1

-----------------------------------------------------------------------------
(* The handlers *)

\* Table by table, a handler writes at most the row of its instruction's leaf.
OneRow(i) ==
    /\ \E a : asset' = Put(asset, LeafOf[i], a)
    /\ asset_data' \in {asset_data,
          Put(asset_data, LeafOf[i], UpsertBySeq(asset_data[LeafOf[i]], i, SeqOf[i]))}
    /\ asset_grouping' \in {asset_grouping,
          Put(asset_grouping, LeafOf[i], UpsertBySeq(asset_grouping[LeafOf[i]], i, SeqOf[i]))}
    /\ asset_authority' \in {asset_authority,
          Put(asset_authority, LeafOf[i],
              upsert_asset_authority(asset_authority[LeafOf[i]], i))}
    /\ asset_creators' \in {asset_creators,
          Put(asset_creators, LeafOf[i],
              upsert_asset_creators(asset_creators[LeafOf[i]], i, SeqOf[i]))}

\* Every handler does so.
LEMMA HandleOneRow ==
    ASSUME NEW i \in Ix, Handle(i)
    PROVE  OneRow(i)
    <1> USE DEF OneRow
    <1>1. CASE mint(i)
        BY Zenon, <1>1 DEF mint, upsert_asset_data, upsert_collection_info
    <1>2. CASE transfer(i) \/ delegate(i) \/ cancel_redeem(i)
        BY Zenon, <1>2 DEF transfer, delegate, cancel_redeem
    <1>3. CASE redeem(i) \/ burn(i)
        BY Zenon, <1>3 DEF redeem, burn
    <1>4. CASE update_metadata(i)
        BY Zenon, <1>4 DEF update_metadata, upsert_asset_data
    <1>5. CASE creator_verification(i) \/ collection_verification(i)
        BY Zenon, <1>5 DEF creator_verification, collection_verification, upsert_collection_info
    <1> HIDE DEF OneRow
    <1> QED BY <1>1, <1>2, <1>3, <1>4, <1>5, Zenon DEF Handle

\* A group after instruction i: newer if i is about this leaf and carries it.
Carried(l, i, g, old) ==
    IF l = LeafOf[i] /\ g \in Carries[KindOf[i]] THEN After(old, i) ELSE old

RowStep(l, i) ==
    /\ asset'[l] \in AssetType
    /\ asset'[l].leaf = Carried(l, i, "leaf", asset[l].leaf)
    /\ asset'[l].owner = Carried(l, i, "owner", asset[l].owner)
    /\ asset'[l].base = Carried(l, i, "base", asset[l].base)
    /\ asset_data'[l] = Carried(l, i, "data", asset_data[l])
    /\ asset_grouping'[l] = Carried(l, i, "collection", asset_grouping[l])
    /\ asset'[l].seq # 0
    /\ asset[l].seq # Null => asset'[l].seq \in Nat /\ asset[l].seq <= asset'[l].seq
    /\ l = LeafOf[i] => asset'[l].seq \in Nat /\ SeqOf[i] <= asset'[l].seq

\* Each handler changes, on a compressed asset, exactly the groups it carries.
LEMMA HandleCompressed ==
    ASSUME TypeOK, NotZero, NewestWins, NEW i \in Ix, Handle(i),
           NEW l \in Leaf \ Decompressed
    PROVE  RowStep(l, i)
    <1>1. asset[l] \in AssetType /\ asset[l].seq # 0 /\ asset[l].seq \in Nat \cup {Null}
        BY Zenon DEF TypeOK, NotZero, AssetType
    <1>2. /\ UpsertBySeq(asset_data[l], i, SeqOf[i]) = After(asset_data[l], i)
          /\ UpsertBySeq(asset_grouping[l], i, SeqOf[i]) = After(asset_grouping[l], i)
        <2>1. \A g : Writers(l, g) \in SUBSET Ix
            BY Zenon DEF Writers, TypeOK
        <2> QED BY <2>1, NewestStep, Zenon DEF NewestWins, TypeOK
    <1>3. asset \in [Leaf -> AssetType] /\ LeafOf[i] \in Leaf
          /\ asset_data = [k \in Leaf |-> asset_data[k]]
          /\ asset_grouping = [k \in Leaf |-> asset_grouping[k]]
        BY Zenon, SeqFacts DEF TypeOK
    <1>4. CASE l # LeafOf[i]
        <2>1. asset'[l] = asset[l] /\ asset_data'[l] = asset_data[l]
              /\ asset_grouping'[l] = asset_grouping[l]
            BY <1>3, <1>4, HandleOneRow DEF OneRow, Put
        <2> QED BY <1>1, <1>4, <2>1 DEF RowStep, Carried
    <1>5. CASE l = LeafOf[i]
        <2> DEFINE a == asset[l]
                   base == upsert_asset_base_info(a, i, SeqOf[i])
        <2>1. CASE mint(i)
            <3> DEFINE comp == upsert_asset_with_compression_info(base, i)
            <3>1. base \in AssetType /\ base.seq = a.seq /\ base.base = After(a.base, i)
                  /\ base.leaf = a.leaf /\ base.owner = a.owner
                BY Zenon, <1>1, CompressedRow
            <3>2. comp \in AssetType /\ comp.seq = a.seq /\ comp.base = After(a.base, i)
                  /\ comp.leaf = a.leaf /\ comp.owner = a.owner
                <4> HIDE DEF base
                <4> QED BY <1>1, <3>1, CompressedRow, Zenon
            <3>3. asset'[l] = LeafOwnerSeq(comp, i) /\ KindOf[i] = "mint"
                  /\ asset_data'[l] = UpsertBySeq(asset_data[l], i, SeqOf[i])
                  /\ asset_grouping'[l] = UpsertBySeq(asset_grouping[l], i, SeqOf[i])
                BY Zenon, <1>3, <1>5, <2>1 DEF mint, Put, upsert_asset_data, upsert_collection_info
            <3> HIDE DEF comp, a
            <3> QED BY <1>1, <1>2, <1>5, <3>2, <3>3, LeafOwnerSeqRow
                    DEF RowStep, Carried, Carries, a
        <2>2. CASE transfer(i) \/ delegate(i) \/ cancel_redeem(i)
            <3>1. asset'[l] = LeafOwnerSeq(a, i) /\ asset_data'[l] = asset_data[l]
                  /\ asset_grouping'[l] = asset_grouping[l]
                  /\ KindOf[i] \in {"transfer", "delegate", "cancel_redeem"}
                BY Zenon, <1>3, <1>5, <2>2 DEF transfer, delegate, cancel_redeem, Put
            <3> QED BY <1>1, <1>5, <3>1, LeafOwnerSeqRow DEF RowStep, Carried, Carries
        <2>3. CASE redeem(i)
            <3>1. asset'[l] = LeafSeq(a, i) /\ asset_data'[l] = asset_data[l]
                  /\ asset_grouping'[l] = asset_grouping[l] /\ KindOf[i] = "redeem"
                BY Zenon, <1>3, <1>5, <2>3 DEF redeem, Put
            <3> QED BY <1>1, <1>5, <3>1, LeafSeqRow DEF RowStep, Carried, Carries
        <2>4. CASE burn(i)
            <3> DEFINE burnt == set_burnt(a)
            <3>1. burnt \in AssetType /\ burnt.seq = a.seq /\ burnt.base = a.base
                  /\ burnt.leaf = a.leaf /\ burnt.owner = a.owner
                BY Zenon, <1>1, CompressedRow
            <3>2. asset'[l] = upsert_asset_with_seq(burnt, SeqOf[i]) /\ KindOf[i] = "burn"
                  /\ asset_data'[l] = asset_data[l]
                  /\ asset_grouping'[l] = asset_grouping[l]
                BY Zenon, <1>3, <1>5, <2>4 DEF burn, Put
            <3> DEFINE b == upsert_asset_with_seq(burnt, SeqOf[i])
            <3> HIDE DEF burnt, a
            <3>3. /\ b \in AssetType /\ b.base = burnt.base /\ b.leaf = burnt.leaf
                  /\ b.owner = burnt.owner /\ b.seq \in Nat /\ b.seq # 0
                  /\ SeqOf[i] <= b.seq /\ (burnt.seq # Null => burnt.seq <= b.seq)
                BY <1>1, <3>1, CompressedRow, Zenon DEF a
            <3> HIDE DEF b
            <3> QED BY <1>5, <3>1, <3>2, <3>3 DEF RowStep, Carried, Carries, a, b
        <2>5. CASE update_metadata(i)
            <3>1. base \in AssetType /\ base.seq = a.seq /\ base.base = After(a.base, i)
                  /\ base.leaf = a.leaf /\ base.owner = a.owner
                BY <1>1, CompressedRow, Zenon
            <3>2. asset'[l] = LeafSeq(base, i) /\ KindOf[i] = "update_metadata"
                  /\ asset_data'[l] = UpsertBySeq(asset_data[l], i, SeqOf[i])
                  /\ asset_grouping'[l] = asset_grouping[l]
                BY Zenon, <1>3, <1>5, <2>5 DEF update_metadata, Put, upsert_asset_data
            <3> HIDE DEF base, a
            <3> QED BY <1>1, <1>2, <1>5, <3>1, <3>2, LeafSeqRow
                    DEF RowStep, Carried, Carries, a
        <2>6. CASE creator_verification(i)
            <3>1. asset'[l] = LeafOwnerSeq(a, i) /\ asset_data'[l] = asset_data[l]
                  /\ asset_grouping'[l] = asset_grouping[l]
                  /\ KindOf[i] = "creator_verification"
                BY Zenon, <1>3, <1>5, <2>6 DEF creator_verification, Put
            <3> QED BY <1>1, <1>5, <3>1, LeafOwnerSeqRow DEF RowStep, Carried, Carries
        <2>7. CASE collection_verification(i)
            <3>1. asset'[l] = LeafSeq(a, i) /\ asset_data'[l] = asset_data[l]
                  /\ asset_grouping'[l] = UpsertBySeq(asset_grouping[l], i, SeqOf[i])
                  /\ KindOf[i] = "collection_verification"
                BY Zenon, <1>3, <1>5, <2>7 DEF collection_verification, Put, upsert_collection_info
            <3> QED BY <1>1, <1>2, <1>5, <3>1, LeafSeqRow DEF RowStep, Carried, Carries
        <2> QED BY Zenon, <2>1, <2>2, <2>3, <2>4, <2>5, <2>6, <2>7 DEF Handle
    <1> QED BY Zenon, <1>4, <1>5
\* On a decompressed asset the upserts do nothing.
LEMMA DecompressedRow ==
    ASSUME NEW a, a.seq = 0, NEW i \in Ix
    PROVE  /\ upsert_asset_with_leaf_info(a, i, SeqOf[i]) = a
           /\ upsert_asset_with_owner_and_delegate_info(a, i, SeqOf[i]) = a
           /\ upsert_asset_with_compression_info(a, i) = a
           /\ upsert_asset_base_info(a, i, SeqOf[i]) = a
           /\ upsert_asset_with_seq(a, SeqOf[i]) = a
           /\ LeafOwnerSeq(a, i) = a /\ LeafSeq(a, i) = a
           /\ UpsertBySeq(SavedCell, i, SeqOf[i]) = SavedCell
           /\ upsert_asset_authority(Saved, i) = Saved
    <1>1. ~Compressed(a) /\ ~NotOlderNorDecompressed(a.seq, SeqOf[i])
        BY RowAssumption DEF Compressed, NotOlderNorDecompressed
    <1>2. /\ upsert_asset_with_leaf_info(a, i, SeqOf[i]) = a
          /\ upsert_asset_with_owner_and_delegate_info(a, i, SeqOf[i]) = a
          /\ upsert_asset_with_compression_info(a, i) = a
          /\ upsert_asset_base_info(a, i, SeqOf[i]) = a
          /\ upsert_asset_with_seq(a, SeqOf[i]) = a
        BY Zenon, <1>1 DEF upsert_asset_with_leaf_info, upsert_asset_with_owner_and_delegate_info,
               upsert_asset_with_compression_info, upsert_asset_base_info,
               upsert_asset_with_seq
    <1>3. UpsertBySeq(SavedCell, i, SeqOf[i]) = SavedCell
        BY RowAssumption DEF UpsertBySeq, NotOlderNorDecompressed, SavedCell
    <1>4. upsert_asset_authority(Saved, i) = Saved
        BY Zenon, RowAssumption DEF upsert_asset_authority
    <1> QED BY Zenon, <1>2, <1>3, <1>4 DEF LeafOwnerSeq, LeafSeq

\* No handler changes the rows of a decompressed asset.
LEMMA HandleDecompressed ==
    ASSUME TypeOK, DecompressionIsFinal, NEW i \in Ix, Handle(i), NEW l \in Decompressed
    PROVE  /\ asset'[l] = asset[l] /\ asset_data'[l] = asset_data[l]
           /\ asset_grouping'[l] = asset_grouping[l]
           /\ asset_authority'[l] = asset_authority[l]
    <1>1. asset[l].seq = 0 /\ asset_data[l] = SavedCell /\ asset_grouping[l] = SavedCell
          /\ asset_authority[l] = Saved
        <2>1. SavedAsset.seq = 0
            BY Zenon DEF SavedAsset, NoAsset
        <2> QED BY Zenon, <2>1 DEF DecompressionIsFinal
    <1>2. LeafOf[i] \in Leaf /\ l \in Leaf
        BY Zenon, SeqFacts, DecompressionAssumption
    <1>3. asset = [k \in Leaf |-> asset[k]] /\ asset_data = [k \in Leaf |-> asset_data[k]]
          /\ asset_grouping = [k \in Leaf |-> asset_grouping[k]]
          /\ asset_authority = [k \in Leaf |-> asset_authority[k]]
        BY Zenon DEF TypeOK
    <1>4. CASE l # LeafOf[i]
        BY <1>2, <1>3, <1>4, HandleOneRow DEF OneRow, Put
    <1>5. CASE l = LeafOf[i]
        <2>1. ~burn(i)
            BY Zenon, <1>5, DecompressionAssumption DEF burn
        <2>2. CASE mint(i)
            BY <1>1, <1>2, <1>3, <1>5, <2>2, DecompressedRow
               DEF mint, Put, upsert_asset_data, upsert_collection_info
        <2>3. CASE update_metadata(i)
            BY <1>1, <1>2, <1>3, <1>5, <2>3, DecompressedRow
               DEF update_metadata, Put, upsert_asset_data
        <2>4. CASE collection_verification(i)
            BY Zenon, <1>1, <1>2, <1>3, <1>5, <2>4, DecompressedRow
               DEF collection_verification, Put, upsert_collection_info
        <2>5. CASE transfer(i) \/ delegate(i) \/ cancel_redeem(i) \/ redeem(i)
                   \/ creator_verification(i)
            BY <1>1, <1>2, <1>3, <1>5, <2>5, DecompressedRow
               DEF transfer, delegate, cancel_redeem, redeem, creator_verification, Put
        <2> QED BY <2>1, <2>2, <2>3, <2>4, <2>5, Zenon DEF Handle
    <1> QED BY Zenon, <1>4, <1>5

\* The handlers keep the types of all tables.
LEMMA HandleTypes ==
    ASSUME TypeOK, NotZero, NewestWins, DecompressionIsFinal, NEW i \in Ix, Handle(i)
    PROVE  /\ asset' \in [Leaf -> AssetType]
           /\ asset_data' \in [Leaf -> Cell(Ix \cup {Saved}, Nat)]
           /\ asset_grouping' \in [Leaf -> Cell(Ix \cup {Saved}, Nat)]
           /\ asset_authority' \in [Leaf -> Ix \cup {Saved, Null}]
           /\ asset_creators' \in [Leaf -> [Positions -> Cell(Ix \cup {Saved}, Nat)]]
    <1> DEFINE C == Cell(Ix \cup {Saved}, Nat)
    <1>1. \A cell \in C : UpsertBySeq(cell, i, SeqOf[i]) \in C
        BY Zenon, SeqFacts DEF UpsertBySeq, Cell
    <1>2. \A creators \in [Positions -> C] :
              upsert_asset_creators(creators, i, SeqOf[i]) \in [Positions -> C]
        <2> HIDE DEF C
        <2> QED BY Zenon, <1>1 DEF upsert_asset_creators
    <1>3. \A authority \in Ix \cup {Saved, Null} :
              upsert_asset_authority(authority, i) \in Ix \cup {Saved, Null}
        BY Zenon DEF upsert_asset_authority
    <1>4. /\ asset \in [Leaf -> AssetType]
          /\ asset_data \in [Leaf -> C] /\ asset_grouping \in [Leaf -> C]
          /\ asset_authority \in [Leaf -> Ix \cup {Saved, Null}]
          /\ asset_creators \in [Leaf -> [Positions -> C]]
          /\ LeafOf[i] \in Leaf
        BY SeqFacts, Zenon DEF TypeOK
    <1>5. asset' \in [Leaf -> AssetType]
        <2>1. \A l \in Leaf : asset'[l] \in AssetType
            BY Zenon, <1>4, HandleCompressed, HandleDecompressed DEF RowStep
        <2>2. \E a : asset' = [asset EXCEPT ![LeafOf[i]] = a]
            BY Zenon, HandleOneRow DEF OneRow, Put
        <2> QED BY Zenon, <1>4, <2>1, <2>2
    <1> HIDE DEF C
    <1>6. asset_data' \in [Leaf -> C] /\ asset_grouping' \in [Leaf -> C]
        <2>1. OneRow(i)
            BY Zenon, HandleOneRow
        <2>2. asset_data' \in [Leaf -> C]
            <3>1. UpsertBySeq(asset_data[LeafOf[i]], i, SeqOf[i]) \in C
                BY Zenon, <1>1, <1>4
            <3> QED BY <1>4, <2>1, <3>1 DEF OneRow, Put
        <2>3. asset_grouping' \in [Leaf -> C]
            <3>1. UpsertBySeq(asset_grouping[LeafOf[i]], i, SeqOf[i]) \in C
                BY Zenon, <1>1, <1>4
            <3> QED BY <1>4, <2>1, <3>1 DEF OneRow, Put
        <2> QED BY Zenon, <2>2, <2>3
    <1>7. asset_authority' \in [Leaf -> Ix \cup {Saved, Null}]
        BY <1>3, <1>4, HandleOneRow DEF OneRow, Put
    <1>8. asset_creators' \in [Leaf -> [Positions -> C]]
        BY <1>2, <1>4, HandleOneRow DEF OneRow, Put
    <1> QED BY <1>5, <1>6, <1>7, <1>8, Zenon DEF C

\* The nodes of an instruction's path up to the k-th are in a table cl_items.
Written(items, i, k) ==
    \A n \in 1..k : LET seq == items[PathOf[LeafOf[i]][n]]
                    IN  seq # Null /\ seq >= SeqOf[i]

\* What a worker has already written of its path.
WorkersWrite ==
    \A w \in Workers : worker[w] # Idle =>
        IF worker[w].pc = "path" THEN Written(cl_items, worker[w].ix, worker[w].node - 1)
        ELSE Written(cl_items, worker[w].ix, Len(PathOf[LeafOf[worker[w].ix]]))

\* A worker that found the tree did so because of some row.
WorkersFound ==
    \A w \in Workers : worker[w].pc = "insert" =>
        worker[w].force_chk \/ SeqOf[worker[w].ix] = 1 \/ backfill_items # {}

IInv ==
    /\ TypeOK
    /\ NotZero /\ NewestWins /\ DecompressionIsFinal
    /\ WorkersWrite /\ LeafHasProof /\ BackfillRowHasPath
    /\ WorkersFound /\ MissingStartIsForced

-----------------------------------------------------------------------------
(* The tree *)

\* Nodes only get newer, so what was written stays written.
LEMMA TreeGrows ==
    ASSUME TypeOK, cl_items' \in [Node -> Nat \cup {Null}],
           \A n \in Node : cl_items[n] # Null =>
               cl_items'[n] # Null /\ cl_items'[n] >= cl_items[n]
    PROVE  /\ \A i \in Ix : \A k \in 0..Len(PathOf[LeafOf[i]]) :
                  Written(cl_items, i, k) => Written(cl_items', i, k)
           /\ LeafHasProof /\ asset' = asset => LeafHasProof'
           /\ BackfillRowHasPath /\ backfill_items' = backfill_items => BackfillRowHasPath'
    <1>1. \A l \in Leaf : \A k \in 1..Len(PathOf[l]) : PathOf[l][k] \in Node
        BY TreeAssumption
    <1>2. \A n \in Node : \A s \in Nat : cl_items[n] # Null /\ cl_items[n] >= s
                             => cl_items'[n] # Null /\ cl_items'[n] >= s
        BY RowAssumption DEF TypeOK
    <1>3. ASSUME NEW i \in Ix, NEW k \in 0..Len(PathOf[LeafOf[i]]), Written(cl_items, i, k)
          PROVE  Written(cl_items', i, k)
        <2>1. \A n \in 1..k : n \in 1..Len(PathOf[LeafOf[i]])
            BY TreeAssumption
        <2> QED BY <1>1, <1>2, <1>3, <2>1, SeqFacts, Zenon DEF Written
    <1>4. ASSUME LeafHasProof, asset' = asset
          PROVE  LeafHasProof'
        <2>1. \A l \in Leaf : asset[l].leaf # Unset => asset[l].leaf.seq \in Nat
            BY Zenon DEF TypeOK, AssetType
        <2>2. SUFFICES ASSUME NEW l \in Leaf, asset[l].leaf # Unset,
                              NEW k \in 1..Len(PathOf[l])
                       PROVE  /\ cl_items'[PathOf[l][k]] # Null
                              /\ cl_items'[PathOf[l][k]] >= asset[l].leaf.seq
            BY Zenon, <1>4 DEF LeafHasProof
        <2>3. cl_items[PathOf[l][k]] # Null /\ cl_items[PathOf[l][k]] >= asset[l].leaf.seq
            BY Zenon, <1>4, <2>2 DEF LeafHasProof
        <2> QED BY Zenon, <1>1, <1>2, <2>1, <2>2, <2>3
    <1>5. ASSUME BackfillRowHasPath, backfill_items' = backfill_items
          PROVE  BackfillRowHasPath'
        BY <1>1, <1>2, <1>5, SeqFacts DEF BackfillRowHasPath, TypeOK
    <1> QED BY Zenon, <1>3, <1>4, <1>5
-----------------------------------------------------------------------------
(* The inductive invariant *)

\* The empty tables, with the rows of decompressed assets, satisfy it.
LEMMA InitIInv == Init => IInv
    <1> SUFFICES ASSUME Init PROVE IInv
        OBVIOUS
    <1> USE RowAssumption
    <1>1. Unset \in Cell(Ix \cup {Saved}, Nat) /\ SavedCell \in Cell(Ix \cup {Saved}, Nat)
        BY Zenon DEF Unset, SavedCell, Cell
    <1>2. NoAsset \in AssetType
        BY Zenon, <1>1 DEF NoAsset, AssetType
    <1>3. SavedAsset.leaf = Unset
        BY Zenon DEF SavedAsset, NoAsset
    <1>4. SavedAsset \in AssetType
        BY Zenon DEF SavedAsset, NoAsset, Unset, AssetType, Cell
    <1>5. /\ NoCreators \in [Positions -> Cell(Ix \cup {Saved}, Nat)]
          /\ SavedCreators \in [Positions -> Cell(Ix \cup {Saved}, Nat)]
        BY <1>1, Zenon DEF NoCreators, SavedCreators
    <1>6. TypeOK
        <2>1. worker \in [Workers -> WorkerType \cup {Idle}]
              /\ \A w \in Workers : worker[w].pc # "path"
            BY Zenon DEF Init, Idle
        <2> QED BY <1>1, <1>2, <1>4, <1>5, <2>1, Zenon DEF Init, TypeOK
    <1>7. NotZero /\ NewestWins
        <2>1. \A l, g : Writers(l, g) = {}
            BY Zenon DEF Init, Writers
        <2> QED BY <2>1 DEF Init, NotZero, NewestWins, Newest, NoAsset
    <1>8. DecompressionIsFinal
        BY Zenon, DecompressionAssumption DEF Init, DecompressionIsFinal
    <1>9. LeafHasProof
        <2>1. \A l \in Leaf : asset[l].leaf = Unset
            BY Zenon, <1>3 DEF Init, NoAsset
        <2> QED BY Zenon, <2>1 DEF LeafHasProof
    <1>10. WorkersWrite /\ WorkersFound
        BY Zenon DEF Init, WorkersWrite, WorkersFound, Idle
    <1>11. BackfillRowHasPath /\ MissingStartIsForced
        BY Zenon DEF Init, BackfillRowHasPath, MissingStartIsForced
    <1> QED BY Zenon, <1>6, <1>7, <1>8, <1>9, <1>10, <1>11 DEF IInv

\* Steps that leave the tables of assets alone keep what is said about them.
LEMMA RowsUnchanged ==
    ASSUME NotZero, NewestWins, DecompressionIsFinal, UNCHANGED <<rows, committed>>
    PROVE  NotZero' /\ NewestWins' /\ DecompressionIsFinal'
    <1>1. /\ asset' = asset /\ asset_data' = asset_data /\ asset_grouping' = asset_grouping
          /\ asset_authority' = asset_authority /\ committed' = committed
        BY Zenon DEF rows
    <1>2. NotZero'
        BY Zenon, <1>1 DEF NotZero
    <1>3. NewestWins'
        <2>1. \A l, g : Writers(l, g)' = Writers(l, g)
            BY Zenon, <1>1 DEF Writers
        <2> QED BY <1>1, <2>1, ZenonT(30) DEF NewestWins, Newest
    <1>4. DecompressionIsFinal'
        BY Zenon, <1>1 DEF DecompressionIsFinal
    <1> QED BY Zenon, <1>2, <1>3, <1>4

-----------------------------------------------------------------------------
(* The statements of the change log and the transactions *)

\* A worker that is not idle has an instruction.
LEMMA BusyWorker ==
    ASSUME TypeOK, NEW w \in Workers, worker[w] # Idle
    PROVE  worker[w] \in WorkerType /\ worker[w].ix \in Ix
    BY Zenon DEF TypeOK, WorkerType

\* A worker that has just received an instruction has written none of its path.
LEMMA ReceiveKeeps ==
    ASSUME IInv, NEW w \in Workers, NEW i \in Ix, Receive(w, i)
    PROVE  IInv'
    <1> DEFINE new == [Idle EXCEPT !.ix = i, !.pc = "path", !.node = 1]
    <1>1. worker' = [worker EXCEPT ![w] = new] /\ UNCHANGED <<changelog, rows, committed>>
        BY Zenon DEF Receive
    <1>2. /\ new \in WorkerType /\ new.ix = i /\ new.pc = "path" /\ new.node = 1
          /\ 1 \in 1..Len(PathOf[LeafOf[i]])
        <2>1. 1 \in 1..Len(PathOf[LeafOf[i]])
            BY TreeAssumption
        <2>2. new \in WorkerType
            BY Zenon DEF WorkerType, Idle
        <2>3. new.ix = i /\ new.pc = "path" /\ new.node = 1
            BY Zenon DEF Idle
        <2> QED BY Zenon, <2>1, <2>2, <2>3
    <1> HIDE DEF new
    <1>3. TypeOK'
        BY <1>1, <1>2, Zenon DEF IInv, TypeOK, changelog, rows
    <1>4. WorkersWrite' /\ WorkersFound'
        <2>1. Written(cl_items, i, 0)
            BY DEF Written
        <2>2. \A v \in Workers : worker'[v] = IF v = w THEN new ELSE worker[v]
            BY Zenon, <1>1 DEF IInv, TypeOK
        <2> QED BY <1>1, <1>2, <2>1, <2>2 DEF IInv, WorkersWrite, WorkersFound, changelog
    <1>5. LeafHasProof' /\ BackfillRowHasPath' /\ MissingStartIsForced'
        BY <1>1 DEF IInv, LeafHasProof, BackfillRowHasPath, MissingStartIsForced,
               changelog, rows
    <1> QED BY Zenon, <1>1, <1>3, <1>4, <1>5, RowsUnchanged DEF IInv

\* A failed step leaves what earlier steps wrote, and no worker that relies on more.
LEMMA FailKeeps ==
    ASSUME IInv, NEW w \in Workers, Fail(w)
    PROVE  IInv'
    <1>1. worker' = [worker EXCEPT ![w] = Idle] /\ UNCHANGED <<changelog, rows, committed>>
        BY Zenon DEF Fail
    <1>2. \A v \in Workers : worker'[v] = IF v = w THEN Idle ELSE worker[v]
        BY Zenon, <1>1 DEF IInv, TypeOK
    <1>3. TypeOK'
        BY <1>1, <1>2, Zenon DEF IInv, TypeOK, changelog, rows, Idle
    <1>4. WorkersWrite' /\ WorkersFound'
        <2>1. Idle.pc # "insert"
            BY Zenon DEF Idle
        <2> QED BY <1>1, <1>2, <2>1 DEF IInv, WorkersWrite, WorkersFound, changelog
    <1>5. LeafHasProof' /\ BackfillRowHasPath' /\ MissingStartIsForced'
        BY <1>1 DEF IInv, LeafHasProof, BackfillRowHasPath, MissingStartIsForced,
               changelog, rows
    <1> QED BY Zenon, <1>1, <1>3, <1>4, <1>5, RowsUnchanged DEF IInv

\* Writing the k-th node extends what is written of the path from k-1 to k.
LEMMA UpsertNodeKeeps ==
    ASSUME IInv, NEW w \in Workers, UpsertNode(w)
    PROVE  IInv'
    <1>1. worker[w].pc = "path" /\ worker[w] # Idle
        <2>1. worker[w].pc = "path"
            BY Zenon DEF UpsertNode, UpsertPath
        <2>2. Idle.pc = "idle"
            BY Zenon DEF Idle
        <2> QED BY Zenon, <2>1, <2>2
    <1>2. worker[w] \in WorkerType /\ worker[w].ix \in Ix
        BY Zenon, <1>1, BusyWorker DEF IInv
    <1>3. PICK i \in Ix, k \in Nat, last \in Nat :
              /\ i = worker[w].ix /\ k = worker[w].node /\ last = Len(PathOf[LeafOf[i]])
              /\ k \in 1..last
        <2>1. worker[w].node \in 1..Len(PathOf[LeafOf[worker[w].ix]])
            BY Zenon, <1>1 DEF IInv, TypeOK
        <2>2. Len(PathOf[LeafOf[worker[w].ix]]) \in Nat
            BY <1>2, TreeAssumption
        <2> QED BY <1>2, <2>1, <2>2
    <1>4. PICK n \in Node : n = PathOf[LeafOf[i]][k]
        BY <1>3, TreeAssumption
    <1>5. /\ cl_items' = [cl_items EXCEPT ![n] = IF @ = Null \/ SeqOf[i] > @
                                               THEN SeqOf[i] ELSE @]
          /\ worker' = IF k < last THEN [worker EXCEPT ![w].node = k + 1]
                       ELSE [worker EXCEPT ![w].pc = "audit"]
          /\ UNCHANGED <<cl_audits, backfill_items, rows, committed>>
        BY <1>3, <1>4, Zenon DEF UpsertNode, UpsertPath
    <1>6. /\ cl_items' \in [Node -> Nat \cup {Null}]
          /\ cl_items'[n] # Null /\ cl_items'[n] >= SeqOf[i]
          /\ \A m \in Node : cl_items[m] # Null =>
                cl_items'[m] # Null /\ cl_items'[m] >= cl_items[m]
        BY <1>5, SeqFacts, RowAssumption DEF IInv, TypeOK
    <1>7. worker' \in [Workers -> WorkerType \cup {Idle}]
          /\ \A v \in Workers : v # w => worker'[v] = worker[v]
        BY <1>2, <1>3, <1>5 DEF IInv, TypeOK, WorkerType
    <1>8. /\ worker'[w].ix = i
          /\ k < last => worker'[w].pc = "path" /\ worker'[w].node = k + 1
          /\ ~(k < last) => worker'[w].pc = "audit"
        BY Zenon, <1>1, <1>2, <1>3, <1>5 DEF IInv, TypeOK, WorkerType
    <1>9. TypeOK'
        <2>1. \A v \in Workers : worker'[v].pc = "path" =>
                  worker'[v].node \in 1..Len(PathOf[LeafOf[worker'[v].ix]])
            <3>1. \A v \in Workers : worker[v].pc = "path" =>
                      worker[v].node \in 1..Len(PathOf[LeafOf[worker[v].ix]])
                BY Zenon DEF IInv, TypeOK
            <3>2. k < last => k + 1 \in 1..last
                BY <1>3
            <3> QED BY Zenon, <1>3, <1>7, <1>8, <3>1, <3>2
        <2> QED BY <1>5, <1>6, <1>7, <2>1, Zenon DEF IInv, TypeOK, rows
    <1>10. \A j \in Ix : \A m \in 0..Len(PathOf[LeafOf[j]]) :
               Written(cl_items, j, m) => Written(cl_items', j, m)
        BY Zenon, <1>6, TreeGrows DEF IInv
    <1>11. Written(cl_items', i, k)
        <2>1. Written(cl_items, i, k - 1) /\ k - 1 \in 0..last
            BY <1>1, <1>3 DEF IInv, WorkersWrite
        <2>2. Written(cl_items', i, k - 1)
            BY Zenon, <1>3, <1>10, <2>1
        <2>3. \A m \in 1..k : m \in 1..(k - 1) \/ m = k
            BY <1>3
        <2> QED BY Zenon, <1>4, <1>6, <2>2, <2>3 DEF Written
    <1>12. ASSUME NEW v \in Workers, worker'[v] # Idle
           PROVE  IF worker'[v].pc = "path"
                  THEN Written(cl_items', worker'[v].ix, worker'[v].node - 1)
                  ELSE Written(cl_items', worker'[v].ix, Len(PathOf[LeafOf[worker'[v].ix]]))
        <2>1. CASE v = w
            <3>1. CASE k < last
                <4>1. worker'[v].node - 1 = k
                    BY <1>8, <2>1, <3>1
                <4> QED BY Zenon, <1>8, <1>11, <2>1, <3>1, <4>1
            <3>2. CASE ~(k < last)
                <4>1. k = last
                    BY <1>3, <3>2
                <4>2. worker'[v].ix = i /\ worker'[v].pc # "path"
                    BY Zenon, <1>8, <2>1, <3>2
                <4> QED BY <1>3, <1>11, <4>1, <4>2, Zenon
            <3> QED BY Zenon, <3>1, <3>2
        <2>2. CASE v # w
            <3>1. worker'[v] = worker[v] /\ worker[v] # Idle /\ worker[v].ix \in Ix
                BY Zenon, <1>7, <1>12, <2>2, BusyWorker DEF IInv
            <3>2. Len(PathOf[LeafOf[worker[v].ix]]) \in Nat
                BY <3>1, TreeAssumption
            <3>3. CASE worker[v].pc = "path"
                <4>1. worker[v].node - 1 \in 0..Len(PathOf[LeafOf[worker[v].ix]])
                    BY <3>2, <3>3 DEF IInv, TypeOK
                <4>2. Written(cl_items, worker[v].ix, worker[v].node - 1)
                    BY Zenon, <3>1, <3>3 DEF IInv, WorkersWrite
                <4> QED BY Zenon, <1>10, <3>1, <3>3, <4>1, <4>2
            <3>4. CASE worker[v].pc # "path"
                <4>1. Written(cl_items, worker[v].ix, Len(PathOf[LeafOf[worker[v].ix]]))
                    BY Zenon, <3>1, <3>4 DEF IInv, WorkersWrite
                <4> QED BY <1>10, <3>1, <3>2, <3>4, <4>1
            <3> QED BY Zenon, <3>3, <3>4
        <2> QED BY Zenon, <2>1, <2>2
    <1>13. WorkersWrite'
        BY Zenon, <1>12 DEF WorkersWrite
    <1>14. WorkersFound'
        BY Zenon, <1>5, <1>7, <1>8 DEF IInv, WorkersFound
    <1>15. LeafHasProof' /\ BackfillRowHasPath'
        BY Zenon, <1>5, <1>6, TreeGrows DEF IInv, rows
    <1>16. MissingStartIsForced'
        BY Zenon, <1>5 DEF IInv, MissingStartIsForced
    <1> QED BY Zenon, <1>5, <1>9, <1>13, <1>14, <1>15, <1>16, RowsUnchanged DEF IInv

\* The steps that only move on with the worker's change to the tree.
LEMMA WorkerMoves ==
    ASSUME IInv, NEW w \in Workers, NEW pc \in {"find", "insert", "commit"},
           NEW new \in WorkerType, new.pc = pc, new.ix = worker[w].ix,
           worker[w].pc \in {"audit", "find", "insert"},
           worker' = [worker EXCEPT ![w] = new], UNCHANGED <<cl_items, rows, committed>>
    PROVE  /\ worker' \in [Workers -> WorkerType \cup {Idle}]
           /\ \A v \in Workers : worker'[v].pc = "path" =>
                worker'[v].node \in 1..Len(PathOf[LeafOf[worker'[v].ix]])
           /\ WorkersWrite' /\ LeafHasProof'
           /\ NotZero' /\ NewestWins' /\ DecompressionIsFinal'
    <1>1. \A v \in Workers : worker'[v] = IF v = w THEN new ELSE worker[v]
        BY Zenon DEF IInv, TypeOK
    <1>2. worker' \in [Workers -> WorkerType \cup {Idle}]
        BY Zenon DEF IInv, TypeOK
    <1>3. \A v \in Workers : worker'[v].pc = "path" =>
              worker'[v].node \in 1..Len(PathOf[LeafOf[worker'[v].ix]])
        BY Zenon, <1>1 DEF IInv, TypeOK
    <1>4. worker[w] # Idle /\ worker[w].pc # "path"
        BY DEF Idle
    <1>5. WorkersWrite'
        BY <1>1, <1>4 DEF IInv, WorkersWrite
    <1>6. LeafHasProof'
        BY Zenon DEF IInv, LeafHasProof, rows
    <1> QED BY Zenon, <1>2, <1>3, <1>5, <1>6, RowsUnchanged DEF IInv

\* The audit row is written or not; nothing else depends on it.
LEMMA InsertAuditKeeps ==
    ASSUME IInv, NEW w \in Workers, InsertAudit(w)
    PROVE  IInv'
    <1> DEFINE new == [worker[w] EXCEPT !.pc = "find"]
    <1>1. worker[w].pc = "audit" /\ worker[w] # Idle
        BY DEF InsertAudit, Idle
    <1>2. worker[w] \in WorkerType /\ worker[w].ix \in Ix
        BY Zenon, <1>1, BusyWorker DEF IInv
    <1>3. new \in WorkerType /\ new.pc = "find" /\ new.ix = worker[w].ix
        BY Zenon, <1>2 DEF WorkerType
    <1>4. /\ worker' = [worker EXCEPT ![w] = new]
          /\ cl_audits' \subseteq Ix
          /\ UNCHANGED <<cl_items, backfill_items, rows, committed>>
        BY Zenon, <1>2 DEF InsertAudit, Goto, IInv, TypeOK
    <1> HIDE DEF new
    <1>5. /\ worker' \in [Workers -> WorkerType \cup {Idle}]
          /\ \A v \in Workers : worker'[v].pc = "path" =>
               worker'[v].node \in 1..Len(PathOf[LeafOf[worker'[v].ix]])
          /\ WorkersWrite' /\ LeafHasProof'
          /\ NotZero' /\ NewestWins' /\ DecompressionIsFinal'
        BY <1>1, <1>3, <1>4, WorkerMoves, Zenon
    <1>6. TypeOK'
        BY <1>4, <1>5, Zenon DEF IInv, TypeOK, rows
    <1>7. WorkersFound' /\ BackfillRowHasPath' /\ MissingStartIsForced'
        <2>1. \A v \in Workers : worker'[v] = IF v = w THEN new ELSE worker[v]
            BY <1>4, Zenon DEF IInv, TypeOK
        <2> QED BY <1>3, <1>4, <2>1
                DEF IInv, WorkersFound, BackfillRowHasPath, MissingStartIsForced
    <1> QED BY Zenon, <1>5, <1>6, <1>7 DEF IInv

\* A worker that finds no row of the tree remembers whether to force the check.
LEMMA FindTreeKeeps ==
    ASSUME IInv, NEW w \in Workers, FindTree(w)
    PROVE  IInv'
    <1> DEFINE forced == backfill_items = {} /\ SeqOf[worker[w].ix] > 1
               new == [worker[w] EXCEPT !.pc = "insert", !.force_chk = forced]
    <1>1. worker[w].pc = "find" /\ worker[w] # Idle
        BY DEF FindTree, Idle
    <1>2. worker[w] \in WorkerType /\ worker[w].ix \in Ix
        BY Zenon, <1>1, BusyWorker DEF IInv
    <1>3. forced \in BOOLEAN
        OBVIOUS
    <1>4. /\ worker' = [worker EXCEPT ![w] = new]
          /\ UNCHANGED <<changelog, rows, committed>>
        BY Zenon DEF FindTree
    <1>5. \/ forced \/ SeqOf[worker[w].ix] = 1 \/ backfill_items # {}
        BY <1>2, SeqFacts
    <1> HIDE DEF forced
    <1>6. /\ new \in WorkerType /\ new.pc = "insert" /\ new.ix = worker[w].ix
          /\ new.force_chk = forced
        BY <1>2, <1>3, Zenon DEF WorkerType
    <1> HIDE DEF new
    <1>7. /\ worker' \in [Workers -> WorkerType \cup {Idle}]
          /\ \A v \in Workers : worker'[v].pc = "path" =>
               worker'[v].node \in 1..Len(PathOf[LeafOf[worker'[v].ix]])
          /\ WorkersWrite' /\ LeafHasProof'
          /\ NotZero' /\ NewestWins' /\ DecompressionIsFinal'
        BY <1>1, <1>4, <1>6, WorkerMoves, Zenon DEF changelog
    <1>8. TypeOK'
        BY <1>4, <1>7, Zenon DEF IInv, TypeOK, rows, changelog
    <1>9. WorkersFound' /\ BackfillRowHasPath' /\ MissingStartIsForced'
        <2>1. \A v \in Workers : worker'[v] = IF v = w THEN new ELSE worker[v]
            BY Zenon, <1>4 DEF IInv, TypeOK
        <2>2. backfill_items' = backfill_items /\ cl_items' = cl_items
            BY Zenon, <1>4 DEF changelog
        <2>3. WorkersFound'
            BY Zenon, <1>5, <1>6, <2>1, <2>2 DEF IInv, WorkersFound
        <2>4. BackfillRowHasPath'
            BY ZenonT(40), <2>2 DEF IInv, BackfillRowHasPath
        <2>5. MissingStartIsForced'
            BY Zenon, <2>2 DEF IInv, MissingStartIsForced
        <2> QED BY Zenon, <2>3, <2>4, <2>5
    <1> QED BY Zenon, <1>7, <1>8, <1>9 DEF IInv

\* The row is inserted after the whole path, with what the worker found.
LEMMA InsertBackfillKeeps ==
    ASSUME IInv, NEW w \in Workers, InsertBackfill(w)
    PROVE  IInv'
    <1> DEFINE new == [worker[w] EXCEPT !.pc = "commit"]
               row == [seq |-> SeqOf[worker[w].ix], force_chk |-> worker[w].force_chk]
    <1>1. worker[w].pc = "insert" /\ worker[w] # Idle
        BY DEF InsertBackfill, Idle
    <1>2. worker[w] \in WorkerType /\ worker[w].ix \in Ix
        BY Zenon, <1>1, BusyWorker DEF IInv
    <1>3. new \in WorkerType /\ new.pc = "commit" /\ new.ix = worker[w].ix
        BY Zenon, <1>2 DEF WorkerType
    <1>4. /\ worker' = [worker EXCEPT ![w] = new]
          /\ backfill_items' = backfill_items \cup {row}
          /\ UNCHANGED <<cl_items, cl_audits, rows, committed>>
        BY Zenon, <1>2 DEF InsertBackfill, Goto
    <1>5. row \in [seq : Nat, force_chk : BOOLEAN] /\ row.seq = SeqOf[worker[w].ix]
          /\ row.force_chk = worker[w].force_chk
        BY Zenon, <1>2, SeqFacts DEF WorkerType
    <1> HIDE DEF new, row
    <1>6. /\ worker' \in [Workers -> WorkerType \cup {Idle}]
          /\ \A v \in Workers : worker'[v].pc = "path" =>
               worker'[v].node \in 1..Len(PathOf[LeafOf[worker'[v].ix]])
          /\ WorkersWrite' /\ LeafHasProof'
          /\ NotZero' /\ NewestWins' /\ DecompressionIsFinal'
        BY <1>1, <1>3, <1>4, WorkerMoves, Zenon
    <1>7. TypeOK'
        BY <1>4, <1>5, <1>6, Zenon DEF IInv, TypeOK, rows
    <1>8. WorkersFound'
        <2>1. \A v \in Workers : worker'[v] = IF v = w THEN new ELSE worker[v]
            BY Zenon, <1>4 DEF IInv, TypeOK
        <2> QED BY Zenon, <1>3, <1>4, <2>1 DEF IInv, WorkersFound
    <1>9. BackfillRowHasPath'
        <2>1. Written(cl_items, worker[w].ix, Len(PathOf[LeafOf[worker[w].ix]]))
            BY Zenon, <1>1 DEF IInv, WorkersWrite
        <2>2. SUFFICES ASSUME NEW r \in backfill_items'
                       PROVE  \E i \in Ix :
                                 /\ SeqOf[i] = r.seq
                                 /\ \A k \in 1..Len(PathOf[LeafOf[i]]) :
                                       LET seq == cl_items[PathOf[LeafOf[i]][k]]
                                       IN  seq # Null /\ seq >= r.seq
            BY <1>4 DEF BackfillRowHasPath
        <2>3. CASE r \in backfill_items
            BY Zenon, <2>3 DEF IInv, BackfillRowHasPath
        <2>4. CASE r = row
            BY <1>2, <1>5, <2>1, <2>4, Zenon DEF Written
        <2> QED BY Zenon, <1>4, <2>3, <2>4
    <1>10. MissingStartIsForced'
        BY Zenon, <1>1, <1>4, <1>5 DEF IInv, MissingStartIsForced, WorkersFound
    <1> QED BY Zenon, <1>6, <1>7, <1>8, <1>9, <1>10 DEF IInv

\* The transaction of a handler keeps every group at its newest value, leaves
\* a decompressed asset alone, and writes a leaf only once its path is there.
LEMMA CommitKeeps ==
    ASSUME IInv, NEW w \in Workers, Commit(w)
    PROVE  IInv'
    <1>1. worker[w].pc = "commit" /\ worker[w] # Idle
        BY DEF Commit, Idle
    <1>2. PICK i \in Ix : i = worker[w].ix
        BY Zenon, <1>1, BusyWorker DEF IInv
    <1>3. /\ Handle(i) /\ committed' = committed \cup {i}
          /\ worker' = [worker EXCEPT ![w] = Idle] /\ UNCHANGED changelog
        BY Zenon, <1>2 DEF Commit
    <1>4. \A l \in Leaf \ Decompressed : RowStep(l, i)
        BY Zenon, <1>3, HandleCompressed DEF IInv
    <1>5. \A l \in Decompressed :
              /\ asset'[l] = asset[l] /\ asset_data'[l] = asset_data[l]
              /\ asset_grouping'[l] = asset_grouping[l]
              /\ asset_authority'[l] = asset_authority[l]
        BY Zenon, <1>3, HandleDecompressed DEF IInv
    <1>6. \A v \in Workers : worker'[v] = IF v = w THEN Idle ELSE worker[v]
        BY Zenon, <1>3 DEF IInv, TypeOK
    <1>7. TypeOK'
        <2>1. worker' \in [Workers -> WorkerType \cup {Idle}]
            BY <1>3, Zenon DEF IInv, TypeOK
        <2>2. \A v \in Workers : worker'[v].pc = "path" =>
                  worker'[v].node \in 1..Len(PathOf[LeafOf[worker'[v].ix]])
            BY <1>6 DEF IInv, TypeOK, Idle
        <2>3. committed' \subseteq Ix /\ UNCHANGED <<cl_items, cl_audits, backfill_items>>
            BY Zenon, <1>3 DEF IInv, TypeOK, changelog
        <2> QED BY <1>3, <2>1, <2>2, <2>3, HandleTypes, Zenon DEF IInv, TypeOK
    <1>8. NotZero' /\ DecompressionIsFinal'
        BY Zenon, <1>4, <1>5 DEF IInv, NotZero, DecompressionIsFinal, RowStep
    <1>9. NewestWins'
        <2>1. SUFFICES ASSUME NEW l \in Leaf \ Decompressed
                       PROVE  /\ Newest(asset'[l].leaf, Writers(l, "leaf")')
                              /\ Newest(asset'[l].owner, Writers(l, "owner")')
                              /\ Newest(asset'[l].base, Writers(l, "base")')
                              /\ Newest(asset_data'[l], Writers(l, "data")')
                              /\ Newest(asset_grouping'[l], Writers(l, "collection")')
                              /\ \A j \in committed' : LeafOf[j] = l =>
                                    asset'[l].seq # Null /\ SeqOf[j] <= asset'[l].seq
            BY Zenon DEF NewestWins, Newest
        <2>2. ASSUME NEW g, NEW cell \in Cell(Ix \cup {Saved}, Nat),
                     Newest(cell, Writers(l, g))
              PROVE  Newest(Carried(l, i, g, cell), Writers(l, g)')
            <3>1. Writers(l, g) \in SUBSET Ix
                BY Zenon DEF Writers, IInv, TypeOK
            <3>2. CASE l = LeafOf[i] /\ g \in Carries[KindOf[i]]
                <4>1. Writers(l, g)' = Writers(l, g) \cup {i}
                    BY Zenon, <1>3, <3>2 DEF Writers
                <4> QED BY <2>2, <3>1, <3>2, <4>1, NewestStep DEF Carried
            <3>3. CASE ~(l = LeafOf[i] /\ g \in Carries[KindOf[i]])
                <4>1. Writers(l, g)' = Writers(l, g)
                    BY Zenon, <1>3, <3>3 DEF Writers
                <4> QED BY <2>2, <3>3, <4>1, Zenon DEF Carried
            <3> QED BY <3>2, <3>3, Zenon
        <2>3. asset[l].leaf \in Cell(Ix \cup {Saved}, Nat)
            BY DEF IInv, TypeOK, AssetType, Cell, Unset
        <2>4. /\ asset[l].owner \in Cell(Ix \cup {Saved}, Nat)
              /\ asset[l].base \in Cell(Ix \cup {Saved}, Nat)
              /\ asset_data[l] \in Cell(Ix \cup {Saved}, Nat)
              /\ asset_grouping[l] \in Cell(Ix \cup {Saved}, Nat)
            BY Zenon DEF IInv, TypeOK, AssetType
        <2>5. /\ Newest(asset'[l].leaf, Writers(l, "leaf")')
              /\ Newest(asset'[l].owner, Writers(l, "owner")')
              /\ Newest(asset'[l].base, Writers(l, "base")')
              /\ Newest(asset_data'[l], Writers(l, "data")')
              /\ Newest(asset_grouping'[l], Writers(l, "collection")')
            BY <1>4, <2>2, <2>3, <2>4, Zenon DEF RowStep, IInv, NewestWins
        <2>6. ASSUME NEW j \in committed', LeafOf[j] = l
              PROVE  asset'[l].seq # Null /\ SeqOf[j] <= asset'[l].seq
            <3>1. RowStep(l, i) /\ j \in Ix
                BY <1>3, <1>4, Zenon DEF IInv, TypeOK
            <3>2. CASE j = i
                BY <2>6, <3>1, <3>2, RowAssumption DEF RowStep
            <3>3. CASE j # i
                <4>1. asset[l].seq # Null /\ SeqOf[j] <= asset[l].seq /\ asset[l].seq \in Nat
                    BY <1>3, <2>6, <3>3, Zenon DEF IInv, NewestWins, TypeOK, AssetType
                <4> QED BY <3>1, <4>1, SeqFacts, RowAssumption DEF RowStep
            <3> QED BY Zenon, <3>2, <3>3
        <2> QED BY Zenon, <2>5, <2>6
    <1>10. LeafHasProof'
        <2>1. SUFFICES ASSUME NEW l \in Leaf, asset'[l].leaf # Unset,
                              NEW k \in 1..Len(PathOf[l])
                       PROVE  /\ cl_items[PathOf[l][k]] # Null
                              /\ cl_items[PathOf[l][k]] >= asset'[l].leaf.seq
            BY Zenon, <1>3 DEF LeafHasProof, changelog
        <2>2. CASE asset'[l].leaf = asset[l].leaf
            BY Zenon, <2>1, <2>2 DEF IInv, LeafHasProof
        <2>3. CASE asset'[l].leaf # asset[l].leaf
            <3>1. l = LeafOf[i] /\ asset'[l].leaf = [by |-> i, seq |-> SeqOf[i]]
                BY <1>4, <1>5, <2>3, Zenon DEF RowStep, Carried, After
            <3>2. Written(cl_items, i, Len(PathOf[l]))
                BY <1>1, <1>2, <3>1, Zenon DEF IInv, WorkersWrite
            <3> QED BY <3>1, <3>2 DEF Written
        <2> QED BY Zenon, <2>2, <2>3
    <1>11. WorkersWrite' /\ WorkersFound' /\ BackfillRowHasPath' /\ MissingStartIsForced'
        <2>1. Idle.pc # "insert"
            BY Zenon DEF Idle
        <2>2. cl_items' = cl_items /\ backfill_items' = backfill_items
            BY Zenon, <1>3 DEF changelog
        <2>3. WorkersWrite'
            <3>1. WorkersWrite
                BY Zenon DEF IInv
            <3> QED BY Zenon, <1>6, <2>2, <3>1 DEF WorkersWrite
        <2>4. WorkersFound'
            BY Zenon, <1>6, <2>1, <2>2 DEF IInv, WorkersFound
        <2>5. BackfillRowHasPath'
            BY <2>2 DEF IInv, BackfillRowHasPath
        <2>6. MissingStartIsForced'
            BY Zenon, <2>2 DEF IInv, MissingStartIsForced
        <2> QED BY Zenon, <2>3, <2>4, <2>5, <2>6
    <1> QED BY Zenon, <1>7, <1>8, <1>9, <1>10, <1>11 DEF IInv

\* Every step keeps the inductive invariant.
LEMMA NextIInv == IInv /\ [Next]_vars => IInv'
    <1> SUFFICES ASSUME IInv, [Next]_vars PROVE IInv'
        OBVIOUS
    <1>1. CASE UNCHANGED vars
        <2>1. UNCHANGED <<changelog, rows, committed>> /\ worker' = worker
            BY Zenon, <1>1 DEF vars
        <2>2. TypeOK'
            BY <2>1, Zenon DEF IInv, TypeOK, changelog, rows
        <2>3. WorkersWrite' /\ WorkersFound'
            BY Zenon, <2>1 DEF IInv, WorkersWrite, WorkersFound, changelog
        <2>4. LeafHasProof' /\ BackfillRowHasPath' /\ MissingStartIsForced'
            BY <2>1 DEF IInv, LeafHasProof, BackfillRowHasPath, MissingStartIsForced,
               changelog, rows
        <2> QED BY Zenon, <2>1, <2>2, <2>3, <2>4, RowsUnchanged DEF IInv
    <1>2. CASE Next
        BY Zenon, <1>2, ReceiveKeeps, UpsertNodeKeeps, InsertAuditKeeps, FindTreeKeeps,
           InsertBackfillKeeps, CommitKeeps, FailKeeps DEF Next, Step
    <1> QED BY Zenon, <1>1, <1>2

\* All that follows rests on this invariant of every interleaving of the
\* workers, with any redelivery, reordering and failure.
THEOREM Invariance == Spec => []IInv
    BY InitIInv, NextIInv, PTL DEF Spec

\* The tables keep their types, and a worker never indexes past the root of
\* the tree (insert_change_log).
THEOREM TypeCorrect == Spec => []TypeOK
    BY Invariance, PTL DEF IInv

\* Every group of columns of a compressed asset holds what the newest handled
\* instruction that carries it said (the seq guards of bubblegum/db.rs).
THEOREM NewestInstructionWins == Spec => []NewestWins
    BY Invariance, PTL DEF IInv

\* Late Bubblegum instructions leave a decompressed asset alone (the seq = 0
\* guards of bubblegum/db.rs).
THEOREM DecompressedStays == Spec => []DecompressionIsFinal
    BY Invariance, PTL DEF IInv

\* The tree proves at least the leaf that an asset shows (the change log is
\* written before the asset).
THEOREM TreeLeadsAsset == Spec => []LeafHasProof
    BY Invariance, PTL DEF IInv

\* A row in backfill_items stands for a fully written path, and a tree first
\* seen in the middle is marked for a check (insert_change_log).
THEOREM BackfillRowsAreSound == Spec => []BackfillIsAccountedFor
    BY Invariance, PTL DEF IInv, BackfillIsAccountedFor

-----------------------------------------------------------------------------
(* The creators *)

CellOf(i) == [by |-> i, seq |-> SeqOf[i]]

\* The positions that upsert_asset_creators writes for a writer.
Lists(i, p) == p < CreatorCount[i] \/ p = 0

\* What a list of creators looks like after the writers W: the newest has all its positions,
\* the others hold an older writer or nothing.
CreatorsOf(cells, W) ==
    IF W = {} THEN \A p \in Positions : cells[p] = Unset
    ELSE \E by \in W :
        /\ \A i \in W : SeqOf[i] <= SeqOf[by]
        /\ \A p \in Positions : Lists(by, p) => cells[p] = CellOf(by)
        /\ \A p \in Positions : ~Lists(by, p) =>
              cells[p] = Unset \/ \E i \in W : i # by /\ cells[p] = CellOf(i)

\* ... and on a decompressed asset, where late instructions only reach positions that the
\* account does not list.
CreatorsOfSaved(cells) ==
    \A p \in Positions :
        IF Lists(Saved, p) THEN cells[p] = SavedCell
        ELSE cells[p] = Unset \/ \E i \in Ix : SlotOf[i] <= SlotOf[Saved] /\ cells[p] = CellOf(i)

CreatorsSound ==
    \A l \in Leaf : IF l \in Decompressed THEN CreatorsOfSaved(asset_creators[l])
                    ELSE CreatorsOf(asset_creators[l], Writers(l, "creators"))

\* The positions an account or an instruction lists are positions of the table.
LEMMA CreatorFacts ==
    /\ 0 \in Positions /\ Positions \subseteq Nat
    /\ \A i \in Ix \cup {Saved} : CreatorCount[i] \in Nat /\ 0..(CreatorCount[i] - 1) \subseteq Positions
    BY RowAssumption DEF Positions

\* One position after one more instruction.
LEMMA CreatorStep ==
    ASSUME NEW i \in Ix, NEW cells, NEW p \in Positions
    PROVE  LET new == upsert_asset_creators(cells, i, SeqOf[i])[p] IN
           /\ ~Lists(i, p) => new = cells[p]
           /\ Lists(i, p) /\ cells[p] = Unset => new = CellOf(i)
           /\ Lists(i, p) /\ cells[p] = SavedCell => new = SavedCell
           /\ \A j \in Ix : Lists(i, p) /\ cells[p] = CellOf(j) =>
                 new = IF SeqOf[i] >= SeqOf[j] THEN CellOf(i) ELSE CellOf(j)
    <1> DEFINE new == upsert_asset_creators(cells, i, SeqOf[i])[p]
    <1>1. new = IF Lists(i, p) THEN UpsertBySeq(cells[p], i, SeqOf[i]) ELSE cells[p]
        BY Zenon DEF upsert_asset_creators, Lists
    <1>2. UpsertBySeq(Unset, i, SeqOf[i]) = CellOf(i)
        BY Zenon DEF UpsertBySeq, NotOlderNorDecompressed, Unset, CellOf
    <1>3. UpsertBySeq(SavedCell, i, SeqOf[i]) = SavedCell
        BY RowAssumption DEF UpsertBySeq, NotOlderNorDecompressed, SavedCell
    <1>4. \A j \in Ix : UpsertBySeq(CellOf(j), i, SeqOf[i]) =
              IF SeqOf[i] >= SeqOf[j] THEN CellOf(i) ELSE CellOf(j)
        BY SeqFacts DEF UpsertBySeq, NotOlderNorDecompressed, CellOf
    <1> HIDE DEF new
    <1>5. new = IF Lists(i, p) THEN UpsertBySeq(cells[p], i, SeqOf[i]) ELSE cells[p]
        BY Zenon, <1>1
    <1> QED  BY Zenon, <1>2, <1>3, <1>4, <1>5 DEF new

\* The same at every position.
Stepped(i, cells, new) ==
    \A p \in Positions :
        /\ ~Lists(i, p) => new[p] = cells[p]
        /\ Lists(i, p) /\ cells[p] = Unset => new[p] = CellOf(i)
        /\ Lists(i, p) /\ cells[p] = SavedCell => new[p] = SavedCell
        /\ \A j \in Ix : Lists(i, p) /\ cells[p] = CellOf(j) =>
              new[p] = IF SeqOf[i] >= SeqOf[j] THEN CellOf(i) ELSE CellOf(j)

\* What CreatorStep says of one position, for all of them.
LEMMA CreatorStepAll ==
    ASSUME NEW i \in Ix, NEW cells
    PROVE  Stepped(i, cells, upsert_asset_creators(cells, i, SeqOf[i]))
    BY CreatorStep DEF Stepped

\* A list of creators after one more instruction that carries creators.
LEMMA CreatorsStep ==
    ASSUME NEW W \in SUBSET Ix, NEW i \in Ix, NEW cells, CreatorsOf(cells, W)
    PROVE  CreatorsOf(upsert_asset_creators(cells, i, SeqOf[i]), W \cup {i})
    <1> DEFINE new == upsert_asset_creators(cells, i, SeqOf[i])
    <1>1. \A p \in Positions :
           /\ ~Lists(i, p) => new[p] = cells[p]
           /\ Lists(i, p) /\ cells[p] = Unset => new[p] = CellOf(i)
           /\ \A j \in Ix : Lists(i, p) /\ cells[p] = CellOf(j) =>
                 new[p] = IF SeqOf[i] >= SeqOf[j] THEN CellOf(i) ELSE CellOf(j)
        BY CreatorStep
    <1> HIDE DEF new
    <1>2. \A j, k \in Ix : SeqOf[j] \in Nat /\ (SeqOf[j] = SeqOf[k] => j = k)
        BY Zenon, TreeAssumption
    <1>3. CASE W = {}
        <2>1. \A p \in Positions : cells[p] = Unset
            BY Zenon, <1>3 DEF CreatorsOf
        <2>2. /\ \A p \in Positions : Lists(i, p) => new[p] = CellOf(i)
              /\ \A p \in Positions : ~Lists(i, p) => new[p] = Unset
            BY Zenon, <1>1, <2>1
        <2>3. W \cup {i} = {i} /\ SeqOf[i] <= SeqOf[i]
            BY <1>2, <1>3
        <2> QED  BY Zenon, <2>2, <2>3 DEF CreatorsOf, new
    <1>4. CASE W # {}
        <2>1. PICK by \in W :
                /\ \A j \in W : SeqOf[j] <= SeqOf[by]
                /\ \A p \in Positions : Lists(by, p) => cells[p] = CellOf(by)
                /\ \A p \in Positions : ~Lists(by, p) =>
                      cells[p] = Unset \/ \E j \in W : j # by /\ cells[p] = CellOf(j)
            BY Zenon, <1>4 DEF CreatorsOf
        <2>2. \A p \in Positions : cells[p] = Unset \/ \E j \in W : cells[p] = CellOf(j)
            BY Zenon, <2>1
        <2>3. CASE SeqOf[i] >= SeqOf[by]
            <3>1. \A j \in W \cup {i} : SeqOf[j] <= SeqOf[i]
                BY <1>2, <2>1, <2>3
            <3>2. \A p \in Positions : Lists(i, p) => new[p] = CellOf(i)
                BY Zenon, <1>1, <2>2, <3>1
            <3>3. ASSUME NEW p \in Positions, ~Lists(i, p)
                  PROVE  new[p] = Unset \/ \E j \in W \cup {i} : j # i /\ new[p] = CellOf(j)
                <4>1. new[p] = cells[p]
                    BY Zenon, <1>1, <3>3
                <4>2. CASE i = by
                    BY Zenon, <2>1, <3>3, <4>1, <4>2
                <4>3. CASE i # by
                    <5>1. i \notin W
                        BY <1>2, <2>1, <2>3, <4>3
                    <5> QED  BY Zenon, <2>2, <4>1, <5>1
                <4> QED  BY Zenon, <4>2, <4>3
            <3> QED  BY Zenon, <1>4, <3>1, <3>2, <3>3 DEF CreatorsOf, new
        <2>4. CASE ~(SeqOf[i] >= SeqOf[by])
            <3>1. i # by /\ \A j \in W \cup {i} : SeqOf[j] <= SeqOf[by]
                BY <1>2, <2>1, <2>4
            <3>2. ASSUME NEW p \in Positions, Lists(by, p) PROVE new[p] = CellOf(by)
                BY Zenon, <1>1, <2>1, <2>4, <3>2
            <3>3. ASSUME NEW p \in Positions, ~Lists(by, p)
                  PROVE  new[p] = Unset \/ \E j \in W \cup {i} : j # by /\ new[p] = CellOf(j)
                BY ZenonT(40), <1>1, <2>1, <3>1, <3>3
            <3> QED  BY Zenon, <1>4, <3>1, <3>2, <3>3 DEF CreatorsOf, new
        <2> QED  BY Zenon, <2>3, <2>4
    <1> QED  BY Zenon, <1>3, <1>4 DEF new

\* What filter_out_stale_creators keeps when one writer has all its positions and the others
\* hold writers that are older, or come after decompression (s = 0).
LEMMA FilterKeeps ==
    ASSUME NEW cells, NEW by \in Ix \cup {Saved}, NEW s \in Nat,
           \A p \in Positions : Lists(by, p) => cells[p] = [by |-> by, seq |-> s],
           \A p \in Positions : ~Lists(by, p) /\ cells[p] # Unset =>
               /\ cells[p].by \in Ix /\ SlotOf[cells[p].by] <= SlotOf[by]
               /\ cells[p].seq \in Nat /\ cells[p].seq # 0 /\ (s # 0 => cells[p].seq < s)
    PROVE  /\ filter_out_stale_creators(cells) = 0..(CreatorCount[by] - 1)
           /\ \A p \in filter_out_stale_creators(cells) : cells[p].by = by
    <1> DEFINE full == {p \in Positions : cells[p] # Unset}
               slot(p) == SlotOf[cells[p].by]
               fresh == {p \in full : \A q \in full : slot(q) <= slot(p)}
               seqs == {cells[p].seq : p \in fresh}
               seq == IF 0 \in seqs THEN 0 ELSE Max(seqs)
    <1>1. /\ 0 \in Positions /\ Positions \subseteq Nat /\ CreatorCount[by] \in Nat
          /\ 0..(CreatorCount[by] - 1) \subseteq Positions /\ Lists(by, 0)
          /\ SlotOf[by] \in Nat /\ by # Null /\ \A i \in Ix : SlotOf[i] \in Nat
        BY Zenon, CreatorFacts, RowAssumption DEF Lists
    <1>2. \A p \in Positions : Lists(by, p) => cells[p].by = by /\ cells[p].seq = s /\ p \in full
        BY <1>1 DEF Unset
    <1>3. \A p \in full : cells[p].by \in Ix \cup {Saved} /\ slot(p) \in Nat /\ slot(p) <= SlotOf[by]
        BY <1>1, <1>2, RowAssumption
    <1>4. \A p \in Positions : Lists(by, p) => p \in fresh
        BY Zenon, <1>2, <1>3
    <1>5. Min(full) = 0
        <2>1. 0 \in full /\ \A q \in full : 0 <= q
            BY <1>1, <1>2
        <2>2. \A x \in full : (\A q \in full : x <= q) => x = 0
            BY <1>1, <2>1
        <2> HIDE DEF full
        <2> QED  BY Zenon, <2>1, <2>2 DEF Min
    <1>6. s \in seqs
        BY Zenon, <1>1, <1>2, <1>4
    <1>7. \A x \in seqs : x = s \/ (x \in Nat /\ x # 0 /\ (s # 0 => x < s))
        BY Zenon, <1>2
    <1>8. seq = s
        <2> HIDE DEF seqs
        <2>1. CASE s = 0
            BY Zenon, <1>6, <2>1
        <2>2. CASE s # 0
            <3>1. 0 \notin seqs /\ \A x \in seqs : s >= x
                BY <1>7, <2>2
            <3>2. \A x \in seqs : (\A y \in seqs : x >= y) => x = s
                BY <1>6, <1>7, <2>2
            <3> QED  BY Zenon, <1>6, <3>1, <3>2 DEF Max
        <2> QED  BY Zenon, <2>1, <2>2
    <1>9. filter_out_stale_creators(cells) =
              IF full = {} \/ CreatorCount[cells[Min(full)].by] = 0 THEN {}
              ELSE {p \in fresh : cells[p].seq = seq}
        BY Zenon DEF filter_out_stale_creators
    <1>10. cells[0].by = by /\ full # {}
        BY Zenon, <1>1, <1>2
    <1>11. \A p \in fresh : cells[p].seq = s <=> Lists(by, p)
        BY <1>2
    <1>12. CreatorCount[by] # 0 => {p \in fresh : cells[p].seq = s} = 0..(CreatorCount[by] - 1)
        <2>1. \A p \in fresh : p \in Positions
            OBVIOUS
        <2> HIDE DEF fresh
        <2>2. CreatorCount[by] # 0 => \A p \in Positions : Lists(by, p) <=> p \in 0..(CreatorCount[by] - 1)
            BY <1>1 DEF Lists
        <2> QED  BY Zenon, <1>1, <1>4, <1>11, <2>1, <2>2
    <1> HIDE DEF full, fresh, seq
    <1>13. filter_out_stale_creators(cells) = 0..(CreatorCount[by] - 1)
        <2>1. CASE CreatorCount[by] = 0
            <3>1. 0..(CreatorCount[by] - 1) = {}
                BY <2>1
            <3> QED  BY Zenon, <1>5, <1>9, <1>10, <2>1, <3>1
        <2>2. CASE CreatorCount[by] # 0
            BY Zenon, <1>5, <1>8, <1>9, <1>10, <1>12, <2>2
        <2> QED  BY Zenon, <2>1, <2>2
    <1> QED  BY <1>1, <1>2, <1>13 DEF Lists

\* What the creators' rows hold makes the filter return the newest list.
LEMMA CreatorsRead == TypeOK /\ CreatorsSound => CreatorsAreNewest
    <1> SUFFICES ASSUME TypeOK, CreatorsSound, NEW l \in Leaf
                 PROVE  LET kept == filter_out_stale_creators(asset_creators[l])
                            listed(by) == /\ kept = 0..(CreatorCount[by] - 1)
                                          /\ \A p \in kept : asset_creators[l][p].by = by
                        IN  IF l \in Decompressed THEN listed(Saved)
                            ELSE IF Writers(l, "creators") = {} THEN kept = {}
                            ELSE \E by \in Writers(l, "creators") :
                                    /\ \A i \in Writers(l, "creators") : SeqOf[i] <= SeqOf[by]
                                    /\ listed(by)
        BY Zenon DEF CreatorsAreNewest
    <1> DEFINE cells == asset_creators[l]
               W == Writers(l, "creators")
    <1>1. W \subseteq Ix /\ \A i \in Ix : SlotOf[i] \in Nat /\ SeqOf[i] \in Nat /\ SeqOf[i] # 0
        BY SeqFacts DEF Writers, TypeOK
    <1>2. \A i \in Ix : CellOf(i).by = i /\ CellOf(i).seq = SeqOf[i]
        BY Zenon DEF CellOf
    <1>3. CASE l \in Decompressed
        <2>1. \A p \in Positions : Lists(Saved, p) => cells[p] = [by |-> Saved, seq |-> 0]
            BY Zenon, <1>3 DEF CreatorsSound, CreatorsOfSaved, SavedCell
        <2>2. \A p \in Positions : ~Lists(Saved, p) /\ cells[p] # Unset =>
                /\ cells[p].by \in Ix /\ SlotOf[cells[p].by] <= SlotOf[Saved]
                /\ cells[p].seq \in Nat /\ cells[p].seq # 0
            BY <1>1, <1>2, <1>3 DEF CreatorsSound, CreatorsOfSaved
        <2> HIDE DEF cells
        <2>3. /\ filter_out_stale_creators(cells) = 0..(CreatorCount[Saved] - 1)
              /\ \A p \in filter_out_stale_creators(cells) : cells[p].by = Saved
            BY Zenon, <2>1, <2>2, FilterKeeps
        <2> QED  BY Zenon, <1>3, <2>3 DEF cells
    <1>4. CASE l \notin Decompressed /\ W = {}
        <2>1. \A p \in Positions : cells[p] = Unset
            BY Zenon, <1>4 DEF CreatorsSound, CreatorsOf
        <2>2. {p \in Positions : cells[p] # Unset} = {}
            BY Zenon, <2>1
        <2> HIDE DEF cells
        <2>3. filter_out_stale_creators(cells) = {}
            BY Zenon, <2>2 DEF filter_out_stale_creators
        <2> QED  BY Zenon, <1>4, <2>3 DEF cells
    <1>5. CASE l \notin Decompressed /\ W # {}
        <2>1. PICK by \in W :
                /\ \A i \in W : SeqOf[i] <= SeqOf[by]
                /\ \A p \in Positions : Lists(by, p) => cells[p] = CellOf(by)
                /\ \A p \in Positions : ~Lists(by, p) =>
                      cells[p] = Unset \/ \E i \in W : i # by /\ cells[p] = CellOf(i)
            BY Zenon, <1>5 DEF CreatorsSound, CreatorsOf
        <2>2. \A i \in W : i # by => SeqOf[i] < SeqOf[by] /\ SlotOf[i] <= SlotOf[by]
            BY <1>1, <2>1, TreeAssumption
        <2>3. \A p \in Positions : Lists(by, p) => cells[p] = [by |-> by, seq |-> SeqOf[by]]
            BY Zenon, <2>1 DEF CellOf
        <2>4. \A p \in Positions : ~Lists(by, p) /\ cells[p] # Unset =>
                /\ cells[p].by \in Ix /\ SlotOf[cells[p].by] <= SlotOf[by]
                /\ cells[p].seq \in Nat /\ cells[p].seq # 0 /\ cells[p].seq < SeqOf[by]
            BY <1>1, <1>2, <2>1, <2>2
        <2> HIDE DEF cells
        <2>5. /\ filter_out_stale_creators(cells) = 0..(CreatorCount[by] - 1)
              /\ \A p \in filter_out_stale_creators(cells) : cells[p].by = by
            BY Zenon, <1>1, <2>3, <2>4, FilterKeeps
        <2> QED  BY Zenon, <1>5, <2>1, <2>5 DEF cells
    <1> QED  BY Zenon, <1>3, <1>4, <1>5

\* Only the transaction of a handler writes creators.
LEMMA NextCreators == IInv /\ CreatorsSound /\ [Next]_vars => CreatorsSound'
    <1> SUFFICES ASSUME IInv, CreatorsSound, [Next]_vars PROVE CreatorsSound'
        OBVIOUS
    <1>1. CASE UNCHANGED <<asset_creators, committed>>
        BY Zenon, <1>1 DEF CreatorsSound, Writers
    <1>2. ASSUME NEW w \in Workers, Commit(w) PROVE CreatorsSound'
        <2>1. PICK i \in Ix : i = worker[w].ix
            <3>1. worker[w] # Idle
                BY <1>2 DEF Commit, Idle
            <3> QED  BY Zenon, <3>1, BusyWorker DEF IInv
        <2>2. Handle(i) /\ committed' = committed \cup {i}
            BY Zenon, <1>2, <2>1 DEF Commit
        <2>3. /\ asset_creators \in [Leaf -> [Positions -> Cell(Ix \cup {Saved}, Nat)]]
              /\ LeafOf[i] \in Leaf /\ committed \subseteq Ix
            BY Zenon, SeqFacts DEF IInv, TypeOK
        <2> DEFINE here == LeafOf[i]
                   new == upsert_asset_creators(asset_creators[here], i, SeqOf[i])
        <2>4. \/ "creators" \in Carries[KindOf[i]] /\ asset_creators' = Put(asset_creators, here, new)
              \/ "creators" \notin Carries[KindOf[i]] /\ asset_creators' = asset_creators
            <3> HIDE DEF new
            <3>1. CASE mint(i)
                BY <3>1 DEF mint, Carries, new
            <3>2. CASE transfer(i) \/ delegate(i) \/ cancel_redeem(i)
                BY <3>2 DEF transfer, delegate, cancel_redeem, Carries
            <3>3. CASE redeem(i) \/ burn(i) \/ collection_verification(i)
                BY <3>3 DEF redeem, burn, collection_verification, Carries
            <3>4. CASE update_metadata(i)
                BY <3>4 DEF update_metadata, Carries, new
            <3>5. CASE creator_verification(i)
                BY <3>5 DEF creator_verification, Carries, new
            <3> QED  BY Zenon, <2>2, <3>1, <3>2, <3>3, <3>4, <3>5 DEF Handle
        <2> SUFFICES ASSUME NEW l \in Leaf
                     PROVE  IF l \in Decompressed THEN CreatorsOfSaved(asset_creators'[l])
                            ELSE CreatorsOf(asset_creators'[l], Writers(l, "creators")')
            BY Zenon DEF CreatorsSound
        <2>5. CASE l # here \/ (asset_creators' = asset_creators /\ "creators" \notin Carries[KindOf[i]])
            <3>1. asset_creators'[l] = asset_creators[l]
                BY Zenon, <2>3, <2>4, <2>5 DEF Put
            <3>2. Writers(l, "creators")' = Writers(l, "creators")
                BY Zenon, <2>2, <2>5 DEF Writers
            <3> QED  BY Zenon, <3>1, <3>2 DEF CreatorsSound
        <2>6. CASE l = here /\ "creators" \in Carries[KindOf[i]]
            <3>1. asset_creators'[l] = new
                BY Zenon, <2>3, <2>4, <2>6 DEF Put
            <3>2. CASE l \in Decompressed
                <4>1. SlotOf[i] <= SlotOf[Saved]
                    BY Zenon, <2>6, <3>2, DecompressionAssumption
                <4>2. Stepped(i, asset_creators[l], new)
                    BY Zenon, <2>6, CreatorStepAll
                <4>3. CreatorsOfSaved(asset_creators[l])
                    BY Zenon, <3>2 DEF CreatorsSound
                <4> HIDE DEF new
                <4>4. \A p \in Positions :
                        IF Lists(Saved, p) THEN new[p] = SavedCell
                        ELSE new[p] = Unset
                             \/ \E j \in Ix : SlotOf[j] <= SlotOf[Saved] /\ new[p] = CellOf(j)
                    BY Zenon, <4>1, <4>2, <4>3 DEF CreatorsOfSaved, Stepped
                <4> QED  BY Zenon, <3>1, <3>2, <4>4 DEF CreatorsOfSaved
            <3>3. CASE l \notin Decompressed
                <4>1. Writers(l, "creators")' = Writers(l, "creators") \cup {i}
                    BY Zenon, <2>2, <2>6 DEF Writers
                <4>2. Writers(l, "creators") \in SUBSET Ix
                    BY Zenon, <2>3 DEF Writers
                <4>3. CreatorsOf(asset_creators[l], Writers(l, "creators"))
                    BY Zenon, <3>3 DEF CreatorsSound
                <4>4. CreatorsOf(new, Writers(l, "creators") \cup {i})
                    BY Zenon, <2>6, <4>2, <4>3, CreatorsStep
                <4> QED  BY Zenon, <3>1, <3>3, <4>1, <4>4
            <3> QED  BY Zenon, <3>2, <3>3
        <2> HIDE DEF new
        <2> QED  BY Zenon, <2>4, <2>5, <2>6
    <1>3. CASE UNCHANGED vars
        BY Zenon, <1>1, <1>3 DEF vars, rows
    <1>4. ASSUME NEW w \in Workers,
                 (\E i \in Ix : Receive(w, i)) \/ UpsertNode(w) \/ InsertAudit(w) \/ FindTree(w)
                     \/ InsertBackfill(w) \/ Fail(w)
          PROVE  CreatorsSound'
        BY Zenon, <1>1, <1>4 DEF Receive, UpsertNode, UpsertPath, InsertAudit, FindTree, InsertBackfill,
            Fail, rows
    <1> QED  BY Zenon, <1>2, <1>3, <1>4 DEF Next, Step

\* Before the first instruction only the decompressed assets have creators, those of their
\* account.
LEMMA InitCreators == Init => CreatorsSound
    <1> SUFFICES ASSUME Init, NEW l \in Leaf
                 PROVE  IF l \in Decompressed THEN CreatorsOfSaved(asset_creators[l])
                        ELSE CreatorsOf(asset_creators[l], Writers(l, "creators"))
        BY Zenon DEF CreatorsSound
    <1>1. asset_creators[l] = IF l \in Decompressed THEN SavedCreators ELSE NoCreators
        BY Zenon DEF Init
    <1>2. Writers(l, "creators") = {}
        BY Zenon DEF Init, Writers
    <1>3. CreatorCount[Saved] > 0 /\ CreatorCount[Saved] \in Nat
        BY Zenon, DecompressionAssumption, CreatorFacts
    <1>4. CreatorsOfSaved(SavedCreators)
        BY Zenon, <1>3 DEF CreatorsOfSaved, SavedCreators, Lists
    <1> QED  BY Zenon, <1>1, <1>2, <1>4 DEF NoCreators, CreatorsOf

\* However lists of creators of different lengths come, get_by_id returns exactly the one of
\* the newest instruction that carries creators (upsert_asset_creators,
\* filter_out_stale_creators).
THEOREM CreatorsStayNewest == Spec => []CreatorsAreNewest
    <1>1. IInv /\ CreatorsSound => CreatorsAreNewest
        BY Zenon, CreatorsRead DEF IInv
    <1>2. Spec => []CreatorsSound
        BY Invariance, InitCreators, NextCreators, PTL DEF Spec
    <1> QED  BY <1>1, <1>2, Invariance, PTL
=============================================================================
