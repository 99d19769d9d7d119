------------------------- MODULE MCMetadataDownload -------------------------
(* Instances of MetadataDownload for TLC. *)
EXTENDS MetadataDownload, TLC

CONSTANTS w1, w2

\* Workers have no identity.
MCSymmetry == Permutations(Workers)

Pinned == [scheme |-> "http", host |-> "pinata", cid |-> TRUE]
Broken == [scheme |-> "none", host |-> "", cid |-> FALSE]
Blanked == [scheme |-> "", host |-> "", cid |-> FALSE]

MCUrls == {Pinned, Broken, Blanked}
=============================================================================
