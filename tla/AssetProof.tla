------------------------------ MODULE AssetProof ------------------------------
(***************************************************************************)
(* getAssetProof and getAssetProofs (digital_asset_types/src/dapi/         *)
(* change_logs.rs, das_api/src/api/api_impl.rs) while insert_change_log    *)
(* writes the tree they read.  A proof takes two statements, outside any   *)
(* transaction: the leaf, then its siblings and the root.  A writer takes  *)
(* one statement per node of a path and may fail after any of them.        *)
(*                                                                         *)
(* chain is the tree's history: change s sets one leaf.  A row of cl_items *)
(* is represented by the seq it carries; its hash is that node's hash in   *)
(* the tree after that change, which is what the change's event holds.     *)
(* Hashes are terms: a model value for a leaf, a pair for an inner node.   *)
(***************************************************************************)
EXTENDS Integers, Sequences, SequencesExt, FiniteSets

CONSTANTS
    Depth,          \* height of the tree, not 0
    Touched,        \* the leaves (node indexes) the changes are about, some of Leaves
    Values,         \* leaf hashes
    Empty,          \* empty_node(0)
    MaxSeq,         \* changes of the tree
    Writers,        \* concurrent calls of insert_change_log
    None

VARIABLES
    chain,          \* [1..MaxSeq -> [leaf, value]]
    cl_items,       \* [Node -> seq of the row, 0 for no row]
    assets,         \* leaves whose asset row exists
    writer,         \* [Writers -> None or [seq, level]]
    begun, indexed, \* changes of which a node, the whole path is written
    request,        \* None or the leaves asked for and what query 1 read
    answer          \* None or [proofs, version]

vars == <<chain, cl_items, assets, writer, begun, indexed, request, answer>>

Node == 1 .. 2^(Depth + 1) - 1
Leaves == 2^Depth .. 2^(Depth + 1) - 1
Seqs == 1 .. MaxSeq

----------------------------------------------------------------------------
(* The tree on chain. *)

\* Leaf l after the first s changes.
LeafAfter(s, l) ==
    LET about == {t \in 1 .. s : chain[t].leaf = l}
    IN  IF about = {} THEN Empty ELSE chain[CHOOSE t \in about : \A u \in about : u =< t].value

\* The hash of every node after the first s changes.
HashAfter(s) ==
    LET hash[n \in Node] == IF n \in Leaves THEN LeafAfter(s, n)
                            ELSE <<hash[2 * n], hash[2 * n + 1]>>
    IN  hash

\* The node at a level of the path of a leaf; the level insert_change_log
\* stores with a node is its place in the path.
PathNode(l, level) == l \div 2^level

LevelOf(n) == CHOOSE level \in 0 .. Depth : n \in 2^(Depth - level) .. 2^(Depth - level + 1) - 1

----------------------------------------------------------------------------
(* insert_change_log. *)

Start(w) ==
    /\ writer[w] = None
    /\ \E s \in Seqs : writer' = [writer EXCEPT ![w] = [seq |-> s, level |-> 0]]
    /\ UNCHANGED <<chain, cl_items, assets, begun, indexed, request, answer>>

\* Mutant: every write wins, whatever seq the row has.
UpsertNodeLastWins(w) ==
    /\ writer[w] # None /\ writer[w].level =< Depth
    /\ LET s == writer[w].seq
           n == PathNode(chain[s].leaf, writer[w].level)
       IN  /\ cl_items' = [cl_items EXCEPT ![n] = s]
           /\ begun' = begun \cup {s}
    /\ writer' = [writer EXCEPT ![w].level = @ + 1]
    /\ UNCHANGED <<chain, assets, indexed, request, answer>>

\* One node of the path: "WHERE excluded.seq > cl_items.seq".
UpsertNode(w) ==
    /\ writer[w] # None /\ writer[w].level =< Depth
    /\ LET s == writer[w].seq
           n == PathNode(chain[s].leaf, writer[w].level)
       IN  /\ cl_items' = [cl_items EXCEPT ![n] = IF s > @ THEN s ELSE @]
           /\ begun' = begun \cup {s}
    /\ writer' = [writer EXCEPT ![w].level = @ + 1]
    /\ UNCHANGED <<chain, assets, indexed, request, answer>>

\* The path is written; the handler goes on to upsert the asset row.
Finish(w) ==
    /\ writer[w] # None /\ writer[w].level > Depth
    /\ indexed' = indexed \cup {writer[w].seq}
    /\ assets' = assets \cup {chain[writer[w].seq].leaf}
    /\ writer' = [writer EXCEPT ![w] = None]
    /\ UNCHANGED <<chain, cl_items, begun, request, answer>>

\* A statement fails, or the process dies: the nodes written so far stay.
WriterFails(w) ==
    /\ writer[w] # None
    /\ writer' = [writer EXCEPT ![w] = None]
    /\ UNCHANGED <<chain, cl_items, assets, begun, indexed, request, answer>>

----------------------------------------------------------------------------
(* Building a proof. *)

get_required_nodes_for_proof[index \in Node] ==
    IF index > 1
      THEN <<IF index % 2 = 0 THEN index + 1 ELSE index - 1>>
           \o get_required_nodes_for_proof[index \div 2]
      ELSE <<1>>

empty_node[level \in 0 .. Depth] ==
    IF level = 0 THEN Empty ELSE <<empty_node[level - 1], empty_node[level - 1]>>

\* make_empty_node
make_empty_node(level) == empty_node[level]

\* rows maps the nodes that query 2 found to their seq.
build_asset_proof(leaf, leaf_hash, rows) ==
    LET required == get_required_nodes_for_proof[leaf]
        hash(level) == LET found == {n \in ToSet(required) \cap DOMAIN rows :
                                        LevelOf(n) = level}
                       IN  IF found = {} THEN make_empty_node(level)
                           ELSE LET n == CHOOSE n \in found : TRUE IN HashAfter(rows[n])[n]
        final == [i \in 1 .. Len(required) |-> hash(i - 1)]
    IN  [leaf |-> leaf_hash, node_index |-> leaf,
         root |-> Last(final), proof |-> Front(final)]

----------------------------------------------------------------------------
(* The two queries. *)

\* The tree is indexed up to a change, and nothing of a later one is.
Version == IF begun = indexed /\ \E m \in 0 .. MaxSeq : indexed = 1 .. m
             THEN Cardinality(indexed) ELSE None

\* Query 1: the leaf rows (level 0) of the assets asked for.  When there is
\* none, getAssetProof fails and api_impl asks upstream.
ReadLeaves ==
    /\ request = None
    /\ \E ids \in SUBSET Touched \ {{}} :
          LET found == {l \in ids \cap assets : cl_items[l] > 0}
          IN  /\ found # {}
              /\ request' = [leaf |-> [l \in found |-> HashAfter(cl_items[l])[l]],
                             version |-> Version]
    /\ answer' = None
    /\ UNCHANGED <<chain, cl_items, assets, writer, begun, indexed>>

\* Query 2: the required nodes of every leaf found, and the proofs built.
ReadNodes ==
    /\ request # None
    /\ LET ids == DOMAIN request.leaf
           asked == UNION {ToSet(get_required_nodes_for_proof[l]) : l \in ids}
           rows == [n \in {n \in asked : cl_items[n] > 0} |-> cl_items[n]]
       IN  answer' = [proofs |-> {build_asset_proof(l, request.leaf[l], rows) : l \in ids},
                      version |-> IF Version = request.version THEN Version ELSE None]
    /\ request' = None
    /\ UNCHANGED <<chain, cl_items, assets, writer, begun, indexed>>

----------------------------------------------------------------------------

Init ==
    /\ chain \in [Seqs -> [leaf : Touched, value : Values]]
    /\ cl_items = [n \in Node |-> 0]
    /\ assets = {} /\ begun = {} /\ indexed = {}
    /\ writer = [w \in Writers |-> None]
    /\ request = None /\ answer = None

Next ==
    \/ \E w \in Writers : Start(w) \/ UpsertNode(w) \/ Finish(w) \/ WriterFails(w)
    \/ ReadLeaves
    \/ ReadNodes

Spec == Init /\ [][Next]_vars

----------------------------------------------------------------------------
(* Properties. *)

\* A row carries the seq of a change whose path holds its node; a writer is
\* inside the path; what is completely indexed has been begun.
TypeOK ==
    /\ \A n \in Node : cl_items[n] # 0 =>
          /\ cl_items[n] \in Seqs
          /\ PathNode(chain[cl_items[n]].leaf, LevelOf(n)) = n
    /\ \A w \in Writers : writer[w] # None =>
          writer[w].seq \in Seqs /\ writer[w].level \in 0 .. Depth + 1
    /\ indexed \subseteq begun /\ begun \subseteq Seqs
    /\ assets \subseteq Touched

\* What a verifier computes from a proof: the root above the leaf.
Recompute(p) ==
    LET up[i \in 0 .. Len(p.proof)] ==
          IF i = 0 THEN p.leaf
          ELSE IF (p.node_index \div 2^(i - 1)) % 2 = 0 THEN <<up[i - 1], p.proof[i]>>
                                                        ELSE <<p.proof[i], up[i - 1]>>
    IN  up[Len(p.proof)]

\* The proof of an asset is its proof in the tree on chain after the changes
\* indexed so far, in whatever order and however often their events were
\* handled, as long as the two queries of get_proof_for_asset and
\* get_asset_proofs see an index that ends at one change.  (Otherwise a proof
\* may be served that does not lead to its root: get_proof_for_asset only
\* fails when the leaf itself is missing.)
ProofOfIndexedTree ==
    answer # None /\ answer.version # None =>
        \A p \in answer.proofs :
            /\ p.leaf = LeafAfter(answer.version, p.node_index)
            /\ p.root = HashAfter(answer.version)[1]
            /\ Recompute(p) = p.root
=============================================================================
