---------------------------- MODULE MCCoreAssets ----------------------------
(* An instance of CoreAssets for TLC. *)
EXTENDS CoreAssets

CONSTANTS w1, w2, i1, i2, i3, A, B, C, g1, g2, u1, u2

Address(a) == [type |-> "address", at |-> a]

In(coll) == [type |-> "collection", at |-> coll]

Account(kind, key, by, grps, crs, uri, s) ==
    [kind |-> kind, key |-> key, slot |-> s, by |-> by, owner |-> A, groups |-> grps,
     creators |-> crs, uri |-> uri]

Owned(u, o) == [u EXCEPT !.owner = o]

Registry(token, s) == [kind |-> "registry", key |-> i1, slot |-> s, token |-> token]

Closed(s) == [kind |-> "empty", key |-> i1, slot |-> s]

\* An asset enters groups, leaves them and returns, changes hands and is closed.
MCGrouped ==
    {Account("asset", i1, In(i3), {g1}, <<A, B>>, u1, 1),
     Owned(Account("asset", i1, Address(B), {g1, g2}, <<B>>, u2, 2), B),
     Account("asset", i1, [type |-> "none", at |-> None], {}, <<>>, Empty, 3),
     Account("asset", i1, In(i3), {g2}, <<>>, u1, 4),
     Account("group", i3, Address(A), {g1}, <<>>, u1, 2), Closed(5)}

\* A collection changes its authority after an asset joined it, and again after a second
\* one did and the first one left.
MCAuthorities ==
    {Account("collection", i3, Address(A), {}, <<>>, u1, 1),
     Account("asset", i1, In(i3), {}, <<>>, u1, 2),
     Account("collection", i3, Address(B), {}, <<>>, u1, 3),
     Account("asset", i2, In(i3), {}, <<>>, u1, 4), Account("asset", i1, Address(A), {}, <<>>, u1, 4),
     Account("collection", i3, Address(C), {}, <<>>, u1, 5)}

\* What one slot may bring for an asset and the collection it is in or joins.
MCTurn(s) ==
    {Account("collection", i3, Address(A), {}, <<>>, u1, s),
     Account("collection", i3, Address(B), {}, <<>>, u1, s),
     Account("asset", i2, In(i3), {}, <<>>, u1, s), Account("asset", i2, Address(A), {}, <<>>, u1, s)}

\* Five slots of this.
MCMembers ==
    {{a, b, c, d, e} : a \in MCTurn(1), b \in MCTurn(2), c \in MCTurn(3), d \in MCTurn(4),
                       e \in MCTurn(5)}

\* The registry changes the token of an asset.
MCRegistry ==
    {Account("asset", i1, Address(A), {}, <<>>, u1, 1), Registry(A, 2), Registry(B, 3),
     Registry(None, 4)}

MCHistories ==
    {[updates |-> MCGrouped, order |-> "any"], [updates |-> MCAuthorities, order |-> "handled"],
     [updates |-> MCRegistry, order |-> "handled"]}
    \cup {[updates |-> h, order |-> "handled"] : h \in MCMembers}

ASSUME CoreChain == ChainAssumption
=============================================================================
