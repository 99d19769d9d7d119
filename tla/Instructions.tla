---------------------------- MODULE Instructions ----------------------------
(***************************************************************************)
(* How a transaction becomes Bubblegum handler calls: order_instructions   *)
(* (blockbuster/src/instruction.rs) lists the calls of known programs with *)
(* the inner instructions that belong to each, BubblegumParser takes the   *)
(* events from those, and ProgramTransformer::handle_transaction hands     *)
(* each one to its handler and stops at the first error, after which the   *)
(* transaction is delivered again.                                         *)
(*                                                                         *)
(* The runtime's record of a transaction is, for every outer instruction,  *)
(* the flat list of what it invoked in order of invocation: the nesting is *)
(* lost, and the events of a call are found again by position.  Here the   *)
(* program runs first (Invoke, Emit, Return keep the stack) and what each  *)
(* call really did is compared with what the indexer makes of the list.    *)
(***************************************************************************)
EXTENDS Integers, FiniteSetsExt, SequencesExt

CONSTANTS
    None,
    Names,          \* instructions that occur; "Core", "CloseAccount", "Other" of other programs
    MaxCalls,       \* bound: calls in the transaction, log entries not counted
    MaxDepth,       \* bound: nesting of calls
    MaxFailures     \* bound: database errors

VARIABLES
    tx,             \* outer instructions: [name, id, inner]
    stack,          \* calls under way: [name, id, owed], owed the events to come
    calls,          \* number of calls so far
    pending,        \* instructions still to handle in this attempt
    applied,        \* what this attempt's handlers were given, in order
    failures,
    result          \* None while running, "ready", "handling", or what was returned

vars == <<tx, stack, calls, pending, applied, failures, result>>

----------------------------------------------------------------------------
(* The programs (external). *)

program(name) ==
    CASE name \in {"Core", "Other", "Noop"} -> name
      [] name = "CloseAccount" -> "Token"
      [] OTHER -> "Bubblegum"

\* key_set of ProgramTransformer::new
key_set == {"Bubblegum", "Core", "Token"}

Leafless == {"Burn", "BurnV2", "Redeem"}
Silent == {"DecompressV1", "SetDecompressibleState", "CollectV2"}

\* The events a Bubblegum call logs: the new leaf, then the tree's change.
Emits(name) ==
    IF name \in Silent \/ program(name) # "Bubblegum" THEN <<>>
    ELSE IF name \in Leafless THEN <<"tree">> ELSE <<"leaf", "tree">>

Top == stack[Len(stack)]

Record(entry) ==
    tx' = [tx EXCEPT ![Len(tx)].inner = Append(@, entry)]

Invoke(name) ==
    /\ result = None /\ calls < MaxCalls /\ Len(stack) < MaxDepth
    /\ program(name) = "Bubblegum" =>
           \A i \in 1..Len(stack) : program(stack[i].name) # "Bubblegum"
    /\ calls' = calls + 1
    /\ stack' = Append(stack, [name |-> name, id |-> calls', owed |-> Emits(name)])
    /\ IF stack = <<>>
         THEN tx' = Append(tx, [name |-> name, id |-> calls', inner |-> <<>>])
         ELSE Record([name |-> name, id |-> calls', event |-> None])
    /\ UNCHANGED <<pending, applied, failures, result>>

\* A call of the log program.  Assumed: what programs other than Bubblegum log is no
\* compression event, so that the parser, which takes the last tree event and the last
\* leaf event it finds, finds those of the call.
Emit ==
    /\ result = None /\ stack # <<>> /\ Top.owed # <<>>
    /\ Record([name |-> "Noop", id |-> Top.id, event |-> Head(Top.owed)])
    /\ stack' = [stack EXCEPT ![Len(stack)].owed = Tail(@)]
    /\ UNCHANGED <<calls, pending, applied, failures, result>>

Return ==
    /\ result = None /\ stack # <<>> /\ Top.owed = <<>>
    /\ stack' = Front(stack)
    /\ UNCHANGED <<tx, calls, pending, applied, failures, result>>

----------------------------------------------------------------------------
(* blockbuster *)

\* Mutant: everything that follows belongs to the call.
SliceToEnd(inner, index) == SubSeq(inner, index + 1, Len(inner))

\* skip(index + 1).take_while(inner_pid != pid)
Slice(inner, index) ==
    LET same == {j \in index + 1..Len(inner) :
                    program(inner[j].name) = program(inner[index].name)}
    IN  SubSeq(inner, index + 1, IF same = {} THEN Len(inner) ELSE Min(same) - 1)

hoist_known_programs(inner) ==
    LET known == SelectSeq([i \in 1..Len(inner) |-> i],
                           LAMBDA i : program(inner[i].name) \in key_set)
    IN  [k \in 1..Len(known) |->
            [name |-> inner[known[k]].name, id |-> inner[known[k]].id,
             inner |-> Slice(inner, known[k])]]

order_instructions(outers) ==
    FlattenSeq([i \in 1..Len(outers) |->
        hoist_known_programs(outers[i].inner)
        \o (IF program(outers[i].name) \in key_set THEN <<outers[i]>> ELSE <<>>)])

\* The last event of a kind among the inner instructions: the call that logged it.
update(inner, event) ==
    LET at == {i \in 1..Len(inner) : inner[i].name = "Noop" /\ inner[i].event = event}
    IN  IF at = {} THEN None ELSE inner[Max(at)].id

payload(name) ==
    CASE name \in {"MintV1", "MintToCollectionV1", "MintV2"} -> "Mint"
      [] name = "DecompressV1" -> "Decompress"
      [] name = "CancelRedeem" -> "CancelRedeem"
      [] name \in {"VerifyCreator", "UnverifyCreator", "VerifyCreatorV2",
                   "UnverifyCreatorV2"} -> "CreatorVerification"
      [] name \in {"VerifyCollection", "SetAndVerifyCollection", "UnverifyCollection",
                   "SetCollectionV2"} -> "CollectionVerification"
      [] name \in {"UpdateMetadata", "UpdateMetadataV2"} -> "UpdateMetadata"
      [] OTHER -> None

handle_instruction(ix) ==
    [id |-> ix.id, name |-> ix.name, payload |-> payload(ix.name),
     leaf |-> update(ix.inner, "leaf"), tree |-> update(ix.inner, "tree")]

----------------------------------------------------------------------------
(* program_transformers *)

\* handle_bubblegum_instruction: the handler of an instruction; the token
\* programs' CloseAccount is the only other one with a handler.
Handler(name) ==
    CASE name \in {"Transfer", "TransferV2"} -> "transfer"
      [] name \in {"Burn", "BurnV2"} -> "burn"
      [] name \in {"Delegate", "DelegateV2", "DelegateAndFreezeV2", "FreezeV2",
                   "SetNonTransferableV2", "ThawV2", "ThawAndRevokeV2"} -> "delegate"
      [] name \in {"MintV1", "MintToCollectionV1", "MintV2"} -> "mint"
      [] name = "Redeem" -> "redeem"
      [] name = "CancelRedeem" -> "cancel_redeem"
      [] name \in {"VerifyCreator", "UnverifyCreator", "VerifyCreatorV2",
                   "UnverifyCreatorV2"} -> "creator_verification"
      [] name \in {"VerifyCollection", "UnverifyCollection", "SetAndVerifyCollection",
                   "SetCollectionV2"} -> "collection_verification"
      [] name \in {"UpdateMetadata", "UpdateMetadataV2"} -> "update_metadata"
      [] name = "CloseAccount" -> "handle_token_program_close_ix"
      [] OTHER -> None

\* What the handler's "if let" asks for; otherwise it returns a ParsingError.
Parsed(p) ==
    LET handler == Handler(p.name)
    IN  /\ program(p.name) = "Bubblegum" => p.tree # None
        /\ handler \notin {"burn", "redeem", "handle_token_program_close_ix"} => p.leaf # None
        /\ handler = "mint" => p.payload = "Mint"
        /\ handler = "creator_verification" => p.payload = "CreatorVerification"
        /\ handler = "collection_verification" => p.payload = "CollectionVerification"
        /\ handler = "update_metadata" => p.payload = "UpdateMetadata"

\* The transaction is received, the first time or again: break_transaction.
Deliver ==
    /\ stack = <<>> /\ tx # <<>> /\ result \in {None, "error"}
    /\ pending' = order_instructions(tx)
    /\ applied' = <<>>
    /\ result' = "handling"
    /\ UNCHANGED <<tx, stack, calls, failures>>

\* One turn of handle_transaction's loop.
Handle ==
    /\ result = "handling" /\ pending # <<>>
    /\ LET p == handle_instruction(Head(pending))
       IN  IF Handler(p.name) # None /\ ~Parsed(p)
             THEN result' = "parsing_error" /\ UNCHANGED <<pending, applied>>
             ELSE /\ pending' = Tail(pending)
                  /\ applied' = IF Handler(p.name) = None THEN applied ELSE Append(applied, p)
                  /\ UNCHANGED result
    /\ UNCHANGED <<tx, stack, calls, failures>>

\* A Bubblegum write fails (those of a closed token account only log): the rest of the transaction waits for the next delivery.
HandleFails ==
    /\ result = "handling" /\ pending # <<>> /\ failures < MaxFailures
    /\ Handler(Head(pending).name) # None /\ program(Head(pending).name) = "Bubblegum"
    /\ failures' = failures + 1
    /\ result' = "error"
    /\ UNCHANGED <<tx, stack, calls, pending, applied>>

\* not_impl counts what the parsers of known programs do not use.
Finish ==
    /\ result = "handling" /\ pending = <<>>
    /\ LET ordered == order_instructions(tx)
           not_impl == SelectSeq(ordered, LAMBDA ix :
                           program(ix.name) # "Bubblegum" /\ ix.name # "CloseAccount")
       IN  result' = IF Len(not_impl) = Len(ordered) THEN "not_implemented" ELSE "ok"
    /\ UNCHANGED <<tx, stack, calls, pending, applied, failures>>

Init ==
    /\ tx = <<>> /\ stack = <<>> /\ calls = 0
    /\ pending = <<>> /\ applied = <<>> /\ failures = 0 /\ result = None

Next ==
    \/ \E name \in Names : Invoke(name)
    \/ Emit \/ Return
    \/ Deliver \/ Handle \/ HandleFails \/ Finish

Spec == Init /\ [][Next]_vars

----------------------------------------------------------------------------
(* Properties. *)

\* Every call of the transaction in order of invocation: calls are numbered.
Executed ==
    LET outer == [i \in 1..Len(tx) |-> <<[name |-> tx[i].name, id |-> tx[i].id]>>]
        inner(i) == SelectSeq(tx[i].inner, LAMBDA e : e.name # "Noop")
        all == FlattenSeq([i \in 1..Len(tx) |->
                 outer[i] \o [j \in 1..Len(inner(i)) |->
                                [name |-> inner(i)[j].name, id |-> inner(i)[j].id]]])
    IN  SelectSeq(all, LAMBDA c : Handler(c.name) # None)

Bubblegums(seq) ==
    LET own == SelectSeq(seq, LAMBDA c : program(c.name) = "Bubblegum")
    IN  [i \in 1..Len(own) |-> own[i].id]

TypeOK ==
    /\ calls \in 0..MaxCalls /\ failures \in 0..MaxFailures
    /\ result \in {None, "handling", "error", "parsing_error", "not_implemented", "ok"}
    /\ result = None => pending = <<>> /\ applied = <<>>
    /\ result # None => stack = <<>>
    /\ Len(applied) + Len(pending) =< calls

\* However calls are nested and logs interleaved, a handler gets the leaf and
\* the change of the tree that its own call logged, never another call's.
EventsAreOwn ==
    \A p \in Range(applied) : program(p.name) = "Bubblegum" =>
        p.tree = p.id /\ p.leaf = IF p.name \in Leafless THEN None ELSE p.id

\* handle_transaction applies the Bubblegum calls in the order they ran, each
\* once and without gaps, also in an attempt after a failed one.
AppliedInOrder == IsPrefix(Bubblegums(applied), Bubblegums(Executed))

\* A transaction is done with only when each of its calls has been applied
\* once, and it is not turned away as not implemented while it holds one.
DoneIsComplete ==
    result \in {"ok", "not_implemented"} =>
        /\ {p.id : p \in Range(applied)} = {c.id : c \in Range(Executed)}
        /\ Len(applied) = Len(Executed)

\* The parser finds for every instruction what its handler asks for: nothing
\* that ran is refused as unparsable, which no delivery would ever change.
NothingUnparsable == result # "parsing_error"
=============================================================================
