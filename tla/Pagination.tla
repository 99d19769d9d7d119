----------------------------- MODULE Pagination -----------------------------
(***************************************************************************)
(* How das_api pages through a list: validate_pagination (das_api/src/api/ *)
(* api_impl.rs), create_pagination (digital_asset_types/src/dapi/common/   *)
(* asset.rs) and paginate (dao/scopes/asset.rs).  A request is a record of *)
(* the parameters of the call, None for one that is not given; sort is     *)
(* None for the methods that have no sorting.                              *)
(***************************************************************************)
EXTENDS Integers, Sequences

CONSTANTS None, Invalid

MaxLimit == 1000

\* The page options of a request, or Invalid.  A cursor is only taken when the
\* method sorts, and then there is one even if the request has none.
validate_pagination(req) ==
    LET keyset == req.before # None \/ req.after # None
        cursorable == req.page = None /\ ~keyset
    IN  IF \/ req.limit # None /\ req.limit > MaxLimit
           \/ req.page = 0
           \/ req.page # None /\ (keyset \/ req.cursor # None)
           \/ keyset /\ (req.cursor # None \/ req.sort \notin {None, "id"})
           \/ cursorable /\ req.sort \notin {None, "id"}
        THEN Invalid
        ELSE [limit |-> IF req.limit = None THEN MaxLimit ELSE req.limit,
              page |-> req.page, before |-> req.before, after |-> req.after,
              cursor |-> IF cursorable /\ req.sort # None THEN [id |-> req.cursor] ELSE None]

\* Mutant: the keyset is looked at before the cursor.
KeysetFirst(options) ==
    IF options.page = None
      THEN [by |-> "keyset", before |-> options.before, after |-> options.after]
    ELSE IF options.before = None /\ options.after = None
      THEN [by |-> "page", page |-> options.page]
      ELSE Invalid

create_pagination(options) ==
    IF options.cursor # None THEN [by |-> "cursor", id |-> options.cursor.id]
    ELSE IF options.page = None
      THEN [by |-> "keyset", before |-> options.before, after |-> options.after]
    ELSE IF options.before = None /\ options.after = None
      THEN [by |-> "page", page |-> options.page]
      ELSE Invalid

Cut(rows, offset, limit) ==
    SubSeq(rows, offset + 1, IF Len(rows) < offset + limit THEN Len(rows) ELSE offset + limit)

\* Mutant: the limit is applied before the cursor's condition.
PaginateLimitFirst(p, limit, rows, direction) ==
    SelectSeq(Cut(rows, IF p.by = "page" THEN (p.page - 1) * limit ELSE 0, limit),
              LAMBDA r : p.by = "cursor" /\ p.id # None =>
                            IF direction = "asc" THEN r > p.id ELSE r < p.id)

\* The rows of one page; rows holds the ids the statement selects, in its order.
paginate(p, limit, rows, direction) ==
    LET wanted(r) ==
          CASE p.by = "keyset" -> /\ p.before # None => r < p.before
                                  /\ p.after # None => r > p.after
            [] p.by = "page" -> TRUE
            [] p.by = "cursor" -> p.id # None => IF direction = "asc" THEN r > p.id
                                                                     ELSE r < p.id
    IN  Cut(SelectSeq(rows, wanted), IF p.by = "page" THEN (p.page - 1) * limit ELSE 0, limit)
=============================================================================
