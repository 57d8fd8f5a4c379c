------------------------- MODULE MCCatalogSessions -------------------------
(***************************************************************************)
(* Instance of CatalogSessions: an HTTP deployment of a composite, with    *)
(* and without a request scope and a ceiling of lives, whose callers       *)
(* attach, seal, redeem and begin; and three deployments of writable       *)
(* catalogs whose callers change them, or try to behind a composite.       *)
(***************************************************************************)
EXTENDS CatalogSessions, TLC

Caller(domain, principal) == [authenticated |-> TRUE, domain |-> domain, principal |-> principal]
Nobody == [authenticated |-> FALSE, domain |-> "", principal |-> ""]
Alice == Caller("corp", "alice")
AliceElsewhere == Caller("lab", "alice")
Bob == Caller("corp", "bob")
MCCallers == {Nobody, Alice, AliceElsewhere, Bob}

Catalog(name, kind, required, declared) ==
    [name |-> name, kind |-> kind, required |-> required, declared |-> declared]
Reval == Catalog("contents_reval", "private", {}, {})
Probe == Catalog("ticket_probe", "options", {"api_key"}, {"api_key", "region"})
Example == Catalog("example", "example", {}, {})
Memory == Catalog("memory", "memory", {}, {})

Limits(attaches, sealed, transactions, changes, restarts, until) ==
    [attaches |-> attaches, tickets |-> sealed, transactions |-> transactions,
     changes |-> changes, restarts |-> restarts, until |-> until]

\* Where the last instant is the first, clocks do not matter.
Site(http, scope, composite, catalogs, callers, ceiling, bounds) ==
    [http |-> http, scope |-> scope, composite |-> composite, catalogs |-> catalogs,
     callers |-> callers, ceiling |-> ceiling, bounds |-> bounds,
     drifts |-> IF bounds.until > 2 THEN {0, 2} ELSE {0}]

MCSites ==
    {Site(TRUE, TRUE, TRUE, <<Probe, Reval>>, {Alice, Bob}, 1, Limits(1, 1, 0, 0, 0, 8)),
     Site(TRUE, TRUE, TRUE, <<Probe>>, {Alice}, 0, Limits(1, 2, 0, 0, 0, 8)),
     Site(TRUE, FALSE, TRUE, <<Probe, Reval>>, MCCallers, 0, Limits(1, 1, 0, 0, 1, 2)),
     Site(TRUE, TRUE, TRUE, <<Example, Reval>>, {Nobody, Alice, Bob}, 0, Limits(2, 0, 1, 0, 1, 2)),
     Site(TRUE, TRUE, TRUE, <<Example, Reval>>, {Alice}, 0, Limits(1, 0, 0, 3, 1, 2)),
     Site(FALSE, FALSE, FALSE, <<Memory>>, {Nobody}, 0, Limits(2, 0, 0, 2, 0, 2)),
     Site(FALSE, FALSE, TRUE, <<Example, Memory>>, {Nobody}, 0, Limits(2, 0, 0, 1, 1, 2))}

MCSymmetry == Permutations(Workers) \cup Permutations(Keys)

None == [x \in {} |-> 0]
MCOptions == {None, [api_key |-> "secret"], [api_key |-> "secret", region |-> "north"]}

Default == [call |-> "", path |-> <<"main">>, name |-> "t", newName |-> "u", onConflict |-> "ERROR",
            ignoreNotFound |-> FALSE, cascade |-> FALSE, value |-> 1, comment |-> 1,
            constrained |-> FALSE, flat |-> TRUE, negotiated |-> FALSE]
On(call, conflict) == [Default EXCEPT !.call = call, !.onConflict = conflict, !.value = 2]

MCChanges ==
    {[Default EXCEPT !.call = call, !.ignoreNotFound = ignore] :
        call \in {"tableCommentSet", "tableRename", "viewDrop", "viewRename",
                  "viewCommentSet", "viewColumnCommentSet"}, ignore \in {TRUE}}
    \cup {[Default EXCEPT !.call = "tableDrop"], [Default EXCEPT !.call = "tableColumnAdd"]}
    \cup {On(call, conflict) : call \in {"tableCreate"}, conflict \in {"ERROR", "IGNORE", "REPLACE"}}
    \cup {On("viewCreate", "IGNORE"), [Default EXCEPT !.call = "viewCreate"]}
    \cup {[On("schemaCreate", conflict) EXCEPT !.path = p] :
            conflict \in {"IGNORE", "REPLACE"}, p \in {<<"main">>, <<"main", "sub">>}}
    \cup {[Default EXCEPT !.call = "schemaDrop", !.cascade = c] : c \in BOOLEAN}
    \cup {[Default EXCEPT !.call = "schemaCreate", !.negotiated = TRUE],
          [Default EXCEPT !.call = "tableCreate", !.constrained = TRUE],
          [Default EXCEPT !.call = "viewColumnCommentSet", !.flat = FALSE]}
=============================================================================
