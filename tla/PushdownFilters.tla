--------------------------- MODULE PushdownFilters ---------------------------
(***************************************************************************)
(* The filters of one scan and what a delta does to them                   *)
(* (filter-pushdown/evaluate.ts, filter-pushdown/deserialize.ts): the      *)
(* predicates in order, and for every id ever seen the revision that       *)
(* installed or removed it.                                                *)
(***************************************************************************)
EXTENDS Integers, Sequences, SequencesExt

CONSTANTS
    Ids,          \* predicate ids
    Revisions,    \* revisions a delta may carry
    Exprs,        \* expressions of predicates
    Valid,        \* those the strict parser accepts
    Removed,      \* in place of an expression: the update removes
    Rejected,     \* in place of filters: a FilterV2Error
    MaxUpdates    \* bound of the updates of a delta

ASSUME RevisionsAssumption == Revisions \subseteq Nat
ASSUME ExprsAssumption == Valid \subseteq Exprs /\ Removed \notin Exprs

\* One entry of a delta document: an upsert or a remove.
Updates == [id : Ids, rev : Revisions, expr : Exprs \cup {Removed}]

\* Delta documents: updates of different ids.
Deltas ==
    {d \in UNION {[1..n -> Updates] : n \in 0..MaxUpdates} :
        IsInjective([j \in DOMAIN d |-> d[j].id])}

Preds == [id : Ids, expr : Exprs]

LiveIds(f) == [i \in DOMAIN f.preds |-> f.preds[i].id]

\* What filters are: no id is live twice.
FilterStates ==
    {f \in [preds : Seq(Preds), rev : [Ids -> Int], required : SUBSET Ids] :
        IsInjective(LiveIds(f))}

ASSUME RejectedAssumption == Rejected \notin FilterStates
ASSUME UpdatesAssumption == MaxUpdates \in Nat

\* The filters of a snapshot: its predicates are all of revision 0, and those
\* of mode required are remembered.
Unseen == -1
Filters(snapshot) ==
    [preds |-> snapshot.preds,
     rev |-> [i \in Ids |->
         IF \E p \in Range(snapshot.preds) : p.id = i THEN 0 ELSE Unseen],
     required |-> snapshot.required]

\* Mutant of Stale: a revision already seen is taken again.
StaleStrictly(f, u) == u.rev < f.rev[u.id]

\* revision <= (revisions.get(id) ?? -1)
Stale(f, u) == u.rev <= f.rev[u.id]

\* A Map keeps an id's place when it is set again; a new id goes to the end.
Upsert(preds, u) ==
    IF \E p \in Range(preds) : p.id = u.id
    THEN [i \in DOMAIN preds |->
             IF preds[i].id = u.id THEN [id |-> u.id, expr |-> u.expr] ELSE preds[i]]
    ELSE Append(preds, [id |-> u.id, expr |-> u.expr])

Without(preds, id) ==
    IF \E p \in Range(preds) : p.id = id
    THEN RemoveAt(preds, CHOOSE i \in DOMAIN preds : preds[i].id = id)
    ELSE preds

Apply(f, u) ==
    IF Stale(f, u) THEN f
    ELSE [f EXCEPT !.preds = IF u.expr = Removed THEN Without(@, u.id) ELSE Upsert(@, u),
                   !.rev = [@ EXCEPT ![u.id] = u.rev]]

\* The updates of a delta act in order.  (None changes what the next one sees:
\* their ids differ.)
Applied(f, d) ==
    LET after[n \in 0..Len(d)] == IF n = 0 THEN f ELSE Apply(after[n - 1], d[n])
    IN  after[Len(d)]

\* delta(prior): all updates or none, and none on a required predicate.  The
\* expression of a stale update is not looked at.
ApplyDelta(f, d) ==
    IF \E i \in DOMAIN d :
          \/ d[i].id \in f.required
          \/ ~Stale(f, d[i]) /\ d[i].expr \notin Valid \cup {Removed}
    THEN Rejected
    ELSE Applied(f, d)

\* withPredicateOrder: order must name exactly the live ids.
WithPredicateOrder(f, order) ==
    IF IsInjective(order) /\ Range(order) = Range(LiveIds(f))
    THEN [f EXCEPT !.preds = [i \in DOMAIN order |->
             CHOOSE p \in Range(f.preds) : p.id = order[i]]]
    ELSE Rejected

=============================================================================
