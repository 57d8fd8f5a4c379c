---------------------------- MODULE AggregateFold ----------------------------
(***************************************************************************)
(* What one aggregate call does to the states of the groups it is given    *)
(* (protocol/handlers/aggregate.ts over functions/aggregate.ts).  A state  *)
(* is the bag of the rows folded into it; a group no row was folded into   *)
(* has none.                                                               *)
(***************************************************************************)
EXTENDS Naturals, Bags, SequencesExt

CONSTANT NoState

\* ensureState, else the state in the map: cfg.initialState() folds no row.
OrInitial(s) == IF s = NoState THEN EmptyBag ELSE s

\* The rows of an update batch for group g.  A skipped (NULL) row never calls
\* ensureState.
RowsFor(rows, g) ==
    {rows[i].id : i \in {n \in DOMAIN rows : rows[n].group = g /\ ~rows[n].skipped}}

\* Mutant of Updated: a group of the batch gets a state even if all its rows
\* are skipped.
UpdatedEnsured(groups, rows) ==
    [g \in DOMAIN groups |->
        IF \A i \in DOMAIN rows : rows[i].group # g THEN groups[g]
        ELSE OrInitial(groups[g]) (+) SetToBag(RowsFor(rows, g))]

Updated(groups, rows) ==
    [g \in DOMAIN groups |->
        IF RowsFor(rows, g) = {} THEN groups[g]
        ELSE OrInitial(groups[g]) (+) SetToBag(RowsFor(rows, g))]

\* One pair of a merge batch: the source keeps its state, and a pair neither
\* of whose groups has one is skipped.
MergePair(groups, p) ==
    IF groups[p.from] = NoState /\ groups[p.to] = NoState THEN groups
    ELSE [groups EXCEPT ![p.to] = OrInitial(groups[p.from]) (+) OrInitial(@)]

\* The states after the first n pairs.  The pairs act in order: a target may be
\* the source of a later pair.
After(groups, merges) ==
    LET after[n \in 0..Len(merges)] ==
            IF n = 0 THEN groups ELSE MergePair(after[n - 1], merges[n])
    IN  after

Combined(groups, merges) == After(groups, merges)[Len(merges)]

\* The targets a merge batch touches.
Touched(groups, merges) ==
    {merges[n].to : n \in {i \in DOMAIN merges :
        LET before == After(groups, merges)[i - 1] IN
        before[merges[i].from] # NoState \/ before[merges[i].to] # NoState}}

Without(groups, gids) == [g \in DOMAIN groups |-> IF g \in gids THEN NoState ELSE groups[g]]

\* The states after the whole call, of those before it.
Effect(groups, c) ==
    CASE c.op = "update" -> Updated(groups, c.rows)
      [] c.op = "combine" -> Combined(groups, c.merges)
      [] c.op = "finalize" -> groups
      [] c.op = "destroy" -> Without(groups, c.gids)

\* The groups a call names.
GidsOf(c) ==
    CASE c.op = "update" -> {c.rows[i].group : i \in DOMAIN c.rows}
      [] c.op = "combine" ->
           {c.merges[i].from : i \in DOMAIN c.merges} \cup {c.merges[i].to : i \in DOMAIN c.merges}
      [] OTHER -> c.gids

=============================================================================
