---------------------------- MODULE MCTableScans ----------------------------
(***************************************************************************)
(* Two queries, two readers and two workers.  A site is a deployment, the  *)
(* two functions queried, and what may go wrong while they are.            *)
(***************************************************************************)
EXTENDS TableScans

CONSTANTS qa, qb

Never == 99

Fn(name, n, splits, batch) ==
    [name |-> name, n |-> n, splits |-> splits, batch |-> batch, failAt |-> Never, inInit |-> FALSE]

FailAt(n, splits, failAt, inInit) ==
    [Fn("split_fail_at", n, splits, 1) EXCEPT !.failAt = failAt, !.inInit = inInit]

Nothing == Fn("split_zero", 0, 1, 1)

Asks(fa, fb) ==
    [q \in Queries |-> IF q = qa THEN [f |-> fa, columns |-> "n"] ELSE [f |-> fb, columns |-> "all"]]

May(publications, lost, retries, rotations) ==
    [publications |-> publications, lost |-> lost, retries |-> retries, late |-> 0,
     rotations |-> rotations, reruns |-> publications + 1]

\* One catalog, whose version() checks the attach, over HTTP.
Http(queries, bounds, claim) ==
    [key |-> "k1", composite |-> FALSE, backends |-> <<FALSE>>, rawRoute |-> 2, planned |-> TRUE,
     claim |-> claim, collide |-> FALSE, queries |-> queries, bounds |-> bounds]

Pipe(queries, bounds, claim) == [Http(queries, bounds, claim) EXCEPT !.key = NoKey]

Sequence == Fn("split_sequence", 3, 2, 1)

MCSites == {
    \* Streams of two queries that share a reader's worker and a memo slot.
    [Http(Asks(Fn("split_sequence", 2, 1, 1), Fn("split_sequence", 2, 1, 1)), May(0, 1, 0, 0), 1)
        EXCEPT !.collide = TRUE],
    \* A catalog that moves, streams opened again, answers lost, keys changed.
    Http(Asks(Sequence, Nothing), May(1, 1, 1, 0), 1),
    Http(Asks(Sequence, Nothing), May(1, 0, 1, 1), 2),
    Http(Asks(Fn("split_paginated", 3, 3, 2), Nothing), May(2, 0, 0, 0), 2),
    \* Cursors outlived, one of them after its answer was lost.
    [Http(Asks(Sequence, Nothing), May(1, 1, 1, 0), 2) EXCEPT !.bounds.late = 2],
    \* A split that fails, before and after its first rows.
    Http(Asks(FailAt(4, 2, 1, FALSE), Nothing), May(0, 0, 1, 0), 1),
    Http(Asks(FailAt(2, 2, 1, TRUE), Sequence), May(0, 0, 0, 0), 1),
    \* The other divisions of the rows, and the plan that never ends.
    Pipe(Asks(Fn("split_empty_ranges", 2, 2, 1), Fn("split_endless_cursor", 1, 1, 1)), May(1, 0, 1, 0), 3),
    Pipe(Asks(Fn("split_skewed", 4, 3, 2), Nothing), May(0, 0, 1, 0), 2),
    Pipe(Asks(Fn("split_many", 3, 0, 1), Nothing), May(0, 0, 0, 0), 1),
    Http(Asks(Fn("split_batch_index", 5, 3, 1), Nothing), May(0, 0, 1, 0), 1),
    Http(Asks(Fn("split_stale_plan", 2, 1, 1), Nothing), May(1, 0, 0, 0), 1),
    \* A function that is not divided, planned and not, and one that must be.
    Http(Asks(Fn("plain", 2, 1, 1), Fn("split_sequence", 1, 1, 1)), May(1, 0, 0, 0), 1),
    [Pipe(Asks(Fn("plain", 3, 1, 1), Sequence), May(0, 0, 0, 0), 1) EXCEPT !.planned = FALSE],
    \* No catalog; a catalog that does not look at the attach; and one of two,
    \* where the attach as sent leads to the other, which refuses it.
    [Http(Asks(Sequence, Nothing), May(0, 0, 0, 0), 1) EXCEPT !.backends = <<>>],
    [Http(Asks(Sequence, Nothing), May(1, 0, 0, 0), 1) EXCEPT !.backends = <<TRUE>>],
    [Http(Asks(Sequence, Nothing), May(1, 0, 0, 0), 1)
        EXCEPT !.composite = TRUE, !.backends = <<FALSE, FALSE>>] }

\* As the last, but the other catalog does not look at the attach.
SiblingSites == {
    [Http(Asks(Fn("split_sequence", 2, 2, 1), Nothing), May(2, 0, 0, 0), 1)
        EXCEPT !.composite = TRUE, !.backends = <<FALSE, TRUE>>] }

MCKeys == {"k1", "k2"}
MCWorkers == {1, 2}
MCReaders == {1, 2}
=============================================================================
