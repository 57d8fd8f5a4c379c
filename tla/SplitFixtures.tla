---------------------------- MODULE SplitFixtures ----------------------------
(***************************************************************************)
(* Table functions whose scans are divided into splits (examples/splits.ts)*)
(* as functions of their arguments: what they plan, what a reader starts   *)
(* from, and what it emits next.                                           *)
(*                                                                         *)
(* A function f has the fields                                             *)
(*   name           its name; a "plain" one has no plan of its own         *)
(*   n, splits      the rows 0..n-1, and how many splits are asked for     *)
(*   batch          the rows of a batch                                    *)
(*   failAt, inInit the ordinal split_fail_at fails on, and where          *)
(* and a payload names its rows and its place: [ordinal, lo, hi].          *)
(***************************************************************************)
EXTENDS Integers, Sequences, FiniteSetsExt

CONSTANTS
    PerPage,       \* the splits on a page of split_paginated
    Stride,        \* the batch indices a split of split_batch_index has
    ManySplits,    \* what split_many divides into when not told
    OldVersion     \* the version split_stale_plan plans against

ASSUME PerPageAssumption == PerPage \in Nat \ {0}
ASSUME StrideAssumption == Stride \in Nat \ {0}
ASSUME ManySplitsAssumption == ManySplits \in Nat \ {0}

\* A batch without a vgi_batch_index.
NoIndex == -1

Names == {"plain", "split_sequence", "split_zero", "split_empty_ranges", "split_skewed",
          "split_many", "split_paginated", "split_stale_plan", "split_batch_index",
          "split_fail_at", "split_endless_cursor"}

Span(lo, hi) == [lo |-> lo, hi |-> hi]

\* [0, n) in k contiguous ranges, the remainder over the first few.
evenRanges(n, k) ==
    LET base == n \div k
        extra == n % k
        start(i) == i * base + Min({i, extra})
    IN  IF k <= 0 THEN <<>> ELSE [i \in 1..k |-> Span(start(i - 1), start(i))]

\* split_skewed: all but a hundredth of the rows in the first split.
Skewed(n, k) ==
    LET head == (n * 99) \div 100
        rest == evenRanges(n - head, k - 1)
    IN  IF n <= 0 \/ k <= 0 THEN <<>>
        ELSE <<Span(0, head)>> \o
             [i \in DOMAIN rest |-> Span(head + rest[i].lo, head + rest[i].hi)]

\* split_empty_ranges: an empty one before each.
WithEmpty(ranges) ==
    [i \in 1..(2 * Len(ranges)) |->
        LET r == ranges[(i + 1) \div 2] IN IF i % 2 = 1 THEN Span(r.lo, r.lo) ELSE r]

Ranges(f) ==
    IF f.name = "split_zero" THEN <<>>
    ELSE IF f.name = "split_skewed" THEN Skewed(f.n, f.splits)
    ELSE IF f.name = "split_empty_ranges" THEN WithEmpty(evenRanges(f.n, f.splits))
    ELSE evenRanges(f.n, IF f.name = "split_many" /\ f.splits <= 0 THEN ManySplits ELSE f.splits)

\* planOf: the payloads of a window of the ranges, the first of ordinal base.
planOf(ranges, base) ==
    [i \in DOMAIN ranges |->
        [ordinal |-> base + i - 1, lo |-> ranges[i].lo, hi |-> ranges[i].hi]]

\* plan: the payloads of page number `page`, and whether there is a next one.
\* A function without one is a single split of no payload.
Plan(f, page) ==
    LET all == Ranges(f)
        first == page * PerPage
        window == [i \in 1..(Min({first + PerPage, Len(all)}) - first) |-> all[first + i]]
    IN  IF f.name = "plain"
        THEN [payloads |-> <<[ordinal |-> 0, lo |-> 0, hi |-> 0]>>, more |-> FALSE]
        ELSE IF f.name = "split_endless_cursor"
        THEN [payloads |-> <<[ordinal |-> 0, lo |-> 0, hi |-> 1]>>, more |-> TRUE]
        ELSE IF f.name = "split_paginated"
        THEN [payloads |-> planOf(window, first), more |-> first + PerPage < Len(all)]
        ELSE [payloads |-> planOf(all, 0), more |-> FALSE]

\* onSplit: whether the function takes the payloads it is handed.
onSplit(f, payloads) ==
    f.name = "split_fail_at" /\ f.inInit =>
        \A i \in DOMAIN payloads : payloads[i].ordinal # f.failAt

\* seedState: a reader's state. A plain function does not look at payloads.
seedState(f, payloads) ==
    LET claimed == IF f.name = "plain" THEN <<[ordinal |-> 0, lo |-> 0, hi |-> f.n]>> ELSE payloads
    IN  [claimed |-> claimed, idx |-> 1,
         cur |-> IF claimed = <<>> THEN 0 ELSE Head(claimed).lo, emitted |-> 0]

\* The ranges that still have rows: a range without is stepped over.
Remaining(s) ==
    {j \in s.idx..Len(s.claimed) :
        (IF j = s.idx THEN s.cur ELSE s.claimed[j].lo) < s.claimed[j].hi}

\* Mutant of BatchIndex: by the place among the ranges claimed.
BatchIndexByPlace(s, j, emitted) == (j - 1) * Stride + emitted

\* The vgi_batch_index of a batch of range j: each split has indices of its own.
BatchIndex(s, j, emitted) == s.claimed[j].ordinal * Stride + emitted

\* process: "finished", "failed", or a batch and the state after it.
emitNext(f, s) ==
    LET j == Min(Remaining(s))
        from == IF j = s.idx THEN s.cur ELSE s.claimed[j].lo
        emitted == IF j = s.idx THEN s.emitted ELSE 0
        to == Min({s.claimed[j].hi, from + f.batch})
        without(out) == [out |-> out, state |-> s, lo |-> 0, hi |-> 0, index |-> NoIndex]
    IN  IF Remaining(s) = {} THEN without("finished")
        ELSE IF /\ f.name = "split_fail_at" /\ s.claimed[j].ordinal = f.failAt
                /\ from > s.claimed[j].lo
        THEN without("failed")
        ELSE [out |-> "batch", lo |-> from, hi |-> to,
              index |-> IF f.name = "split_batch_index" THEN BatchIndex(s, j, emitted) ELSE NoIndex,
              state |-> [s EXCEPT !.idx = j, !.cur = to, !.emitted = emitted + 1]]
=============================================================================
