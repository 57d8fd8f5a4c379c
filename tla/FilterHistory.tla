---------------------------- MODULE FilterHistory ----------------------------
(***************************************************************************)
(* Dynamic filters across HTTP turns (filter-pushdown/history.ts,          *)
(* protocol/handlers/function.ts).  Every turn rebuilds the filters from   *)
(* the init snapshot and the compacted history its token carries, applies  *)
(* the delta the tick brings, and leaves a new history.                    *)
(***************************************************************************)
EXTENDS PushdownFilters, FiniteSets

CONSTANT Snapshots   \* what a scan may start with: predicates and required ids

\* A snapshot is refused if it names an id twice.
ASSUME SnapshotsAssumption ==
    \A s \in Snapshots :
        /\ s.preds \in Seq(Preds) /\ IsInjective(LiveIds(s))
        /\ s.required \subseteq Range(LiveIds(s))

VARIABLES
    snapshot,   \* of the init request
    history,    \* what the state token carries: deltas and predicate order
    live,       \* the filters a byte stream would have after the same ticks
    turns       \* of the HTTP stream: "running", or "failed"

historyVars == <<snapshot, history, live, turns>>

EmptyHistory == [deltas |-> <<>>, order |-> <<>>]

\* The types, and: no id is live twice.
HistoryTypeOK ==
    /\ snapshot \in Snapshots
    /\ history.deltas \in Seq(Deltas)
    /\ history.order \in Seq(Ids) /\ IsInjective(history.order)
    /\ turns \in {"running", "failed"}

HistoryInit ==
    /\ snapshot \in Snapshots
    /\ history = EmptyHistory
    /\ live = Filters(snapshot)
    /\ turns = "running"

ApplyTo(f, d) == IF f = Rejected THEN Rejected ELSE ApplyDelta(f, d)

Replayed(f, ds) ==
    LET after[n \in 0..Len(ds)] == IF n = 0 THEN f ELSE ApplyTo(after[n - 1], ds[n])
    IN  after[Len(ds)]

\* replayFilterHistory.
Replay(f, h) ==
    LET replayed == Replayed(f, h.deltas) IN
    IF h.deltas = <<>> THEN f
    ELSE IF replayed = Rejected THEN Rejected
    ELSE WithPredicateOrder(replayed, h.order)

\* The filters of a turn.
Rebuilt == Replay(Filters(snapshot), history)

\* deltaRevisionKeys: whether delta d carries revision f.rev[i] of i.
CarriesKey(d, f, i) == \E j \in DOMAIN d : d[j].id = i /\ d[j].rev = f.rev[i]

\* Mutant of Wanted: no compaction.
WantedAll(ds, f, n) == TRUE

\* The n-th delta is the first to carry some id's current revision, tombstones
\* included.
Wanted(ds, f, n) ==
    \E i \in Ids :
        CarriesKey(ds[n], f, i) /\ \A m \in 1..(n - 1) : ~CarriesKey(ds[m], f, i)

\* The wanted deltas, in arrival order.
Kept(ds, f) ==
    LET kept[n \in 0..Len(ds)] ==
            IF n = 0 THEN <<>>
            ELSE IF Wanted(ds, f, n) THEN Append(kept[n - 1], ds[n])
            ELSE kept[n - 1]
    IN  kept[Len(ds)]

\* recordFilterDelta, when the delta has been applied: f are the new filters.
Record(f, h, d) == [deltas |-> Kept(Append(h.deltas, d), f), order |-> LiveIds(f)]

\* A turn whose tick carries delta d, on the rebuilt filters cur.  A history
\* that cannot be replayed, or a delta that is refused, ends the stream in an
\* error.  A byte stream applies d to the filters it holds in memory.
Turn(cur, d) ==
    LET f == ApplyTo(cur, d) IN
    /\ IF f = Rejected THEN turns' = "failed" /\ UNCHANGED history
                       ELSE history' = Record(f, history, d) /\ UNCHANGED turns
    /\ live' = ApplyTo(live, d)
    /\ UNCHANGED snapshot

HistoryNext ==
    /\ turns = "running"
    /\ LET cur == Rebuilt IN \E d \in Deltas : Turn(cur, d)

HistorySpec == HistoryInit /\ [][HistoryNext]_historyVars

-----------------------------------------------------------------------------
(* What the history promises                                               *)

\* The history is bounded by the predicate ids seen, not by the ticks, and no
\* id is live twice (history.ts:21-22, 41-42).
HistoryBounded ==
    /\ HistoryTypeOK
    /\ Len(history.deltas) <= Cardinality({i \in Ids : \E d \in Range(history.deltas) : \E j \in DOMAIN d : d[j].id = i})

\* Turn by turn the rebuilt predicates, their order and all revisions are those
\* a byte stream keeps in memory, and the two transports refuse the same deltas
\* (history.ts:17-24, 127-149, 231-240).
RebuiltIsLive ==
    IF turns = "running" THEN Rebuilt = live ELSE live = Rejected

=============================================================================
