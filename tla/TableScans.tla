----------------------------- MODULE TableScans -----------------------------
(***************************************************************************)
(* Scans of table functions that are divided into splits                   *)
(* (protocol/handlers/function.ts, split-token.ts,                         *)
(* protocol/carried-init-request.ts, functions/table.ts).                  *)
(*                                                                         *)
(* The engine asks for a plan, page by page, and gets tokens: each names   *)
(* the rows of a split, the bind it is for and the version of the catalog  *)
(* it was planned against, and over HTTP seals the payload.  Its readers   *)
(* claim the splits in order, open a stream on what they claimed, and take *)
(* turns until it finishes.  Over HTTP any worker may serve a turn: the    *)
(* stream travels in a cursor, which has a life (tokenTtl) from the turn   *)
(* that made it.  A refusal as expired means: run the query again.         *)
(***************************************************************************)
EXTENDS SplitFixtures, FiniteSets, SequencesExt

CONSTANTS
    Workers,
    Keys,         \* the keys a worker over HTTP may have
    Queries,
    Readers,      \* the threads, or tasks, of the engine
    Sites,        \* the deployments considered
    MaxEntries,   \* MAX_ENTRIES of the memo of parsed requests
    MaxPages,     \* the pages the engine asks for at most
    NoKey,
    NoVersion     \* no version could be had

home == 1         \* the catalog of the queries

\* Bounds of a deployment: how many publications, answers lost, streams opened
\* again, cursors outlived and keys changed its run has, and how many times it
\* counts a query that is run again.
Bounds == [publications : Nat, lost : Nat, retries : Nat, late : Nat, rotations : Nat, reruns : Nat]

Functions == [name : Names, n : Nat, splits : Nat, batch : Nat \ {0}, failAt : Nat, inInit : BOOLEAN]

ASSUME VersionAssumption == NoVersion \notin Nat /\ OldVersion \in Nat /\ OldVersion # 0
ASSUME MaxEntriesAssumption == MaxEntries \in Nat \ {0}
ASSUME KeyAssumption == NoKey \notin Keys
ASSUME SitesAssumption ==
    Sites \subseteq [key : Keys \cup {NoKey},  \* the key its workers start with: HTTP has one
                     composite : BOOLEAN,
                     backends : Seq(BOOLEAN),   \* whose version() does not look at the attach
                     rawRoute : Nat,            \* where the attach as the client sends it leads
                     planned : BOOLEAN,         \* the engine asks for plans
                     claim : Nat \ {0},         \* the splits it claims at a time
                     collide : BOOLEAN,         \* the hashes of requests collide
                     queries : [Queries -> [f : Functions, columns : STRING]],
                     bounds : Bounds]

VARIABLES
    site,
    key,         \* each worker's key
    versions,    \* the version of each catalog of the worker
    memo,        \* the requests each worker has parsed, the latest last
    query,       \* the engine's queries
    reader,      \* the engine's readers, and their streams
    spent        \* what was used up of the bounds

vars == <<site, key, versions, memo, query, reader, spent>>

http == site.key # NoKey
f(q) == site.queries[q].f

-----------------------------------------------------------------------------
(* The version a plan is pinned to. *)

\* CompositeCatalogInterface._route, and version() of the catalog it leads to.
Version(route, own) ==
    LET b == IF site.composite THEN route ELSE home
    IN  IF b \in DOMAIN site.backends /\ (site.backends[b] \/ (own /\ b = home))
        THEN versions[b] ELSE NoVersion

\* liveSplitAnchor as plan asks it: the attach as sent, before the opened one.
PlanVersion ==
    IF Version(site.rawRoute, FALSE) # NoVersion THEN Version(site.rawRoute, FALSE)
    ELSE Version(home, TRUE)

\* liveSplitAnchor as init asks it, with the attach opened already.
InitVersion == Version(home, TRUE)

\* Mutant of planAnchor: no version is asked for.
planAnchorZero(q) == 0

\* tableFunctionPlan: what the function names, the live version, or zero.
planAnchor(q) ==
    IF f(q).name = "split_stale_plan" THEN OldVersion
    ELSE IF PlanVersion = NoVersion THEN 0
    ELSE PlanVersion

-----------------------------------------------------------------------------
(* Tokens, and the requests that carry them. *)

\* buildSplitToken; the fingerprint is that of the function and its arguments.
buildSplitToken(payload, bind, anchor, k) ==
    [payload |-> payload, bind |-> bind, anchor |-> anchor, key |-> k]

\* Mutant of openSplitToken: the anchor is not compared.
openSplitTokenUnpinned(token, bind, current, k) ==
    IF (k = NoKey) # (token.key = NoKey) \/ token.bind # bind \/ token.key # k THEN "invalid"
    ELSE "admitted"

\* openSplitToken: the binding is checked before the anchor, and the anchor
\* before the seal is opened.
openSplitToken(token, bind, current, k) ==
    IF (k = NoKey) # (token.key = NoKey) \/ token.bind # bind THEN "invalid"
    ELSE IF current # NoVersion /\ token.anchor # current THEN "expired"
    ELSE IF token.key # k THEN "invalid"
    ELSE "admitted"

\* resolveSplitPayloads: the first token that is refused decides.
resolveSplitPayloads(request, current, w) ==
    LET answer(i) == openSplitToken(request.tokens[i], request.bind, current, key[w])
        admits(i) == answer(i) = "admitted"
    IN  IF \A i \in DOMAIN request.tokens : admits(i) THEN "admitted"
        ELSE IF \E i \in DOMAIN request.tokens :
                    answer(i) = "expired" /\ \A j \in 1..(i - 1) : admits(j)
        THEN "expired" ELSE "invalid"

Payloads(request) == [i \in DOMAIN request.tokens |-> request.tokens[i].payload]

Hash(request) ==
    IF site.collide THEN "same" ELSE <<request.bind, request.columns, request.tokens>>

Entries(w, request) == {i \in DOMAIN memo[w] : memo[w][i].hash = Hash(request)}

\* Mutant of Hits: the bytes are not compared.
HitsByHash(w, request) == Entries(w, request)

\* An entry counts as a hit if its bytes are the same.
Hits(w, request) == {i \in Entries(w, request) : memo[w][i].packed = request}

\* parseCarriedInitRequest: the request a turn goes by, and the memo after.
Parsed(w, request) ==
    IF Hits(w, request) = {} THEN request
    ELSE memo[w][CHOOSE i \in Hits(w, request) : TRUE].request

MemoAfter(w, request) ==
    LET rest == IF Entries(w, request) = {} THEN memo[w]
                ELSE RemoveAt(memo[w], CHOOSE i \in Entries(w, request) : TRUE)
        entry == [hash |-> Hash(request), packed |-> request, request |-> Parsed(w, request)]
    IN  Append(IF Len(rest) >= MaxEntries THEN Tail(rest) ELSE rest, entry)

-----------------------------------------------------------------------------
(* The engine. *)

NewRun(reruns) ==
    [phase |-> "planning", reruns |-> reruns, page |-> 0, splits |-> <<>>, claimed |-> 0,
     admitted |-> {}, batches |-> <<>>]

Idle == [phase |-> "idle"]

Failed(q) == [query EXCEPT ![q].phase = "failed"]
AllIdle(q) == [r \in Readers |-> IF reader[r].phase = "open" /\ reader[r].query = q THEN Idle ELSE reader[r]]

\* The query fails for the engine, and its readers stop.
Fail(q) == query' = Failed(q) /\ reader' = AllIdle(q)

\* Its plan is no longer good: it is run again, from the beginning, and the
\* runs are counted up to a bound.
RunAgain(q) ==
    /\ query' = [query EXCEPT ![q] = NewRun(Min({query[q].reruns + 1, site.bounds.reruns}))]
    /\ reader' = AllIdle(q)

\* A turn of a stream: process, for the request parsed. The engine has what an
\* attempt emitted when the attempt has finished, and a new cursor after every
\* batch. The query is then `entered`.
Produce(r, stream, parsed, entered) ==
    \E step \in {emitNext(parsed.bind, stream.state)} :
        LET batch == [lo |-> step.lo, hi |-> step.hi, index |-> step.index,
                      columns |-> parsed.columns, reader |-> r]
            q == stream.query
        IN  \/ /\ step.out = "batch"
               /\ reader' = [reader EXCEPT ![r] =
                      [stream EXCEPT !.state = step.state, !.old = FALSE, !.got = Append(@, batch)]]
               /\ query' = [query EXCEPT ![q] = entered]
            \/ /\ step.out = "finished"
               /\ reader' = [reader EXCEPT ![r] = Idle]
               /\ query' = [query EXCEPT ![q] = [entered EXCEPT !.batches = @ \o stream.got]]
            \/ step.out = "failed" /\ Fail(q)

InitRequest(q, claim) ==
    [bind |-> f(q), columns |-> site.queries[q].columns,
     tokens |-> [i \in DOMAIN claim |-> query[q].splits[claim[i]]]]

\* A stream as init leaves it.
Stream(q, request, w, claim) ==
    [phase |-> "open", query |-> q, request |-> request, got |-> <<>>, key |-> key[w], at |-> w,
     old |-> FALSE, claim |-> claim, state |-> seedState(request.bind, Payloads(request))]

\* init of a stream on splits claimed, and its first turn, in the same request
\* over HTTP and at once elsewhere (init, globalInit, createStreamHandlers).
OpenStream(q, r, w, claim) ==
    \E request \in {InitRequest(q, claim)} :
        LET answer == resolveSplitPayloads(request, InitVersion, w)
            taken == onSplit(request.bind, Payloads(request))
        IN  \/ answer = "invalid" /\ Fail(q)
            \/ answer = "expired" /\ RunAgain(q)
            \/ answer = "admitted" /\ ~taken /\ Fail(q)
            \/ /\ answer = "admitted" /\ taken
               /\ \E stream \in {Stream(q, request, w, claim)} :
                    Produce(r, stream, request,
                            [query[q] EXCEPT !.claimed = Max({@, Last(claim)}),
                                             !.admitted = @ \cup {InitVersion}])

-----------------------------------------------------------------------------
Init ==
    /\ site \in Sites
    /\ key = [w \in Workers |-> site.key]
    /\ versions = [b \in DOMAIN site.backends |-> 1]
    /\ memo = [w \in Workers |-> <<>>]
    /\ query = [q \in Queries |-> NewRun(0)]
    /\ reader = [r \in Readers |-> Idle]
    /\ spent = [lost |-> 0, retries |-> 0, late |-> 0, rotations |-> 0]

\* table_function_plan: one page. An engine that would be handed pages for
\* ever gives up, and never scans a part of them.
PlanPage(q, w) ==
    /\ query[q].phase = "planning" /\ site.planned
    /\ LET plan == Plan(f(q), query[q].page)
           tokens == [i \in DOMAIN plan.payloads |->
                        buildSplitToken(plan.payloads[i], f(q), planAnchor(q), key[w])]
       IN  IF query[q].page = MaxPages THEN query' = Failed(q)
           ELSE query' = [query EXCEPT ![q].splits = @ \o tokens, ![q].page = @ + 1,
                                       ![q].phase = IF plan.more THEN @ ELSE "scanning"]
    /\ UNCHANGED <<site, key, versions, memo, reader, spent>>

\* An engine that does not plan opens one stream without tokens: a function
\* that is all splits refuses it, a plain one scans everything.
ScanUnplanned(q, w) ==
    /\ query[q].phase = "planning" /\ ~site.planned
    /\ IF f(q).name = "plain"
       THEN query' = [query EXCEPT ![q].phase = "done", ![q].batches =
                <<[lo |-> 0, hi |-> f(q).n, index |-> NoIndex,
                   columns |-> site.queries[q].columns, reader |-> w]>>]
       ELSE query' = Failed(q)
    /\ UNCHANGED <<site, key, versions, memo, reader, spent>>

\* A reader claims the next splits of a plan, in their order.
Claim(q, r, w) ==
    /\ query[q].phase = "scanning" /\ reader[r].phase = "idle"
    /\ query[q].claimed < Len(query[q].splits)
    /\ LET first == query[q].claimed + 1
           last == Min({query[q].claimed + site.claim, Len(query[q].splits)})
       IN  OpenStream(q, r, w, [i \in 1..(last - query[q].claimed) |-> first + i - 1])
    /\ UNCHANGED <<site, key, versions, memo, spent>>

\* An attempt is given up, and its splits are opened again.
Retry(q, r, w) ==
    /\ reader[r].phase = "open" /\ reader[r].query = q
    /\ spent.retries < site.bounds.retries
    /\ spent' = [spent EXCEPT !.retries = @ + 1]
    /\ OpenStream(q, r, w, reader[r].claim)
    /\ UNCHANGED <<site, key, versions, memo>>

\* The next turn comes so late that the cursor is older than tokenTtl.
Outlive(r) ==
    /\ http /\ reader[r].phase = "open" /\ ~reader[r].old
    /\ spent.late < site.bounds.late
    /\ spent' = [spent EXCEPT !.late = @ + 1]
    /\ reader' = [reader EXCEPT ![r].old = TRUE]
    /\ UNCHANGED <<site, key, versions, memo, query>>

\* The cursor was sealed with this worker's key, and not longer ago than its life.
CursorOpens(r, w) == key[w] = reader[r].key /\ ~reader[r].old

\* Mutant of TurnAnswer: the version is asked for at every turn.
TurnAnswerPinned(r, w) ==
    IF ~http THEN "admitted"
    ELSE IF ~CursorOpens(r, w) THEN "invalid"
    ELSE resolveSplitPayloads(Parsed(w, reader[r].request), InitVersion, w)

\* Whether a worker carries a stream on: the cursor's seal, and the tokens in
\* the request it carries, opened again without asking for the version.
TurnAnswer(r, w) ==
    IF ~http THEN "admitted"
    ELSE IF ~CursorOpens(r, w) THEN "invalid"
    ELSE resolveSplitPayloads(Parsed(w, reader[r].request), NoVersion, w)

\* exchange: a later turn. Elsewhere than over HTTP the process that opened
\* the stream has it in memory.
Turn(q, r, w) ==
    /\ reader[r].phase = "open" /\ reader[r].query = q
    /\ http \/ w = reader[r].at
    /\ \E parsed \in {IF http THEN Parsed(w, reader[r].request) ELSE reader[r].request} :
        \/ TurnAnswer(r, w) # "admitted" /\ Fail(q)
        \/ TurnAnswer(r, w) = "admitted" /\ Produce(r, reader[r], parsed, query[q])
    /\ memo' = IF http /\ CursorOpens(r, w)
               THEN [memo EXCEPT ![w] = MemoAfter(w, reader[r].request)] ELSE memo
    /\ UNCHANGED <<site, key, versions, spent>>

\* The turn was taken and its answer lost; the engine sends the cursor again.
TurnLost(q, r, w) ==
    /\ reader[r].phase = "open" /\ reader[r].query = q
    /\ http /\ CursorOpens(r, w)
    /\ spent.lost < site.bounds.lost
    /\ spent' = [spent EXCEPT !.lost = @ + 1]
    /\ memo' = [memo EXCEPT ![w] = MemoAfter(w, reader[r].request)]
    /\ UNCHANGED <<site, key, versions, query, reader>>

\* Every split was claimed and every reader has finished.
Finish(q) ==
    /\ query[q].phase = "scanning"
    /\ query[q].claimed = Len(query[q].splits)
    /\ \A r \in Readers : reader[r].phase = "open" => reader[r].query # q
    /\ query' = [query EXCEPT ![q].phase = "done"]
    /\ UNCHANGED <<site, key, versions, memo, reader, spent>>

\* A catalog's version moves.
Publish(b) ==
    /\ versions[b] <= site.bounds.publications
    /\ versions' = [versions EXCEPT ![b] = @ + 1]
    /\ UNCHANGED <<site, key, memo, query, reader, spent>>

\* A worker starts again with another key, and nothing parsed.
Rotate(w) ==
    /\ http /\ spent.rotations < site.bounds.rotations
    /\ spent' = [spent EXCEPT !.rotations = @ + 1]
    /\ \E k \in Keys : key' = [key EXCEPT ![w] = k]
    /\ memo' = [memo EXCEPT ![w] = <<>>]
    /\ UNCHANGED <<site, versions, query, reader>>

\* What the engine does for a query of its own.
Progress(q) ==
    \/ \E w \in Workers : PlanPage(q, w) \/ ScanUnplanned(q, w)
    \/ \E r \in Readers, w \in Workers : Claim(q, r, w) \/ Turn(q, r, w)
    \/ Finish(q)

Next ==
    \/ \E q \in Queries : Progress(q)
    \/ \E q \in Queries, r \in Readers, w \in Workers : Retry(q, r, w) \/ TurnLost(q, r, w)
    \/ \E r \in Readers : Outlive(r)
    \/ \E b \in DOMAIN site.backends : Publish(b)
    \/ \E w \in Workers : Rotate(w)

\* The engine goes on with every query; nothing else need happen.
Fairness == \A q \in Queries : WF_vars(Progress(q))

Spec == Init /\ [][Next]_vars /\ Fairness

-----------------------------------------------------------------------------
(* Properties. *)

Covers(batches, row) == {i \in DOMAIN batches : batches[i].lo <= row /\ row < batches[i].hi}

\* A scan gives every row of the function once, with the columns the query
\* asked for, whatever was opened again, sent again, or taken by another
\* worker; and never a part of them. (emitNext, resolveSplitPayloads,
\* parseCarriedInitRequest: splits.ts:189, function.ts:156,
\* carried-init-request.ts:112)
RowsExactlyOnce ==
    \A q \in Queries :
        LET batches == query[q].batches
        IN  /\ \A i \in DOMAIN batches :
                  /\ 0 <= batches[i].lo /\ batches[i].hi <= f(q).n
                  /\ batches[i].columns = site.queries[q].columns
            /\ \A row \in 0..(f(q).n - 1) :
                  /\ Cardinality(Covers(batches, row)) <= 1
                  /\ (query[q].phase = "done" /\ f(q).name # "split_zero") => Covers(batches, row) # {}

\* The splits of one run of a query were all admitted under one version of the
\* catalog. (liveSplitAnchor, openSplitToken: function.ts:88, split-token.ts:272)
OneSnapshot == \A q \in Queries : Cardinality(query[q].admitted) <= 1

\* A stream once admitted is carried on by every worker its cursor opens at: it
\* is refused by one of another key, or when the cursor is older than tokenTtl,
\* and never because the catalog moved on or for what another stream carried.
\* (checkAnchor, tokenTtl: function.ts:148, 374, fetch.ts:47)
AdmittedRunsOn ==
    \A r \in Readers, w \in Workers :
        (reader[r].phase = "open" /\ CursorOpens(r, w)) => TurnAnswer(r, w) = "admitted"

\* A plan is refused as expired only because the catalog has moved since it
\* was made: each run of a query again is owed to a publication of its catalog.
\* (tableFunctionPlan and init: function.ts:510, 301)
RerunsEarned ==
    \A q \in Queries :
        f(q).name # "split_stale_plan" /\ query[q].reruns > 0 =>
            home \in DOMAIN versions /\ query[q].reruns < versions[home]

\* The batches a reader emits have ascending indices, and no two batches of a
\* query have the same one. (emitNext: splits.ts:222)
IndexAscends ==
    \A q \in Queries : f(q).name = "split_batch_index" =>
        LET batches == query[q].batches
        IN  \A i, j \in DOMAIN batches :
                i < j => /\ batches[i].index # batches[j].index
                         /\ batches[i].reader = batches[j].reader => batches[i].index < batches[j].index

\* A query ends, unless it insists on a version that is not the catalog's: it
\* is not run again for ever. (liveSplitAnchor and the turns: function.ts:70, 414)
QueryEnds ==
    \A q \in Queries :
        f(q).name # "split_stale_plan" => <>(query[q].phase \in {"done", "failed"})
=============================================================================
