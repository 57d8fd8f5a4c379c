# A verification of vgi-typescript

TLA+ models of the parts of vgi-typescript that keep state across calls, processes and
turns, the TLC runs that check them on small instances, and proofs, checked by TLAPS, that
the most important results hold for every instance. Paths are relative to the repository
root of vgi-typescript.

## 1. The system

vgi-typescript is the TypeScript implementation of VGI: a worker process serves functions
(scalar, table, table-in-out, table-buffering, aggregate, COPY) and catalogs to DuckDB over
an RPC protocol of Arrow batches. The transport is either a byte stream (stdio, socket:
a connection keeps its handler objects in the memory of one process) or HTTP (any turn of a
stream may reach any worker process, which rebuilds the handler from a sealed state token
that the client sends back). Worker processes share one function storage: SQLite, or a
Cloudflare Durable Object.

| component | state | operations | what is hard | what makes it correct |
|---|---|---|---|---|
| catalog publication (`src/catalog/publication.ts`, `s3-publication.ts`) | per process: manifest cache, pending publications; shared: one manifest per key in S3 | warm, import, invalidate, invalidateCached | several processes publish, renew and remove one key with conditional requests whose answers may be lost; expiry; crashes | whoever publishes, all hand out a manifest that was committed and is readable; one object per key; nothing unverified becomes durable |
| table-in-out streams (`src/functions/table-in-out.ts`, `continuation.ts`) | user state and morePending per stream; worker states and finalize log in the storage | globalInit, INPUT turn, continuation tick, FINALIZE turn | turns of one stream in several processes, several streams in one process; finalize() consumes what it reads | every turn folded in exactly once; finalize() once; its batches once each and in order; client and worker agree about pending output |
| stream init and exchange (`src/protocol/handlers/function.ts`, `state-serializer.ts`, `carried-init-request.ts`) | state token; memo of parsed init requests | bind, init, exchange, plan, statistics | what the token loses is lost only over HTTP | a rebuilt handler continues like the one it replaces |
| function storage (`src/functions/storage.ts`, `storage-cf-do.ts`) | work queue, worker states, key/value state, log | push, pop, clear, put, collect, scan, append, executionClear | Durable Object requests delayed, duplicated, answered late or unreadably; paging | each call acts once; nothing is handed out twice, or left behind by a call that could read its answers |
| dynamic filter pushdown (`src/filter-pushdown`) | predicates, revisions, compacted delta history in the token | snapshot, delta, record, replay, evaluate | stale and repeated revisions, removal and re-adding, compaction | a rebuilt stream has the filters a byte stream has; the history stays bounded |
| aggregates (`src/functions/aggregate.ts`, `src/protocol/handlers/aggregate.ts`) | one file per group and execution; each process's copies | bind, update, combine, finalize, destructor | calls on one group in several processes; part-written calls; order of combine and destructor | every row counted once; a dropped group stays dropped |
| table buffering (`src/functions/table-buffering.ts`, `src/protocol/handlers/table-buffering.ts`) | buffered states, finalize cursors | process, combine, finalize stream, destructor | many partitions and processes, a destructor that clears the storage | every input reaches a finalize stream once |
| split scans (`src/split-token.ts`, `src/protocol/handlers/function.ts`, `src/functions/table.ts`) | sealed tokens; the stream's cursor; memo of parsed init requests | plan, open, init, turn | a token is redeemed later, elsewhere, on turns and attempts nobody planned, while the catalog moves; the memo finds requests by a hash | every row once, from one version of the catalog; admitted work goes on while its cursor lives; no plan is refused without a reason |
| sessions (`src/protocol/handlers/catalog`, `src/crypto.ts`, `src/attach-ticket.ts`, `src/catalog/composite.ts`, `src/request-auth.ts`) | none on HTTP but sealed attaches, transactions and tickets | attach, detach, begin, DDL, seal_attach, redeem | any worker serves any call; restarts, keys, identities, clocks; the caller comes from a call context or a scope | a call is answered from the caller's own attachment; a ticket restores the attach it seals, in its life, for its principal |
| catalog contents (`src/protocol/handlers/catalog/contents.ts`, `src/client/client.ts` loadCatalog) | one cached build per frozen catalog; the client's snapshot with version and etag | contents, loadCatalog | the version read before the lists, concurrent builds, lagging workers, revalidation | a label is true of its lists; an older snapshot never replaces a newer one; first calls share a build |
| writable catalogs (`src/examples/catalog.ts`, `catalog_contents.ts`) | schemas of each attachment, in the memory of one process; a version | DDL of schemas, tables and views | refusals and conflicts of many methods; the version must move with any change | whatever changes contents moves the version |
| read-only catalogs, registry, wire formats, Arrow layer, entry points | static data | lookups, encodings | none across calls | pure functions of their inputs |

How they interact: a client binds a function and opens streams (`init`); the handlers mint an
execution id under which all streams of one call share the storage; each HTTP turn decodes
the token, rebuilds the handler (split payloads, dynamic filters, user state), runs user
code, writes the storage and seals a new token. Catalog publication is used by the contents
handler and is otherwise independent.

## 2. The modules

| module | models | kind |
|---|---|---|
| `CatalogPublication` | the managers, the S3 or in-memory repository, expiry, failures and crashes | detailed |
| `PublicationRegister` | one publish-once register per key | abstract; `CatalogPublication` implements it |
| `CatalogPublicationProofs` | proofs about `CatalogPublication` | TLAPS |
| `TableInOutStream` | a table-in-out call: client, INPUT streams, FINALIZE stream, storage | detailed |
| `TableInOutResult` | what such a call gives, whatever carries it | abstract; `TableInOutStream` implements it |
| `StreamProofs` | proofs about `TableInOutStream` and `FilterHistory` | TLAPS |
| `FunctionStorage` | queue, worker states and log in SQLite or the Durable Object | detailed |
| `FunctionStorageProofs` | proofs about `FunctionStorage` | TLAPS |
| `AggregateFold` | what a call does to group states | operators |
| `AggregateState` | the aggregate calls over worker processes and their files | detailed |
| `AggregateGroups` | one table of groups | abstract; `AggregateState` implements it |
| `AggregateStateProofs` | proofs about `AggregateState` | TLAPS |
| `TableBuffering` | queries over buffering functions and COPY writers in one storage | detailed |
| `TableBufferingProofs` | proofs about `TableBuffering` | TLAPS |
| `CatalogContents` | a catalog, the workers that answer catalog_contents, loadCatalog | detailed |
| `CatalogContentsProofs` | proofs about `CatalogContents` | TLAPS |
| `CatalogSchemas`, `InMemoryCatalog`, `PrivateMemoryCatalog` | the DDL of the two writable catalogs | operators |
| `CatalogSessions` | attachments, transactions and tickets over workers that restart | detailed; instantiates both catalogs |
| `CatalogSessionsProofs` | proofs about `CatalogSessions` | TLAPS |
| `SplitFixtures` | divided table functions: what they plan, start from and emit | operators |
| `TableScans` | scans of divided table functions: plan, redemption, streams, retries | detailed; uses `SplitFixtures` |
| `TableScansProofs` | proofs about `TableScans` | TLAPS |
| `PushdownFilters` | filters of a scan as data: snapshot, delta, order | operators |
| `FilterHistory` | the filters of an HTTP stream turn by turn, next to those of a byte stream | detailed, with its own reference |
| `MC*` | instances for TLC | |

### CatalogPublication

One action is one `await` of the code: the remote request completes, and the code runs on
to the next request. A call's `pc` names the request it waits for: `lookup`, `renewGet`,
`renewPut`, `renewLookup`, `readExisting`, `build`, `readMine`, `commit`, `commitLookup`,
`readWinner` (the path of `recoverOrPublish`, `validate`, `commitIfAbsent`, `renew`),
`dropGet`, `dropDelete` (a manifest that is not readable is removed before a new
publication), `await`, `invLookup` (`invalidate`), `joined` (a caller awaiting the promise of
another). `pending[g][k]` is the shared promise, `cached[g][k]` the cache. Conditional
requests compare the manifest id, which stands for the ETag.
`RequestFails` is a request that throws without effect, `AnswerLost` a PUT or DELETE that
takes effect and then throws, `Crash` the death of a process.
`obj` stands for all that a renewal may not change; digests, compression and the envelope's
encoding are abstracted: a readback succeeds or fails. The order in which the cache drops
entries is left open, which covers the one of the code. Two things the code permits are not
modelled: a PUT or DELETE that takes effect after the client has given it up, and a build
that throws half way through the upload.

### TableInOutStream

The user state of a substream is the set of turns folded into it, so that the state
finalize() sees shows what was lost or counted twice, for any function that accumulates. A
turn is two actions, `Process` (process() or resume(), any reply) and `Put` (workerPut and
the reply), so that other streams and failures come between. `http` is chosen once.
`Rebuild` is the definition in which the transports differ: over HTTP a new handler into which the token's user state
and morePending are merged, on a byte stream the handler in memory.
The log is shared by all executions of the storage: `OtherAppends` makes gaps in its ids,
which start at 0 or 1. The client is the one in the repository generalised to several
substreams, as the DuckDB extension drives it: the FINALIZE stream opens when every INPUT
stream is closed, and no failed turn is retried: any failure fails the query. The cache
validators, projection and auto-applied filters change no state the properties see and are
left out.

### FunctionStorage

The backend and the set of operations called are chosen once. With SQLite a call is one
transaction. With the Durable Object a call is the loop of `_post`: a request, at most one
resend of the same body when `fetch` throws, and an exception after that or on an error
answer; a request whose `fetch` threw stays in `net` and may be executed at any later time.
A failure is not always an exception: of an ok answer whose body cannot be read or parsed `_post`
makes `{}`, and the call succeeds with an empty answer (`Misread`). What it took is gone, and no later
page is asked for; the history field `unread` marks such calls (section 5). The streams, and the
buffering functions, take the storage as SQLite or a Durable Object whose answers can be read.
`memo` is the Durable Object's memory of the `attempt_id`s it has executed, an assumption on
the service (`storage-cf-do.ts:7-10`), which is not in this repository; so are the pages of
`state_drain`, in the order of the keys. A pop that takes an item of no bytes
answers null (`Decoded`), as the client does. The operations work on different tables, so a run
that takes them in groups loses no interaction. `executionClear`, plain key/value state and
the scans, which change nothing, are left out.

### AggregateFold, AggregateState and AggregateGroups

`AggregateFold` is what one call does to the group states, a state being the bag of the rows
folded into it. In `AggregateState` `file[g]` is `<gid>.json`, `mem[w]` the states process `w`
holds in `stateStore`, and `job[w]` the call it serves: `Load` reads one requested group's
file (the destructor requests none), `Run` is the handler on the memory, `Store` writes or
unlinks one file of `persistGroupStates`, `Reply` answers. The handlers never await, so a
process serves one call at a time, and the steps of two processes interleave file by file.
`Throw` is a user function that throws part way, `Crash` the death of a process.
The engine is not in the repository. Taken from it: every thread sinks into groups of its
own, merges them once into those of the result, and drops them; a group is named by one call
at a time; a failed call ends the query. With two calls on one group at once the files would
lose an update: re-reading them (`aggregate.ts:271-274`) does not make the read and the write
one step. `AggregateGroups` is the promise: one table of groups, on which a call under way acts at once
and once (`Call`); a call is answered when what it did to all its groups is kept (`Reply`); one that
fails before that leaves each group it named as before the call or as after it, the others alone, and
the engine is told, except of a destructor, whose failure is nobody's (`Fail`). The result is not asked
for after a failure, so `Fail` is no way round `Call`. The refinement maps `kept` to the files and `acted`
to the calls that are writing theirs. The execution's directory is never removed, so `context.json` is
always found. That an unlink other than of a missing file fails, which `persistGroupStates` swallows
(aggregate.ts:321), is not modelled: the group's file would then stay.

### TableBuffering

`call[q][c]` is the unary call thread `c` of query `q` has under way: sent, its metadata loaded
(`LoadParams`), run (`Process`, `Combine`, `AppendSorted`), answered or refused. No process is
named: process() and combine() keep nothing in memory, and a finalize stream that dies ends the
query. The user functions are those of the examples: one log that is drained as it was filled
(`buffer_input`), the same with a single sink thread (`ordered_buffer_input`), a run that
combine() sorts by batch index into a second log (`batch_index_buffer_input`), one finalize
stream per value (`ordered_source`), and the COPY writer, whose combine() writes the file
(`lines_writer`). The engine may give a query up at any time; its calls go on as orphans, and
the destructor does not wait for them. Over HTTP each tick starts from the token (`Resume`). The merge of
the token passes over null, so initialFinalizeState would run on every tick over HTTP if it
returned null; those of the examples return objects, so that `Resume` gives back what was there and the
transports do not differ here.
`late` remembers the batches still on their way when the destructor deleted the metadata. A
secondary init that is as late puts the metadata back, and then the rows stay: the property
leaves that case out, since whether it happens is up to the engine. It speaks only of calls no
worker has begun to serve: a process() that has loaded its metadata before the destructor deletes it
appends all the same, and nothing in the code stops it.

### CatalogContents

The catalog is a log of changes; a worker sees a prefix of it (`seen`), and a list is the number
of changes of its kind the worker sees when it reads it, so that older and newer lists can be
told apart (a drop is a change like a creation). The catalog is the application's: the model
takes from the code that `version()` is read first (contents.ts:110), then the etag, then each
list in an await of its own, in any order (interface.ts:1156). `Silent` are kinds whose changes
`version()` does not count: only a catalog with `catalogContentsAttachIndependent` promises that
there are none (interface.ts:585-595). `mode` is how the catalog answers, chosen once: with an
etag of its own made of its version (`ContentsRevalCatalog`), with the content hash
(`ContentsHashCatalog`), with version 0 and no etag (`ContentsMemoryCatalog`), frozen with one
cached build per worker process, or published. A frozen catalog is given the content hash, the
richer of its two settings. Of the publication only the effect is taken, a version's lists are
found, or built and committed if absent, or something fails, since `CatalogPublication` has
the protocol; `onPublicationFailure` is left open at each failure, and the policy's own etag is
left out. `call[c]` is a client's load: the `catalog_contents` request at a worker, or the
per-schema reads it falls back to, each of which any worker may answer. `Load`, `Received` and
`FallBack` are `loadCatalog`, `ReadVersion` to `PublicationFails` are `serveCatalogContents`.

What the code does here and no run refutes, since it is not promised in so many words: a
`not_modified` answer carries a version that was read before its etag, so revalidation may
lower the version a client knows, and an older answer is adopted after it; a snapshot may be
newer than its label, so the lists of a later answer with the same label may be older
(client.ts:812-814 calls it the committed catalog at `catalog_version`); and when the first
build of a frozen catalog fails, all that waited for it build again, each its own
(contents.ts:146-156), although "concurrent first calls build once" (contents.ts:33).
`KnownVersionKept` therefore compares lists with the version the client knows, and
`FirstCallsShareBuild` excepts failed builds.

### CatalogSchemas, InMemoryCatalog, PrivateMemoryCatalog and CatalogSessions

The two writable catalogs are operators from the schemas of an attachment and a request to an
answer ("refused", "kept", "changed") and the schemas after it, one per method, with the order
of the refusals and the conflict modes of the code. What a table or a view holds is one value,
a comment and, for a view, a column's comment. The catalogs differ: `InMemoryCatalog` drops a
schema with its objects whatever `cascade` says and overwrites the target of a rename;
`PrivateMemoryCatalog` needs a nested schema's parent and refuses to drop one in use.
`Apply` is the dispatch, and refuses what a catalog does not override.

In `CatalogSessions` a deployment (`site`) fixes the transport, whether the host opens a scope
per request, the catalogs and who calls. A value is the ideal seal of 16 random bytes (`uuid`)
and the catalog's bytes: `route` is the byte a composite stamps, `id` what the catalog put after
it. Values, tickets and transactions are never taken back: any caller may send any of them to any
worker at any time, so the properties ask what each worker *would* answer. `ReadAnswer`,
`ScanAnswer`, `DdlAnswer`, `TransactionAnswer` and `Redeemed` are those answers; the actions are
the calls that change something. `ScanAnswer` goes through bind, which knows its caller, and the
stream's init, which asks `currentRequestAuth`. Time is in half seconds, because a life is counted
in whole seconds of the sealing worker's clock and clocks are not; `drift` holds each clock's
lead. `InMemoryCatalog` keys its attachments on all bytes and `PrivateMemoryCatalog` on all but the
first, which a composite stamps over: `KnowsItsValues` is the difference, and behind a composite an
`InMemoryCatalog` finds none (section 5). That the byte is by chance the stamp's already, one in 256, is
left out. The claims carry the catalog's name and options; resume data, version specs and
the encoding of options are left out.

### SplitFixtures and TableScans

`SplitFixtures` is the split fixtures of `src/examples/splits.ts` as functions: the ranges, the
page of a plan, what `onSplit` refuses, a reader's state and `emitNext`. Rows are numbers and a
batch is a range of them. In `TableScans` a token is a record of its payload, the bind, the anchor
and the key it was sealed with; one identity calls, since `CatalogSessions` has the rest. `PlanPage`
is a table_function_plan call, `OpenStream` an init with what follows it in the same request,
`Turn` an exchange: over HTTP by any worker, from the cursor, with the tokens opened again without
the version and the request found in the memo (`Parsed`, `MemoAfter`). A cursor opens at a worker of the
key it was sealed with, for `tokenTtl` (an hour by default) after the turn that made it; `Outlive` is a
turn that comes later than that, and a turn that is answered brings a new cursor (`CursorOpens`). The
library that seals the cursor is not in this repository: that it refuses an old one is taken from
the option handed to it (http/fetch.ts:46-47, 199, 238). For the cursors of the other streams such a
refusal is one of the failures of a turn. A catalog's `version()` is
`Version`: a composite routes by the first byte of the attach, and `rawRoute` is what that byte is
in the attach as the client sends it, which is what plan asks with (`PlanVersion`); init asks with
the opened one (`InitVersion`). The engine is not in this repository. Taken from it and from the
comments: readers claim splits in their order, `claim` at a time; what an attempt emitted counts
when the attempt has finished (`Produce`), so an attempt may be dropped and made again (`Retry`); an
answer lost is asked for again with the same cursor (`TurnLost`); a refusal as expired runs the
query again (`RunAgain`), any other fails it; an engine handed pages for ever gives up after
`MaxPages`.

### PushdownFilters and FilterHistory

Predicates in order and a revision for every id ever seen, as in `PushdownFilters` of the
code; a delta has up to `MaxUpdates` updates of different ids, and may have none. Expressions are names, some of which
the strict parser accepts. `live` is the reference: the filters a byte stream, which keeps
them in memory, has after the same deltas.

## 3. The runs

| run | question | instance |
|---|---|---|
| `publication_s3` | do racing managers with failing requests serve, keep and replace the right manifest, and implement the register? | 2 managers, 3 calls, 1 key, 2 objects, 4 ids, 3 ticks |
| `publication_local` | does every call end, whatever it waits for? | 1 manager, in-memory repository, 2 calls, 2 keys, cache of 1, a foreign manifest |
| `table_in_out` | does a call over byte streams or HTTP count every turn once, whatever process serves it, deliver all of finalize(), and end? | 2 substreams, 2 processes, 2 inputs of 2 replies, 2 batches, both transports |
| `table_in_out_no_ids` | does a client without substream ids get the same over HTTP? (no) | 1 substream, 2 processes |
| `storage` | does every call of the storage act once, whatever the network does? | 2 clients of 2 calls, pages of 1 row, 2 keys, pushes of one item or of two, one of them empty |
| `aggregate` | do calls spread over processes act as on one table of groups, and is every row in the result once? | 2 threads, 2 keys, 1 batch each of 3 shapes, 2 processes |
| `table_buffering` | does a query get its input back once and in the promised order, next to another query and its destructor, with orphaned and late calls? | 2 queries of 2 and 1 batches, 2 sink threads, 1 pooled, 5 functions |
| `catalog_contents` | are a snapshot's labels true, is an older one never adopted, is what is published one version, do first calls share a build? | 2 clients, 2 workers, 2 lists (1 silent), 2 changes, 3 loads, 5 modes |
| `filter_history` | is a history that a token carries bounded, and does its replay give the filters, their order and revisions? | 2 ids, revisions 0 and 1, 2 expressions, 4 snapshots, deltas of up to 2 updates |
| `catalog_sessions` | is a call answered from the caller's own attachment, a ticket good for what it seals, a change of contents visible in the version? | 7 deployments, 2 workers, 2 keys, up to 4 callers, 2 attaches, 2 tickets, 1 transaction, 3 changes, 1 restart, 7 ticks |
| `table_scans` | does a divided scan give every row once, of one version, and end? | 17 deployments, 2 queries, 2 readers, 2 workers, 2 keys, up to 5 rows, 3 pages of 2 splits, 2 publications, 2 late turns |
| `table_scans_sibling` | is a plan refused as expired only if its catalog moved? (not under a composite whose other backend answers for it) | 2 rows, 2 splits, 2 publications |

Why the bounds are enough. Publication: every race of the code is between two managers and
a third call that joins or removes; the objects and ids allow each manager its own
publication and two renewals; three ticks carry a manifest from fresh through the grace
period. Streams: two substreams and two processes give both sharings (one process with two
substreams, one substream on two processes), two replies give a tick, two inputs a turn
after a tick, two batches a continuation of the FINALIZE stream. Storage: a duplicate needs
a call that returned and a later one, by the same or another client: two calls each; two
keys and pages of one row give a drain of two pages, either of which may arrive unreadable (1,633,531
states). Aggregates: a group of the result is
merged into by two threads and then read, so a process meets a group again that another has
written; two keys give calls of several files; the shapes give groups with rows, with NULL
rows only, and with none (508,434 states). Buffering: two threads give
every order of two appends, one pooled thread a secondary init, and the other query's rows and
DELETEs fall between any two steps. Contents: two changes, one the version
counts and one it does not, fall before, between and after the reads of the version and of two
lists on either worker; three loads give two clients' races and a load that revalidates what
an earlier one left. Filters: with two ids and revisions 0
and 1 an id can be in the snapshot, installed, stale, removed and moved to the end; the
histories of all reachable lengths are explored without a bound on the ticks. Sessions: two workers
and one restart give an attachment whose memory is there, elsewhere and gone; two identities of one
principal, one of another and none give every way two callers can differ; seven ticks of half a
second are enough to seal at either clock, and to pass the end of a life of one second by two
allowances of one second; three changes give a schema made, filled and changed;
the seventh deployment has an `InMemoryCatalog` behind a composite (99,397 states).
Scans: two publications give a query that is run again twice; two readers on two workers give a
turn by a worker that did not open the stream; a memo of one entry with two queries evicts and
collides; each fixture has its own deployment, so that its ranges, empty ranges, pages, failures
and indices all occur; a split has exactly as many batches as the `Stride` of 2 keeps indices for
and two late turns, in one deployment, let a cursor grow old, be refused, and be replaced by a
turn that comes in time (60,845 states). `reruns` is counted up to one more than the publications:
beyond that `RerunsEarned` is violated anyway, and the count saturates, so `QueryEnds` sees a
livelock as a cycle.

Fairness. `publication_local` assumes that a call that can go on does so: each request of
the code ends within its `AbortSignal.timeout`, and the application's build is assumed to
end. `table_in_out` assumes that the client goes on reading and that the worker answers
or fails; both are one weak fairness condition over the whole party, none over a single
branch. `table_scans` assumes that an engine goes on with each of its queries, one weak condition
per query: nothing is assumed of publications, retries, lost answers or key changes. The bounds of the other runs stop the system, so deadlock is not checked: every
bounded call ends.

Disagreements between code and documentation that the violation runs show are listed in
`PROJECT.json` under `findings`, each with the lines; others met while modelling are in section 5.

Each component's type invariant is checked as part of a stronger one (`ActsOnce`, `HistoryBounded`)
or proved (section 4), and is not a run's property of its own; so are `FinalizeRunsOnce` and
`InitialStateOnce`, which `DeliveredInOrder` and `OutputExact` need.

## 4. The proofs

`CatalogPublicationProofs` proves for any number of managers, calls, keys, objects and ids
and any durations: the types (`TypeCorrect`), that a caller is handed only manifests the
repository held (`OnlyCommittedServed`), that nothing unverified is durable or cached
(`OnlyVerifiedDurable`), that all publishers of a key nobody removed agree on its object
(`PublishersAgree`), that a manager runs one publication of a key at a time
(`PublicationShared`), and that the whole implements `PublicationRegister`
(`ManagersImplementRegister`). The assumptions are those on the constants: durations are
naturals and the null values are none of the values they stand in for.

The inductive invariant `IInv` has five parts: `TypeOK`; `CallsOK`, what a call at each `pc`
holds (the manifest it saw was committed, the one it made is of its key and was read back
once past `readMine`); `RepoOK`, what is in the repository is committed and verified, and
all that was ever committed for a key nobody removed shares one object; `CachedOK`, what is
cached is committed and verified; `LeadersOK`, a call that leads a publication of its key is
the pending one of its manager. The served manifests are no induction on their own: what a
call returns is what it held several requests earlier, hence `CallsOK`, and a renewal keeps
the object only because what it saw was committed, hence `RepoOK`. Every action ends in one
of few shapes (`Goto`, `Begin`, `End`, `Return`, `Throw`), each with a lemma of its own, so an
action's step cites the shape's lemma and shows only what it adds. The refinement is proved
from the same invariant: a step changes a key's register only by a publication, a renewal or
a removal (`Moves`).

Two more theorems need to know when and as whom a call acts: `ServedLasts`
(`ServedStaysReadable`), what warm returns stays readable for the grace period less the requests
between check and answer, and `OnlyAsSeen` (`ReplacedOnlyAsSeen`), a manifest leaves the repository
only by a call that saw it. Their invariant `TInv` adds four parts: `TimelyOK`, a manifest that passed
a check has at least the grace period left at the time of that check, which is no more than the
requests made since then ago; `WaitsOK`, who joins a publication joins a warm; `MintedOK`, an id
names one manifest, ever, those of other applications included (`ForeignAssumption`); `OwnOK`, what a
warm built is its own until it is committed: nobody else has it and no lookup finds it. From the
last two, what is replaced is what the call compared with.

`StreamProofs` proves every safety property of `table_in_out` for any number of
substreams, processes, inputs, replies and batches and both transports: the types
(`TypeCorrect`), that no turn is refused (`TurnsNeverRefused`), that finalize() runs once
(`FinalizeOnce`) and its batches arrive in order and completely (`BatchesInOrder`), and, for a
client that sends substream ids, that a stored row is what the next turn starts from
(`RowsAreCarried`), that finalize() is handed every turn once (`EveryTurnCountedOnce`) and that
the streams implement `TableInOutResult` (`StreamsImplementResult`). The last three assume
`SendsIds`, without which `table_in_out_no_ids` refutes them. Counting turns in finalize()'s
hands needs to know all rows beforehand, so `IInv` says what the storage is at every step:
`RowsOK`, exactly one row for each substream with an answer, its state the turns answered
(`Mine`), until finalize() takes them all; `StreamsOK`, what a stream's next turn starts from is
`Mine` too, but for the one turn folded and not yet stored, and both sides know whether output is
pending; `PhaseOK`, no stream is open once the FINALIZE stream is, and its flag says whether
finalize() has run; `LogOK`, the log holds the first batches with growing ids and the cursor is
the id of the last row received. Each of these parts has a step lemma, and each action of an
INPUT stream a lemma that gives the one stream it moves (`OpenMoves` to `CloseMoves`).

The same module proves both properties of `filter_history` for any ids, revisions, expressions and
snapshots and any number of updates in a delta: `HistoryStaysBounded` (`HistoryBounded`) and
`ReplayIsExact` (`RebuiltIsLive`). The first needs only that each delta of the history is the first to
carry some id's revision (`HistoryWanted`), which gives each delta an id of its own. The second is no
induction on its own: that the replay of a history gives some filters says nothing of the replay of
the compacted one. `Leads` says it of the deltas instead: what the filters have of an id is as in the
snapshot, or is an update of the first delta with that revision (`Source`), and no delta has a newer
one. A delta that acts leads on (`LeadsOn`), compaction keeps the sources (`KeptLeads`), and any deltas that
lead to some filters are replayed to them (`ReplayLeads`), because an id stays behind until its source
and is stale afterwards (`Nears`); `OrderRestores` puts the predicates in their places. The loops over
updates, deltas and history are recursive functions, shown to have values by `LoopExists`.
`ReplayIsExact` assumes `ExprsParse`, that every expression a delta brings is one the parser accepts:
without it a replay may refuse what was stale on arrival (section 5). The other assumptions are that a
snapshot names no id twice (`SnapshotsAssumption`) and that the value of an error is no filter state.

`AggregateStateProofs` proves `DroppedStaysDropped` for any number of threads, keys, batches
and processes (`DroppedGroupsStayDropped`), from the assumptions on the engine's calls. The
property is no induction on its own: a process that still held a dropped group's state could
write it back. The invariant `IInv` says who could: a process writes only groups of its call
(`CallsStand`), no two calls in flight name one group (`Exclusive`), Main asks for nothing
before the threads have merged (`MainLast`), a destructor has its groups out of memory before it
unlinks their files (`Destroying`), and no call in flight names a dropped group
(`DroppedOver`). The steps that end a call share the lemma `EndStep`, those that start one
`SendStep`.

The refinement `ImplementsGroups` (`ProcessesImplementGroups`) and the answer (`AnswerIsExact`, by
`AnswerHasEveryRowOnce`) rest on `IInv`. `Loads` says that what a process has read for its call is what
the engine sees of those groups until the call runs, because no other call writes them in between
(`OneWriter`); so the call acts on the table of groups, although the process's memory may hold old
states of all the others. The one call a process is at is the one that acts (`ServesAlone`, `ActedOf`), so
each step of a process is a step of the promise or none: `RunRefines` the call, `StoreRefines` what is
kept of it, `ReplyRefines` its answer, which waits for all files, and `ThrowRefines` and `CrashRefines` its
failure, after which the engine sees the files of its groups, each as before the call or as after
(`FailRefines`). That a call neither reads nor changes a group it does not name
(`EffectElsewhere`, `EffectAlike`) is, for a merge batch, an induction over its pairs: `Climbs` is
induction for a set, from the well-foundedness of the naturals, and `CombinedAlike` uses it, which is
why `AggregateFold` defines a merge batch by a recursive function (`After`). `EInv` adds what the groups
hold: until a call fails, each row that has been absorbed is in one group, its thread's own or, once
the thread has merged, that of its key in the result (`Exact`), with ids that no other batch has
(`IdsStand`); and no failure is behind a result that is asked for (`AskedClean`). `CombinedIs` gives
what a merge of a thread's groups leaves, `StatesJoin` that the bags of disjoint sets of rows add up to
that of their union. Besides the engine's calls the theorems assume that a query has finitely many keys
(`KeysAssumption`) and that no state is the value that stands for its absence (`NoStateAssumption`).

`TableBufferingProofs` proves for any number of queries, threads, batches and finalize ids, any
functions and both transports: the types (`TypeCorrect`), that initialFinalizeState runs once per
stream (`InitialStateCorrect`), that no live query is refused (`RefusalCorrect`) and that nothing
a dead query had on its way leaves a row (`DestructionCorrect`). The assumptions are that a query
has a sink thread, that Main is none, and the types of the constants. `InitsStand` counts the runs by
the stream's marker. The other two share the invariant `Stands` of a query, in four parts:
`PhaseStands`, in which phases the metadata is there and who may call; `CallsStand`, what each
kind of call may be doing, that no two threads hold the same batch and that combine() runs alone;
`RowsStand`, a stored batch is not held by a call that has yet to append; and `LateStands`, once the
metadata is deleted under calls on their way, no init and no combine() is left to bring it back or
to append, and those calls can only be refused. `RowsStand` is why the destructor, when it
notes what is late, finds none of it in the log. `Elsewhere` says that a step of one query leaves
the others' calls, metadata and rows alone, so each action is shown for its own query only.

The output (`OutputExact`, by `OutputCorrect`) rests on a further invariant of each query, `Exact`,
next to `LogStands`, that ids tell the rows of all queries apart. It follows a batch from the engine's call
to what the query is handed. `LogExact`: a batch has at most one row per namespace, and the rows of the
ordered functions are in the order of their batches, which one sink thread or the sort of combine()
gives them. `NothingMissing`: until the query fails, each batch that was sunk is with a process() that
has not appended or has its row (`Sunk`), and combine() has the rest in its sorted run (`Sorted`) or
file (`Written`). `RunStands`: the sorted run grows behind what it already has. `DrainStands`: a
drain has given out exactly what its cursor, or the streams' `emitted`, are past, and has all when it
ends; `OutStands` is what is promised of the output, with all batches once the query is done. A cursor
says what was given only because the rows cannot change behind it: no call of the query is left
(`StillStands`), and other queries' calls write only their own rows (`ExactElsewhere`). `AllOnce`
counts: an output with every batch and none twice is as long as the input. No constant needs an assumption
beyond those above.

`CatalogContentsProofs` proves for any number of clients, workers, lists, changes and loads, any
silent lists and every mode: the types (`TypeCorrect`), that labels are true (`LabelsCorrect`),
that no snapshot replaces one it does not reach (`KnownVersionCorrect`) and that first calls share
a build (`BuildShared`). The assumptions are the types of the constants and that the null values
are none of the values they stand in for. Of the invariant, `LogStands` says that no worker sees
more than there is and that a frozen catalog has no changes;
`LoadsStand` what the lists a load has read reflect (those read so far are at
least as long as when the label was read, and so is the catalog's etag, which is read later) and
how a hash etag fixes both version and lists; `BuildsStand` that a worker's only build is the
cached one unless one failed (`OneBuild`) and that no two loads finish the same build
(`BuildsOwned`). `LabelsAreTrue` is no induction without `LoadsStand`: an answer is labelled
several reads before it is adopted. Versions and lists are counts along the log, so the
lemmas `Monotone` and `LogGrows` carry a label over changes made since.

`CatalogSessionsProofs` proves every property of `catalog_sessions` for any deployments, callers,
options, requests, keys, numbers of workers, attaches and restarts, and any clocks no further apart
than twice the allowance: `AnsweredToItsCaller`, `NotRefusedOwn`, `TicketRestores`, `TicketLives`,
`TransactionBound` and `VersionsMove`, with the types (`Typed`). The assumptions are the types of the
constants and that no key is the null key. `IInv` says what was given out and what is kept:
`AttachedStand`, each value is the seal of what was attached and no two share their random bytes;
`MemoryStands`, a worker's memory holds exactly the attachments made at it since it started and not
detached; `BegunStand` and `TicketsStand`, what transactions and tickets were sealed with and how
claims relate to what was asked, allowed and the sealer's clock. None of the answers is an induction
on its own, since the value is opened long after it was sealed; each follows from the seal and
the memory as `IInv` has them. `NotRefusedOwn` excepts, in `OwnNotRefused` itself, an `InMemoryCatalog`
behind a composite, which the deployments of the theorem may have and the code never answers from. `VersionsMove` goes through the methods of both catalogs one by one.

`TableScansProofs` proves `OneSnapshot`, `AdmittedRunsOn` and `RerunsEarned` for any queries,
functions, readers, workers, keys, memo sizes and hashes. The hypothesis is `AttachKeptApart`: the
attach as sent leads to no other catalog that answers for its version; `table_scans_sibling`
refutes `RerunsEarned` without it. `AdmittedRunsOnHolds` says that a worker of the cursor's key refuses
no cursor within `tokenTtl`; an older one it does refuse, and the query fails. `IInv` has, besides the types, `StreamsStand`, an open stream's
tokens are those of its bind, sealed with its key, and each memo entry is the parse of its own
bytes (`ParsedIsCarried`), and `RunStands`: a plan's tokens are anchored to versions not newer than
the catalog's (`Anchored`), what was admitted was admitted under a version the catalog then had
(`AdmittedUnder`), and re-runs are fewer than publications (`Earned`). `AnchorsAgree` is where the
hypothesis is used.

`RowsExactlyOnceHolds` and `IndexAscendsHolds` rest on a second invariant, `RInv`, of every query:
`PlanOK`, a plan is a part of the splits, as far as its pages go, and all of them once it is scanned;
`AnswerOK`, the batches of a query are apart, their indices ascend, and a finished query has all its
rows; `ScanOK`, a reader's state is that of the splits it claimed and the rows it has emitted
(`StreamOK`), no two readers claim one split, and a scan has the rows of the splits whose attempts
have finished and no others. That ranges divide the rows is shown of the fixtures'
functions (`EvenRangesDivide`, `WholeDivides`), for any numbers of rows and splits. Inductions along
a reader's ranges and a plan's pages are done by the least counterexample (`Least`), since the
library's induction rules cannot be used. The hypotheses besides `AttachKeptApart`: for the rows
`SplitsAskedFor`, the functions are asked for splits that have them all, so that `split_skewed` is
asked for more than one (section 5); for the indices
`IndicesSuffice`, no split has more batches than `Stride`, a positive number (`StrideAssumption`).
The hypotheses and `RInv` hold in every state of the run.

`FunctionStorageProofs` proves every property of `storage` for any number of clients and calls, any
payloads, keys and rows of a page, and both backends: `ActsOnceAlways`, `CollectTakesAllAlways` and
`LaterPutStaysAlways`. The assumptions are the types of the constants, that a push is a sequence,
and that the null of an empty pop is no item; that the service answers an `attempt_id` it knows from
memory is in the model (`Execute`, `Repeat`). The invariant speaks of `Acts`, what calls did to the
storage whichever the backend, and `Views`, the calls that returned or are under way. `CallsStand`
and `WireStand` say that a page acts once, that a page names only a later one, so a client is
never behind what was executed for it, and that requests and answers carry what their call asked and
did. `StoreStand` relates the storage to that: an item is in the queue once or popped once
(`QueueStand`), or was cleared by a call that had not returned when its push began (`PushesStand`); the
log and the rows are in the order of the calls (`LogStand`, `RowsStand`); what a collect still
owes is past the pages it has read and past the page executed for it (`CollectStand`). An answer that
could not be read tells its call nothing: `Tells` says of every other that returned what it says of the
storage, and that an item an unread one does not tell of was taken by that call's own pop. All of it
rests on one fact: a call that acts had not acted, while all the calls it comes after had. So
`Acting` states it once, for the requests of the Durable Object and the transactions of SQLite, and
each part of `StoreStand` is shown from it; `ClientSide` does the same for steps that leave the storage
alone.

Only model-checked: the liveness properties `CallsEnd` and `QueryEnds`, which TLAPS does not reach.
Every safety property of the passing runs, invariant or of steps, is proved.

## 5. What is not modelled, and where code and words part

The map covers 7.2 % of the lines of the implementation, tests left out and generated code counted, and
about a seventh without the generated code. What is left keeps no state that a second call, process or turn could meet: generated stubs
and schemas, the Arrow layer and the wire formats (columnar data and its encodings), the scalar
functions and most of the examples (pure functions over Arrow batches), the static catalog
descriptions and their validation, the function registry, metadata, landing pages, HTTP routing
and process entry points. A model of them would be the program again, line by line, with no
behaviour for a model checker to interleave. Cryptography is an ideal sealed box. Each part's own
omissions are in section 2 and under `components` in `PROJECT.json`.

Disagreements between the code and its documentation or comments, met while modelling, that no run
of its own shows:

- After the init of a stream, continuation turns hand `attach_opaque_data` to functions as the client
  sent it, prefix and seal included; so do plan, cardinality and statistics. function.ts:198-207 says
  that functions see the opened value.
- `split_skewed` with `splits := 1` plans only the first 99 of 100 rows; its comment says the row count
  is the same either way (splits.ts:350-354). No property catches it: the run of `RowsExactlyOnce` uses
  three splits, and `RowsExactlyOnceHolds` assumes more than one.
- `split_batch_index` gives each split 1000 indices of 64 rows: a split of more than 64,000 rows
  overlaps the next, although the indices are called monotonic by construction. The run's splits use
  their indices up and no more, and the theorem assumes it (`IndicesSuffice`).
- A plan of several pages is anchored page by page: if the catalog moves between two, the earlier
  page's tokens are refused and the query is run again. `OneSnapshot` shows that nothing worse happens.
- `CompositeCatalogInterface` does not route `tableColumnCommentSet`, although its DDL calls are said to
  be routed like every read (composite.ts:181): the call is refused for every backend.
- `InMemoryCatalog` keys its attachments on all bytes of the attach (catalog.ts:485-494). A composite
  overwrites the first one after the attach, so behind a composite no attachment is ever found.
- An ok answer of the Durable Object whose body cannot be read or parsed is taken for an empty one
  (storage-cf-do.ts:241-249) and not asked for again, although the Durable Object would answer its
  `attempt_id` from memory: a pop answers null, as for an empty queue, and its item is gone (112); a drain
  stops, and leaves the pages to come behind (211); an append answers NaN for its ordinal (149). `ActsOnce`
  and `CollectTakesAll` name these as the only ways to lose an item, a row or an ordinal.
- Over the Durable Object a pop consumes a work item of no bytes and answers null, as for an empty queue
  (storage-cf-do.ts:112; storage.ts:378 says both backends agree). `ActsOnce` leaves such an item out of what
  must not be lost.
- A delta one of whose updates is stale on arrival is recorded without that update's expression being
  parsed (deserialize.ts:393); when a later delta compacts away the one that made it stale, the replay
  parses it, and may fail (history.ts:224-225 says every delta was validated on arrival). The run's
  expressions are all valid.
- `invalidate` drops the cache entry before the repository's GET and DELETE (publication.ts:180): a warm in
  between caches the manifest that is being removed, and serves it until it stops being usable
  (docs/catalog-publication.md:91).

## 6. The plan

1. Filter evaluation with three-valued logic and overload resolution, as operators against reference
   definitions.
2. The macro and index calls of the catalogs, and `executionClear` and key/value state of the storage.
