--------------------------- MODULE TableBuffering ---------------------------
(***************************************************************************)
(* Queries over table-buffering functions and COPY TO writers              *)
(* (functions/table-buffering.ts, functions/copy-to.ts,                    *)
(* protocol/handlers/table-buffering.ts, the producer side of              *)
(* protocol/handlers/function.ts, and the functions of                     *)
(* examples/table_buffering.ts and examples/copy_to.ts).                   *)
(*                                                                         *)
(* The engine opens an execution (the primary init), sinks its input       *)
(* batches with process() calls of parallel threads, has the states        *)
(* combined once, and drains one finalize stream per finalize state id.    *)
(* process() and combine() are unary calls that any process may serve:     *)
(* each loads the execution's init metadata from the shared storage.  When *)
(* the query ends, however it ends, the engine calls the destructor.       *)
(*                                                                         *)
(* The engine is the DuckDB extension, which is not in the repository.  It *)
(* may give a query up while calls are still on the way or running in a    *)
(* worker: those are orphans, and nobody waits for them.                   *)
(***************************************************************************)
EXTENDS Integers, Sequences, FiniteSets

CONSTANTS
    Queries,    \* executions that share the storage
    Threads,    \* Threads[q]: the sink threads of q
    Pooled,     \* threads whose connection is another worker's of the pool
    Main,       \* the thread that initialises and combines
    Inputs,     \* Inputs[q]: how many input batches the engine has for q
    Sources,    \* how many finalize ids ordered_source returns
    Kinds       \* Kinds[q]: the functions that q may call

Functions == {"buffer_input", "ordered_buffer_input", "batch_index_buffer_input",
              "ordered_source", "lines_writer"}

ASSUME BufferingAssumption ==
    /\ \A q \in Queries : Main \notin Threads[q] /\ Threads[q] # {}
    /\ Inputs \in [Queries -> Nat] /\ Sources \in Nat
    /\ Kinds \in [Queries -> SUBSET Functions]

VARIABLES
    http,      \* TRUE: a tick starts from a state token; FALSE: from memory
    kind,      \* the function a query calls
    phase,     \* where the engine is
    next,      \* the next input batch to sink
    call,      \* call[q][c]: the unary call of thread c
    joined,    \* threads that opened a sink stream of their own
    known,     \* whether the init metadata of q is in the storage
    log,       \* the storage's append-only log
    lastId,    \* the last id the log gave out
    fids,      \* finalize ids the engine was handed
    stream,    \* stream[q][f]: the finalize streams
    out,       \* batches the engine, or the written file, has
    inits,     \* history: runs of initialFinalizeState on a stream
    late       \* history: batches on their way when the metadata was deleted

vars == <<http, kind, phase, next, call, joined, known, log, lastId, fids,
          stream, out, inits, late>>

Callers(q) == Threads[q] \cup {Main}
Batches(q) == 1..Inputs[q]
FinalizeIds == 0..Sources

Live == {"init", "sink", "combine", "drain"}
Phases == {"new", "done", "failed", "clearing", "gone"} \cup Live

\* todo: batches of the sorted run that combine() has not appended yet.
Calls == [op : {"none", "init", "process", "combine"},
          at : {"idle", "sent", "loaded", "writing", "answer", "refused"},
          batch : Nat, todo : SUBSET Nat]
Idle == [op |-> "none", at |-> "idle", batch |-> 0, todo |-> {}]

\* A finalize state: a cursor past the log's rows, or whether the value was
\* emitted.  Uninit is the marker __tbf_uninit.
FinalizeStates == [afterId : Int, emitted : BOOLEAN]
Uninit == [uninit |-> TRUE]

\* The types of the calls, of the streams and of the storage.
TypeOK ==
    /\ http \in BOOLEAN
    /\ kind \in [Queries -> Functions]
    /\ phase \in [Queries -> Phases]
    /\ next \in [Queries -> Nat \ {0}]
    /\ DOMAIN call = Queries
    /\ \A q \in Queries : call[q] \in [Callers(q) -> Calls]
    /\ joined \in [Queries -> SUBSET Pooled]
    /\ known \in [Queries -> BOOLEAN]
    /\ log \subseteq [id : Nat, query : Queries, ns : {"buf", "unsorted", "shard"}, batch : Nat]
    /\ IsFiniteSet(log) /\ lastId \in Nat
    /\ fids \in [Queries -> SUBSET FinalizeIds]
    /\ stream \in [Queries -> [FinalizeIds -> [at : {"new", "open", "end"},
                                               state : FinalizeStates \cup {Uninit}]]]
    /\ out \in [Queries -> Seq(Nat)]
    /\ inits \in [Queries -> [FinalizeIds -> Nat]]
    /\ late \in [Queries -> SUBSET Nat]

Init ==
    /\ http \in BOOLEAN
    /\ kind \in {k \in [Queries -> Functions] : \A q \in Queries : k[q] \in Kinds[q]}
    /\ phase = [q \in Queries |-> "new"]
    /\ next = [q \in Queries |-> 1]
    /\ call = [q \in Queries |-> [c \in Callers(q) |-> Idle]]
    /\ joined = [q \in Queries |-> {}]
    /\ known = [q \in Queries |-> FALSE]
    /\ log = {}
    /\ lastId = 0
    /\ fids = [q \in Queries |-> {}]
    /\ stream = [q \in Queries |-> [f \in FinalizeIds |-> [at |-> "new", state |-> Uninit]]]
    /\ out = [q \in Queries |-> <<>>]
    /\ inits = [q \in Queries |-> [f \in FinalizeIds |-> 0]]
    /\ late = [q \in Queries |-> {}]

-----------------------------------------------------------------------------
(* The storage, bound to one execution                                     *)

\* stateAppend: the ids are those of one AUTOINCREMENT for all executions.
StateAppend(q, ns, b) ==
    /\ log' = log \cup {[id |-> lastId + 1, query |-> q, ns |-> ns, batch |-> b]}
    /\ lastId' = lastId + 1

\* What stateLogScan reads past a cursor.
StateLogScan(q, ns, afterId) ==
    {r \in log : r.query = q /\ r.ns = ns /\ r.id > afterId}

\* Of what a scan reads, the row it gives first.
IsFirst(r, rows) == \A o \in rows : r.id <= o.id

\* The rows in the order of the log.
InLogOrder(rows) ==
    {s \in [1..Cardinality(rows) -> rows] :
        \A i, j \in DOMAIN s : i < j => s[i].id < s[j].id}

-----------------------------------------------------------------------------
(* The engine: init, sink and combine                                      *)

Send(q, c, op, b) ==
    call' = [call EXCEPT ![q][c] =
                [op |-> op, at |-> "sent", batch |-> b, todo |-> {}]]

\* The primary init; the execution it mints stands for the query.
Start(q) ==
    /\ phase[q] = "new"
    /\ phase' = [phase EXCEPT ![q] = "init"]
    /\ Send(q, Main, "init", 0)
    /\ UNCHANGED <<http, kind, next, joined, known, log, lastId, fids, stream, out, inits, late>>

\* A secondary init: another worker of the pool is told the execution_id.
Join(q, t) ==
    /\ phase[q] = "sink" /\ t \in Pooled \ joined[q] /\ call[q][t] = Idle
    /\ joined' = [joined EXCEPT ![q] = @ \cup {t}]
    /\ Send(q, t, "init", 0)
    /\ UNCHANGED <<http, kind, phase, next, known, log, lastId, fids, stream, out, inits, late>>

\* sinkOrderDependent: the engine sinks with a single thread.
SinkOrderDependent(k) == k = "ordered_buffer_input"

\* A thread takes the next input batch and sinks it.
SendBatch(q, t) ==
    /\ phase[q] = "sink" /\ call[q][t] = Idle /\ next[q] <= Inputs[q]
    /\ SinkOrderDependent(kind[q]) => \A o \in Threads[q] : call[q][o] = Idle
    /\ next' = [next EXCEPT ![q] = @ + 1]
    /\ Send(q, t, "process", next[q])
    /\ UNCHANGED <<http, kind, phase, joined, known, log, lastId, fids, stream, out, inits, late>>

\* All batches are sunk: one combine() for all state ids.
SendCombine(q) ==
    /\ phase[q] = "sink" /\ next[q] > Inputs[q]
    /\ \A c \in Callers(q) : call[q][c] = Idle
    /\ phase' = [phase EXCEPT ![q] = "combine"]
    /\ Send(q, Main, "combine", 0)
    /\ UNCHANGED <<http, kind, next, joined, known, log, lastId, fids, stream, out, inits, late>>

\* sourceOrderDependent: the engine drains in the order of the finalize ids.
SourceOrderDependent(k) == k = "ordered_source"

\* What combine() returns: the execution itself, the ids of ordered_source, or
\* nothing for a COPY, whose output is the file.
FinalizeStateIds(k) ==
    CASE k = "ordered_source" -> 1..Sources
      [] k = "lines_writer" -> {}
      [] OTHER -> {0}

\* The answer to a call arrives; an orphan's is ignored.
Replied(q, c) ==
    /\ call[q][c].at = "answer"
    /\ call' = [call EXCEPT ![q][c] = Idle]
    /\ CASE phase[q] \notin Live -> UNCHANGED <<phase, fids>>
         [] phase[q] \in Live /\ call[q][c].op = "combine" ->
              /\ fids' = [fids EXCEPT ![q] = FinalizeStateIds(kind[q])]
              /\ phase' = [phase EXCEPT ![q] = "drain"]
         [] phase[q] \in Live /\ call[q][c].op = "init" ->
              /\ phase' = [phase EXCEPT ![q] = "sink"]
              /\ UNCHANGED fids
         [] OTHER -> UNCHANGED <<phase, fids>>
    /\ UNCHANGED <<http, kind, next, joined, known, log, lastId, stream, out, inits, late>>

\* A call ends without an answer: the worker refused it, user code or the
\* storage threw, or its process died.  So the query fails, if it is not over.
CallFails(q, c) ==
    /\ call[q][c] # Idle
    /\ call' = [call EXCEPT ![q][c] = Idle]
    /\ phase' = [phase EXCEPT ![q] = IF @ \in Live THEN "failed" ELSE @]
    /\ UNCHANGED <<http, kind, next, joined, known, log, lastId, fids, stream, out, inits, late>>

\* The query is cancelled, or fails elsewhere: calls under way become orphans.
GiveUp(q) ==
    /\ phase[q] \in Live
    /\ phase' = [phase EXCEPT ![q] = "failed"]
    /\ UNCHANGED <<http, kind, next, call, joined, known, log, lastId, fids, stream, out, inits, late>>

-----------------------------------------------------------------------------
(* A worker process: globalInit, process, combine                          *)

Advance(q, c, at) == call' = [call EXCEPT ![q][c] = [@ EXCEPT !.at = at]]

\* Mutant of GlobalInit: only the primary's connection keeps the metadata.
GlobalInitForgets(q, c) ==
    /\ call[q][c].op = "init" /\ call[q][c].at = "sent"
    /\ known' = known
    /\ Advance(q, c, "answer")
    /\ UNCHANGED <<http, kind, phase, next, joined, log, lastId, fids, stream, out, inits, late>>

\* globalInit on the sink side: the metadata is put, by the primary and again
\* by every secondary init.
GlobalInit(q, c) ==
    /\ call[q][c].op = "init" /\ call[q][c].at = "sent"
    /\ known' = [known EXCEPT ![q] = TRUE]
    /\ Advance(q, c, "answer")
    /\ UNCHANGED <<http, kind, phase, next, joined, log, lastId, fids, stream, out, inits, late>>

\* Mutant of LoadParams: missing metadata is not an error.
LoadParamsAnyway(q, c) ==
    /\ call[q][c].op \in {"process", "combine"} /\ call[q][c].at = "sent"
    /\ Advance(q, c, "loaded")
    /\ UNCHANGED <<http, kind, phase, next, joined, known, log, lastId, fids, stream, out, inits, late>>

\* loadParams: an execution whose metadata is not in the storage is refused.
LoadParams(q, c) ==
    /\ call[q][c].op \in {"process", "combine"} /\ call[q][c].at = "sent"
    /\ Advance(q, c, IF known[q] THEN "loaded" ELSE "refused")
    /\ UNCHANGED <<http, kind, phase, next, joined, known, log, lastId, fids, stream, out, inits, late>>

\* Where the functions keep their input.
InputNs(k) ==
    CASE k = "batch_index_buffer_input" -> "unsorted"
      [] k = "lines_writer" -> "shard"
      [] OTHER -> "buf"

\* process(): one append; ordered_source ignores its input.
Process(q, c) ==
    /\ call[q][c].op = "process" /\ call[q][c].at = "loaded"
    /\ IF kind[q] = "ordered_source"
       THEN UNCHANGED <<log, lastId>>
       ELSE StateAppend(q, InputNs(kind[q]), call[q][c].batch)
    /\ Advance(q, c, "answer")
    /\ UNCHANGED <<http, kind, phase, next, joined, known, fids, stream, out, inits, late>>

\* combine(): batch_index_buffer_input reads the run it will append in order of
\* the batch index, a COPY closes the file, the others only answer.
Combine(q, c) ==
    /\ call[q][c].op = "combine" /\ call[q][c].at = "loaded"
    /\ CASE kind[q] = "batch_index_buffer_input" ->
              /\ LET run == {r.batch : r \in StateLogScan(q, "unsorted", -1)}
                 IN  call' = [call EXCEPT ![q][c] =
                             [@ EXCEPT !.at = IF run = {} THEN "answer" ELSE "writing",
                                       !.todo = run]]
              /\ UNCHANGED out
         [] kind[q] = "lines_writer" ->
              /\ \E s \in InLogOrder(StateLogScan(q, "shard", -1)) :
                    out' = [out EXCEPT ![q] = [i \in DOMAIN s |-> s[i].batch]]
              /\ Advance(q, c, "answer")
         [] OTHER -> Advance(q, c, "answer") /\ UNCHANGED out
    /\ UNCHANGED <<http, kind, phase, next, joined, known, log, lastId, fids, stream, inits, late>>

\* combine() of batch_index_buffer_input appends the batch of the least index.
AppendSorted(q, c) ==
    /\ call[q][c].at = "writing"
    /\ \E b \in call[q][c].todo :
          /\ \A o \in call[q][c].todo : b <= o
          /\ StateAppend(q, "buf", b)
          /\ LET todo == call[q][c].todo \ {b}
             IN  call' = [call EXCEPT ![q][c] =
                             [@ EXCEPT !.at = IF todo = {} THEN "answer" ELSE "writing",
                                       !.todo = todo]]
    /\ UNCHANGED <<http, kind, phase, next, joined, known, fids, stream, out, inits, late>>

-----------------------------------------------------------------------------
(* The finalize streams                                                    *)

\* Init of a finalize stream: the state is the marker until the first tick.
OpenStream(q, f) ==
    /\ phase[q] = "drain" /\ f \in fids[q] /\ stream[q][f].at = "new"
    /\ SourceOrderDependent(kind[q]) =>
          \A e \in fids[q] : e < f => stream[q][e].at = "end"
    /\ stream' = [stream EXCEPT ![q][f] = [@ EXCEPT !.at = "open"]]
    /\ UNCHANGED <<http, kind, phase, next, call, joined, known, log, lastId, fids, out, inits, late>>

\* initialFinalizeState of these functions.
InitialFinalizeState == [afterId |-> -1, emitted |-> FALSE]

\* What a tick starts from: the state in memory, or, over HTTP, a new producer
\* state into which the token's is merged.  The merge passes over null, so a
\* function whose initial state is null starts afresh; those here have objects.
Resume(s) == s

\* One tick: the user's finalize() emits a batch or finishes, and the state it
\* leaves is kept for the next tick.
Tick(q, f) ==
    LET first == Resume(stream[q][f].state) = Uninit
        state == IF first THEN InitialFinalizeState ELSE Resume(stream[q][f].state)
        rows == StateLogScan(q, "buf", state.afterId)
        Emit(b, s) ==
            /\ out' = [out EXCEPT ![q] = Append(@, b)]
            /\ stream' = [stream EXCEPT ![q][f] = [@ EXCEPT !.state = s]]
        Finish ==
            /\ stream' = [stream EXCEPT ![q][f] = [at |-> "end", state |-> state]]
            /\ UNCHANGED out
    IN
    /\ phase[q] = "drain" /\ stream[q][f].at = "open"
    /\ inits' = [inits EXCEPT ![q][f] = IF first THEN @ + 1 ELSE @]
    /\ IF kind[q] = "ordered_source"
       THEN \/ state.emitted /\ Finish
            \/ ~state.emitted /\ Emit(f, [state EXCEPT !.emitted = TRUE])
       ELSE \/ rows = {} /\ Finish
            \/ \E r \in rows : IsFirst(r, rows) /\ Emit(r.batch, [state EXCEPT !.afterId = r.id])
    /\ UNCHANGED <<http, kind, phase, next, call, joined, known, log, lastId, fids, late>>

\* Every stream is drained.
Done(q) ==
    /\ phase[q] = "drain"
    /\ \A f \in fids[q] : stream[q][f].at = "end"
    /\ phase' = [phase EXCEPT ![q] = "done"]
    /\ UNCHANGED <<http, kind, next, call, joined, known, log, lastId, fids, stream, out, inits, late>>

-----------------------------------------------------------------------------
(* The destructor: executionClear is two DELETEs                           *)

\* Batches whose process() call no worker has begun to serve, unless an init is
\* on its way, too, which would put the metadata back.
OnTheWay(q) ==
    IF \E c \in Callers(q) : call[q][c].op = "init" /\ call[q][c].at = "sent"
    THEN {}
    ELSE {call[q][t].batch : t \in {c \in Threads[q] : call[q][c].at = "sent"}}

ClearState(q) ==
    /\ phase[q] \in {"done", "failed"}
    /\ phase' = [phase EXCEPT ![q] = "clearing"]
    /\ known' = [known EXCEPT ![q] = FALSE]
    /\ late' = [late EXCEPT ![q] = OnTheWay(q)]
    /\ UNCHANGED <<http, kind, next, call, joined, log, lastId, fids, stream, out, inits>>

\* Mutant of ClearLog: the DELETE forgets the scope.
ClearWholeLog(q) ==
    /\ phase[q] = "clearing"
    /\ phase' = [phase EXCEPT ![q] = "gone"]
    /\ log' = {}
    /\ UNCHANGED <<http, kind, next, call, joined, known, lastId, fids, stream, out, inits, late>>

ClearLog(q) ==
    /\ phase[q] = "clearing"
    /\ phase' = [phase EXCEPT ![q] = "gone"]
    /\ log' = {r \in log : r.query # q}
    /\ UNCHANGED <<http, kind, next, call, joined, known, lastId, fids, stream, out, inits, late>>

\* The destructor swallows any failure: the rest stays in the storage.
ClearFails(q) ==
    /\ phase[q] \in {"done", "failed", "clearing"}
    /\ phase' = [phase EXCEPT ![q] = "gone"]
    /\ UNCHANGED <<http, kind, next, call, joined, known, log, lastId, fids, stream, out, inits, late>>

-----------------------------------------------------------------------------
Engine(q) ==
    \/ Start(q) \/ SendCombine(q) \/ GiveUp(q) \/ Done(q)
    \/ \E t \in Threads[q] : Join(q, t) \/ SendBatch(q, t)
    \/ \E c \in Callers(q) : Replied(q, c) \/ CallFails(q, c)
    \/ \E f \in FinalizeIds : OpenStream(q, f)

Worker(q) ==
    \/ \E c \in Callers(q) : \/ GlobalInit(q, c) \/ LoadParams(q, c) \/ Process(q, c)
                          \/ Combine(q, c) \/ AppendSorted(q, c)
    \/ \E f \in FinalizeIds : Tick(q, f)
    \/ ClearState(q) \/ ClearLog(q) \/ ClearFails(q)

Next == \E q \in Queries : Engine(q) \/ Worker(q)

Spec == Init /\ [][Next]_vars

-----------------------------------------------------------------------------
(* Properties                                                              *)

IsInterval(s) == \A i \in 1..Len(s) : s[i] = i
NoneTwice(s) == \A i, j \in 1..Len(s) : s[i] = s[j] => i = j

\* What the engine was handed so far holds no batch twice and nothing that is
\* not of its own input, in source order where the function promises an order
\* (sinkOrderDependent, requiresInputBatchIndex, sourceOrderDependent), and a
\* query that ends well has all of it: whatever processes served the calls,
\* whatever other queries and their destructors did to the shared storage, and
\* whether the finalize state lived in memory or travelled in a token.
OutputExact ==
    \A q \in Queries :
        LET all == IF kind[q] = "ordered_source" THEN 1..Sources ELSE Batches(q)
        IN  /\ NoneTwice(out[q])
            /\ \A i \in 1..Len(out[q]) : out[q][i] \in all
            /\ kind[q] \in {"ordered_buffer_input", "batch_index_buffer_input", "ordered_source"}
                  => IsInterval(out[q])
            /\ phase[q] = "done" => Len(out[q]) = Cardinality(all)

\* A call is refused ("unknown execution_id") only when its query is over: no
\* process serves a call before the metadata is there, and no destructor of
\* another query takes it away.
OnlyDeadRefused ==
    \A q \in Queries : \A c \in Callers(q) :
        call[q][c].at = "refused" => phase[q] \notin Live

\* initialFinalizeState runs once per stream, also over HTTP, where every tick
\* starts from a handler that was just created.
InitialStateOnce == \A q \in Queries, f \in FinalizeIds : inits[q][f] <= 1

\* A call that reaches a worker after the destructor took the metadata away
\* leaves nothing in the storage, where nobody would remove it again.
DeadStaysEmpty ==
    \A q \in Queries, r \in log : r.query = q => r.batch \notin late[q]

=============================================================================
