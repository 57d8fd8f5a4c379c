-------------------------- MODULE TableInOutStream --------------------------
(***************************************************************************)
(* One call of a table-in-out function with a finalize stage               *)
(* (functions/table-in-out.ts, functions/continuation.ts,                  *)
(* protocol/handlers/function.ts, BoundStorage of functions/storage.ts,    *)
(* and the client's exchangeContinued of client/client.ts).                *)
(*                                                                         *)
(* The client fans the call out over substreams, one INPUT stream each.  A *)
(* stream answers an input batch with several replies: a reply that says   *)
(* more is followed by a continuation tick, never by the next input.  Each *)
(* turn folds its contribution into the substream's user state and upserts *)
(* that state in the storage the worker processes share.  When all inputs  *)
(* are closed one FINALIZE stream collects the states, runs finalize()     *)
(* once, logs its batches and drains the log past a cursor.                *)
(*                                                                         *)
(* On a byte stream a connection keeps its handler in the memory of one    *)
(* process.  Over HTTP every turn may reach another process, which         *)
(* rebuilds the handler from the state token the client sends back.        *)
(***************************************************************************)
EXTENDS Integers, Sequences, FiniteSets

CONSTANTS
    Substreams,   \* the call's parallel INPUT streams
    Workers,      \* worker processes; BoundStorage falls back on their pids
    MaxInputs,    \* bound of the input batches of a substream
    MaxReplies,   \* bound of the replies to one input batch
    MaxBatches,   \* bound of the batches finalize() returns
    MaxOthers,    \* bound of the log ids taken by other executions
    SendsIds,     \* TRUE: the client sends a substream_id
    NoWorker, NoExec

ASSUME BoundsAssumption ==
    /\ MaxInputs \in Nat \ {0} /\ MaxReplies \in Nat \ {0}
    /\ MaxBatches \in Nat /\ MaxOthers \in Nat
ASSUME IdsAssumption == SendsIds \in BOOLEAN
ASSUME ProcessesAssumption ==
    /\ NoWorker \notin Workers /\ NoExec \notin Substreams
    /\ Substreams \cap Workers = {}

\* A turn: reply r to the substream's i-th input batch.
Turns == Substreams \X (1..MaxInputs) \X (1..MaxReplies)

\* User states: the turns folded in so far.
States == SUBSET Turns

\* execution_id: the primary init mints one; naming them by the substream that
\* could mint them makes crypto.getRandomValues collision free.
Execs == Substreams

StateKeys == Substreams \cup Workers

\* A row of the worker states: the table's primary key is (exec, key).
Rows == [exec : Execs, key : StateKeys, state : States]

VARIABLES
    http,      \* TRUE: a turn may reach any process; FALSE: byte streams
    status,    \* of the query: "running", "done" or "failed"
    exec,      \* the execution the client opened
    stream,    \* the INPUT stream of each substream
    fin,       \* the FINALIZE stream
    store,     \* the rows of the worker states
    log,       \* the execution-scoped log, in id order
    nextId,    \* the log's next id
    answered,  \* history: turns whose reply the client has
    handed,    \* history: the rows finalize() got
    produced,  \* history: how many batches finalize() returned
    runs       \* history: how often finalize() ran

vars == <<http, status, exec, stream, fin, store, log, nextId,
          answered, handed, produced, runs>>

NotRun == MaxBatches + 1

\* carried: what the next turn starts from, in memory or in the state token;
\* more: what the last reply told the client; at: the process serving the turn.
\* The worker answers in two steps: process() or resume(), then workerPut.
StreamState ==
    [pc : {"new", "idle", "process", "put", "stuck", "closed"},
     eid : Execs \cup {NoExec}, at : Workers \cup {NoWorker},
     input : 0..MaxInputs, reply : 0..MaxReplies, more : BOOLEAN,
     carried : [state : States, more : BOOLEAN]]

FinState ==
    [pc : {"new", "idle", "collect", "append", "scan"},
     at : Workers \cup {NoWorker}, todo : Nat,
     carried : [cursor : Int, materialized : BOOLEAN],
     received : Seq(1..MaxBatches)]

\* The types of the streams, of the storage and of the history variables.
TypeOK ==
    /\ http \in BOOLEAN
    /\ status \in {"running", "done", "failed"}
    /\ exec \in Execs \cup {NoExec}
    /\ stream \in [Substreams -> StreamState]
    /\ fin \in FinState
    /\ store \subseteq Rows
    /\ log \in Seq([id : Nat, batch : 1..MaxBatches])
    /\ nextId \in Nat
    /\ answered \in States
    /\ handed \subseteq Rows
    /\ produced \in 0..NotRun
    /\ runs \in Nat

\* initialState(): nothing folded in yet.
InitialState == {}

\* exchangeInit and producerInit.
ExchangeInit == [state |-> InitialState, more |-> FALSE]
ProducerInit == [cursor |-> -1, materialized |-> FALSE]

Init ==
    /\ http \in BOOLEAN
    /\ status = "running"
    /\ exec = NoExec
    /\ stream = [s \in Substreams |->
           [pc |-> "new", eid |-> NoExec, at |-> NoWorker, input |-> 0, reply |-> 0,
            more |-> FALSE, carried |-> ExchangeInit]]
    /\ fin = [pc |-> "new", at |-> NoWorker, todo |-> 0,
              carried |-> ProducerInit, received |-> <<>>]
    /\ store = {}
    /\ log = <<>>
    /\ nextId \in {0, 1}
    /\ answered = {}
    /\ handed = {}
    /\ produced = NotRun
    /\ runs = 0

-----------------------------------------------------------------------------
(* The INPUT streams                                                       *)

\* Mutant of GlobalInit: a secondary init mints an execution of its own.
GlobalInitAlwaysMints(s) == s

\* globalInit: a secondary init echoes the execution_id it is sent.
GlobalInit(s) == IF exec = NoExec THEN s ELSE exec

\* The client opens the primary stream first; its header carries the
\* execution_id the others send.
Open(s, w) ==
    /\ status = "running" /\ fin.pc = "new" /\ stream[s].pc = "new"
    /\ \A d \in Substreams : stream[d].pc # "closed"
    /\ exec' = IF exec = NoExec THEN GlobalInit(s) ELSE exec
    /\ stream' = [stream EXCEPT ![s].pc = "idle", ![s].at = w,
                                ![s].eid = GlobalInit(s)]
    /\ UNCHANGED <<http, status, fin, store, log, nextId, answered, handed, produced, runs>>

\* The client sends a tick while the last reply said more, else its next input.
SendTurn(s, w) ==
    LET t == stream[s] IN
    /\ status = "running" /\ t.pc = "idle"
    /\ http \/ w = t.at
    /\ \/ t.more /\ stream' = [stream EXCEPT ![s].pc = "process", ![s].at = w,
                                             ![s].reply = t.reply + 1]
       \/ /\ ~t.more /\ t.input < MaxInputs
          /\ stream' = [stream EXCEPT ![s].pc = "process", ![s].at = w,
                                      ![s].input = t.input + 1, ![s].reply = 1]
    /\ UNCHANGED <<http, status, exec, fin, store, log, nextId, answered, handed, produced, runs>>

\* Mutant of Rebuild: morePending is not restored from the token.
RebuildForgetsMore(c) == IF http THEN [ExchangeInit EXCEPT !.state = c.state] ELSE c

\* Mutant of Rebuild: the new handler's initial state stays.
RebuildFresh(c) == IF http THEN [ExchangeInit EXCEPT !.more = c.more] ELSE c

\* The handler a turn runs on: over HTTP a new one, into which the token's
\* user state and morePending are merged.
Rebuild(c) ==
    IF http THEN [ExchangeInit EXCEPT !.state = c.state, !.more = c.more] ELSE c

\* The turn is refused: a tick with nothing pending, or input while more is.
\* Only a client that disagrees with the worker about more can cause it.
IsTick(s) == stream[s].reply > 1
Refused(s) == IsTick(s) # Rebuild(stream[s].carried).more

\* process() or resume() folds the turn in and says whether more follows.
Process(s) ==
    LET t == stream[s]
        h == Rebuild(t.carried) IN
    /\ status = "running" /\ t.pc = "process" /\ ~Refused(s)
    /\ \E more \in BOOLEAN :
          /\ more => t.reply < MaxReplies
          /\ stream' = [stream EXCEPT ![s].pc = "put", ![s].carried =
                 [state |-> h.state \cup {<<s, t.input, t.reply>>}, more |-> more]]
    /\ UNCHANGED <<http, status, exec, fin, store, log, nextId, answered, handed, produced, runs>>

\* Mutant of RefuseTurn: a turn that emitted nothing is not refused, and leaves
\* the client of a byte stream waiting.
RefuseOnlyTurn(s) ==
    /\ status = "running" /\ stream[s].pc = "process"
    /\ IF Refused(s) THEN status' = "failed" /\ UNCHANGED stream
                     ELSE stream' = [stream EXCEPT ![s].pc = "stuck"] /\ UNCHANGED status
    /\ UNCHANGED <<http, exec, fin, store, log, nextId, answered, handed, produced, runs>>

\* continuationTurn throws: the turn is refused, or the function's reply is (it
\* emitted no batch, said more without a resume(), or put cache control on the
\* reply to a tick), which any function may do at any turn.
RefuseTurn(s) ==
    /\ status = "running" /\ stream[s].pc = "process"
    /\ status' = "failed"
    /\ UNCHANGED <<http, exec, stream, fin, store, log, nextId, answered, handed, produced, runs>>

\* Mutant of StateKey: one row per process, as before substream ids.
StateKeyByPid(s, w) == w

\* BoundStorage.put: the row of the substream, or of the process.
StateKey(s, w) == IF SendsIds THEN s ELSE w

\* workerPut: INSERT OR REPLACE.
WorkerPut(e, k, st) ==
    {r \in store : r.exec # e \/ r.key # k} \cup {[exec |-> e, key |-> k, state |-> st]}

\* The state is upserted, then the reply goes out; over HTTP with the token.
Put(s) ==
    LET t == stream[s] IN
    /\ status = "running" /\ t.pc = "put"
    /\ store' = WorkerPut(t.eid, StateKey(s, t.at), t.carried.state)
    /\ stream' = [stream EXCEPT ![s].pc = "idle", ![s].more = t.carried.more]
    /\ answered' = answered \cup {<<s, t.input, t.reply>>}
    /\ UNCHANGED <<http, status, exec, fin, log, nextId, handed, produced, runs>>

\* The client closes an INPUT stream, never with output pending.
Close(s) ==
    /\ status = "running" /\ stream[s].pc = "idle" /\ ~stream[s].more
    /\ stream' = [stream EXCEPT ![s].pc = "closed", ![s].at = NoWorker]
    /\ UNCHANGED <<http, status, exec, fin, store, log, nextId, answered, handed, produced, runs>>

-----------------------------------------------------------------------------
(* The FINALIZE stream                                                     *)

\* The client opens it when all INPUT streams are closed, and asks for a batch.
OpenFinalize ==
    /\ status = "running" /\ fin.pc = "new" /\ exec # NoExec
    /\ \A s \in Substreams : stream[s].pc \in {"new", "closed"}
    /\ fin' = [fin EXCEPT !.pc = "idle"]
    /\ UNCHANGED <<http, status, exec, stream, store, log, nextId, answered, handed, produced, runs>>

\* Whether an earlier turn has run finalize(): over HTTP the token says so.
Materialized(c) == c.materialized

SendFinalize(w) ==
    /\ status = "running" /\ fin.pc = "idle"
    /\ http \/ fin.at \in {w, NoWorker}
    /\ fin' = [fin EXCEPT !.at = w,
                          !.pc = IF Materialized(fin.carried) THEN "scan" ELSE "collect"]
    /\ UNCHANGED <<http, status, exec, stream, store, log, nextId, answered, handed, produced, runs>>

\* collect() drains the states (DELETE ... RETURNING) and finalize() runs on
\* them; with none it gets one initial state.
Finalize ==
    /\ status = "running" /\ fin.pc = "collect"
    /\ handed' = {r \in store : r.exec = exec}
    /\ store' = store \ handed'
    /\ runs' = runs + 1
    /\ \E n \in 0..MaxBatches :
          /\ produced' = n
          /\ fin' = [fin EXCEPT !.pc = "append", !.todo = n]
    /\ UNCHANGED <<http, status, exec, stream, log, nextId, answered>>

\* Each batch is appended to the log; then the stream is materialized.
AppendBatch ==
    /\ status = "running" /\ fin.pc = "append"
    /\ IF fin.todo = 0
       THEN /\ fin' = [fin EXCEPT !.pc = "scan", !.carried.materialized = TRUE]
            /\ UNCHANGED <<log, nextId>>
       ELSE /\ log' = Append(log, [id |-> nextId, batch |-> produced - fin.todo + 1])
            /\ nextId' = nextId + 1
            /\ fin' = [fin EXCEPT !.todo = @ - 1]
    /\ UNCHANGED <<http, status, exec, stream, store, answered, handed, produced, runs>>

\* stateLogScan(cursor, 1): the first row past the cursor.
PastCursor == {i \in DOMAIN log : log[i].id > fin.carried.cursor}
FirstRow == log[CHOOSE i \in PastCursor : \A j \in PastCursor : i <= j]

\* Mutant of Emit: the cursor counts rows, not ids.
EmitCountsRows ==
    /\ status = "running" /\ fin.pc = "scan" /\ PastCursor # {}
    /\ fin' = [fin EXCEPT !.pc = "idle", !.carried.cursor = @ + 1,
                          !.received = Append(@, FirstRow.batch)]
    /\ UNCHANGED <<http, status, exec, stream, store, log, nextId, answered, handed, produced, runs>>

\* One row per turn; only the position rides the token.
Emit ==
    /\ status = "running" /\ fin.pc = "scan" /\ PastCursor # {}
    /\ fin' = [fin EXCEPT !.pc = "idle", !.carried.cursor = FirstRow.id,
                          !.received = Append(@, FirstRow.batch)]
    /\ UNCHANGED <<http, status, exec, stream, store, log, nextId, answered, handed, produced, runs>>

Finish ==
    /\ status = "running" /\ fin.pc = "scan" /\ PastCursor = {}
    /\ status' = "done"
    /\ UNCHANGED <<http, exec, stream, fin, store, log, nextId, answered, handed, produced, runs>>

-----------------------------------------------------------------------------
(* Failures and the environment                                            *)

\* User code or the storage throws, or the process dies: the turn it was
\* serving fails, and on a byte stream every stream it holds.  The client
\* gives the query up; it retries nothing.
Crash(w) ==
    /\ status = "running"
    /\ \/ \E s \in Substreams :
             /\ stream[s].at = w
             /\ stream[s].pc \in IF http THEN {"process", "put"}
                                 ELSE {"idle", "process", "put"}
       \/ /\ fin.at = w
          /\ fin.pc \in IF http THEN {"collect", "append", "scan"}
                        ELSE {"idle", "collect", "append", "scan"}
    /\ status' = "failed"
    /\ UNCHANGED <<http, exec, stream, fin, store, log, nextId, answered, handed, produced, runs>>

\* Another execution appends to its own log: ids have gaps.
OtherAppends ==
    /\ nextId < MaxOthers
    /\ nextId' = nextId + 1
    /\ UNCHANGED <<http, status, exec, stream, fin, store, log, answered, handed, produced, runs>>

\* The client goes on with the call, and reads what it is sent.
Client ==
    \/ \E s \in Substreams, w \in Workers : Open(s, w) \/ SendTurn(s, w)
    \/ \E s \in Substreams : Close(s)
    \/ OpenFinalize
    \/ \E w \in Workers : SendFinalize(w)

Worker ==
    \/ \E s \in Substreams : Process(s) \/ RefuseTurn(s) \/ Put(s)
    \/ Finalize \/ AppendBatch \/ Emit \/ Finish

Next == Client \/ Worker \/ (\E w \in Workers : Crash(w)) \/ OtherAppends

Spec == Init /\ [][Next]_vars

\* The client keeps asking, and a worker answers or fails.
Fairness == WF_vars(Client) /\ WF_vars(Worker)

FairSpec == Spec /\ Fairness

-----------------------------------------------------------------------------
(* What the call promises                                                  *)

Times(t) == Cardinality({r \in handed : t \in r.state})

\* finalize() is handed every turn of every substream exactly once, whichever
\* processes served them: no substream overwrites another's state, and none
\* leaves a stale one behind (storage.ts:414-434, table-in-out.ts:424-438).
TurnsCountedOnce ==
    runs > 0 => \A t \in Turns : Times(t) = IF t \in answered THEN 1 ELSE 0

\* The worker and the client always agree on whether output is pending, so no
\* turn of a client that follows the protocol is refused, whatever process it
\* reaches (continuation.ts:118-126, function.ts:421-425, client.ts:166-188).
TurnNeverRefused ==
    \A s \in Substreams : stream[s].pc = "process" => ~Refused(s)

\* The batches of finalize() arrive once each, in order, and all of them before
\* the stream finishes, although other executions take ids of the same log
\* (table-in-out.ts:448-470).
DeliveredInOrder ==
    /\ fin.received = [i \in 1..Len(fin.received) |-> i]
    /\ status = "done" => Len(fin.received) = produced

\* finalize() drains the states it is handed: a second run would find none, so
\* no continuation may run it again (table-in-out.ts:408-414, 445-447).
FinalizeRunsOnce == runs <= 1

\* Between its turns a substream's stored row is the state the next turn starts
\* from: a turn loses nothing of it and neither does the token
\* (table-in-out.ts:550-562, function.ts:418-420, 450-456).
StoredIsCarried ==
    \A s \in Substreams :
        LET t == stream[s] IN
        t.pc \in {"idle", "closed"} /\ runs = 0 /\ SendsIds =>
            /\ t.carried.state = {a \in answered : a[1] = s}
            /\ {r.state : r \in {x \in store : x.exec = exec /\ x.key = s}} =
                   IF t.input = 0 THEN {} ELSE {t.carried.state}

\* A query whose client keeps asking ends: it is done or it fails
\* (continuation.ts:130-140 refuses the turn that would leave it waiting).
QueryEnds == status = "running" ~> status # "running"

\* Both transports, with whatever processes serve the turns, give the client
\* what one process folding all turns in memory would.
Result == INSTANCE TableInOutResult WITH
    counted <- [t \in Turns |-> Times(t)], delivered <- fin.received

\* Every step of the streams is a step of the abstract call
\* (table-in-out.ts:392-563).
ImplementsResult == Result!Spec

=============================================================================
