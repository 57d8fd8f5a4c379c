---------------------------- MODULE StreamProofs ----------------------------
(***************************************************************************)
(* Proofs about what streams carry between turns: TableInOutStream, for    *)
(* any substreams, processes and bounds and both transports, and           *)
(* FilterHistory, for any snapshots and deltas.                            *)
(*                                                                         *)
(* TableInOutStream.  The storage always holds one row per substream that  *)
(* has an answer, whose state is what that substream's answers folded in,  *)
(* and finalize() takes all rows at once when no stream is open any more.  *)
(* The log then holds finalize()'s batches with growing ids, and the       *)
(* cursor is the id of the last row the client has.                        *)
(*                                                                         *)
(* FilterHistory.  What the filters have of an id is of the snapshot or    *)
(* was brought by the first delta of the history that carries the id's     *)
(* revision, and no delta of it goes further; so a replay arrives at the   *)
(* same predicates, and the recorded order puts them in their places.      *)
(***************************************************************************)
EXTENDS TableInOutStream, FilterHistory, FiniteSetTheorems, SequenceTheorems,
        NaturalsInduction, WellFoundedInduction, TLAPS

\* The answered turns of a substream, and the row that stores them.
Mine(s) == {a \in answered : a[1] = s}
RowOf(s) == [exec |-> exec, key |-> s, state |-> Mine(s)]
AnsweredRows == {RowOf(s) : s \in {d \in Substreams : Mine(d) # {}}}

CurrentTurn(t, s) == <<s, t.input, t.reply>>

\* Where a stream is: served by a process, of the execution, in a turn or not.
PlaceOK(t) ==
    /\ t.pc # "stuck"
    /\ t.pc \in {"idle", "process", "put"} => t.at \in Workers
    /\ t.pc # "new" => exec # NoExec /\ t.eid = exec
    /\ t.pc \in {"process", "put"} => t.input >= 1 /\ t.reply >= 1
    /\ t.reply >= 1 => t.input >= 1
    /\ t.pc = "new" => t.input = 0

\* The client knows whether output is pending.
MoreOK(t) ==
    /\ t.pc \in {"new", "idle"} => t.more = t.carried.more
    /\ t.pc \in {"new", "idle", "put"} /\ t.carried.more => t.reply \in 1..(MaxReplies - 1)
    /\ t.pc = "process" => t.carried.more = (t.reply > 1)

\* The next turn starts from the answered ones.
CarriedOK(t, s) ==
    /\ t.carried.state = Mine(s) \cup IF t.pc = "put" THEN {CurrentTurn(t, s)} ELSE {}
    /\ t.pc \in {"new", "idle", "closed"} => (t.input = 0 <=> Mine(s) = {})

StreamsOK ==
    \A s \in Substreams :
        PlaceOK(stream[s]) /\ MoreOK(stream[s]) /\ CarriedOK(stream[s], s)

\* The FINALIZE stream runs when no INPUT stream does.
PhaseOK ==
    /\ fin.pc # "new" => \A s \in Substreams : stream[s].pc \in {"new", "closed"}
    /\ fin.pc \in {"append", "scan"} => runs = 1
    /\ fin.pc \in {"new", "idle", "collect"} => runs = IF fin.carried.materialized THEN 1 ELSE 0
    /\ fin.pc \in {"new", "collect", "append"} => ~fin.carried.materialized
    /\ fin.pc = "scan" => fin.carried.materialized
    /\ produced = NotRun <=> runs = 0

\* The rows, before finalize() takes them and after.
RowsOK ==
    /\ runs = 0 => handed = {}
    /\ SendsIds /\ runs = 0 => store = AnsweredRows
    /\ SendsIds /\ runs = 1 => handed = AnsweredRows

\* The log holds the batches appended so far, the client those up to the cursor.
LogOK ==
    /\ \A i \in 1..Len(log) : log[i].batch = i /\ log[i].id < nextId
    /\ \A i, j \in 1..Len(log) : i < j => log[i].id < log[j].id
    /\ Len(log) = IF runs = 0 THEN 0
                  ELSE IF fin.pc = "append" THEN produced - fin.todo ELSE produced
    /\ Len(fin.received) <= Len(log)
    /\ \A i \in 1..Len(fin.received) : fin.received[i] = i
    /\ fin.carried.cursor = IF fin.received = <<>> THEN -1 ELSE log[Len(fin.received)].id
    /\ status = "done" => fin.pc = "scan" /\ Len(fin.received) = produced

IInv == TypeOK /\ StreamsOK /\ PhaseOK /\ RowsOK /\ LogOK

-----------------------------------------------------------------------------
(* The handler a turn runs on is what the last turn left.                  *)

LEMMA RebuildKeeps ==
  ASSUME NEW c \in [state : States, more : BOOLEAN]
  PROVE  Rebuild(c) = c
BY DEF Rebuild, ExchangeInit, InitialState

LEMMA TurnType ==
  ASSUME NEW s \in Substreams, NEW t \in StreamState, t.input >= 1, t.reply >= 1
  PROVE  CurrentTurn(t, s) \in Turns
<1>1. t.input \in 1..MaxInputs /\ t.reply \in 1..MaxReplies
  BY BoundsAssumption DEF StreamState
<1>2. QED
  BY <1>1 DEF CurrentTurn, Turns

\* The stream that moves, and the others.
Moved(s, t) == stream' = [stream EXCEPT ![s] = t]

LEMMA OneMoves ==
  ASSUME TypeOK, NEW s \in Substreams, NEW t, Moved(s, t)
  PROVE  /\ stream'[s] = t
         /\ \A d \in Substreams \ {s} : stream'[d] = stream[d]
         /\ t \in StreamState => stream' \in [Substreams -> StreamState]
BY DEF TypeOK, Moved

LEMMA StateOf ==
  ASSUME TypeOK, NEW s \in Substreams
  PROVE  stream[s] \in StreamState
BY DEF TypeOK

LEMMA OpenMoves ==
  ASSUME TypeOK, NEW s \in Substreams, NEW w \in Workers, Open(s, w)
  PROVE  /\ Moved(s, [stream[s] EXCEPT !.pc = "idle", !.at = w, !.eid = GlobalInit(s)])
         /\ [stream[s] EXCEPT !.pc = "idle", !.at = w, !.eid = GlobalInit(s)] \in StreamState
         /\ GlobalInit(s) \in Execs /\ exec' = GlobalInit(s)
<1>1. GlobalInit(s) \in Execs /\ exec' = GlobalInit(s)
  BY DEF GlobalInit, Open, TypeOK, Execs
<1>2. stream[s] \in StreamState
  BY StateOf
<1>3. Moved(s, [stream[s] EXCEPT !.pc = "idle", !.at = w, !.eid = GlobalInit(s)])
  BY <1>2 DEF Open, Moved, TypeOK, StreamState
<1>4. [stream[s] EXCEPT !.pc = "idle", !.at = w, !.eid = GlobalInit(s)] \in StreamState
  BY <1>1, <1>2 DEF StreamState
<1>5. QED
  BY <1>1, <1>3, <1>4

\* A tick or the next input.
Ticked(t, w) == [t EXCEPT !.pc = "process", !.at = w, !.reply = t.reply + 1]
Fed(t, w) == [t EXCEPT !.pc = "process", !.at = w, !.input = t.input + 1, !.reply = 1]

LEMMA SendTurnMoves ==
  ASSUME TypeOK, NEW s \in Substreams, NEW w \in Workers, SendTurn(s, w),
         MoreOK(stream[s])
  PROVE  \/ /\ stream[s].more
            /\ Moved(s, Ticked(stream[s], w)) /\ Ticked(stream[s], w) \in StreamState
         \/ /\ ~stream[s].more
            /\ Moved(s, Fed(stream[s], w)) /\ Fed(stream[s], w) \in StreamState
<1>1. stream[s] \in StreamState
  BY StateOf
<1>2. CASE stream[s].more
  <2>1. stream[s].reply + 1 \in 0..MaxReplies
    <3>1. stream[s].pc = "idle"
      BY DEF SendTurn
    <3>2. stream[s].carried.more
      BY <1>2, <3>1 DEF MoreOK
    <3>3. stream[s].reply \in 1..(MaxReplies - 1)
      BY <3>1, <3>2 DEF MoreOK
    <3>4. QED
      BY <3>3, BoundsAssumption
  <2>2. Ticked(stream[s], w) \in StreamState
    BY <1>1, <2>1 DEF Ticked, StreamState
  <2>3. Moved(s, Ticked(stream[s], w))
    BY <1>1, <1>2 DEF SendTurn, Moved, Ticked, TypeOK, StreamState
  <2>4. QED
    BY <1>2, <2>2, <2>3
<1>3. CASE ~stream[s].more
  <2>1. stream[s].input + 1 \in 0..MaxInputs /\ 1 \in 0..MaxReplies
    BY <1>1, <1>3, BoundsAssumption DEF SendTurn, StreamState
  <2>2. Fed(stream[s], w) \in StreamState
    BY <1>1, <2>1 DEF Fed, StreamState
  <2>3. Moved(s, Fed(stream[s], w))
    BY <1>1, <1>3 DEF SendTurn, Moved, Fed, TypeOK, StreamState
  <2>4. QED
    BY <1>3, <2>2, <2>3
<1>4. QED
  BY <1>2, <1>3

\* process() or resume() has run.
Folded(t, s, more) ==
    [t EXCEPT !.pc = "put",
              !.carried = [state |-> t.carried.state \cup {CurrentTurn(t, s)}, more |-> more]]

LEMMA ProcessMoves ==
  ASSUME TypeOK, NEW s \in Substreams, Process(s), PlaceOK(stream[s])
  PROVE  \E more \in BOOLEAN :
            /\ more => stream[s].reply < MaxReplies
            /\ Moved(s, Folded(stream[s], s, more))
            /\ Folded(stream[s], s, more) \in StreamState
<1>1. stream[s] \in StreamState
  BY StateOf
<1>2. Rebuild(stream[s].carried) = stream[s].carried
  BY <1>1, RebuildKeeps DEF StreamState
<1>3. PICK more \in BOOLEAN :
         /\ more => stream[s].reply < MaxReplies
         /\ stream' = [stream EXCEPT ![s].pc = "put", ![s].carried =
               [state |-> stream[s].carried.state \cup {CurrentTurn(stream[s], s)}, more |-> more]]
  BY <1>2 DEF Process, CurrentTurn
<1>4. CurrentTurn(stream[s], s) \in Turns
  BY <1>1, TurnType DEF PlaceOK, Process
<1>5. stream[s].carried.state \cup {CurrentTurn(stream[s], s)} \in States
  BY <1>1, <1>4 DEF StreamState, States
<1>6. Folded(stream[s], s, more) \in StreamState
  BY <1>1, <1>5 DEF Folded, StreamState
<1>7. Moved(s, Folded(stream[s], s, more))
  BY <1>1, <1>3 DEF Moved, Folded, TypeOK, StreamState
<1>8. QED
  BY <1>3, <1>6, <1>7

\* The reply has gone out.
Answered(t) == [t EXCEPT !.pc = "idle", !.more = t.carried.more]

LEMMA PutMoves ==
  ASSUME TypeOK, NEW s \in Substreams, Put(s)
  PROVE  Moved(s, Answered(stream[s])) /\ Answered(stream[s]) \in StreamState
<1>1. stream[s] \in StreamState
  BY StateOf
<1>2. Answered(stream[s]) \in StreamState
  BY <1>1 DEF Answered, StreamState
<1>3. Moved(s, Answered(stream[s]))
  BY <1>1 DEF Put, Moved, Answered, TypeOK, StreamState
<1>4. QED
  BY <1>2, <1>3

Closed(t) == [t EXCEPT !.pc = "closed", !.at = NoWorker]

LEMMA CloseMoves ==
  ASSUME TypeOK, NEW s \in Substreams, Close(s)
  PROVE  Moved(s, Closed(stream[s])) /\ Closed(stream[s]) \in StreamState
<1>1. stream[s] \in StreamState
  BY StateOf
<1>2. Closed(stream[s]) \in StreamState
  BY <1>1 DEF Closed, StreamState
<1>3. Moved(s, Closed(stream[s]))
  BY <1>1 DEF Close, Moved, Closed, TypeOK, StreamState
<1>4. QED
  BY <1>2, <1>3

-----------------------------------------------------------------------------
(* Types                                                                   *)

LEMMA PutRow ==
  ASSUME TypeOK, NEW s \in Substreams, Put(s), PlaceOK(stream[s])
  PROVE  /\ store' \subseteq Rows
         /\ CurrentTurn(stream[s], s) \in Turns
         /\ answered' = answered \cup {CurrentTurn(stream[s], s)}
         /\ store' = WorkerPut(exec, StateKey(s, stream[s].at), stream[s].carried.state)
         /\ exec \in Execs
<1>1. stream[s] \in StreamState
  BY StateOf
<1>2. exec \in Execs /\ stream[s].eid = exec
  BY DEF PlaceOK, Put, TypeOK
<1>3. StateKey(s, stream[s].at) \in StateKeys
  BY DEF PlaceOK, Put, StateKey, StateKeys
<1>4. stream[s].carried.state \in States
  BY <1>1 DEF StreamState
<1>5. store' = WorkerPut(exec, StateKey(s, stream[s].at), stream[s].carried.state)
  BY <1>2 DEF Put
<1>6. [exec |-> exec, key |-> StateKey(s, stream[s].at), state |-> stream[s].carried.state] \in Rows
  BY <1>2, <1>3, <1>4 DEF Rows
<1>7. store' \subseteq Rows
  BY <1>5, <1>6 DEF WorkerPut, TypeOK
<1>8. CurrentTurn(stream[s], s) \in Turns
  BY <1>1, TurnType DEF PlaceOK, Put
<1>9. answered' = answered \cup {CurrentTurn(stream[s], s)}
  BY DEF Put, CurrentTurn
<1>10. QED
  BY <1>2, <1>5, <1>7, <1>8, <1>9

\* What the actions of the INPUT streams leave alone.
InputFrame == UNCHANGED <<http, status, fin, log, nextId, handed, produced, runs>>

LEMMA InputFrames ==
  ASSUME NEW s \in Substreams
  PROVE  /\ \A w \in Workers :
               /\ Open(s, w) => InputFrame /\ UNCHANGED <<store, answered>>
               /\ SendTurn(s, w) => InputFrame /\ UNCHANGED <<exec, store, answered>>
         /\ Process(s) \/ Close(s) => InputFrame /\ UNCHANGED <<exec, store, answered>>
         /\ Put(s) => InputFrame /\ UNCHANGED exec
BY DEF Open, SendTurn, Process, Close, Put, InputFrame

\* Steps that only end the query.
StatusFrame == UNCHANGED <<http, exec, stream, fin, store, log, nextId,
                           answered, handed, produced, runs>>

LEMMA Fails ==
  ASSUME (\E s \in Substreams : RefuseTurn(s)) \/ (\E w \in Workers : Crash(w))
  PROVE  StatusFrame /\ status' = "failed"
BY DEF RefuseTurn, Crash, StatusFrame

\* The log grows by one batch.
LEMMA AppendBatchEffect ==
  ASSUME TypeOK, PhaseOK, LogOK, AppendBatch, fin.todo # 0
  PROVE  /\ log' \in Seq([id : Nat, batch : 1..MaxBatches])
         /\ Len(log') = Len(log) + 1
         /\ \A i \in 1..Len(log) : log'[i] = log[i]
         /\ log'[Len(log) + 1] = [id |-> nextId, batch |-> Len(log) + 1]
         /\ nextId' = nextId + 1
         /\ fin' = [fin EXCEPT !.todo = fin.todo - 1]
<1> DEFINE e == [id |-> nextId, batch |-> produced - fin.todo + 1]
           E == [id : Nat, batch : 1..MaxBatches]
<1>1. fin.todo \in Nat /\ fin.pc = "append" /\ runs = 1 /\ produced \in 0..NotRun
  BY DEF TypeOK, FinState, AppendBatch, PhaseOK
<1>2. Len(log) = produced - fin.todo /\ Len(log) \in Nat
  <2>1. Len(log) = produced - fin.todo
    BY <1>1 DEF LogOK
  <2>2. QED
    BY <2>1, LenProperties DEF TypeOK
<1>3. produced \in 0..MaxBatches
  BY <1>1, BoundsAssumption DEF PhaseOK, NotRun
<1>4. produced - fin.todo + 1 \in 1..MaxBatches
  BY <1>1, <1>2, <1>3, BoundsAssumption
<1>5. e \in E
  BY <1>4 DEF TypeOK
<1>6. log' = Append(log, e) /\ nextId' = nextId + 1 /\ fin' = [fin EXCEPT !.todo = fin.todo - 1]
  BY DEF AppendBatch
<1>7. log \in Seq(E)
  BY DEF TypeOK
<1>8. /\ log' \in Seq(E) /\ Len(log') = Len(log) + 1
      /\ \A i \in 1..Len(log) : log'[i] = log[i]
      /\ log'[Len(log) + 1] = e
  BY <1>5, <1>6, <1>7, AppendProperties
<1>9. QED
  BY <1>2, <1>6, <1>8

\* The last batch is in the log.
LEMMA AppendBatchEnds ==
  ASSUME TypeOK, AppendBatch, fin.todo = 0
  PROVE  /\ fin.pc = "append" /\ fin'.pc = "scan" /\ fin'.received = fin.received
         /\ fin'.carried.cursor = fin.carried.cursor /\ fin'.carried.materialized
         /\ UNCHANGED <<stream, status, log, nextId, produced, runs>> /\ status = "running"
<1>1. fin \in FinState
  BY DEF TypeOK
<1>2. fin' = [fin EXCEPT !.pc = "scan", !.carried.materialized = TRUE]
  BY DEF AppendBatch
<1>3. fin' = [fin EXCEPT !.pc = "scan", !.carried = [fin.carried EXCEPT !.materialized = TRUE]]
  BY <1>1, <1>2 DEF FinState
<1>4. fin'.carried = [fin.carried EXCEPT !.materialized = TRUE]
  BY <1>1, <1>3 DEF FinState
<1>5. fin'.pc = "scan" /\ fin'.received = fin.received
  BY <1>1, <1>3 DEF FinState
<1>6. fin'.carried.cursor = fin.carried.cursor
  BY <1>1, <1>4 DEF FinState
<1>7. fin'.carried.materialized = TRUE
  BY <1>1, <1>4 DEF FinState
<1>8. UNCHANGED <<stream, status, log, nextId, produced, runs>>
  BY DEF AppendBatch
<1>9. status = "running" /\ fin.pc = "append"
  BY DEF AppendBatch
<1>10. QED
  BY <1>5, <1>6, <1>7, <1>8, <1>9

\* A scan finds the row after those the client has.
LEMMA ScanFinds ==
  ASSUME TypeOK, PhaseOK, LogOK
  PROVE  /\ PastCursor = (Len(fin.received) + 1)..Len(log)
         /\ PastCursor # {} => FirstRow = log[Len(fin.received) + 1]
<1> DEFINE n == Len(fin.received)
<1>1. n \in Nat /\ Len(log) \in Nat /\ DOMAIN log = 1..Len(log) /\ n <= Len(log)
  BY LenProperties DEF TypeOK, FinState, LogOK
<1>2. \A i \in 1..Len(log) : log[i].id \in Nat
  <2> TAKE i \in 1..Len(log)
  <2>1. log[i] \in [id : Nat, batch : 1..MaxBatches]
    BY ElementOfSeq DEF TypeOK
  <2>2. QED
    BY <2>1
<1>3. fin.received = <<>> <=> n = 0
  BY EmptySeq DEF TypeOK, FinState
<1>4. \A i \in 1..Len(log) : log[i].id > fin.carried.cursor <=> i > n
  <2> TAKE i \in 1..Len(log)
  <2>1. CASE n = 0
    <3>1. fin.carried.cursor = -1
      BY <1>3, <2>1 DEF LogOK
    <3>2. QED
      BY <1>2, <2>1, <3>1
  <2>2. CASE n # 0
    <3>1. n \in 1..Len(log) /\ fin.carried.cursor = log[n].id
      BY <1>1, <1>3, <2>2 DEF LogOK
    <3>2. \A j, k \in 1..Len(log) : j < k => log[j].id < log[k].id
      BY DEF LogOK
    <3>3. CASE i > n
      BY <1>2, <3>1, <3>2, <3>3
    <3>4. CASE i = n
      BY <1>2, <3>1, <3>4
    <3>5. CASE i < n
      BY <1>2, <3>1, <3>2, <3>5
    <3>6. QED
      BY <1>1, <3>3, <3>4, <3>5
  <2>3. QED
    BY <2>1, <2>2
<1>5. PastCursor = (n + 1)..Len(log)
  BY <1>1, <1>4 DEF PastCursor
<1>6. ASSUME PastCursor # {} PROVE FirstRow = log[n + 1]
  <2>1. n + 1 \in PastCursor /\ \A j \in PastCursor : n + 1 <= j
    BY <1>1, <1>5, <1>6
  <2>2. \A i \in PastCursor : (\A j \in PastCursor : i <= j) => i = n + 1
    BY <1>1, <1>5, <2>1
  <2>3. (CHOOSE i \in PastCursor : \A j \in PastCursor : i <= j) = n + 1
    BY <2>1, <2>2
  <2>4. QED
    BY <2>3 DEF FirstRow
<1>7. QED
  BY <1>5, <1>6

\* The client receives the next batch.
LEMMA EmitEffect ==
  ASSUME TypeOK, PhaseOK, LogOK, Emit
  PROVE  LET n == Len(fin.received) IN
         /\ n + 1 \in 1..Len(log)
         /\ fin' = [fin EXCEPT !.pc = "idle", !.carried.cursor = log[n + 1].id,
                               !.received = Append(fin.received, n + 1)]
         /\ n + 1 \in 1..MaxBatches
         /\ log[n + 1].id \in Nat
<1> DEFINE n == Len(fin.received)
<1>1. n \in Nat /\ Len(log) \in Nat
  BY LenProperties DEF TypeOK, FinState
<1>2. n + 1 \in 1..Len(log) /\ FirstRow = log[n + 1]
  BY <1>1, ScanFinds DEF Emit
<1>3. log[n + 1] \in [id : Nat, batch : 1..MaxBatches]
  BY <1>2, ElementOfSeq DEF TypeOK
<1>4. log[n + 1].batch = n + 1
  BY <1>2 DEF LogOK
<1>5. fin' = [fin EXCEPT !.pc = "idle", !.carried.cursor = log[n + 1].id,
                         !.received = Append(fin.received, n + 1)]
  BY <1>2, <1>4 DEF Emit, TypeOK, FinState
<1>6. QED
  BY <1>2, <1>3, <1>4, <1>5

LEMMA TypeStep ==
  ASSUME IInv, [Next]_vars
  PROVE  TypeOK'
<1> USE DEF IInv
<1>1. ASSUME NEW s \in Substreams, NEW w \in Workers, Open(s, w) PROVE TypeOK'
  <2>1. stream' \in [Substreams -> StreamState] /\ exec' \in Execs
    BY <1>1, OpenMoves, OneMoves
  <2>2. QED
    BY <1>1, <2>1, InputFrames DEF TypeOK, InputFrame
<1>2. ASSUME NEW s \in Substreams, NEW w \in Workers, SendTurn(s, w) PROVE TypeOK'
  <2>1. stream' \in [Substreams -> StreamState]
    BY <1>2, SendTurnMoves, OneMoves DEF StreamsOK
  <2>2. QED
    BY <1>2, <2>1, InputFrames DEF TypeOK, InputFrame
<1>3. ASSUME NEW s \in Substreams, Process(s) PROVE TypeOK'
  <2>1. stream' \in [Substreams -> StreamState]
    BY <1>3, ProcessMoves, OneMoves DEF StreamsOK
  <2>2. QED
    BY <1>3, <2>1, InputFrames DEF TypeOK, InputFrame
<1>4. ASSUME NEW s \in Substreams, Put(s) PROVE TypeOK'
  <2>1. stream' \in [Substreams -> StreamState]
    BY <1>4, PutMoves, OneMoves
  <2>2. store' \subseteq Rows /\ answered' \in States
    BY <1>4, PutRow DEF StreamsOK, TypeOK, States
  <2>3. QED
    BY <1>4, <2>1, <2>2, InputFrames DEF TypeOK, InputFrame
<1>5. ASSUME NEW s \in Substreams, Close(s) PROVE TypeOK'
  <2>1. stream' \in [Substreams -> StreamState]
    BY <1>5, CloseMoves, OneMoves
  <2>2. QED
    BY <1>5, <2>1, InputFrames DEF TypeOK, InputFrame
<1>6. CASE OpenFinalize
  <2>1. fin' \in FinState
    BY <1>6 DEF OpenFinalize, TypeOK, FinState
  <2>2. QED
    BY <1>6, <2>1 DEF OpenFinalize, TypeOK
<1>7. ASSUME NEW w \in Workers, SendFinalize(w) PROVE TypeOK'
  <2>1. fin' \in FinState
    BY <1>7 DEF SendFinalize, TypeOK, FinState
  <2>2. QED
    BY <1>7, <2>1 DEF SendFinalize, TypeOK
<1>8. CASE Finalize
  <2>1. PICK n \in 0..MaxBatches : produced' = n /\ fin' = [fin EXCEPT !.pc = "append", !.todo = n]
    BY <1>8 DEF Finalize
  <2>2. fin' \in FinState
    <3>1. n \in Nat
      BY BoundsAssumption
    <3>2. fin \in FinState
      BY DEF TypeOK
    <3>3. QED
      BY <2>1, <3>1, <3>2 DEF FinState
  <2>3. produced' \in 0..NotRun
    BY <2>1, BoundsAssumption DEF NotRun
  <2>4. handed' \subseteq Rows /\ store' \subseteq Rows /\ runs' \in Nat
    BY <1>8 DEF Finalize, TypeOK
  <2>5. QED
    BY <1>8, <2>2, <2>3, <2>4 DEF Finalize, TypeOK
<1>9. CASE AppendBatch
  <2>1. CASE fin.todo = 0
    <3>1. fin' = [fin EXCEPT !.pc = "scan", !.carried.materialized = TRUE]
      BY <1>9, <2>1 DEF AppendBatch
    <3>2. fin' \in FinState
      BY <3>1 DEF TypeOK, FinState
    <3>3. QED
      BY <1>9, <2>1, <3>2 DEF AppendBatch, TypeOK
  <2>2. CASE fin.todo # 0
    <3>1. fin' \in FinState
      <4>1. fin \in FinState /\ fin' = [fin EXCEPT !.todo = fin.todo - 1]
        BY <1>9, <2>2, AppendBatchEffect DEF TypeOK
      <4>2. fin.todo - 1 \in Nat
        BY <2>2, <4>1 DEF FinState
      <4>3. QED
        BY <4>1, <4>2 DEF FinState
    <3>2. log' \in Seq([id : Nat, batch : 1..MaxBatches]) /\ nextId' \in Nat
      BY <1>9, <2>2, AppendBatchEffect DEF TypeOK
    <3>3. QED
      BY <1>9, <3>1, <3>2 DEF AppendBatch, TypeOK
  <2>3. QED
    BY <2>1, <2>2
<1>10. CASE Emit
  <2> DEFINE n == Len(fin.received)
  <2>1. Append(fin.received, n + 1) \in Seq(1..MaxBatches)
    BY <1>10, EmitEffect, AppendProperties DEF TypeOK, FinState
  <2>2. fin' \in FinState
    <3>1. /\ fin' = [fin EXCEPT !.pc = "idle", !.carried.cursor = log[n + 1].id,
                                !.received = Append(fin.received, n + 1)]
          /\ log[n + 1].id \in Int /\ fin \in FinState
      BY <1>10, EmitEffect DEF TypeOK
    <3>2. QED
      BY <2>1, <3>1 DEF FinState
  <2>3. QED
    BY <1>10, <2>2 DEF Emit, TypeOK
<1>11. CASE Finish
  BY <1>11 DEF Finish, TypeOK
<1>12. CASE (\E s \in Substreams : RefuseTurn(s)) \/ (\E w \in Workers : Crash(w))
  BY <1>12, Fails DEF StatusFrame, TypeOK
<1>13. CASE OtherAppends
  BY <1>13 DEF OtherAppends, TypeOK
<1>14. CASE UNCHANGED vars
  BY <1>14 DEF vars, TypeOK
<1>15. QED
  BY <1>1, <1>2, <1>3, <1>4, <1>5, <1>6, <1>7, <1>8, <1>9, <1>10, <1>11, <1>12, <1>13, <1>14
     DEF Next, Client, Worker

-----------------------------------------------------------------------------
(* Streams                                                                 *)

\* A substream's part of the invariant is about its stream, its answers and
\* the execution only.
StreamOK(s) == PlaceOK(stream[s]) /\ MoreOK(stream[s]) /\ CarriedOK(stream[s], s)

LEMMA OthersKept ==
  ASSUME StreamsOK, NEW d \in Substreams, stream'[d] = stream[d],
         exec' = exec, Mine(d)' = Mine(d)
  PROVE  StreamOK(d)'
BY DEF StreamsOK, StreamOK, PlaceOK, MoreOK, CarriedOK, CurrentTurn

LEMMA MineKept ==
  ASSUME UNCHANGED answered, NEW d
  PROVE  Mine(d)' = Mine(d)
BY DEF Mine

LEMMA StreamsStep ==
  ASSUME IInv, [Next]_vars
  PROVE  StreamsOK'
<1> USE DEF IInv
<1>0. SUFFICES ASSUME NEW d \in Substreams PROVE StreamOK(d)'
  BY DEF StreamsOK, StreamOK
<1>t. stream[d] \in StreamState /\ PlaceOK(stream[d]) /\ MoreOK(stream[d]) /\ CarriedOK(stream[d], d)
  BY StateOf DEF StreamsOK
<1>1. ASSUME NEW s \in Substreams, NEW w \in Workers, Open(s, w) PROVE StreamOK(d)'
  <2>1. /\ Moved(s, [stream[s] EXCEPT !.pc = "idle", !.at = w, !.eid = GlobalInit(s)])
        /\ exec' = GlobalInit(s) /\ exec' \in Execs
    BY <1>1, OpenMoves
  <2>2. Mine(d)' = Mine(d)
    BY <1>1, InputFrames, MineKept
  <2>3. exec' # NoExec
    BY <2>1, ProcessesAssumption DEF Execs
  <2>4. CASE d = s
    <3>1. stream'[d] = [stream[d] EXCEPT !.pc = "idle", !.at = w, !.eid = GlobalInit(d)]
      BY <2>1, <2>4, OneMoves
    <3>2. stream[d].pc = "new"
      BY <1>1, <2>4 DEF Open
    <3>3. PlaceOK(stream[d])'
      BY <1>t, <2>1, <2>3, <2>4, <3>1, <3>2 DEF PlaceOK, StreamState
    <3>4. MoreOK(stream[d])'
      BY <1>t, <3>1, <3>2 DEF MoreOK, StreamState
    <3>5. CarriedOK(stream[d], d)'
      BY <1>t, <2>2, <3>1, <3>2 DEF CarriedOK, StreamState
    <3>6. QED
      BY <3>3, <3>4, <3>5 DEF StreamOK
  <2>5. CASE d # s
    <3>1. stream'[d] = stream[d]
      BY <2>1, <2>5, OneMoves
    <3>2. CASE exec = NoExec
      <4>1. stream[d].pc = "new"
        BY <1>t, <3>2 DEF PlaceOK
      <4>2. QED
        BY <1>t, <2>2, <3>1, <4>1 DEF StreamOK, PlaceOK, MoreOK, CarriedOK, CurrentTurn
    <3>3. CASE exec # NoExec
      BY <2>1, <2>2, <3>1, <3>3, OthersKept DEF GlobalInit
    <3>4. QED
      BY <3>2, <3>3
  <2>6. QED
    BY <2>4, <2>5
<1>2. ASSUME NEW s \in Substreams, NEW w \in Workers, SendTurn(s, w) PROVE StreamOK(d)'
  <2>1. MoreOK(stream[s])
    BY DEF StreamsOK
  <2>2. exec' = exec /\ Mine(d)' = Mine(d)
    BY <1>2, InputFrames, MineKept
  <2>3. stream[s].pc = "idle"
    BY <1>2 DEF SendTurn
  <2>4. CASE d = s /\ stream[d].more
    <3>1. stream'[d] = Ticked(stream[d], w)
      BY <1>2, <2>1, <2>4, SendTurnMoves, OneMoves
    <3>2. stream[d].carried.more /\ stream[d].reply >= 1
      <4>1. stream[d].carried.more
        BY <1>t, <2>3, <2>4 DEF MoreOK
      <4>2. stream[d].reply \in 1..(MaxReplies - 1)
        BY <1>t, <2>3, <2>4, <4>1 DEF MoreOK
      <4>3. QED
        BY <4>1, <4>2, BoundsAssumption
    <3>3. stream[d].input >= 1
      BY <1>t, <3>2 DEF PlaceOK
    <3>4. PlaceOK(stream[d])'
      BY <1>t, <2>2, <2>3, <2>4, <3>1, <3>2, <3>3, BoundsAssumption DEF PlaceOK, Ticked, StreamState
    <3>5. MoreOK(stream[d])'
      BY <1>t, <3>1, <3>2, BoundsAssumption DEF MoreOK, Ticked, StreamState
    <3>6. CarriedOK(stream[d], d)'
      BY <1>t, <2>2, <2>3, <2>4, <3>1 DEF CarriedOK, Ticked, StreamState
    <3>7. QED
      BY <3>4, <3>5, <3>6 DEF StreamOK
  <2>5. CASE d = s /\ ~stream[d].more
    <3>1. stream'[d] = Fed(stream[d], w)
      BY <1>2, <2>1, <2>5, SendTurnMoves, OneMoves
    <3>2. ~stream[d].carried.more
      BY <1>t, <2>3, <2>5 DEF MoreOK
    <3>3. PlaceOK(stream[d])'
      BY <1>t, <2>2, <2>3, <2>5, <3>1, BoundsAssumption DEF PlaceOK, Fed, StreamState
    <3>4. MoreOK(stream[d])'
      <4>1. stream'[d].pc = "process" /\ stream'[d].carried = stream[d].carried /\ stream'[d].reply = 1
        BY <1>t, <3>1 DEF Fed, StreamState
      <4>2. stream'[d].carried.more = FALSE
        BY <1>t, <3>2, <4>1 DEF StreamState
      <4>3. (1 > 1) = FALSE
        OBVIOUS
      <4>4. QED
        BY <4>1, <4>2, <4>3 DEF MoreOK
    <3>5. CarriedOK(stream[d], d)'
      BY <1>t, <2>2, <2>3, <2>5, <3>1 DEF CarriedOK, Fed, StreamState
    <3>6. QED
      BY <3>3, <3>4, <3>5 DEF StreamOK
  <2>6. CASE d # s
    BY <1>2, <2>1, <2>2, <2>6, SendTurnMoves, OneMoves, OthersKept
  <2>7. QED
    BY <2>4, <2>5, <2>6
<1>3. ASSUME NEW s \in Substreams, Process(s) PROVE StreamOK(d)'
  <2>1. PICK more \in BOOLEAN : /\ more => stream[s].reply < MaxReplies
                                /\ Moved(s, Folded(stream[s], s, more))
    BY <1>3, ProcessMoves DEF StreamsOK
  <2>2. exec' = exec /\ Mine(d)' = Mine(d)
    BY <1>3, InputFrames, MineKept
  <2>3. stream[s].pc = "process"
    BY <1>3 DEF Process
  <2>4. CASE d = s
    <3>1. stream'[d] = Folded(stream[d], d, more)
      BY <2>1, <2>4, OneMoves
    <3>2. PlaceOK(stream[d])'
      BY <1>t, <2>2, <2>3, <2>4, <3>1 DEF PlaceOK, Folded, StreamState
    <3>3. MoreOK(stream[d])'
      <4>1. /\ stream'[d].pc = "put" /\ stream'[d].carried.more = more
            /\ stream'[d].reply = stream[d].reply
        BY <1>t, <3>1 DEF Folded, StreamState
      <4>2. stream[d].reply \in Nat /\ stream[d].reply >= 1
        BY <1>t, <2>3, <2>4, BoundsAssumption DEF PlaceOK, StreamState
      <4>3. more => stream[d].reply \in 1..(MaxReplies - 1)
        BY <2>1, <2>4, <4>2, BoundsAssumption
      <4>4. QED
        BY <4>1, <4>3 DEF MoreOK
    <3>4. CarriedOK(stream[d], d)'
      BY <1>t, <2>2, <2>3, <2>4, <3>1 DEF CarriedOK, Folded, CurrentTurn, StreamState
    <3>5. QED
      BY <3>2, <3>3, <3>4 DEF StreamOK
  <2>5. CASE d # s
    BY <2>1, <2>2, <2>5, OneMoves, OthersKept
  <2>6. QED
    BY <2>4, <2>5
<1>4. ASSUME NEW s \in Substreams, Put(s) PROVE StreamOK(d)'
  <2>1. Moved(s, Answered(stream[s]))
    BY <1>4, PutMoves
  <2>2. exec' = exec /\ answered' = answered \cup {CurrentTurn(stream[s], s)}
    BY <1>4, InputFrames, PutRow DEF StreamsOK
  <2>3. stream[s].pc = "put"
    BY <1>4 DEF Put
  <2>4. CASE d = s
    <3>1. stream'[d] = Answered(stream[d])
      BY <2>1, <2>4, OneMoves
    <3>2. PlaceOK(stream[d])'
      BY <1>t, <2>2, <2>3, <2>4, <3>1 DEF PlaceOK, Answered, StreamState
    <3>3. MoreOK(stream[d])'
      BY <1>t, <2>3, <2>4, <3>1 DEF MoreOK, Answered, StreamState
    <3>4. Mine(d)' = Mine(d) \cup {CurrentTurn(stream[d], d)}
      BY <2>2, <2>4 DEF Mine, CurrentTurn
    <3>5. stream[d].input # 0
      BY <1>t, <2>3, <2>4, BoundsAssumption DEF PlaceOK, StreamState
    <3>6. CarriedOK(stream[d], d)'
      BY <1>t, <2>3, <2>4, <3>1, <3>4, <3>5 DEF CarriedOK, Answered, StreamState
    <3>7. QED
      BY <3>2, <3>3, <3>6 DEF StreamOK
  <2>5. CASE d # s
    <3>1. Mine(d)' = Mine(d)
      BY <2>2, <2>5 DEF Mine, CurrentTurn
    <3>2. QED
      BY <2>1, <2>2, <2>5, <3>1, OneMoves, OthersKept
  <2>6. QED
    BY <2>4, <2>5
<1>5. ASSUME NEW s \in Substreams, Close(s) PROVE StreamOK(d)'
  <2>1. Moved(s, Closed(stream[s])) /\ stream[s].pc = "idle"
    BY <1>5, CloseMoves DEF Close
  <2>2. exec' = exec /\ Mine(d)' = Mine(d)
    BY <1>5, InputFrames, MineKept
  <2>3. CASE d = s
    <3>1. stream'[d] = Closed(stream[d])
      BY <2>1, <2>3, OneMoves
    <3>2. QED
      BY <1>t, <2>1, <2>2, <2>3, <3>1 DEF StreamOK, PlaceOK, MoreOK, CarriedOK, Closed, StreamState
  <2>4. CASE d # s
    BY <2>1, <2>2, <2>4, OneMoves, OthersKept
  <2>5. QED
    BY <2>3, <2>4
<1>6. ASSUME UNCHANGED <<stream, exec, answered>> PROVE StreamOK(d)'
  BY <1>6, MineKept, OthersKept
<1>7. QED
  BY <1>1, <1>2, <1>3, <1>4, <1>5, <1>6, Fails
     DEF Next, Client, Worker, OpenFinalize, SendFinalize, Finalize, AppendBatch, Emit,
         Finish, OtherAppends, StatusFrame, vars

-----------------------------------------------------------------------------
(* Phases                                                                  *)

\* An INPUT stream only moves while the FINALIZE stream does not exist.
LEMMA InputFirst ==
  ASSUME IInv, NEW s \in Substreams,
         (\E w \in Workers : Open(s, w) \/ SendTurn(s, w)) \/ Process(s) \/ Put(s) \/ Close(s)
  PROVE  fin.pc = "new" /\ runs = 0 /\ InputFrame
<1>1. fin.pc = "new"
  BY DEF IInv, PhaseOK, Open, SendTurn, Process, Put, Close
<1>2. runs = 0
  BY <1>1 DEF IInv, PhaseOK
<1>3. InputFrame
  BY InputFrames
<1>4. QED
  BY <1>1, <1>2, <1>3

LEMMA PhaseStep ==
  ASSUME IInv, [Next]_vars
  PROVE  PhaseOK'
<1> USE DEF IInv
<1>0. fin \in FinState /\ runs \in Nat /\ produced \in 0..NotRun /\ PhaseOK
  BY DEF TypeOK
<1>1. ASSUME NEW s \in Substreams,
             (\E w \in Workers : Open(s, w) \/ SendTurn(s, w)) \/ Process(s) \/ Put(s) \/ Close(s)
      PROVE  PhaseOK'
  BY <1>0, <1>1, InputFirst DEF InputFrame, PhaseOK, NotRun
<1>2. CASE OpenFinalize
  BY <1>0, <1>2 DEF OpenFinalize, PhaseOK, FinState, NotRun
<1>3. ASSUME NEW w \in Workers, SendFinalize(w) PROVE PhaseOK'
  BY <1>0, <1>3 DEF SendFinalize, Materialized, PhaseOK, FinState, NotRun
<1>4. CASE Finalize
  <2>1. fin.pc = "collect" /\ runs = 0 /\ runs' = 1 /\ ~fin.carried.materialized
    BY <1>0, <1>4 DEF Finalize, PhaseOK
  <2>2. PICK n \in 0..MaxBatches : produced' = n /\ fin' = [fin EXCEPT !.pc = "append", !.todo = n]
    BY <1>4 DEF Finalize
  <2>3. produced' # NotRun
    BY <2>2, BoundsAssumption DEF NotRun
  <2>4. stream' = stream /\ \A s \in Substreams : stream[s].pc \in {"new", "closed"}
    BY <1>0, <1>4, <2>1 DEF Finalize, PhaseOK
  <2>5. fin'.pc = "append" /\ ~fin'.carried.materialized
    BY <1>0, <2>1, <2>2 DEF FinState
  <2>6. QED
    BY <2>1, <2>3, <2>4, <2>5 DEF PhaseOK, NotRun
<1>5. CASE AppendBatch
  <2>1. fin.pc = "append" /\ runs = 1 /\ UNCHANGED <<stream, runs, produced>>
    BY <1>0, <1>5 DEF AppendBatch, PhaseOK
  <2>2. CASE fin.todo = 0
    <3>1. fin'.pc = "scan" /\ fin'.carried.materialized
      BY <1>5, <2>2, AppendBatchEnds
    <3>2. QED
      BY <1>0, <2>1, <3>1 DEF PhaseOK, NotRun
  <2>3. CASE fin.todo # 0
    <3>1. fin'.pc = "append" /\ fin'.carried = fin.carried
      BY <1>0, <1>5, <2>1, <2>3 DEF AppendBatch, FinState
    <3>2. QED
      BY <1>0, <2>1, <3>1 DEF PhaseOK, NotRun
  <2>4. QED
    BY <2>2, <2>3
<1>6. CASE Emit
  <2>1. fin.pc = "scan" /\ runs = 1 /\ UNCHANGED <<stream, runs, produced>>
    BY <1>0, <1>6 DEF Emit, PhaseOK
  <2>2. fin'.pc = "idle" /\ fin'.carried.materialized = fin.carried.materialized
    BY <1>0, <1>6 DEF Emit, FinState
  <2>3. QED
    BY <1>0, <2>1, <2>2 DEF PhaseOK, NotRun
<1>7. CASE UNCHANGED <<stream, fin, runs, produced>>
  BY <1>0, <1>7 DEF PhaseOK, NotRun
<1>8. QED
  BY <1>1, <1>2, <1>3, <1>4, <1>5, <1>6, <1>7, Fails
     DEF Next, Client, Worker, Finish, OtherAppends, StatusFrame, vars

-----------------------------------------------------------------------------
(* Rows                                                                    *)

\* The rows depend on the answers and the execution only.
LEMMA RowsKept ==
  ASSUME UNCHANGED <<exec, answered>>
  PROVE  AnsweredRows' = AnsweredRows
BY DEF AnsweredRows, RowOf, Mine

\* Storing a turn replaces the row of its substream, and no other.
LEMMA PutRows ==
  ASSUME IInv, SendsIds, NEW s \in Substreams, Put(s)
  PROVE  store' = AnsweredRows'
<1> USE DEF IInv
<1>1. store = AnsweredRows
  BY InputFirst DEF RowsOK
<1>2. PlaceOK(stream[s]) /\ CarriedOK(stream[s], s) /\ stream[s].pc = "put"
  BY DEF StreamsOK, Put
<1>3. answered' = answered \cup {CurrentTurn(stream[s], s)} /\ exec' = exec
  BY <1>2, PutRow, InputFrames
<1>4. Mine(s)' = Mine(s) \cup {CurrentTurn(stream[s], s)}
  BY <1>3 DEF Mine, CurrentTurn
<1>5. stream[s].carried.state = Mine(s)'
  BY <1>2, <1>4 DEF CarriedOK
<1>6. \A d \in Substreams \ {s} : Mine(d)' = Mine(d)
  BY <1>3 DEF Mine, CurrentTurn
<1>7. store' = {r \in store : r.exec # exec \/ r.key # s} \cup {RowOf(s)'}
  <2>1. store' = WorkerPut(exec, s, Mine(s)')
    BY <1>2, <1>5, PutRow DEF StateKey
  <2>2. QED
    BY <1>3, <2>1 DEF WorkerPut, RowOf
<1>8. {r \in store : r.exec # exec \/ r.key # s}
        = {RowOf(d) : d \in {e \in Substreams : Mine(e) # {} /\ e # s}}
  BY <1>1 DEF AnsweredRows, RowOf
<1>9. \A d \in Substreams \ {s} : RowOf(d)' = RowOf(d)
  BY <1>3, <1>6 DEF RowOf
<1>10. AnsweredRows' = {RowOf(d)' : d \in {e \in Substreams : Mine(e)' # {}}}
  BY DEF AnsweredRows
<1>11. {e \in Substreams : Mine(e)' # {}} = {e \in Substreams : Mine(e) # {} /\ e # s} \cup {s}
  BY <1>4, <1>6
<1>12. AnsweredRows' = {RowOf(d) : d \in {e \in Substreams : Mine(e) # {} /\ e # s}} \cup {RowOf(s)'}
  BY <1>9, <1>10, <1>11
<1>13. QED
  BY <1>7, <1>8, <1>12

LEMMA RowsStep ==
  ASSUME IInv, [Next]_vars
  PROVE  RowsOK'
<1> USE DEF IInv
<1>1. ASSUME NEW s \in Substreams, NEW w \in Workers, Open(s, w) PROVE RowsOK'
  <2>1. runs = 0 /\ InputFrame /\ UNCHANGED <<store, answered>>
    BY <1>1, InputFirst, InputFrames
  <2>2. AnsweredRows' = AnsweredRows
    <3>1. CASE exec = NoExec
      <4>1. \A d \in Substreams : Mine(d) = {}
        BY <3>1 DEF StreamsOK, PlaceOK, CarriedOK
      <4>2. \A d \in Substreams : Mine(d)' = {}
        BY <2>1, <4>1, MineKept
      <4>3. QED
        BY <4>1, <4>2 DEF AnsweredRows
    <3>2. CASE exec # NoExec
      BY <1>1, <2>1, <3>2, RowsKept DEF Open
    <3>3. QED
      BY <3>1, <3>2
  <2>3. QED
    BY <2>1, <2>2 DEF RowsOK, InputFrame
<1>2. ASSUME NEW s \in Substreams, Put(s) PROVE RowsOK'
  <2>1. runs' = 0 /\ handed' = handed /\ runs = 0
    BY <1>2, InputFirst DEF InputFrame
  <2>2. QED
    BY <1>2, <2>1, PutRows DEF RowsOK
<1>3. CASE Finalize
  <2>1. runs = 0 /\ runs' = 1 /\ AnsweredRows' = AnsweredRows
    BY <1>3, RowsKept DEF Finalize, PhaseOK
  <2>2. SendsIds => handed' = AnsweredRows
    BY <1>3, <2>1 DEF Finalize, RowsOK, AnsweredRows, RowOf
  <2>3. QED
    BY <2>1, <2>2 DEF RowsOK
<1>4. CASE UNCHANGED <<exec, store, answered, handed, runs>>
  BY <1>4, RowsKept DEF RowsOK
<1>5. ASSUME NEW s \in Substreams,
             (\E w \in Workers : SendTurn(s, w)) \/ Process(s) \/ Close(s)
      PROVE  UNCHANGED <<exec, store, answered, handed, runs>>
  BY <1>5, InputFrames DEF InputFrame
<1>6. QED
  BY <1>1, <1>2, <1>3, <1>4, <1>5, Fails
     DEF Next, Client, Worker, OpenFinalize, SendFinalize, AppendBatch, Emit, Finish,
         OtherAppends, StatusFrame, vars

-----------------------------------------------------------------------------
(* The log                                                                 *)

LEMMA LogStep ==
  ASSUME IInv, [Next]_vars
  PROVE  LogOK'
<1> USE DEF IInv
<1>0. /\ fin \in FinState /\ runs \in Nat /\ produced \in 0..NotRun /\ nextId \in Nat
      /\ log \in Seq([id : Nat, batch : 1..MaxBatches]) /\ fin.received \in Seq(1..MaxBatches)
      /\ Len(log) \in Nat /\ Len(fin.received) \in Nat /\ fin.todo \in Nat
      /\ LogOK /\ PhaseOK
  BY LenProperties DEF TypeOK, FinState
<1>1. ASSUME NEW s \in Substreams,
             (\E w \in Workers : Open(s, w) \/ SendTurn(s, w)) \/ Process(s) \/ Put(s) \/ Close(s)
      PROVE  LogOK'
  BY <1>0, <1>1, InputFirst DEF InputFrame, LogOK
<1>2. ASSUME OpenFinalize \/ \E w \in Workers : SendFinalize(w) PROVE LogOK'
  <2>1. /\ fin.pc \in {"new", "idle"} /\ fin'.pc \in {"idle", "scan", "collect"}
        /\ fin'.received = fin.received /\ fin'.carried = fin.carried
        /\ UNCHANGED <<status, log, nextId, produced, runs>> /\ status = "running"
    BY <1>0, <1>2 DEF OpenFinalize, SendFinalize, FinState
  <2>2. QED
    BY <1>0, <2>1 DEF LogOK
<1>3. CASE Finalize
  <2>1. runs = 0 /\ runs' = 1 /\ UNCHANGED <<status, log, nextId>> /\ status = "running"
    BY <1>0, <1>3 DEF Finalize, PhaseOK
  <2>2. PICK n \in 0..MaxBatches : produced' = n /\ fin' = [fin EXCEPT !.pc = "append", !.todo = n]
    BY <1>3 DEF Finalize
  <2>3. /\ fin'.pc = "append" /\ fin'.todo = n
        /\ fin'.received = fin.received /\ fin'.carried = fin.carried
    BY <1>0, <2>2 DEF FinState
  <2>4. Len(log) = 0 /\ n - n = 0
    BY <1>0, <2>1, BoundsAssumption DEF LogOK
  <2>5. QED
    BY <1>0, <2>1, <2>2, <2>3, <2>4 DEF LogOK
<1>4. CASE AppendBatch /\ fin.todo = 0
  <2>1. /\ fin.pc = "append" /\ fin'.pc = "scan" /\ fin'.received = fin.received
        /\ fin'.carried.cursor = fin.carried.cursor
        /\ UNCHANGED <<status, log, nextId, produced, runs>> /\ status = "running"
    BY <1>4, AppendBatchEnds
  <2>2. produced - fin.todo = produced
    BY <1>0, <1>4
  <2>3. QED
    BY <1>0, <2>1, <2>2 DEF LogOK
<1>5. CASE AppendBatch /\ fin.todo # 0
  <2>1. /\ Len(log') = Len(log) + 1 /\ nextId' = nextId + 1
        /\ \A i \in 1..Len(log) : log'[i] = log[i]
        /\ log'[Len(log) + 1] = [id |-> nextId, batch |-> Len(log) + 1]
        /\ fin' = [fin EXCEPT !.todo = fin.todo - 1]
    BY <1>0, <1>5, AppendBatchEffect
  <2>2. /\ fin.pc = "append" /\ fin'.pc = "append" /\ fin'.todo = fin.todo - 1
        /\ fin'.received = fin.received /\ fin'.carried = fin.carried
        /\ UNCHANGED <<status, produced, runs>> /\ status = "running" /\ runs = 1
    BY <1>0, <1>5, <2>1 DEF AppendBatch, FinState, PhaseOK
  <2>3. \A i \in 1..Len(log) : log[i].id \in Nat
    <3> TAKE i \in 1..Len(log)
    <3>1. log[i] \in [id : Nat, batch : 1..MaxBatches]
      BY <1>0, ElementOfSeq
    <3>2. QED
      BY <3>1
  <2>4. \A i \in 1..Len(log') : log'[i].batch = i /\ log'[i].id < nextId'
    <3> TAKE i \in 1..Len(log')
    <3>1. CASE i \in 1..Len(log)
      <4>1. log[i].batch = i /\ log[i].id < nextId
        BY <1>0, <3>1 DEF LogOK
      <4>2. QED
        BY <1>0, <2>1, <2>3, <3>1, <4>1
    <3>2. CASE i = Len(log) + 1
      BY <1>0, <2>1, <3>2
    <3>3. QED
      BY <1>0, <2>1, <3>1, <3>2
  <2>5. \A i, j \in 1..Len(log') : i < j => log'[i].id < log'[j].id
    <3> TAKE i, j \in 1..Len(log')
    <3> HAVE i < j
    <3>1. i \in 1..Len(log) /\ log'[i].id = log[i].id /\ log[i].id < nextId
      <4>1. i \in 1..Len(log)
        BY <1>0, <2>1
      <4>2. QED
        BY <1>0, <2>1, <4>1 DEF LogOK
    <3>2. CASE j \in 1..Len(log)
      BY <1>0, <2>1, <3>1, <3>2 DEF LogOK
    <3>3. CASE j = Len(log) + 1
      BY <2>1, <3>1, <3>3
    <3>4. QED
      BY <1>0, <2>1, <3>2, <3>3
  <2>6. Len(log') = produced' - fin'.todo
    BY <1>0, <2>1, <2>2 DEF LogOK
  <2>7. Len(fin'.received) <= Len(log')
    BY <1>0, <2>1, <2>2 DEF LogOK
  <2>8. fin'.carried.cursor = IF fin'.received = <<>> THEN -1 ELSE log'[Len(fin'.received)].id
    <3>1. CASE fin.received = <<>>
      BY <1>0, <2>2, <3>1 DEF LogOK
    <3>2. CASE fin.received # <<>>
      <4>1. Len(fin.received) \in 1..Len(log)
        BY <1>0, <3>2, EmptySeq DEF LogOK
      <4>2. QED
        BY <1>0, <2>1, <2>2, <3>2, <4>1 DEF LogOK
    <3>3. QED
      BY <3>1, <3>2
  <2>9. QED
    BY <1>0, <2>2, <2>4, <2>5, <2>6, <2>7, <2>8 DEF LogOK
<1>6. CASE Emit
  <2> DEFINE n == Len(fin.received)
  <2>1. /\ n + 1 \in 1..Len(log)
        /\ fin' = [fin EXCEPT !.pc = "idle", !.carried.cursor = log[n + 1].id,
                              !.received = Append(fin.received, n + 1)]
        /\ n + 1 \in 1..MaxBatches
    BY <1>0, <1>6, EmitEffect
  <2>2. /\ fin'.pc = "idle" /\ fin'.received = Append(fin.received, n + 1)
        /\ fin'.carried.cursor = log[n + 1].id
    BY <1>0, <2>1 DEF FinState
  <2>3. /\ fin'.received # <<>> /\ Len(fin'.received) = n + 1
        /\ \A i \in 1..n : fin'.received[i] = fin.received[i]
        /\ fin'.received[n + 1] = n + 1
    BY <1>0, <2>1, <2>2, AppendProperties
  <2>4. /\ UNCHANGED <<status, log, nextId, produced, runs>> /\ status = "running"
        /\ fin.pc = "scan"
    BY <1>6 DEF Emit
  <2>5. \A i \in 1..Len(fin'.received) : fin'.received[i] = i
    <3> TAKE i \in 1..Len(fin'.received)
    <3>1. CASE i \in 1..n
      <4>1. fin.received[i] = i
        BY <3>1 DEF LogOK
      <4>2. QED
        BY <2>3, <3>1, <4>1
    <3>2. CASE i = n + 1
      BY <2>3, <3>2
    <3>3. QED
      BY <1>0, <2>3, <3>1, <3>2
  <2>6. Len(fin'.received) <= Len(log)
    BY <1>0, <2>1, <2>3
  <2>7. QED
    BY <1>0, <2>2, <2>3, <2>4, <2>5, <2>6 DEF LogOK
<1>7. CASE Finish
  <2>1. fin.pc = "scan" /\ UNCHANGED <<fin, log, nextId, produced, runs>> /\ PastCursor = {}
    BY <1>7 DEF Finish
  <2>2. Len(fin.received) = produced
    <3>1. (Len(fin.received) + 1)..Len(log) = {}
      BY <1>0, <2>1, ScanFinds
    <3>2. Len(log) = produced
      BY <1>0, <2>1 DEF LogOK, PhaseOK
    <3>3. Len(fin.received) <= Len(log)
      BY <1>0 DEF LogOK
    <3>4. Len(fin.received) + 1 \notin (Len(fin.received) + 1)..Len(log)
      BY <3>1
    <3>5. QED
      BY <1>0, <3>2, <3>3, <3>4
  <2>3. QED
    BY <1>0, <2>1, <2>2 DEF LogOK
<1>8. CASE OtherAppends
  <2>1. \A i \in 1..Len(log) : log[i].id \in Nat
    <3> TAKE i \in 1..Len(log)
    <3>1. log[i] \in [id : Nat, batch : 1..MaxBatches]
      BY <1>0, ElementOfSeq
    <3>2. QED
      BY <3>1
  <2>2. \A i \in 1..Len(log) : log[i].id < nextId + 1
    BY <1>0, <2>1 DEF LogOK
  <2>3. QED
    BY <1>0, <1>8, <2>2 DEF OtherAppends, LogOK
<1>9. ASSUME UNCHANGED <<fin, log, nextId, produced, runs>>, status' \in {status, "failed"}
      PROVE  LogOK'
  BY <1>0, <1>9 DEF LogOK
<1>10. QED
  BY <1>1, <1>2, <1>3, <1>4, <1>5, <1>6, <1>7, <1>8, <1>9, Fails
     DEF Next, Client, Worker, StatusFrame, vars

-----------------------------------------------------------------------------
(* The theorems                                                            *)

LEMMA InitOK == Init => IInv
<1> SUFFICES ASSUME Init PROVE IInv
  OBVIOUS
<1>1. stream \in [Substreams -> StreamState]
  BY BoundsAssumption DEF Init, StreamState, ExchangeInit, InitialState, States
<1>2. fin \in FinState
  <2>1. <<>> \in Seq(1..MaxBatches)
    BY EmptySeq
  <2>2. QED
    BY <2>1 DEF Init, FinState, ProducerInit
<1>3. log \in Seq([id : Nat, batch : 1..MaxBatches]) /\ Len(log) = 0
  BY EmptySeq DEF Init
<1>4. produced \in 0..NotRun
  BY BoundsAssumption DEF Init, NotRun
<1>5. TypeOK
  <2>1. answered \in States /\ store \subseteq Rows /\ handed \subseteq Rows
    BY DEF Init, States
  <2>2. nextId \in Nat /\ runs \in Nat /\ exec \in Execs \cup {NoExec}
    BY DEF Init
  <2>3. http \in BOOLEAN /\ status \in {"running", "done", "failed"}
    BY DEF Init
  <2>4. QED
    BY <1>1, <1>2, <1>3, <1>4, <2>1, <2>2, <2>3 DEF TypeOK
<1>6. StreamsOK
  <2> SUFFICES ASSUME NEW s \in Substreams
               PROVE  PlaceOK(stream[s]) /\ MoreOK(stream[s]) /\ CarriedOK(stream[s], s)
    BY DEF StreamsOK
  <2>1. /\ stream[s].pc = "new" /\ stream[s].input = 0 /\ stream[s].reply = 0
        /\ stream[s].more = FALSE
        /\ stream[s].carried = [state |-> {}, more |-> FALSE]
    BY DEF Init, ExchangeInit, InitialState
  <2>2. Mine(s) = {}
    BY DEF Init, Mine
  <2>3. PlaceOK(stream[s])
    BY <2>1 DEF PlaceOK
  <2>4. MoreOK(stream[s])
    <3>1. stream[s].carried.more = FALSE
      BY <2>1
    <3>2. QED
      BY <2>1, <3>1 DEF MoreOK
  <2>5. CarriedOK(stream[s], s)
    BY <2>1, <2>2 DEF CarriedOK
  <2>6. QED
    BY <2>3, <2>4, <2>5
<1>7. PhaseOK
  BY DEF Init, PhaseOK, ProducerInit
<1>8. RowsOK
  <2>1. \A s \in Substreams : Mine(s) = {}
    BY DEF Init, Mine
  <2>2. AnsweredRows = {}
    BY <2>1 DEF AnsweredRows
  <2>3. QED
    BY <2>2 DEF Init, RowsOK
<1>9. LogOK
  <2>1. fin.received = <<>> /\ fin.carried.cursor = -1 /\ Len(fin.received) = 0
    BY EmptySeq DEF Init, ProducerInit
  <2>2. QED
    BY <1>3, <2>1 DEF Init, LogOK
<1>10. QED
  BY <1>5, <1>6, <1>7, <1>8, <1>9 DEF IInv

LEMMA StepOK == IInv /\ [Next]_vars => IInv'
BY TypeStep, StreamsStep, PhaseStep, RowsStep, LogStep DEF IInv

\* The rows, the log and the streams agree at every step (IInv above).
THEOREM Inductive == Spec => []IInv
BY InitOK, StepOK, PTL DEF Spec

\* The streams, the storage, the log and the histories keep their types.
THEOREM TypeCorrect == Spec => []TypeOK
<1>1. IInv => TypeOK
  BY DEF IInv
<1>2. QED
  BY <1>1, Inductive, PTL

\* No turn of a client that follows the protocol is refused, on either
\* transport: worker and client agree on whether output is pending.
THEOREM TurnsNeverRefused == Spec => []TurnNeverRefused
<1>1. ASSUME IInv, NEW s \in Substreams, stream[s].pc = "process" PROVE ~Refused(s)
  <2>1. stream[s] \in StreamState /\ stream[s].carried.more = (stream[s].reply > 1)
    BY <1>1, StateOf DEF IInv, StreamsOK, MoreOK
  <2>2. Rebuild(stream[s].carried) = stream[s].carried
    BY <2>1, RebuildKeeps DEF StreamState
  <2>3. QED
    BY <2>1, <2>2 DEF Refused, IsTick
<1>2. IInv => TurnNeverRefused
  BY <1>1 DEF TurnNeverRefused
<1>3. QED
  BY <1>2, Inductive, PTL

\* The client has a prefix of finalize()'s batches, and all of them at the end.
THEOREM BatchesInOrder == Spec => []DeliveredInOrder
<1>1. ASSUME IInv PROVE DeliveredInOrder
  <2>1. fin.received \in Seq(1..MaxBatches)
    BY <1>1 DEF IInv, TypeOK, FinState
  <2>2. DOMAIN fin.received = 1..Len(fin.received)
    BY <2>1, LenProperties
  <2>3. fin.received = [i \in 1..Len(fin.received) |-> fin.received[i]]
    BY <2>1, <2>2
  <2>4. \A i \in 1..Len(fin.received) : fin.received[i] = i
    BY <1>1 DEF IInv, LogOK
  <2>5. QED
    BY <1>1, <2>3, <2>4 DEF IInv, LogOK, DeliveredInOrder
<1>2. QED
  BY <1>1, Inductive, PTL

\* finalize() runs at most once, however often its stream is continued.
THEOREM FinalizeOnce == Spec => []FinalizeRunsOnce
<1>1. IInv => FinalizeRunsOnce
  BY DEF IInv, PhaseOK, FinalizeRunsOnce, TypeOK, FinState
<1>2. QED
  BY <1>1, Inductive, PTL

\* With substream ids, a substream's row is the state its next turn starts from.
THEOREM RowsAreCarried ==
  ASSUME SendsIds
  PROVE  Spec => []StoredIsCarried
<1>1. ASSUME IInv, NEW s \in Substreams,
             stream[s].pc \in {"idle", "closed"}, runs = 0
      PROVE  /\ stream[s].carried.state = Mine(s)
             /\ {r.state : r \in {x \in store : x.exec = exec /\ x.key = s}} =
                   IF stream[s].input = 0 THEN {} ELSE {stream[s].carried.state}
  <2>1. CarriedOK(stream[s], s) /\ store = AnsweredRows
    BY <1>1 DEF IInv, StreamsOK, RowsOK
  <2>2. stream[s].carried.state = Mine(s) /\ (stream[s].input = 0 <=> Mine(s) = {})
    BY <1>1, <2>1 DEF CarriedOK
  <2>3. {x \in store : x.exec = exec /\ x.key = s} = IF Mine(s) = {} THEN {} ELSE {RowOf(s)}
    BY <2>1 DEF AnsweredRows, RowOf
  <2>4. {r.state : r \in {x \in store : x.exec = exec /\ x.key = s}}
          = IF Mine(s) = {} THEN {} ELSE {Mine(s)}
    <3>1. CASE Mine(s) = {}
      BY <2>3, <3>1
    <3>2. CASE Mine(s) # {}
      <4>1. {x \in store : x.exec = exec /\ x.key = s} = {RowOf(s)}
        BY <2>3, <3>2
      <4>2. RowOf(s).state = Mine(s)
        BY DEF RowOf
      <4>3. QED
        BY <3>2, <4>1, <4>2
    <3>3. QED
      BY <3>1, <3>2
  <2>5. QED
    BY <2>2, <2>4
<1>2. IInv => StoredIsCarried
  BY <1>1 DEF StoredIsCarried, Mine
<1>3. QED
  BY <1>2, Inductive, PTL

\* A turn is in the row of its substream when it is answered, and in no other.
CountOK == \A t \in Turns : Times(t) = IF runs > 0 /\ t \in answered THEN 1 ELSE 0

LEMMA Counted ==
  ASSUME SendsIds, IInv
  PROVE  CountOK
<1> USE DEF CountOK
<1> TAKE t \in Turns
<1> DEFINE H == {r \in handed : t \in r.state}
<1>0. runs \in {0, 1}
  BY DEF IInv, TypeOK, PhaseOK, FinState
<1>1. CASE runs = 0
  <2>1. H = {}
    BY <1>1 DEF IInv, RowsOK
  <2>2. QED
    BY <1>1, <2>1, FS_EmptySet DEF Times
<1>2. CASE runs = 1
  <2>1. handed = AnsweredRows /\ t[1] \in Substreams
    BY <1>2 DEF IInv, RowsOK, Turns
  <2>2. CASE t \in answered
    <3>1. t \in Mine(t[1])
      BY <2>2 DEF Mine
    <3>2. H = {RowOf(t[1])}
      BY <2>1, <3>1 DEF AnsweredRows, RowOf, Mine
    <3>3. QED
      BY <1>2, <2>2, <3>2, FS_Singleton DEF Times
  <2>3. CASE t \notin answered
    <3>1. H = {}
      BY <2>1, <2>3 DEF AnsweredRows, RowOf, Mine
    <3>2. QED
      BY <2>3, <3>1, FS_EmptySet DEF Times
  <2>4. QED
    BY <2>2, <2>3
<1>3. QED
  BY <1>0, <1>1, <1>2

LEMMA CountedNext ==
  ASSUME SendsIds
  PROVE  IInv' => CountOK'
<1>1. IInv => CountOK
  BY Counted
<1>2. QED
  BY <1>1, PTL

\* With substream ids, finalize() sees every answered turn once, whatever
\* processes served the substreams.
THEOREM EveryTurnCountedOnce ==
  ASSUME SendsIds
  PROVE  Spec => []TurnsCountedOnce
<1>1. IInv => TurnsCountedOnce
  BY Counted DEF TurnsCountedOnce, CountOK
<1>2. QED
  BY <1>1, Inductive, PTL

\* How often each turn is counted changes only when finalize() runs.
LEMMA CountKept ==
  ASSUME UNCHANGED handed
  PROVE  UNCHANGED [t \in Turns |-> Times(t)]
BY DEF Times

\* With substream ids, both transports give the client what one process
\* folding all turns in memory would.
THEOREM StreamsImplementResult ==
  ASSUME SendsIds
  PROVE  Spec => ImplementsResult
<1>1. ASSUME Init PROVE Result!Init
  <2>1. IInv
    BY <1>1, InitOK
  <2>2. \A t \in Turns : Times(t) = 0
    BY <1>1, <2>1, Counted DEF Init, CountOK
  <2>3. QED
    BY <1>1, <2>2 DEF Init, Result!Init, NotRun, Result!NotRun, ProducerInit
<1>2. ASSUME IInv, IInv', [Next]_vars PROVE [Result!Next]_(Result!vars)
  <2> USE <1>2
  <2>1. ASSUME NEW s \in Substreams, Put(s) PROVE [Result!Next]_(Result!vars)
    <3>1. /\ InputFrame /\ runs = 0 /\ status = "running"
          /\ CurrentTurn(stream[s], s) \in Turns
          /\ answered' = answered \cup {CurrentTurn(stream[s], s)}
      BY <2>1, InputFirst, PutRow DEF IInv, StreamsOK, Put
    <3>2. produced = NotRun
      BY <3>1 DEF IInv, PhaseOK
    <3>3. UNCHANGED [t \in Turns |-> Times(t)]
      BY <3>1, CountKept DEF InputFrame
    <3>4. UNCHANGED <<produced, fin.received, status>>
      BY <3>1 DEF InputFrame
    <3>5. CASE CurrentTurn(stream[s], s) \in answered
      BY <3>1, <3>3, <3>4, <3>5 DEF Result!vars
    <3>6. CASE CurrentTurn(stream[s], s) \notin answered
      <4>1. Result!Answer
        BY <3>1, <3>2, <3>3, <3>4, <3>6 DEF Result!Answer, NotRun, Result!NotRun
      <4>2. QED
        BY <4>1 DEF Result!Next
    <3>7. QED
      BY <3>5, <3>6
  <2>2. ASSUME Finalize PROVE Result!Next
    <3>1. /\ status = "running" /\ UNCHANGED <<answered, status>> /\ runs' = 1
          /\ produced = NotRun
      BY <2>2 DEF Finalize, IInv, PhaseOK
    <3>2. [t \in Turns |-> Times(t)]' = [t \in Turns |-> IF t \in answered THEN 1 ELSE 0]
      <4>1. \A t \in Turns : Times(t)' = IF runs' > 0 /\ t \in answered' THEN 1 ELSE 0
        BY CountedNext DEF CountOK
      <4>2. QED
        BY <3>1, <4>1
    <3>3. PICK n \in 0..MaxBatches : produced' = n /\ fin' = [fin EXCEPT !.pc = "append", !.todo = n]
      BY <2>2 DEF Finalize
    <3>4. fin'.received = fin.received
      BY <3>3 DEF IInv, TypeOK, FinState
    <3>5. Result!Finalize
      BY <3>1, <3>2, <3>3, <3>4 DEF Result!Finalize, NotRun, Result!NotRun
    <3>6. QED
      BY <3>5 DEF Result!Next
  <2>3. ASSUME Emit PROVE Result!Next
    <3> DEFINE n == Len(fin.received)
    <3>1. /\ n + 1 \in 1..Len(log)
          /\ fin' = [fin EXCEPT !.pc = "idle", !.carried.cursor = log[n + 1].id,
                                !.received = Append(fin.received, n + 1)]
      BY <2>3, EmitEffect DEF IInv
    <3>2. fin'.received = Append(fin.received, n + 1)
      BY <3>1 DEF IInv, TypeOK, FinState
    <3>3. /\ status = "running" /\ UNCHANGED <<answered, produced, status, handed>>
          /\ runs = 1 /\ fin.pc = "scan"
      BY <2>3 DEF Emit, IInv, PhaseOK
    <3>4. Len(log) = produced /\ produced # NotRun
      BY <3>3 DEF IInv, LogOK, PhaseOK
    <3>5. n \in Nat /\ produced \in Nat
      BY <3>4, LenProperties, BoundsAssumption DEF IInv, TypeOK, FinState, NotRun
    <3>6. n < produced
      BY <3>1, <3>4, <3>5
    <3>7. Result!Deliver
      BY <3>2, <3>3, <3>4, <3>6, CountKept DEF Result!Deliver, NotRun, Result!NotRun
    <3>8. QED
      BY <3>7 DEF Result!Next
  <2>4. ASSUME Finish PROVE Result!Next
    <3>1. Len(fin.received) = produced
      BY <2>4 DEF IInv, LogOK, Finish
    <3>2. Result!Finish
      BY <2>4, <3>1, CountKept DEF Finish, Result!Finish
    <3>3. QED
      BY <3>2 DEF Result!Next
  <2>5. ASSUME (\E s \in Substreams : RefuseTurn(s)) \/ (\E w \in Workers : Crash(w))
        PROVE  Result!Next
    <3>1. StatusFrame /\ status' = "failed" /\ status = "running"
      BY <2>5, Fails DEF RefuseTurn, Crash
    <3>2. Result!Fail
      BY <3>1, CountKept DEF StatusFrame, Result!Fail
    <3>3. QED
      BY <3>2 DEF Result!Next
  <2>6. ASSUME UNCHANGED <<answered, handed, produced, status>>, fin'.received = fin.received
        PROVE  UNCHANGED Result!vars
    BY <2>6, CountKept DEF Result!vars
  <2>7. ASSUME NEW s \in Substreams,
               (\E w \in Workers : Open(s, w) \/ SendTurn(s, w)) \/ Process(s) \/ Close(s)
        PROVE  UNCHANGED <<answered, handed, produced, status>> /\ fin' = fin
    BY <2>7, InputFrames DEF InputFrame
  <2>8. ASSUME OpenFinalize \/ \E w \in Workers : SendFinalize(w)
        PROVE  UNCHANGED <<answered, handed, produced, status>> /\ fin'.received = fin.received
    BY <2>8 DEF OpenFinalize, SendFinalize, IInv, TypeOK, FinState
  <2>9. ASSUME AppendBatch
        PROVE  UNCHANGED <<answered, handed, produced, status>> /\ fin'.received = fin.received
    <3>1. CASE fin.todo = 0
      BY <2>9, <3>1, AppendBatchEnds DEF AppendBatch, IInv
    <3>2. CASE fin.todo # 0
      BY <2>9, <3>2, AppendBatchEffect DEF AppendBatch, IInv, TypeOK, FinState
    <3>3. QED
      BY <3>1, <3>2
  <2>10. ASSUME OtherAppends \/ UNCHANGED vars
         PROVE  UNCHANGED <<answered, handed, produced, status>> /\ fin' = fin
    BY <2>10 DEF OtherAppends, vars
  <2>11. QED
    BY <2>1, <2>2, <2>3, <2>4, <2>5, <2>6, <2>7, <2>8, <2>9, <2>10 DEF Next, Client, Worker
<1>3. QED
  BY <1>1, <1>2, Inductive, PTL DEF Spec, ImplementsResult, Result!Spec

-----------------------------------------------------------------------------
(* FilterHistory: loops                                                    *)

\* Induction, for a set instead of a predicate.
LEMMA Climbs ==
    ASSUME NEW k \in Nat, NEW A, 0 \in A, \A n \in 1..k : n - 1 \in A => n \in A
    PROVE  0..k \subseteq A
<1> DEFINE R == {ss \in Nat \X Nat : ss[1] < ss[2]}
           S == {n \in 0..k : n \notin A}
<1> SUFFICES ASSUME S # {} PROVE FALSE
  OBVIOUS
<1>1. IsWellFoundedOn(R, Nat)
  BY NatLessThanWellFounded DEF OpToRel
<1>2. PICK x \in S : \A y \in S : ~ (<<y, x>> \in R)
  <2> HIDE DEF R
  <2>1. S \subseteq Nat
    OBVIOUS
  <2> QED  BY <1>1, <2>1, WFMin
<1>3. x \in 1..k /\ x - 1 \in 0..k /\ x - 1 < x
  BY <1>2
<1>4. x - 1 \notin S
  <2>1. x \in Nat /\ x - 1 \in Nat
    BY <1>3
  <2>2. <<x - 1, x>> \in R
    BY <1>3, <2>1
  <2> HIDE DEF R, S
  <2> QED  BY <1>2, <2>2
<1> QED  BY <1>2, <1>3, <1>4

\* The values of a loop of k steps over states F, where step n takes s to step[n][s].
Loop(e, base, step, k) ==
    /\ DOMAIN e = 0..k
    /\ e[0] = base
    /\ \A n \in 1..k : e[n] = step[n][e[n - 1]]

LEMMA LoopExists ==
    ASSUME NEW F, NEW base \in F, NEW k \in Nat, NEW step \in [1..k -> [F -> F]]
    PROVE  \E e \in [0..k -> F] : Loop(e, base, step, k)
<1> DEFINE A == {n \in 0..k : \E e \in [0..n -> F] : Loop(e, base, step, n)}
<1>1. 0 \in A
  <2> DEFINE e == [i \in 0..0 |-> base]
  <2>1. e \in [0..0 -> F] /\ Loop(e, base, step, 0)
    BY DEF Loop
  <2> QED  BY <2>1
<1>2. ASSUME NEW n \in 1..k, n - 1 \in A PROVE n \in A
  <2>1. PICK d \in [0..(n - 1) -> F] : Loop(d, base, step, n - 1)
    BY <1>2
  <2> DEFINE e == [i \in 0..n |-> IF i = n THEN step[n][d[n - 1]] ELSE d[i]]
  <2>2. d[n - 1] \in F /\ step[n] \in [F -> F]
    OBVIOUS
  <2>3. e \in [0..n -> F]
    BY <2>2
  <2>4. /\ \A i \in 0..(n - 1) : e[i] = d[i]
        /\ e[n] = step[n][d[n - 1]]
    OBVIOUS
  <2> HIDE DEF e
  <2>5. ASSUME NEW i \in 1..n PROVE e[i] = step[i][e[i - 1]]
    <3>1. CASE i = n
      BY <3>1, <2>4
    <3>2. CASE i # n
      <4>1. i \in 1..(n - 1) /\ i - 1 \in 0..(n - 1)
        BY <3>2
      <4> QED  BY <4>1, <2>1, <2>4 DEF Loop
    <3> QED  BY <3>1, <3>2
  <2>6. e[0] = base
    BY <2>1, <2>4 DEF Loop
  <2>7. Loop(e, base, step, n)
    BY <2>3, <2>5, <2>6 DEF Loop
  <2> QED  BY <2>3, <2>7
<1> HIDE DEF A
<1>3. 0..k \subseteq A
  BY <1>1, <1>2, Climbs
<1> QED  BY <1>3 DEF A

-----------------------------------------------------------------------------
(* Updates                                                                 *)

\* The entries of id i among predicates s: one at most.
Named(s, i) == {p \in Range(s) : p.id = i}
Distinct(s) == \A i, j \in 1..Len(s) : s[i].id = s[j].id => i = j

\* What an update leaves of its id.
Entry(u) == IF u.expr = Removed THEN {} ELSE {[id |-> u.id, expr |-> u.expr]}

LEMMA StatesAre ==
    /\ \A f \in FilterStates :
          /\ f = [preds |-> f.preds, rev |-> f.rev, required |-> f.required]
          /\ f.preds \in Seq(Preds) /\ Distinct(f.preds)
          /\ f.rev \in [Ids -> Int] /\ f.required \in SUBSET Ids
    /\ \A s \in Seq(Preds), r \in [Ids -> Int], q \in SUBSET Ids :
          Distinct(s) => [preds |-> s, rev |-> r, required |-> q] \in FilterStates
<1>1. ASSUME NEW f \in FilterStates
      PROVE  /\ f = [preds |-> f.preds, rev |-> f.rev, required |-> f.required]
             /\ f.preds \in Seq(Preds) /\ Distinct(f.preds)
             /\ f.rev \in [Ids -> Int] /\ f.required \in SUBSET Ids
  <2>1. f \in [preds : Seq(Preds), rev : [Ids -> Int], required : SUBSET Ids] /\ IsInjective(LiveIds(f))
    BY DEF FilterStates
  <2>2. f.preds \in Seq(Preds) /\ DOMAIN f.preds = 1..Len(f.preds)
    BY <2>1
  <2>3. Distinct(f.preds)
    BY <2>1, <2>2 DEF IsInjective, LiveIds, Distinct
  <2> QED  BY <2>1, <2>3
<1>2. ASSUME NEW s \in Seq(Preds), NEW r \in [Ids -> Int], NEW q \in SUBSET Ids, Distinct(s)
      PROVE  [preds |-> s, rev |-> r, required |-> q] \in FilterStates
  <2> DEFINE f == [preds |-> s, rev |-> r, required |-> q]
  <2>1. f \in [preds : Seq(Preds), rev : [Ids -> Int], required : SUBSET Ids] /\ f.preds = s
    OBVIOUS
  <2>2. DOMAIN s = 1..Len(s)
    OBVIOUS
  <2> HIDE DEF f
  <2>3. IsInjective(LiveIds(f))
    BY <1>2, <2>1, <2>2 DEF IsInjective, LiveIds, Distinct
  <2>4. f \in FilterStates
    BY <2>1, <2>3 DEF FilterStates
  <2> QED  BY <2>4 DEF f
<1> QED  BY <1>1, <1>2

LEMMA UpsertIs ==
    ASSUME NEW s \in Seq(Preds), Distinct(s), NEW u \in Updates, u.expr # Removed
    PROVE  /\ Upsert(s, u) \in Seq(Preds) /\ Distinct(Upsert(s, u))
           /\ Named(Upsert(s, u), u.id) = Entry(u)
           /\ \A i \in Ids \ {u.id} : Named(Upsert(s, u), i) = Named(s, i)
<1> DEFINE e == [id |-> u.id, expr |-> u.expr]
           t == Upsert(s, u)
<1>1. e \in Preds /\ e.id = u.id /\ e.expr = u.expr /\ u.id \in Ids
  BY DEF Updates, Preds
<1>2. DOMAIN s = 1..Len(s) /\ Len(s) \in Nat /\ \A i \in 1..Len(s) : s[i] \in Preds
  OBVIOUS
<1>3. Range(s) = {s[i] : i \in 1..Len(s)}
  BY <1>2 DEF Range
<1>4. CASE \E p \in Range(s) : p.id = u.id
  <2>1. t = [i \in 1..Len(s) |-> IF s[i].id = u.id THEN e ELSE s[i]]
    BY <1>2, <1>4, Zenon DEF Upsert
  <2>2. PICK k \in 1..Len(s) : s[k].id = u.id
    BY <1>3, <1>4
  <2>3. t \in Seq(Preds) /\ Len(t) = Len(s) /\ DOMAIN t = 1..Len(s)
    BY <1>1, <1>2, <2>1
  <2>4. /\ t[k] = e
        /\ \A i \in 1..Len(s) : t[i].id = s[i].id /\ (i # k => t[i] = s[i])
    BY <1>1, <2>1, <2>2 DEF Distinct
  <2>5. Range(t) = {t[i] : i \in 1..Len(s)}
    BY <2>3 DEF Range
  <2> HIDE DEF t, e
  <2>6. Distinct(t)
    BY <2>3, <2>4 DEF Distinct
  <2>7. Named(t, u.id) = {e}
    <3>1. \A i \in 1..Len(s) : t[i].id = u.id => i = k
      BY <2>2, <2>4 DEF Distinct
    <3> QED  BY <1>1, <2>2, <2>4, <2>5, <3>1 DEF Named
  <2>8. ASSUME NEW i \in Ids \ {u.id} PROVE Named(t, i) = Named(s, i)
    BY <1>1, <1>3, <2>2, <2>4, <2>5 DEF Named
  <2> QED  BY <2>3, <2>6, <2>7, <2>8 DEF Entry, t, e
<1>5. CASE ~ \E p \in Range(s) : p.id = u.id
  <2>1. t = Append(s, e)
    BY <1>5 DEF Upsert
  <2> HIDE DEF e
  <2>2. t \in Seq(Preds) /\ Len(t) = Len(s) + 1 /\ DOMAIN t = 1..(Len(s) + 1)
    BY <1>1, <2>1
  <2>3. t[Len(s) + 1] = e /\ \A i \in 1..Len(s) : t[i] = s[i] /\ s[i].id # u.id
    BY <1>1, <1>2, <1>3, <1>5, <2>1
  <2>4. Range(t) = {t[i] : i \in 1..(Len(s) + 1)}
    BY <2>2 DEF Range
  <2> HIDE DEF t
  <2>5. Distinct(t)
    <3> SUFFICES ASSUME NEW i \in 1..(Len(s) + 1), NEW j \in 1..(Len(s) + 1), t[i].id = t[j].id
                 PROVE  i = j
      BY <2>2 DEF Distinct
    <3> QED  BY <1>1, <1>2, <2>3 DEF Distinct
  <2>6. Range(t) = Range(s) \cup {e}
    <3>1. 1..(Len(s) + 1) = (1..Len(s)) \cup {Len(s) + 1}
      BY <1>2
    <3> QED  BY <1>3, <2>3, <2>4, <3>1
  <2>7. Named(t, u.id) = {e}
    BY <1>1, <1>5, <2>6 DEF Named
  <2>8. ASSUME NEW i \in Ids \ {u.id} PROVE Named(t, i) = Named(s, i)
    BY <1>1, <2>6 DEF Named
  <2> QED  BY <2>2, <2>5, <2>7, <2>8 DEF Entry, t, e
<1> QED  BY <1>4, <1>5

LEMMA RemoveAtIs ==
    ASSUME NEW S, NEW s \in Seq(S), NEW k \in 1..Len(s)
    PROVE  /\ RemoveAt(s, k) \in Seq(S) /\ Len(RemoveAt(s, k)) = Len(s) - 1
           /\ \A i \in 1..(k - 1) : RemoveAt(s, k)[i] = s[i]
           /\ \A i \in k..(Len(s) - 1) : RemoveAt(s, k)[i] = s[i + 1]
<1> DEFINE n == Len(s)
           a == SubSeq(s, 1, k - 1)
           b == SubSeq(s, k + 1, n)
<1>1. n \in Nat /\ k \in 1..n /\ \A i \in 1..n : s[i] \in S
  OBVIOUS
<1>2. RemoveAt(s, k) = a \o b
  BY DEF RemoveAt
<1> HIDE DEF n
<1>3. /\ a \in Seq(S) /\ Len(a) = k - 1
      /\ \A i \in 1..(k - 1) : a[i] = s[i]
  <2>1. 1 \in Int /\ k - 1 \in Int /\ \A i \in 1..(k - 1) : s[i] \in S
    BY <1>1
  <2>2. /\ a \in Seq(S)
        /\ Len(a) = IF 1 <= k - 1 THEN k - 1 - 1 + 1 ELSE 0
        /\ \A i \in 1..(k - 1 - 1 + 1) : a[i] = s[1 + i - 1]
    BY <2>1, SubSeqProperties
  <2> HIDE DEF a
  <2> QED  BY <1>1, <2>2
<1>4. /\ b \in Seq(S) /\ Len(b) = n - k
      /\ \A i \in 1..(n - k) : b[i] = s[k + i]
  <2>1. k + 1 \in Int /\ n \in Int /\ \A i \in (k + 1)..n : s[i] \in S
    BY <1>1
  <2>2. /\ b \in Seq(S)
        /\ Len(b) = IF k + 1 <= n THEN n - (k + 1) + 1 ELSE 0
        /\ \A i \in 1..(n - (k + 1) + 1) : b[i] = s[k + 1 + i - 1]
    BY <2>1, SubSeqProperties
  <2> HIDE DEF b
  <2>3. n - (k + 1) + 1 = n - k /\ \A i \in 1..(n - k) : k + 1 + i - 1 = k + i
    BY <1>1
  <2> QED  BY <1>1, <2>2, <2>3
<1> HIDE DEF a, b
<1>5. /\ a \o b \in Seq(S) /\ Len(a \o b) = n - 1
      /\ \A i \in 1..(k - 1) : (a \o b)[i] = a[i]
      /\ \A i \in k..(n - 1) : (a \o b)[i] = b[i - (k - 1)]
  <2>1. /\ a \o b \in Seq(S) /\ Len(a \o b) = Len(a) + Len(b)
        /\ \A i \in 1..(Len(a) + Len(b)) :
              (a \o b)[i] = IF i <= Len(a) THEN a[i] ELSE b[i - Len(a)]
    BY <1>3, <1>4, ConcatProperties
  <2>2. Len(a) = k - 1 /\ Len(a) + Len(b) = n - 1
    BY <1>1, <1>3, <1>4
  <2> DEFINE t == a \o b
  <2> HIDE DEF t
  <2>3. /\ t \in Seq(S) /\ Len(t) = n - 1
        /\ \A i \in 1..(n - 1) : t[i] = IF i <= k - 1 THEN a[i] ELSE b[i - (k - 1)]
    BY <2>1, <2>2 DEF t
  <2>4. \A i \in 1..(k - 1) : t[i] = a[i]
    BY <1>1, <2>3
  <2>5. \A i \in k..(n - 1) : t[i] = b[i - (k - 1)]
    BY <1>1, <2>3
  <2> QED  BY <2>3, <2>4, <2>5 DEF t
<1>6. ASSUME NEW i \in k..(n - 1) PROVE b[i - (k - 1)] = s[i + 1]
  <2>1. i - (k - 1) \in 1..(n - k) /\ k + (i - (k - 1)) = i + 1
    BY <1>1
  <2> QED  BY <1>4, <2>1
<1> QED  BY <1>2, <1>3, <1>5, <1>6 DEF n

LEMMA WithoutIs ==
    ASSUME NEW s \in Seq(Preds), Distinct(s), NEW id \in Ids
    PROVE  /\ Without(s, id) \in Seq(Preds) /\ Distinct(Without(s, id))
           /\ Named(Without(s, id), id) = {}
           /\ \A i \in Ids \ {id} : Named(Without(s, id), i) = Named(s, i)
<1> DEFINE t == Without(s, id)
<1>2. DOMAIN s = 1..Len(s) /\ Len(s) \in Nat /\ \A i \in 1..Len(s) : s[i] \in Preds
  OBVIOUS
<1>3. Range(s) = {s[i] : i \in 1..Len(s)}
  BY <1>2 DEF Range
<1>4. CASE \E p \in Range(s) : p.id = id
  <2> DEFINE k == CHOOSE i \in DOMAIN s : s[i].id = id
  <2>1. k \in 1..Len(s) /\ s[k].id = id
    BY <1>2, <1>3, <1>4
  <2>2. t = RemoveAt(s, k)
    BY <1>4 DEF Without
  <2> HIDE DEF k
  <2>5. /\ t \in Seq(Preds) /\ Len(t) = Len(s) - 1
        /\ \A i \in 1..(k - 1) : t[i] = s[i]
        /\ \A i \in k..(Len(s) - 1) : t[i] = s[i + 1]
    BY <2>1, <2>2, RemoveAtIs
  <2>6. Range(t) = {t[i] : i \in 1..(Len(s) - 1)}
    BY <1>2, <2>1, <2>5 DEF Range
  <2> HIDE DEF t
  <2>7. Distinct(t)
    <3> SUFFICES ASSUME NEW i \in 1..(Len(s) - 1), NEW j \in 1..(Len(s) - 1), t[i].id = t[j].id
                 PROVE  i = j
      BY <1>2, <2>1, <2>5 DEF Distinct
    <3> DEFINE from(n) == IF n < k THEN n ELSE n + 1
    <3>1. from(i) \in 1..Len(s) /\ from(j) \in 1..Len(s) /\ t[i] = s[from(i)] /\ t[j] = s[from(j)]
      BY <1>2, <2>1, <2>5
    <3>2. from(i) = from(j)
      <4> HIDE DEF from
      <4> QED  BY <3>1 DEF Distinct
    <3> QED  BY <2>1, <3>2
  <2>8. Range(t) = Range(s) \ {s[k]}
    <3>1. ASSUME NEW i \in 1..(Len(s) - 1) PROVE t[i] \in Range(s) /\ t[i] # s[k]
      <4> DEFINE n == IF i < k THEN i ELSE i + 1
      <4>1. n \in 1..Len(s) /\ n # k /\ t[i] = s[n]
        BY <1>2, <2>1, <2>5
      <4> HIDE DEF n
      <4> QED  BY <1>3, <2>1, <4>1 DEF Distinct
    <3>2. ASSUME NEW n \in 1..Len(s), n # k PROVE s[n] \in Range(t)
      <4> DEFINE i == IF n < k THEN n ELSE n - 1
      <4>1. i \in 1..(Len(s) - 1) /\ t[i] = s[n]
        BY <1>2, <2>1, <2>5, <3>2
      <4> HIDE DEF i
      <4> QED  BY <2>6, <4>1
    <3> QED  BY <1>3, <2>6, <3>1, <3>2
  <2>9. Named(t, id) = {}
    <3> SUFFICES ASSUME NEW n \in 1..Len(s), s[n].id = id, s[n] # s[k] PROVE FALSE
      BY <1>3, <2>8 DEF Named
    <3> QED  BY <2>1 DEF Distinct
  <2>10. ASSUME NEW i \in Ids \ {id} PROVE Named(t, i) = Named(s, i)
    BY <2>1, <2>8 DEF Named
  <2> QED  BY <2>5, <2>7, <2>9, <2>10 DEF t
<1>5. CASE ~ \E p \in Range(s) : p.id = id
  <2>1. t = s
    BY <1>5 DEF Without
  <2> HIDE DEF t
  <2> QED  BY <1>5, <2>1 DEF Named, t
<1> QED  BY <1>4, <1>5

\* An update changes its own id, if it is newer than what the filters have seen.
LEMMA ApplyIs ==
    ASSUME NEW f \in FilterStates, NEW u \in Updates
    PROVE  /\ Apply(f, u) \in FilterStates
           /\ Apply(f, u).required = f.required
           /\ u.id \in Ids /\ u.rev \in Int
           /\ Stale(f, u) => Apply(f, u) = f
           /\ ~ Stale(f, u) =>
                 /\ Apply(f, u).rev = [f.rev EXCEPT ![u.id] = u.rev]
                 /\ Named(Apply(f, u).preds, u.id) = Entry(u)
                 /\ \A i \in Ids \ {u.id} : Named(Apply(f, u).preds, i) = Named(f.preds, i)
<1>1. u.id \in Ids /\ u.rev \in Int
  <2>1. u.id \in Ids /\ u.rev \in Revisions
    BY DEF Updates
  <2>2. \A n \in Nat : n \in Int
    OBVIOUS
  <2> QED  BY <2>1, <2>2, RevisionsAssumption, Zenon
<1>2. /\ f = [preds |-> f.preds, rev |-> f.rev, required |-> f.required]
      /\ f.preds \in Seq(Preds) /\ Distinct(f.preds)
      /\ f.rev \in [Ids -> Int] /\ f.required \in SUBSET Ids
  BY StatesAre
<1>3. CASE Stale(f, u)
  BY <1>1, <1>3 DEF Apply
<1>4. CASE ~ Stale(f, u)
  <2> DEFINE s == IF u.expr = Removed THEN Without(f.preds, u.id) ELSE Upsert(f.preds, u)
             r == [f.rev EXCEPT ![u.id] = u.rev]
  <2>1. Apply(f, u) = [preds |-> s, rev |-> r, required |-> f.required]
    BY <1>2, <1>4 DEF Apply
  <2>2. r \in [Ids -> Int]
    BY <1>1, <1>2
  <2>3. /\ s \in Seq(Preds) /\ Distinct(s)
        /\ Named(s, u.id) = Entry(u)
        /\ \A i \in Ids \ {u.id} : Named(s, i) = Named(f.preds, i)
    <3>1. CASE u.expr = Removed
      BY <1>1, <1>2, <3>1, WithoutIs DEF Entry
    <3>2. CASE u.expr # Removed
      BY <1>2, <3>2, UpsertIs
    <3> QED  BY <3>1, <3>2
  <2> HIDE DEF s, r
  <2>4. Apply(f, u) \in FilterStates
    <3>1. [preds |-> s, rev |-> r, required |-> f.required] \in FilterStates
      BY <1>2, <2>2, <2>3, StatesAre
    <3> QED  BY <2>1, <3>1
  <2> QED  BY <1>1, <1>4, <2>1, <2>3, <2>4 DEF r
<1> QED  BY <1>3, <1>4

-----------------------------------------------------------------------------
(* Deltas                                                                  *)

LEMMA DeltaIs ==
    ASSUME NEW d \in Deltas
    PROVE  /\ d \in Seq(Updates) /\ Len(d) \in Nat /\ DOMAIN d = 1..Len(d)
           /\ \A j \in 1..Len(d) : d[j] \in Updates
           /\ \A i, j \in 1..Len(d) : d[i].id = d[j].id => i = j
<1>1. PICK n \in 0..MaxUpdates : d \in [1..n -> Updates]
  BY DEF Deltas
<1>2. n \in Nat
  BY UpdatesAssumption
<1>3. d \in Seq(Updates) /\ Len(d) = n /\ DOMAIN d = 1..n /\ \A j \in 1..n : d[j] \in Updates
  BY <1>1, <1>2
<1>4. IsInjective([j \in DOMAIN d |-> d[j].id])
  BY DEF Deltas
<1> QED  BY <1>2, <1>3, <1>4 DEF IsInjective

\* What the first n updates of a delta make of the filters f: g.
Moves(f, g, d, n) ==
    /\ g \in FilterStates /\ g.required = f.required
    /\ (\A j \in 1..n : Stale(f, d[j])) => g = f
    /\ \A j \in 1..n :
          ~ Stale(f, d[j]) => /\ g.rev[d[j].id] = d[j].rev
                              /\ Named(g.preds, d[j].id) = Entry(d[j])
    /\ \A i \in Ids :
          (\A j \in 1..n : d[j].id = i => Stale(f, d[j])) =>
              g.rev[i] = f.rev[i] /\ Named(g.preds, i) = Named(f.preds, i)

LEMMA MovesOn ==
    ASSUME NEW d \in Deltas, NEW f \in FilterStates, NEW g, NEW n \in 1..Len(d),
           Moves(f, g, d, n - 1)
    PROVE  Moves(f, Apply(g, d[n]), d, n)
<1> DEFINE u == d[n]
           h == Apply(g, u)
<1>0. /\ Len(d) \in Nat /\ n \in 1..Len(d)
      /\ \A j \in 1..n : j \in 1..Len(d) /\ d[j] \in Updates /\ (j # n => d[j].id # u.id /\ j \in 1..(n - 1))
      /\ \A j \in 1..(n - 1) : j \in 1..n /\ j # n
  BY DeltaIs
<1>1. u \in Updates /\ g \in FilterStates
  BY <1>0 DEF Moves
<1>2. /\ h \in FilterStates /\ h.required = g.required
      /\ u.id \in Ids /\ u.rev \in Int
      /\ Stale(g, u) => h = g
      /\ ~ Stale(g, u) =>
            /\ h.rev = [g.rev EXCEPT ![u.id] = u.rev]
            /\ Named(h.preds, u.id) = Entry(u)
            /\ \A i \in Ids \ {u.id} : Named(h.preds, i) = Named(g.preds, i)
  BY <1>1, ApplyIs
<1>3. g.rev \in [Ids -> Int]
  BY <1>1, StatesAre
<1>4. g.rev[u.id] = f.rev[u.id] /\ Named(g.preds, u.id) = Named(f.preds, u.id)
  BY <1>0, <1>2 DEF Moves
<1>5. Stale(g, u) <=> Stale(f, u)
  BY <1>4 DEF Stale
<1>6. \A i \in Ids \ {u.id} : h.rev[i] = g.rev[i] /\ Named(h.preds, i) = Named(g.preds, i)
  BY <1>2, <1>3
<1>7. ~ Stale(f, u) => h.rev[u.id] = u.rev /\ Named(h.preds, u.id) = Entry(u)
  BY <1>2, <1>3, <1>5
<1> HIDE DEF h
<1>8. (\A j \in 1..n : Stale(f, d[j])) => h = f
  <2> SUFFICES ASSUME \A j \in 1..n : Stale(f, d[j]) PROVE h = f
    OBVIOUS
  <2>1. Stale(f, u) /\ \A j \in 1..(n - 1) : Stale(f, d[j])
    BY <1>0
  <2> QED  BY <1>2, <1>5, <2>1 DEF Moves
<1>9. ASSUME NEW j \in 1..n, ~ Stale(f, d[j])
      PROVE  h.rev[d[j].id] = d[j].rev /\ Named(h.preds, d[j].id) = Entry(d[j])
  <2>1. CASE j = n
    BY <1>7, <1>9, <2>1
  <2>2. CASE j # n
    <3>1. j \in 1..(n - 1) /\ d[j].id \in Ids \ {u.id}
      <4>1. d[j].id \in Ids
        BY <1>0, ApplyIs
      <4> QED  BY <1>0, <2>2, <4>1
    <3>2. g.rev[d[j].id] = d[j].rev /\ Named(g.preds, d[j].id) = Entry(d[j])
      BY <1>9, <3>1 DEF Moves
    <3> QED  BY <1>6, <3>1, <3>2
  <2> QED  BY <2>1, <2>2
<1>10. ASSUME NEW i \in Ids, \A j \in 1..n : d[j].id = i => Stale(f, d[j])
       PROVE  h.rev[i] = f.rev[i] /\ Named(h.preds, i) = Named(f.preds, i)
  <2>1. g.rev[i] = f.rev[i] /\ Named(g.preds, i) = Named(f.preds, i)
    BY <1>0, <1>10 DEF Moves
  <2>2. CASE i = u.id
    <3>1. h = g
      BY <1>0, <1>2, <1>5, <1>10, <2>2
    <3> QED  BY <2>1, <3>1
  <2>3. CASE i # u.id
    BY <1>6, <2>1, <2>3
  <2> QED  BY <2>2, <2>3
<1>11. h \in FilterStates /\ h.required = f.required
  BY <1>2 DEF Moves
<1>12. Moves(f, h, d, n)
  <2> HIDE DEF u
  <2> QED  BY <1>8, <1>9, <1>10, <1>11 DEF Moves
<1> QED  BY <1>12 DEF h

\* The loop of Applied: its states, one per update.
LEMMA AppliedLoop ==
    ASSUME NEW d \in Deltas, NEW f \in FilterStates
    PROVE  \E e : /\ e[0] = f /\ Applied(f, d) = e[Len(d)]
                  /\ \A n \in 1..Len(d) : e[n] = Apply(e[n - 1], d[n])
<1> DEFINE k == Len(d)
           step == [n \in 1..k |-> [s \in FilterStates |-> Apply(s, d[n])]]
           F(e) == e = [n \in 0..k |-> IF n = 0 THEN f ELSE Apply(e[n - 1], d[n])]
           a == CHOOSE e : F(e)
<1>1. k \in Nat /\ \A n \in 1..k : d[n] \in Updates
  BY DeltaIs
<1>2. step \in [1..k -> [FilterStates -> FilterStates]]
  BY <1>1, ApplyIs
<1> HIDE DEF k
<1>3. PICK e \in [0..k -> FilterStates] : Loop(e, f, step, k)
  <2> HIDE DEF step
  <2> QED  BY <1>1, <1>2, LoopExists
<1>4. F(e)
  <2>1. ASSUME NEW n \in 0..k PROVE e[n] = IF n = 0 THEN f ELSE Apply(e[n - 1], d[n])
    <3>1. CASE n = 0
      BY <1>3, <3>1 DEF Loop
    <3>2. CASE n # 0
      <4>1. n \in 1..k /\ n - 1 \in 0..k /\ e[n - 1] \in FilterStates
        BY <1>1, <3>2
      <4>2. e[n] = step[n][e[n - 1]]
        BY <1>3, <4>1 DEF Loop
      <4> QED  BY <3>2, <4>1, <4>2
    <3> QED  BY <3>1, <3>2
  <2>2. e = [n \in 0..k |-> e[n]]
    OBVIOUS
  <2> QED  BY <2>1, <2>2
<1>5. F(a)
  <2> HIDE DEF F
  <2> QED  BY <1>4
<1>6. Applied(f, d) = a[k]
  BY DEF Applied, k
<1> HIDE DEF a
<1>7. a[0] = f /\ \A n \in 1..k : a[n] = Apply(a[n - 1], d[n])
  BY <1>1, <1>5
<1> QED  BY <1>6, <1>7 DEF k

\* All updates of a delta that is not refused have acted.
LEMMA AppliedIs ==
    ASSUME NEW d \in Deltas, NEW f \in FilterStates
    PROVE  Moves(f, Applied(f, d), d, Len(d))
<1>1. PICK e : /\ e[0] = f /\ Applied(f, d) = e[Len(d)]
               /\ \A n \in 1..Len(d) : e[n] = Apply(e[n - 1], d[n])
  BY AppliedLoop
<1> DEFINE k == Len(d)
           A == {n \in 0..k : Moves(f, e[n], d, n)}
<1>2. k \in Nat
  BY DeltaIs
<1>3. 0 \in A
  BY <1>1, <1>2 DEF Moves
<1>4. ASSUME NEW n \in 1..k, n - 1 \in A PROVE n \in A
  BY <1>1, <1>2, <1>4, MovesOn
<1> HIDE DEF A
<1>5. 0..k \subseteq A
  BY <1>2, <1>3, <1>4, Climbs
<1> QED  BY <1>1, <1>2, <1>5 DEF A

LEMMA UpdateIs ==
    ASSUME NEW u \in Updates
    PROVE  u.id \in Ids /\ u.rev \in Int
<1>1. u.id \in Ids /\ u.rev \in Revisions
  BY DEF Updates
<1>2. \A n \in Nat : n \in Int
  OBVIOUS
<1> QED  BY <1>1, <1>2, RevisionsAssumption, Zenon

\* A delta is refused, or all of it acts.
LEMMA ApplyToIs ==
    ASSUME NEW d \in Deltas, NEW f \in FilterStates
    PROVE  /\ ApplyTo(f, d) # Rejected =>
                 /\ ApplyTo(f, d) = Applied(f, d)
                 /\ \A j \in 1..Len(d) : d[j].id \notin f.required
           /\ Valid = Exprs /\ (\A j \in 1..Len(d) : d[j].id \notin f.required) =>
                 ApplyTo(f, d) = Applied(f, d)
<1>1. /\ DOMAIN d = 1..Len(d)
      /\ \A j \in 1..Len(d) : d[j].expr \in Exprs \cup {Removed}
  BY DeltaIs DEF Updates
<1>2. f # Rejected
  BY RejectedAssumption
<1> QED  BY <1>1, <1>2 DEF ApplyTo, ApplyDelta

LEMMA ApplyToStays ==
    ASSUME NEW d \in Deltas, NEW f \in FilterStates \cup {Rejected}
    PROVE  ApplyTo(f, d) \in FilterStates \cup {Rejected}
<1>1. CASE f = Rejected
  BY <1>1 DEF ApplyTo
<1>2. CASE f \in FilterStates
  BY <1>2, ApplyToIs, AppliedIs DEF Moves
<1> QED  BY <1>1, <1>2

-----------------------------------------------------------------------------
(* Replay                                                                  *)

\* The loop of Replayed: its states, one per delta.
LEMMA ReplayedLoop ==
    ASSUME NEW ds \in Seq(Deltas), NEW f \in FilterStates \cup {Rejected}
    PROVE  \E e : /\ e[0] = f /\ Replayed(f, ds) = e[Len(ds)]
                  /\ \A n \in 1..Len(ds) : e[n] = ApplyTo(e[n - 1], ds[n])
<1> DEFINE k == Len(ds)
           G == FilterStates \cup {Rejected}
           step == [n \in 1..k |-> [s \in G |-> ApplyTo(s, ds[n])]]
           F(e) == e = [n \in 0..k |-> IF n = 0 THEN f ELSE ApplyTo(e[n - 1], ds[n])]
           a == CHOOSE e : F(e)
<1>1. k \in Nat /\ \A n \in 1..k : ds[n] \in Deltas
  OBVIOUS
<1>2. step \in [1..k -> [G -> G]]
  BY <1>1, ApplyToStays
<1> HIDE DEF k
<1>3. PICK e \in [0..k -> G] : Loop(e, f, step, k)
  <2> HIDE DEF step, G
  <2>1. f \in G
    BY DEF G
  <2> QED  BY <1>1, <1>2, <2>1, LoopExists
<1>4. F(e)
  <2>1. ASSUME NEW n \in 0..k PROVE e[n] = IF n = 0 THEN f ELSE ApplyTo(e[n - 1], ds[n])
    <3>1. CASE n = 0
      BY <1>3, <3>1 DEF Loop
    <3>2. CASE n # 0
      <4>1. n \in 1..k /\ n - 1 \in 0..k /\ e[n - 1] \in G
        BY <1>1, <3>2
      <4>2. e[n] = step[n][e[n - 1]]
        BY <1>3, <4>1 DEF Loop
      <4> HIDE DEF G
      <4> QED  BY <3>2, <4>1, <4>2
    <3> QED  BY <3>1, <3>2
  <2>2. e = [n \in 0..k |-> e[n]]
    OBVIOUS
  <2> QED  BY <2>1, <2>2
<1>5. F(a)
  <2> HIDE DEF F
  <2> QED  BY <1>4
<1>6. Replayed(f, ds) = a[k]
  BY DEF Replayed, k
<1> HIDE DEF a
<1>7. a[0] = f /\ \A n \in 1..k : a[n] = ApplyTo(a[n - 1], ds[n])
  BY <1>1, <1>5
<1> QED  BY <1>6, <1>7 DEF k

LEMMA ReplayedStays ==
    ASSUME NEW ds \in Seq(Deltas), NEW f \in FilterStates \cup {Rejected}
    PROVE  Replayed(f, ds) \in FilterStates \cup {Rejected}
<1>1. PICK e : /\ e[0] = f /\ Replayed(f, ds) = e[Len(ds)]
               /\ \A n \in 1..Len(ds) : e[n] = ApplyTo(e[n - 1], ds[n])
  BY ReplayedLoop
<1> DEFINE k == Len(ds)
           A == {n \in 0..k : e[n] \in FilterStates \cup {Rejected}}
<1>2. k \in Nat /\ \A n \in 1..k : ds[n] \in Deltas
  OBVIOUS
<1>3. 0 \in A
  BY <1>1, <1>2
<1>4. ASSUME NEW n \in 1..k, n - 1 \in A PROVE n \in A
  BY <1>1, <1>2, <1>4, ApplyToStays
<1> HIDE DEF A
<1>5. 0..k \subseteq A
  BY <1>2, <1>3, <1>4, Climbs
<1> QED  BY <1>1, <1>2, <1>5 DEF A

\* What the filters g have of i: an update of ds[n], and of no earlier delta.
Source(ds, g, i, n) ==
    /\ \E j \in 1..Len(ds[n]) : /\ ds[n][j].id = i /\ ds[n][j].rev = g.rev[i]
                                /\ Named(g.preds, i) = Entry(ds[n][j])
    /\ \A m \in 1..(n - 1) : ~ CarriesKey(ds[m], g, i)

\* The deltas ds lead from the filters f to g: whatever of g is not of f comes
\* from the first delta that carries it, and no delta goes further than g.
Leads(f, ds, g) ==
    /\ \A n \in 1..Len(ds) : \A j \in 1..Len(ds[n]) :
          ds[n][j].id \notin g.required /\ ds[n][j].rev <= g.rev[ds[n][j].id]
    /\ \A i \in Ids : \/ g.rev[i] = f.rev[i] /\ Named(g.preds, i) = Named(f.preds, i)
                      \/ f.rev[i] < g.rev[i] /\ \E n \in 1..Len(ds) : Source(ds, g, i, n)

\* A replay of n of the deltas is where g is, or has yet to come to its source.
Nears(f, ds, g, r, n) ==
    /\ r \in FilterStates /\ r.required = g.required
    /\ \A i \in Ids :
          \/ r.rev[i] = g.rev[i] /\ Named(r.preds, i) = Named(g.preds, i)
          \/ /\ r.rev[i] < g.rev[i] /\ f.rev[i] < g.rev[i]
             /\ \A m \in 1..n : ~ CarriesKey(ds[m], g, i)

LEMMA NearsOn ==
    ASSUME Valid = Exprs, NEW ds \in Seq(Deltas),
           NEW f \in FilterStates, NEW g \in FilterStates, Leads(f, ds, g),
           NEW r, NEW n \in 1..Len(ds), Nears(f, ds, g, r, n - 1)
    PROVE  Nears(f, ds, g, ApplyTo(r, ds[n]), n)
<1> DEFINE d == ds[n]
           s == ApplyTo(r, d)
<1>0. /\ Len(ds) \in Nat /\ n \in 1..Len(ds) /\ d \in Deltas
      /\ r \in FilterStates /\ r.required = g.required
  BY DEF Nears
<1>1. /\ DOMAIN d = 1..Len(d) /\ Len(d) \in Nat
      /\ \A j \in 1..Len(d) : /\ d[j] \in Updates /\ d[j].id \in Ids /\ d[j].rev \in Int
                              /\ d[j].id \notin g.required
                              /\ d[j].rev <= g.rev[d[j].id]
  <2>1. DOMAIN d = 1..Len(d) /\ Len(d) \in Nat /\ \A j \in 1..Len(d) : d[j] \in Updates
    BY <1>0, DeltaIs
  <2>2. \A j \in 1..Len(d) : d[j].id \notin g.required /\ d[j].rev <= g.rev[d[j].id]
    BY <1>0 DEF Leads
  <2> HIDE DEF d
  <2> QED  BY <2>1, <2>2, UpdateIs
<1>2. g.rev \in [Ids -> Int] /\ r.rev \in [Ids -> Int] /\ f.rev \in [Ids -> Int]
  BY <1>0, StatesAre
<1> HIDE DEF d
<1>3. s = Applied(r, d)
  BY <1>0, <1>1, ApplyToIs
<1>4. Moves(r, s, d, Len(d))
  BY <1>0, <1>3, AppliedIs
<1> HIDE DEF s
<1>5. s \in FilterStates /\ s.required = g.required
  BY <1>0, <1>4 DEF Moves
<1>6. s.rev \in [Ids -> Int]
  BY <1>5, StatesAre
<1>7. ASSUME NEW i \in Ids
      PROVE  \/ s.rev[i] = g.rev[i] /\ Named(s.preds, i) = Named(g.preds, i)
             \/ /\ s.rev[i] < g.rev[i] /\ f.rev[i] < g.rev[i]
                /\ \A m \in 1..n : ~ CarriesKey(ds[m], g, i)
  <2>0. r.rev[i] \in Int /\ g.rev[i] \in Int /\ s.rev[i] \in Int /\ f.rev[i] \in Int
    BY <1>2, <1>6
  <2>1. CASE r.rev[i] = g.rev[i] /\ Named(r.preds, i) = Named(g.preds, i)
    <3>1. \A j \in 1..Len(d) : d[j].id = i => Stale(r, d[j])
      BY <1>1, <2>1 DEF Stale
    <3> QED  BY <1>4, <2>1, <3>1 DEF Moves
  <2>2. CASE /\ r.rev[i] < g.rev[i] /\ f.rev[i] < g.rev[i]
             /\ \A m \in 1..(n - 1) : ~ CarriesKey(ds[m], g, i)
    <3>1. CASE CarriesKey(d, g, i)
      <4>1. PICK m \in 1..Len(ds) : Source(ds, g, i, m)
        BY <2>0, <2>2 DEF Leads
      <4>2. ~ n \in 1..(m - 1)
        BY <3>1, <4>1 DEF Source, d
      <4>3. CarriesKey(ds[m], g, i)
        <5>1. DOMAIN ds[m] = 1..Len(ds[m])
          BY DeltaIs
        <5> QED  BY <4>1, <5>1 DEF Source, CarriesKey
      <4>4. ~ m \in 1..(n - 1)
        BY <2>2, <4>3
      <4>5. m = n
        BY <1>0, <4>2, <4>4
      <4>6. PICK j \in 1..Len(d) : /\ d[j].id = i /\ d[j].rev = g.rev[i]
                                   /\ Named(g.preds, i) = Entry(d[j])
        BY <4>1, <4>5 DEF Source, d
      <4>7. ~ Stale(r, d[j])
        <5>0. r.rev[i] < g.rev[i]
          BY <2>2, Zenon
        <5>1. ~ g.rev[i] <= r.rev[i]
          <6> DEFINE x == g.rev[i]
                     y == r.rev[i]
          <6>1. x \in Int /\ y \in Int /\ y < x
            BY <2>0, <5>0
          <6> HIDE DEF x, y
          <6>2. ~ x <= y
            BY <6>1
          <6> QED  BY <6>2 DEF x, y
        <5> QED  BY <4>6, <5>1, Zenon DEF Stale
      <4> QED  BY <4>4, <4>6, <4>7, <1>4 DEF Moves
    <3>2. CASE ~ CarriesKey(d, g, i)
      <4>1. \A m \in 1..n : ~ CarriesKey(ds[m], g, i)
        BY <1>0, <2>2, <3>2 DEF d
      <4>2. s.rev[i] < g.rev[i]
        <5>1. CASE \A j \in 1..Len(d) : d[j].id = i => Stale(r, d[j])
          BY <1>4, <2>2, <5>1 DEF Moves
        <5>2. ASSUME NEW j \in 1..Len(d), d[j].id = i, ~ Stale(r, d[j])
              PROVE  s.rev[i] < g.rev[i]
          <6>1. s.rev[i] = d[j].rev
            BY <1>4, <5>2 DEF Moves
          <6>2. d[j].rev # g.rev[i]
            BY <1>1, <3>2, <5>2 DEF CarriesKey
          <6> QED  BY <1>1, <2>0, <5>2, <6>1, <6>2
        <5> QED  BY <5>1, <5>2
      <4> QED  BY <2>2, <4>1, <4>2
    <3> QED  BY <3>1, <3>2
  <2> QED  BY <2>1, <2>2 DEF Nears
<1> QED  BY <1>5, <1>7 DEF Nears, s, d

\* A replay of all deltas has what g has, and is refused nothing.
LEMMA ReplayLeads ==
    ASSUME Valid = Exprs, NEW ds \in Seq(Deltas),
           NEW f \in FilterStates, NEW g \in FilterStates, f.required = g.required,
           Leads(f, ds, g)
    PROVE  /\ Replayed(f, ds) \in FilterStates
           /\ Replayed(f, ds).required = g.required
           /\ Replayed(f, ds).rev = g.rev
           /\ \A i \in Ids : Named(Replayed(f, ds).preds, i) = Named(g.preds, i)
<1>1. PICK e : /\ e[0] = f /\ Replayed(f, ds) = e[Len(ds)]
               /\ \A n \in 1..Len(ds) : e[n] = ApplyTo(e[n - 1], ds[n])
  BY ReplayedLoop
<1> DEFINE k == Len(ds)
           A == {n \in 0..k : Nears(f, ds, g, e[n], n)}
           r == Replayed(f, ds)
<1>2. k \in Nat
  OBVIOUS
<1>3. 0 \in A
  <2>1. Nears(f, ds, g, f, 0)
    BY DEF Nears, Leads
  <2> QED  BY <1>1, <1>2, <2>1
<1>4. ASSUME NEW n \in 1..k, n - 1 \in A PROVE n \in A
  BY <1>1, <1>2, <1>4, NearsOn
<1> HIDE DEF A
<1>5. 0..k \subseteq A
  BY <1>2, <1>3, <1>4, Climbs
<1>6. Nears(f, ds, g, r, k)
  BY <1>1, <1>2, <1>5 DEF A
<1> HIDE DEF r
<1>7. ASSUME NEW i \in Ids PROVE r.rev[i] = g.rev[i] /\ Named(r.preds, i) = Named(g.preds, i)
  <2> SUFFICES ASSUME r.rev[i] < g.rev[i], f.rev[i] < g.rev[i],
                      \A m \in 1..k : ~ CarriesKey(ds[m], g, i)
               PROVE  FALSE
    BY <1>6 DEF Nears
  <2>1. f.rev[i] \in Int /\ g.rev[i] \in Int
    BY StatesAre
  <2>2. PICK m \in 1..k : Source(ds, g, i, m)
    BY <2>1 DEF Leads
  <2>3. DOMAIN ds[m] = 1..Len(ds[m])
    BY DeltaIs
  <2> QED  BY <2>2, <2>3 DEF Source, CarriesKey
<1>8. r \in FilterStates /\ r.required = g.required
  BY <1>6 DEF Nears
<1>9. r.rev \in [Ids -> Int] /\ g.rev \in [Ids -> Int]
  BY <1>8, StatesAre
<1>10. r.rev = g.rev
  BY <1>7, <1>9
<1> QED  BY <1>7, <1>8, <1>10 DEF r

\* The recorded order gives the predicates back, in their places.
LEMMA OrderRestores ==
    ASSUME NEW r \in FilterStates, NEW g \in FilterStates,
           r.required = g.required, r.rev = g.rev,
           \A i \in Ids : Named(r.preds, i) = Named(g.preds, i)
    PROVE  WithPredicateOrder(r, LiveIds(g)) = g
<1> DEFINE o == LiveIds(g)
           s == g.preds
<1>1. /\ g = [preds |-> s, rev |-> g.rev, required |-> g.required]
      /\ r = [preds |-> r.preds, rev |-> r.rev, required |-> r.required]
      /\ s \in Seq(Preds) /\ Distinct(s) /\ r.preds \in Seq(Preds)
  BY StatesAre
<1> HIDE DEF s
<1>2. /\ DOMAIN s = 1..Len(s) /\ \A i \in 1..Len(s) : s[i] \in Preds
      /\ DOMAIN r.preds = 1..Len(r.preds) /\ \A i \in 1..Len(r.preds) : r.preds[i] \in Preds
  BY <1>1
<1>3. o = [i \in 1..Len(s) |-> s[i].id]
  BY <1>2 DEF LiveIds, s
<1>4. IsInjective(o)
  BY <1>1, <1>3 DEF IsInjective, Distinct
<1>5. Range(r.preds) = Range(s)
  <2>1. \A p \in Range(s) \cup Range(r.preds) : p.id \in Ids
    BY <1>2 DEF Range, Preds
  <2>2. \A p : p \in Range(s) <=> p.id \in Ids /\ p \in Named(s, p.id)
    BY <2>1 DEF Named
  <2>3. \A p : p \in Range(r.preds) <=> p.id \in Ids /\ p \in Named(r.preds, p.id)
    BY <2>1 DEF Named
  <2>4. \A i \in Ids : Named(r.preds, i) = Named(s, i)
    BY DEF s
  <2> QED  BY <2>2, <2>3, <2>4
<1>6. Range(s) = {s[i] : i \in 1..Len(s)}
  BY <1>2 DEF Range
<1>7. Range(o) = Range(LiveIds(r))
  <2>1. Range(o) = {s[i].id : i \in 1..Len(s)}
    BY <1>3 DEF Range
  <2>2. Range(LiveIds(r)) = {p.id : p \in Range(r.preds)}
    BY <1>2 DEF LiveIds, Range
  <2> HIDE DEF o
  <2> QED  BY <1>5, <1>6, <2>1, <2>2
<1>8. ASSUME NEW i \in 1..Len(s)
      PROVE  (CHOOSE p \in Range(r.preds) : p.id = o[i]) = s[i]
  <2>1. o[i] = s[i].id
    BY <1>3
  <2>2. \A p \in Range(r.preds) : p.id = o[i] <=> p = s[i]
    BY <1>1, <1>5, <1>6, <2>1 DEF Distinct
  <2>3. s[i] \in Range(r.preds)
    BY <1>5, <1>6
  <2> QED  BY <2>2, <2>3
<1>9. [i \in DOMAIN o |-> CHOOSE p \in Range(r.preds) : p.id = o[i]] = s
  <2> HIDE DEF o
  <2>1. DOMAIN o = 1..Len(s)
    BY <1>3
  <2>2. s = [i \in 1..Len(s) |-> s[i]]
    BY <1>1
  <2> QED  BY <1>8, <2>1, <2>2
<1>10. WithPredicateOrder(r, o) = [r EXCEPT !.preds = s]
  <2> HIDE DEF o
  <2> QED  BY <1>4, <1>7, <1>9, Zenon DEF WithPredicateOrder
<1>11. [r EXCEPT !.preds = s] = [preds |-> s, rev |-> g.rev, required |-> g.required]
  BY <1>1
<1> QED  BY <1>1, <1>10, <1>11

LEMMA OrderStays ==
    ASSUME NEW f \in FilterStates, NEW o \in Seq(Ids)
    PROVE  WithPredicateOrder(f, o) \in FilterStates \cup {Rejected}
<1> SUFFICES ASSUME IsInjective(o), Range(o) = Range(LiveIds(f))
             PROVE  WithPredicateOrder(f, o) \in FilterStates
  BY DEF WithPredicateOrder
<1> DEFINE t == [i \in DOMAIN o |-> CHOOSE p \in Range(f.preds) : p.id = o[i]]
<1>1. /\ f = [preds |-> f.preds, rev |-> f.rev, required |-> f.required]
      /\ f.preds \in Seq(Preds) /\ f.rev \in [Ids -> Int] /\ f.required \in SUBSET Ids
  BY StatesAre
<1>2. DOMAIN o = 1..Len(o) /\ Len(o) \in Nat
  OBVIOUS
<1>3. /\ DOMAIN f.preds = 1..Len(f.preds) /\ \A i \in 1..Len(f.preds) : f.preds[i] \in Preds
  BY <1>1
<1>4. ASSUME NEW i \in 1..Len(o) PROVE t[i] \in Preds /\ t[i].id = o[i]
  <2>1. o[i] \in Range(LiveIds(f))
    BY <1>2 DEF Range
  <2>2. PICK k \in 1..Len(f.preds) : f.preds[k].id = o[i]
    BY <1>3, <2>1 DEF Range, LiveIds
  <2>3. f.preds[k] \in Range(f.preds) /\ \A p \in Range(f.preds) : p \in Preds
    BY <1>3 DEF Range
  <2>4. t[i] = CHOOSE p \in Range(f.preds) : p.id = o[i]
    BY <1>2
  <2> QED  BY <2>2, <2>3, <2>4
<1>5. t = [i \in 1..Len(o) |-> t[i]]
  BY <1>2
<1> HIDE DEF t
<1>6. t \in Seq(Preds) /\ Len(t) = Len(o)
  BY <1>2, <1>4, <1>5
<1>7. Distinct(t)
  BY <1>2, <1>4, <1>6 DEF Distinct, IsInjective
<1>8. [preds |-> t, rev |-> f.rev, required |-> f.required] \in FilterStates
  BY <1>1, <1>6, <1>7, StatesAre
<1>9. WithPredicateOrder(f, o) = [f EXCEPT !.preds = t]
  BY DEF WithPredicateOrder, t
<1>10. [f EXCEPT !.preds = t] = [preds |-> t, rev |-> f.rev, required |-> f.required]
  BY <1>1
<1> QED  BY <1>8, <1>9, <1>10

-----------------------------------------------------------------------------
(* Compaction                                                              *)

\* ks are the wanted ones of the first n deltas, in order: those at.
Picks(ds, f, ks, at, n) ==
    /\ ks \in Seq(Deltas)
    /\ at \in [1..Len(ks) -> 1..n]
    /\ \A x, y \in 1..Len(ks) : x < y => at[x] < at[y]
    /\ \A x \in 1..Len(ks) : ks[x] = ds[at[x]] /\ Wanted(ds, f, at[x])
    /\ \A m \in 1..n : Wanted(ds, f, m) => \E x \in 1..Len(ks) : at[x] = m

LEMMA PicksOn ==
    ASSUME NEW ds \in Seq(Deltas), NEW f, NEW ks, NEW at, NEW n \in 1..Len(ds),
           Picks(ds, f, ks, at, n - 1)
    PROVE  \E bt : Picks(ds, f, IF Wanted(ds, f, n) THEN Append(ks, ds[n]) ELSE ks, bt, n)
<1>0. n \in Nat /\ n >= 1 /\ ds[n] \in Deltas /\ ks \in Seq(Deltas) /\ Len(ks) \in Nat
  BY DEF Picks
<1>1. /\ at \in [1..Len(ks) -> 1..(n - 1)]
      /\ \A x, y \in 1..Len(ks) : x < y => at[x] < at[y]
      /\ \A x \in 1..Len(ks) : ks[x] = ds[at[x]] /\ Wanted(ds, f, at[x])
      /\ \A m \in 1..(n - 1) : Wanted(ds, f, m) => \E x \in 1..Len(ks) : at[x] = m
  BY DEF Picks
<1>2. \A m \in 1..n : m \in 1..(n - 1) \/ m = n
  BY <1>0
<1>3. CASE ~ Wanted(ds, f, n)
  <2>1. at \in [1..Len(ks) -> 1..n]
    BY <1>0, <1>1
  <2>2. Picks(ds, f, ks, at, n)
    BY <1>0, <1>1, <1>2, <1>3, <2>1 DEF Picks
  <2> QED  BY <1>3, <2>2
<1>4. CASE Wanted(ds, f, n)
  <2> DEFINE k == Len(ks)
             ls == Append(ks, ds[n])
             bt == [x \in 1..(k + 1) |-> IF x = k + 1 THEN n ELSE at[x]]
  <2>1. /\ ls \in Seq(Deltas) /\ Len(ls) = k + 1
        /\ ls[k + 1] = ds[n] /\ \A x \in 1..k : ls[x] = ks[x]
    BY <1>0
  <2>2. /\ bt[k + 1] = n /\ \A x \in 1..k : bt[x] = at[x] /\ x # k + 1
        /\ \A x \in 1..(k + 1) : x \in 1..k \/ x = k + 1
        /\ k + 1 \in 1..(k + 1) /\ \A x \in 1..k : x \in 1..(k + 1)
    BY <1>0
  <2>3. bt \in [1..(k + 1) -> 1..n]
    BY <1>0, <1>1
  <2> HIDE DEF ls, bt, k
  <2>4. ASSUME NEW x \in 1..(k + 1), NEW y \in 1..(k + 1), x < y PROVE bt[x] < bt[y]
    <3>1. x \in 1..k
      BY <1>0, <2>4 DEF k
    <3>2. at[x] \in 1..(n - 1) /\ bt[x] = at[x]
      BY <1>1, <2>2, <3>1 DEF k
    <3>3. CASE y = k + 1
      BY <1>0, <2>2, <3>2, <3>3
    <3>4. CASE y # k + 1
      BY <1>1, <2>2, <2>4, <3>1, <3>4 DEF k
    <3> QED  BY <3>3, <3>4
  <2>5. ASSUME NEW x \in 1..(k + 1) PROVE ls[x] = ds[bt[x]] /\ Wanted(ds, f, bt[x])
    <3>1. CASE x = k + 1
      BY <1>4, <2>1, <2>2, <3>1
    <3>2. CASE x \in 1..k
      BY <1>1, <2>1, <2>2, <3>2 DEF k
    <3> QED  BY <2>2, <3>1, <3>2
  <2>6. ASSUME NEW m \in 1..n, Wanted(ds, f, m) PROVE \E x \in 1..(k + 1) : bt[x] = m
    <3>1. CASE m = n
      BY <2>2, <3>1
    <3>2. CASE m \in 1..(n - 1)
      <4>1. PICK x \in 1..k : at[x] = m
        BY <1>1, <2>6, <3>2 DEF k
      <4> QED  BY <2>2, <4>1
    <3> QED  BY <1>2, <3>1, <3>2
  <2>7. Picks(ds, f, ls, bt, n)
    BY <2>1, <2>3, <2>4, <2>5, <2>6 DEF Picks
  <2> QED  BY <1>4, <2>7 DEF ls
<1> QED  BY <1>3, <1>4

\* The loop of Kept.
LEMMA KeptLoop ==
    ASSUME NEW ds \in Seq(Deltas), NEW f
    PROVE  \E e : /\ e[0] = <<>> /\ Kept(ds, f) = e[Len(ds)]
                  /\ \A n \in 1..Len(ds) :
                        e[n] = IF Wanted(ds, f, n) THEN Append(e[n - 1], ds[n]) ELSE e[n - 1]
<1> DEFINE k == Len(ds)
           G == Seq(Deltas)
           step == [n \in 1..k |-> [s \in G |-> IF Wanted(ds, f, n) THEN Append(s, ds[n]) ELSE s]]
           F(e) == e = [n \in 0..k |->
                           IF n = 0 THEN <<>>
                           ELSE IF Wanted(ds, f, n) THEN Append(e[n - 1], ds[n])
                           ELSE e[n - 1]]
           a == CHOOSE e : F(e)
<1>1. k \in Nat /\ \A n \in 1..k : ds[n] \in Deltas
  OBVIOUS
<1>2. step \in [1..k -> [G -> G]]
  BY <1>1
<1> HIDE DEF k
<1>3. PICK e \in [0..k -> G] : Loop(e, <<>>, step, k)
  <2>1. <<>> \in G
    OBVIOUS
  <2> HIDE DEF step, G
  <2> QED  BY <1>1, <1>2, <2>1, LoopExists
<1>4. F(e)
  <2>1. ASSUME NEW n \in 0..k
        PROVE  e[n] = IF n = 0 THEN <<>>
                      ELSE IF Wanted(ds, f, n) THEN Append(e[n - 1], ds[n])
                      ELSE e[n - 1]
    <3>1. CASE n = 0
      BY <1>3, <3>1 DEF Loop
    <3>2. CASE n # 0
      <4>1. n \in 1..k /\ n - 1 \in 0..k /\ e[n - 1] \in G
        BY <1>1, <3>2
      <4>2. e[n] = step[n][e[n - 1]]
        BY <1>3, <4>1 DEF Loop
      <4> HIDE DEF G
      <4> QED  BY <3>2, <4>1, <4>2
    <3> QED  BY <3>1, <3>2
  <2>2. e = [n \in 0..k |-> e[n]]
    OBVIOUS
  <2> QED  BY <2>1, <2>2
<1>5. F(a)
  <2> HIDE DEF F
  <2> QED  BY <1>4
<1>6. Kept(ds, f) = a[k]
  BY DEF Kept, k
<1> HIDE DEF a
<1>7. /\ a[0] = <<>>
      /\ \A n \in 1..k : a[n] = IF Wanted(ds, f, n) THEN Append(a[n - 1], ds[n]) ELSE a[n - 1]
  <2> DEFINE b(n) == IF n = 0 THEN <<>>
                     ELSE IF Wanted(ds, f, n) THEN Append(a[n - 1], ds[n])
                     ELSE a[n - 1]
  <2>1. a = [n \in 0..k |-> b(n)]
    BY <1>5, Zenon
  <2> HIDE DEF b
  <2>2. \A n \in 0..k : a[n] = b(n)
    BY <2>1
  <2>3. 0 \in 0..k /\ \A n \in 1..k : n \in 0..k /\ n # 0
    BY <1>1
  <2> QED  BY <2>2, <2>3, Zenon DEF b
<1> QED  BY <1>6, <1>7 DEF k

LEMMA KeptIs ==
    ASSUME NEW ds \in Seq(Deltas), NEW f
    PROVE  \E at : Picks(ds, f, Kept(ds, f), at, Len(ds))
<1>1. PICK e : /\ e[0] = <<>> /\ Kept(ds, f) = e[Len(ds)]
               /\ \A n \in 1..Len(ds) :
                     e[n] = IF Wanted(ds, f, n) THEN Append(e[n - 1], ds[n]) ELSE e[n - 1]
  BY KeptLoop
<1> DEFINE k == Len(ds)
           A == {n \in 0..k : \E at : Picks(ds, f, e[n], at, n)}
<1>2. k \in Nat
  OBVIOUS
<1>3. 0 \in A
  <2>1. Picks(ds, f, <<>>, <<>>, 0)
    BY DEF Picks
  <2> QED  BY <1>1, <1>2, <2>1
<1>4. ASSUME NEW n \in 1..k, n - 1 \in A PROVE n \in A
  <2>1. PICK at : Picks(ds, f, e[n - 1], at, n - 1)
    BY <1>4
  <2>2. \E bt : Picks(ds, f, e[n], bt, n)
    BY <1>1, <2>1, PicksOn
  <2> QED  BY <1>2, <2>2
<1> HIDE DEF A
<1>5. 0..k \subseteq A
  BY <1>2, <1>3, <1>4, Climbs
<1> QED  BY <1>1, <1>2, <1>5 DEF A

\* What compaction keeps is still wanted.
LEMMA KeptWanted ==
    ASSUME NEW ds \in Seq(Deltas), NEW f
    PROVE  /\ Kept(ds, f) \in Seq(Deltas)
           /\ \A x \in 1..Len(Kept(ds, f)) : Wanted(Kept(ds, f), f, x)
<1> DEFINE ks == Kept(ds, f)
<1>1. PICK at : Picks(ds, f, ks, at, Len(ds))
  BY KeptIs
<1> HIDE DEF ks
<1>2. ks \in Seq(Deltas) /\ Len(ks) \in Nat
  BY <1>1 DEF Picks
<1>3. ASSUME NEW x \in 1..Len(ks) PROVE Wanted(ks, f, x)
  <2>1. ks[x] = ds[at[x]] /\ Wanted(ds, f, at[x]) /\ at[x] \in 1..Len(ds)
    BY <1>1 DEF Picks
  <2>2. PICK i \in Ids : /\ CarriesKey(ds[at[x]], f, i)
                         /\ \A m \in 1..(at[x] - 1) : ~ CarriesKey(ds[m], f, i)
    BY <2>1 DEF Wanted
  <2>3. ASSUME NEW y \in 1..(x - 1) PROVE ~ CarriesKey(ks[y], f, i)
    <3>1. y \in 1..Len(ks) /\ y < x
      BY <1>2
    <3>2. at[y] < at[x] /\ at[y] \in 1..Len(ds) /\ ks[y] = ds[at[y]]
      BY <1>1, <3>1 DEF Picks
    <3>3. at[y] \in 1..(at[x] - 1)
      BY <2>1, <3>2
    <3> QED  BY <2>2, <3>2, <3>3
  <2>4. CarriesKey(ks[x], f, i)
    BY <2>1, <2>2
  <2> QED  BY <2>3, <2>4 DEF Wanted
<1> QED  BY <1>2, <1>3 DEF ks

\* Deltas each of which is wanted are no more than the ids they name.
LEMMA WantedAreFew ==
    ASSUME NEW ds \in Seq(Deltas), NEW f, \A n \in 1..Len(ds) : Wanted(ds, f, n)
    PROVE  Len(ds) <= Cardinality({i \in Ids : \E d \in Range(ds) : \E j \in DOMAIN d : d[j].id = i})
<1> DEFINE k == Len(ds)
           S == {i \in Ids : \E d \in Range(ds) : \E j \in DOMAIN d : d[j].id = i}
           T == {p \in (1..k) \X (1..MaxUpdates) : p[2] \in DOMAIN ds[p[1]]}
           name == [p \in T |-> ds[p[1]][p[2]].id]
<1>1. /\ k \in Nat /\ DOMAIN ds = 1..k
      /\ \A n \in 1..k : ds[n] \in Deltas /\ ds[n] \in Range(ds)
      /\ \A d \in Range(ds) : \E n \in 1..k : d = ds[n]
  BY DEF Range
<1> HIDE DEF k
<1>2. ASSUME NEW n \in 1..k
      PROVE  /\ DOMAIN ds[n] \subseteq 1..MaxUpdates
             /\ \A j \in DOMAIN ds[n] : ds[n][j].id \in Ids
  <2>1. PICK l \in 0..MaxUpdates : ds[n] \in [1..l -> Updates]
    BY <1>1 DEF Deltas
  <2>2. DOMAIN ds[n] = 1..l /\ l <= MaxUpdates /\ l \in Nat
    BY <2>1, UpdatesAssumption
  <2>3. \A j \in 1..l : ds[n][j] \in Updates
    BY <2>1
  <2> QED  BY <2>2, <2>3, UpdateIs, UpdatesAssumption
<1>3. IsFiniteSet(T)
  <2>1. IsFiniteSet(1..k) /\ IsFiniteSet(1..MaxUpdates)
    BY <1>1, UpdatesAssumption, FS_Interval
  <2>2. IsFiniteSet((1..k) \X (1..MaxUpdates))
    BY <2>1, FS_Product
  <2> QED  BY <2>2, FS_Subset
<1>4. name \in Surjection(T, S)
  <2>1. \A p \in T : p[1] \in 1..k /\ p[2] \in DOMAIN ds[p[1]]
    OBVIOUS
  <2>2. name \in [T -> S]
    <3>1. \A p \in T : ds[p[1]][p[2]].id \in S
      BY <1>1, <1>2, <2>1
    <3> HIDE DEF T, S
    <3> QED  BY <3>1
  <2>3. ASSUME NEW i \in S PROVE \E p \in T : name[p] = i
    <3>0. PICK n \in 1..k : \E j \in DOMAIN ds[n] : ds[n][j].id = i
      BY <1>1
    <3>1. PICK j \in DOMAIN ds[n] : ds[n][j].id = i
      BY <3>0
    <3>2. <<n, j>> \in T
      BY <1>2, <3>1
    <3>3. name[<<n, j>>] = i
      <4> HIDE DEF T
      <4> QED  BY <3>1, <3>2
    <3> QED  BY <3>2, <3>3
  <2> HIDE DEF name, T, S
  <2> QED  BY <2>2, <2>3 DEF Surjection
<1> HIDE DEF T, name
<1>5. IsFiniteSet(S)
  BY <1>3, <1>4, FS_Surjection
<1> DEFINE First(n, i) == CarriesKey(ds[n], f, i) /\ \A m \in 1..(n - 1) : ~ CarriesKey(ds[m], f, i)
           g == [n \in 1..k |-> CHOOSE i \in Ids : First(n, i)]
<1>6. ASSUME NEW n \in 1..k PROVE g[n] \in Ids /\ First(n, g[n])
  <2>1. \E i \in Ids : First(n, i)
    BY DEF Wanted, k
  <2> HIDE DEF First
  <2> QED  BY <2>1
<1>7. ASSUME NEW n \in 1..k PROVE g[n] \in S
  <2>1. g[n] \in Ids /\ CarriesKey(ds[n], f, g[n])
    BY <1>6
  <2> HIDE DEF g
  <2>2. ds[n] \in Range(ds) /\ \E j \in DOMAIN ds[n] : ds[n][j].id = g[n]
    BY <1>1, <2>1 DEF CarriesKey
  <2> QED  BY <2>1, <2>2
<1>8. ASSUME NEW n \in 1..k, NEW m \in 1..k, g[n] = g[m] PROVE n = m
  <2>1. ~ m \in 1..(n - 1) /\ ~ n \in 1..(m - 1)
    <3>1. First(n, g[n]) /\ First(m, g[n])
      BY <1>6, <1>8
    <3> HIDE DEF g
    <3> QED  BY <3>1
  <2> HIDE DEF g
  <2> QED  BY <1>1, <2>1
<1>9. g \in Injection(1..k, S)
  <2>1. g \in [1..k -> S]
    <3> HIDE DEF S, First
    <3> QED  BY <1>7
  <2>2. DOMAIN g = 1..k
    OBVIOUS
  <2> HIDE DEF g, S
  <2> QED  BY <1>8, <2>1, <2>2 DEF Injection, IsInjective
<1> HIDE DEF g, S
<1>10. Cardinality(1..k) <= Cardinality(S)
  BY <1>5, <1>9, FS_Injection
<1>11. Cardinality(1..k) = k
  <2>1. Cardinality(1..k) = IF 1 > k THEN 0 ELSE k - 1 + 1
    BY <1>1, FS_Interval
  <2> QED  BY <1>1, <2>1
<1> QED  BY <1>10, <1>11 DEF S, k

-----------------------------------------------------------------------------
(* The history                                                             *)

LEMMA SnapshotIs == snapshot \in Snapshots => Filters(snapshot) \in FilterStates
<1> SUFFICES ASSUME snapshot \in Snapshots PROVE Filters(snapshot) \in FilterStates
  OBVIOUS
<1> DEFINE s == snapshot.preds
           r == [i \in Ids |-> IF \E p \in Range(s) : p.id = i THEN 0 ELSE Unseen]
<1>1. s \in Seq(Preds) /\ IsInjective(LiveIds(snapshot)) /\ snapshot.required \subseteq Range(LiveIds(snapshot))
  BY SnapshotsAssumption
<1>2. DOMAIN s = 1..Len(s) /\ \A i \in 1..Len(s) : s[i] \in Preds
  BY <1>1
<1>3. LiveIds(snapshot) = [i \in 1..Len(s) |-> s[i].id]
  BY <1>2 DEF LiveIds
<1> HIDE DEF s
<1>4. Distinct(s)
  BY <1>1, <1>3 DEF IsInjective, Distinct
<1>5. r \in [Ids -> Int]
  BY DEF Unseen
<1>6. snapshot.required \in SUBSET Ids
  <2>1. \A i \in 1..Len(s) : s[i].id \in Ids
    BY <1>2 DEF Preds
  <2> QED  BY <1>1, <1>3, <2>1 DEF Range
<1>7. Filters(snapshot) = [preds |-> s, rev |-> r, required |-> snapshot.required]
  BY DEF Filters, s
<1> HIDE DEF r
<1> QED  BY <1>1, <1>4, <1>5, <1>6, <1>7, StatesAre

LEMMA LiveIdsAre ==
    ASSUME NEW f \in FilterStates
    PROVE  LiveIds(f) \in Seq(Ids) /\ IsInjective(LiveIds(f))
<1>1. f.preds \in Seq(Preds)
  BY StatesAre
<1>2. /\ DOMAIN f.preds = 1..Len(f.preds) /\ Len(f.preds) \in Nat
      /\ \A i \in 1..Len(f.preds) : f.preds[i].id \in Ids
  <2>1. /\ DOMAIN f.preds = 1..Len(f.preds) /\ Len(f.preds) \in Nat
        /\ \A i \in 1..Len(f.preds) : f.preds[i] \in Preds
    BY <1>1
  <2> QED  BY <2>1 DEF Preds
<1>3. LiveIds(f) = [i \in 1..Len(f.preds) |-> f.preds[i].id]
  BY <1>2 DEF LiveIds
<1>4. LiveIds(f) \in Seq(Ids)
  <2> DEFINE k == Len(f.preds)
             at(i) == f.preds[i].id
  <2>1. k \in Nat /\ (\A i \in 1..k : at(i) \in Ids) /\ LiveIds(f) = [i \in 1..k |-> at(i)]
    BY <1>2, <1>3
  <2> HIDE DEF k, at
  <2> QED  BY <2>1
<1> QED  BY <1>4 DEF FilterStates

LEMMA RebuiltStays == HistoryTypeOK => Rebuilt \in FilterStates \cup {Rejected}
<1> SUFFICES ASSUME HistoryTypeOK PROVE Rebuilt \in FilterStates \cup {Rejected}
  OBVIOUS
<1>1. Filters(snapshot) \in FilterStates /\ history.deltas \in Seq(Deltas) /\ history.order \in Seq(Ids)
  BY SnapshotIs DEF HistoryTypeOK
<1>2. Replayed(Filters(snapshot), history.deltas) \in FilterStates \cup {Rejected}
  BY <1>1, ReplayedStays
<1> QED  BY <1>1, <1>2, OrderStays DEF Rebuilt, Replay

\* Filters whose current revisions the deltas of the history carry, each delta
\* one that no earlier delta does.
HistoryWanted == \E f : \A n \in 1..Len(history.deltas) : Wanted(history.deltas, f, n)

LEMMA HistoryInvariant == HistorySpec => [](HistoryTypeOK /\ HistoryWanted)
<1>1. HistoryInit => HistoryTypeOK /\ HistoryWanted
  <2> SUFFICES ASSUME HistoryInit PROVE HistoryTypeOK /\ HistoryWanted
    OBVIOUS
  <2>1. history.deltas = <<>> /\ history.order = <<>> /\ snapshot \in Snapshots /\ turns = "running"
    BY DEF HistoryInit, EmptyHistory
  <2>2. IsInjective(<<>>)
    BY DEF IsInjective
  <2> QED  BY <2>1, <2>2 DEF HistoryTypeOK, HistoryWanted
<1>2. HistoryTypeOK /\ HistoryWanted /\ [HistoryNext]_historyVars => (HistoryTypeOK /\ HistoryWanted)'
  <2> SUFFICES ASSUME HistoryTypeOK, HistoryWanted, [HistoryNext]_historyVars
               PROVE  HistoryTypeOK' /\ HistoryWanted'
    OBVIOUS
  <2>1. CASE UNCHANGED historyVars
    BY <2>1 DEF historyVars, HistoryTypeOK, HistoryWanted
  <2>2. ASSUME NEW d \in Deltas, Turn(Rebuilt, d) PROVE HistoryTypeOK' /\ HistoryWanted'
    <3> DEFINE f == ApplyTo(Rebuilt, d)
    <3>1. f \in FilterStates \cup {Rejected}
      BY RebuiltStays, ApplyToStays
    <3>2. CASE f = Rejected
      <4>1. history' = history /\ snapshot' = snapshot /\ turns' = "failed"
        BY <2>2, <3>2 DEF Turn
      <4> QED  BY <4>1 DEF HistoryTypeOK, HistoryWanted
    <3>3. CASE f # Rejected
      <4>1. history' = Record(f, history, d) /\ snapshot' = snapshot /\ turns' = turns
        BY <2>2, <3>3 DEF Turn
      <4> HIDE DEF f
      <4>2. f \in FilterStates
        BY <3>1, <3>3
      <4>3. /\ history'.deltas = Kept(Append(history.deltas, d), f)
            /\ history'.order = LiveIds(f)
        BY <4>1 DEF Record
      <4>4. Append(history.deltas, d) \in Seq(Deltas)
        BY DEF HistoryTypeOK
      <4>5. /\ history'.deltas \in Seq(Deltas)
            /\ \A x \in 1..Len(history'.deltas) : Wanted(history'.deltas, f, x)
        BY <4>3, <4>4, KeptWanted
      <4>6. HistoryTypeOK'
        BY <4>1, <4>2, <4>3, <4>5, LiveIdsAre DEF HistoryTypeOK
      <4> QED  BY <4>5, <4>6 DEF HistoryWanted
    <3> QED  BY <3>2, <3>3
  <2> QED  BY <2>1, <2>2 DEF HistoryNext
<1> QED  BY <1>1, <1>2, PTL DEF HistorySpec

\* However many ticks bring deltas, the history has no more of them than there
\* are predicate ids in it, and the order it records names no id twice
\* (recordFilterDelta).
THEOREM HistoryStaysBounded == HistorySpec => []HistoryBounded
<1>1. HistoryTypeOK /\ HistoryWanted => HistoryBounded
  <2> SUFFICES ASSUME HistoryTypeOK, HistoryWanted PROVE HistoryBounded
    OBVIOUS
  <2>1. PICK f : \A n \in 1..Len(history.deltas) : Wanted(history.deltas, f, n)
    BY DEF HistoryWanted
  <2>2. history.deltas \in Seq(Deltas)
    BY DEF HistoryTypeOK
  <2> QED  BY <2>1, <2>2, WantedAreFew DEF HistoryBounded
<1> QED  BY <1>1, HistoryInvariant, PTL

-----------------------------------------------------------------------------
(* What the history rebuilds                                               *)

LEMMA Transitive ==
    ASSUME NEW x \in Int, NEW y \in Int, NEW z \in Int, x <= y, y <= z
    PROVE  x <= z
OBVIOUS

\* A delta that acts leads on: its updates that were not stale are what the
\* filters now have of their ids.
LEMMA LeadsOn ==
    ASSUME NEW ds \in Seq(Deltas), NEW d \in Deltas,
           NEW f \in FilterStates, NEW g \in FilterStates, NEW h,
           Leads(f, ds, g), Moves(g, h, d, Len(d)),
           \A j \in 1..Len(d) : d[j].id \notin g.required
    PROVE  /\ Leads(f, Append(ds, d), h)
           /\ \A i \in Ids : f.rev[i] <= g.rev[i] /\ g.rev[i] <= h.rev[i]
           /\ h.rev = g.rev => h = g
<1> DEFINE k == Len(ds)
           es == Append(ds, d)
<1>0. /\ k \in Nat /\ Len(es) = k + 1 /\ es[k + 1] = d
      /\ \A n \in 1..k : es[n] = ds[n] /\ ds[n] \in Deltas
      /\ \A n \in 1..(k + 1) : n \in 1..k \/ n = k + 1
  OBVIOUS
<1>1. h \in FilterStates /\ h.required = g.required
  BY DEF Moves
<1>2. f.rev \in [Ids -> Int] /\ g.rev \in [Ids -> Int] /\ h.rev \in [Ids -> Int]
  BY <1>1, StatesAre
<1>3. /\ DOMAIN d = 1..Len(d)
      /\ \A j \in 1..Len(d) : d[j].id \in Ids /\ d[j].rev \in Int
  BY DeltaIs, UpdateIs
<1>4. ASSUME NEW j \in 1..Len(d), ~ Stale(g, d[j])
      PROVE  /\ h.rev[d[j].id] = d[j].rev /\ g.rev[d[j].id] < h.rev[d[j].id]
             /\ Named(h.preds, d[j].id) = Entry(d[j])
  <2>1. h.rev[d[j].id] = d[j].rev /\ Named(h.preds, d[j].id) = Entry(d[j])
    BY <1>4 DEF Moves
  <2>2. ~ d[j].rev <= g.rev[d[j].id] /\ d[j].rev \in Int /\ g.rev[d[j].id] \in Int
    BY <1>2, <1>3, <1>4 DEF Stale
  <2>3. g.rev[d[j].id] < d[j].rev
    BY <2>2
  <2> QED  BY <2>1, <2>3
<1>5. ASSUME NEW i \in Ids
      PROVE  \/ h.rev[i] = g.rev[i] /\ Named(h.preds, i) = Named(g.preds, i)
             \/ g.rev[i] < h.rev[i] /\ \E j \in 1..Len(d) : /\ d[j].id = i /\ d[j].rev = h.rev[i]
                                                            /\ Named(h.preds, i) = Entry(d[j])
  <2>1. CASE \A j \in 1..Len(d) : d[j].id = i => Stale(g, d[j])
    BY <2>1 DEF Moves
  <2>2. ASSUME NEW j \in 1..Len(d), d[j].id = i, ~ Stale(g, d[j])
        PROVE  g.rev[i] < h.rev[i] /\ d[j].rev = h.rev[i] /\ Named(h.preds, i) = Entry(d[j])
    BY <1>4, <2>2
  <2> QED  BY <2>1, <2>2
<1>6. ASSUME NEW i \in Ids PROVE f.rev[i] <= g.rev[i] /\ g.rev[i] <= h.rev[i]
  <2>1. f.rev[i] \in Int /\ g.rev[i] \in Int /\ h.rev[i] \in Int
    BY <1>2
  <2>2. f.rev[i] = g.rev[i] \/ f.rev[i] < g.rev[i]
    BY DEF Leads
  <2>3. h.rev[i] = g.rev[i] \/ g.rev[i] < h.rev[i]
    BY <1>5
  <2> QED  BY <2>1, <2>2, <2>3
<1>7. h.rev = g.rev => h = g
  <2> SUFFICES ASSUME h.rev = g.rev PROVE h = g
    OBVIOUS
  <2>1. ASSUME NEW j \in 1..Len(d) PROVE Stale(g, d[j])
    <3>1. ~ g.rev[d[j].id] < g.rev[d[j].id]
      BY <1>2, <1>3
    <3> QED  BY <1>4, <3>1
  <2> QED  BY <2>1 DEF Moves
<1>8. ASSUME NEW n \in 1..Len(es), NEW j \in 1..Len(es[n])
      PROVE  es[n][j].id \notin h.required /\ es[n][j].rev <= h.rev[es[n][j].id]
  <2>1. CASE n \in 1..k
    <3>1. es[n] = ds[n] /\ ds[n] \in Deltas
      BY <1>0, <2>1
    <3>2. ds[n][j].id \notin g.required /\ ds[n][j].rev <= g.rev[ds[n][j].id]
      BY <2>1, <3>1 DEF Leads
    <3>3. ds[n][j].id \in Ids /\ ds[n][j].rev \in Int
      BY <3>1, DeltaIs, UpdateIs
    <3>4. /\ g.rev[ds[n][j].id] \in Int /\ h.rev[ds[n][j].id] \in Int
          /\ g.rev[ds[n][j].id] <= h.rev[ds[n][j].id]
      BY <1>2, <1>6, <3>3
    <3>5. ds[n][j].rev <= h.rev[ds[n][j].id]
      BY <3>2, <3>3, <3>4, Transitive
    <3> QED  BY <1>1, <3>1, <3>2, <3>5
  <2>2. CASE n = k + 1
    <3>1. es[n] = d
      BY <1>0, <2>2
    <3>2. d[j].id \notin g.required /\ d[j].id \in Ids /\ d[j].rev \in Int
      BY <1>3, <3>1
    <3>3. d[j].rev <= h.rev[d[j].id]
      <4>1. CASE Stale(g, d[j])
        <5>1. d[j].rev <= g.rev[d[j].id] /\ g.rev[d[j].id] <= h.rev[d[j].id]
          BY <1>6, <3>2, <4>1 DEF Stale
        <5>2. g.rev[d[j].id] \in Int /\ h.rev[d[j].id] \in Int
          BY <1>2, <3>2
        <5> QED  BY <3>2, <5>1, <5>2, Transitive
      <4>2. CASE ~ Stale(g, d[j])
        <5>1. h.rev[d[j].id] = d[j].rev
          BY <1>4, <3>1, <4>2
        <5> QED  BY <3>2, <5>1
      <4> QED  BY <4>1, <4>2
    <3> QED  BY <1>1, <3>1, <3>2, <3>3
  <2> HIDE DEF es
  <2> QED  BY <1>0, <2>1, <2>2
<1> HIDE DEF es, k
<1>9. ASSUME NEW i \in Ids
      PROVE  \/ h.rev[i] = f.rev[i] /\ Named(h.preds, i) = Named(f.preds, i)
             \/ f.rev[i] < h.rev[i] /\ \E n \in 1..Len(es) : Source(es, h, i, n)
  <2>0. f.rev[i] \in Int /\ g.rev[i] \in Int /\ h.rev[i] \in Int /\ f.rev[i] <= g.rev[i]
    BY <1>2, <1>6
  <2>1. CASE h.rev[i] = g.rev[i] /\ Named(h.preds, i) = Named(g.preds, i)
    <3>1. CASE g.rev[i] = f.rev[i] /\ Named(g.preds, i) = Named(f.preds, i)
      BY <2>1, <3>1
    <3>2. ASSUME f.rev[i] < g.rev[i], NEW n \in 1..k, Source(ds, g, i, n)
          PROVE  f.rev[i] < h.rev[i] /\ n \in 1..Len(es) /\ Source(es, h, i, n)
      <4>1. n \in 1..Len(es) /\ es[n] = ds[n]
        BY <1>0
      <4>2. ASSUME NEW m \in 1..(n - 1) PROVE ~ CarriesKey(es[m], h, i)
        <5>1. m \in 1..k
          BY <1>0
        <5>2. ~ CarriesKey(ds[m], g, i) /\ es[m] = ds[m]
          BY <1>0, <3>2, <5>1 DEF Source
        <5> QED  BY <2>1, <5>2 DEF CarriesKey
      <4>3. PICK j \in 1..Len(ds[n]) : /\ ds[n][j].id = i /\ ds[n][j].rev = g.rev[i]
                                       /\ Named(g.preds, i) = Entry(ds[n][j])
        BY <3>2 DEF Source
      <4> QED  BY <2>1, <3>2, <4>1, <4>2, <4>3 DEF Source
    <3> QED  BY <3>1, <3>2 DEF Leads, k
  <2>2. ASSUME g.rev[i] < h.rev[i],
               NEW j \in 1..Len(d), d[j].id = i, d[j].rev = h.rev[i], Named(h.preds, i) = Entry(d[j])
        PROVE  f.rev[i] < h.rev[i] /\ \E n \in 1..Len(es) : Source(es, h, i, n)
    <3>1. k + 1 \in 1..Len(es) /\ es[k + 1] = d /\ (k + 1) - 1 = k
      BY <1>0
    <3>2. ASSUME NEW m \in 1..k PROVE ~ CarriesKey(es[m], h, i)
      <4>1. es[m] = ds[m] /\ ds[m] \in Deltas
        BY <1>0
      <4>2. DOMAIN ds[m] = 1..Len(ds[m])
        BY <4>1, DeltaIs
      <4>3. ASSUME NEW l \in 1..Len(ds[m]), ds[m][l].id = i, ds[m][l].rev = h.rev[i] PROVE FALSE
        <5>1. ds[m][l].rev <= g.rev[i]
          BY <4>3 DEF Leads, k
        <5>2. h.rev[i] <= g.rev[i]
          BY <4>3, <5>1
        <5> QED  BY <2>0, <2>2, <5>2
      <4> QED  BY <4>1, <4>2, <4>3 DEF CarriesKey
    <3>3. Source(es, h, i, k + 1)
      BY <2>2, <3>1, <3>2 DEF Source
    <3>4. f.rev[i] < h.rev[i]
      BY <2>0, <2>2
    <3> QED  BY <3>1, <3>3, <3>4
  <2> QED  BY <1>5, <2>1, <2>2
<1>10. Leads(f, es, h)
  BY <1>8, <1>9 DEF Leads
<1> QED  BY <1>6, <1>7, <1>10 DEF es

\* Compaction keeps the sources.
LEMMA KeptLeads ==
    ASSUME NEW ds \in Seq(Deltas), NEW f, NEW g, Leads(f, ds, g)
    PROVE  Leads(f, Kept(ds, g), g)
<1> DEFINE ks == Kept(ds, g)
<1>1. PICK at : Picks(ds, g, ks, at, Len(ds))
  BY KeptIs
<1> HIDE DEF ks
<1>2. /\ Len(ds) \in Nat /\ Len(ks) \in Nat
      /\ \A x \in 1..Len(ks) : at[x] \in 1..Len(ds) /\ ks[x] = ds[at[x]]
      /\ \A x, y \in 1..Len(ks) : x < y => at[x] < at[y]
  BY <1>1 DEF Picks
<1>3. ASSUME NEW x \in 1..Len(ks), NEW j \in 1..Len(ks[x])
      PROVE  ks[x][j].id \notin g.required /\ ks[x][j].rev <= g.rev[ks[x][j].id]
  <2>1. ks[x] = ds[at[x]] /\ at[x] \in 1..Len(ds)
    BY <1>2
  <2> QED  BY <2>1 DEF Leads
<1>4. ASSUME NEW i \in Ids, NEW n \in 1..Len(ds), Source(ds, g, i, n)
      PROVE  \E x \in 1..Len(ks) : Source(ks, g, i, x)
  <2>1. CarriesKey(ds[n], g, i)
    <3>1. DOMAIN ds[n] = 1..Len(ds[n])
      BY DeltaIs
    <3> QED  BY <1>4, <3>1 DEF Source, CarriesKey
  <2>2. Wanted(ds, g, n)
    BY <1>4, <2>1 DEF Source, Wanted
  <2>3. PICK x \in 1..Len(ks) : at[x] = n
    BY <1>1, <2>2 DEF Picks
  <2>4. ASSUME NEW y \in 1..(x - 1) PROVE ~ CarriesKey(ks[y], g, i)
    <3>1. y \in 1..Len(ks) /\ y < x
      BY <1>2
    <3>2. at[y] \in 1..Len(ds) /\ ks[y] = ds[at[y]] /\ at[y] < n
      BY <1>2, <2>3, <3>1
    <3>3. at[y] \in 1..(n - 1)
      BY <3>2
    <3> QED  BY <1>4, <3>2, <3>3 DEF Source
  <2>5. ks[x] = ds[n]
    BY <1>2, <2>3
  <2>6. Source(ks, g, i, x)
    BY <1>4, <2>4, <2>5 DEF Source
  <2> QED  BY <2>6
<1>5. Leads(f, ks, g)
  BY <1>3, <1>4 DEF Leads
<1> QED  BY <1>5 DEF ks

\* Every expression that a delta brings is one the strict parser accepts; else
\* the replay may refuse an update that was not looked at when it came.
ExprsParse == Valid = Exprs

\* While the stream runs, the deltas lead from the snapshot to the filters a
\* byte stream has, with their order; filters that have seen no newer revision
\* than the snapshot's are the snapshot's.
LiveStands ==
    IF turns = "running"
    THEN /\ live \in FilterStates /\ live.required = Filters(snapshot).required
         /\ Leads(Filters(snapshot), history.deltas, live)
         /\ history.deltas # <<>> => history.order = LiveIds(live)
         /\ live.rev = Filters(snapshot).rev => live = Filters(snapshot)
    ELSE live = Rejected

LEMMA RebuiltIs ==
    ASSUME ExprsParse, HistoryTypeOK, LiveStands, turns = "running"
    PROVE  Rebuilt = live
<1> DEFINE f == Filters(snapshot)
           ds == history.deltas
<1>1. f \in FilterStates /\ ds \in Seq(Deltas) /\ live \in FilterStates
  BY SnapshotIs DEF HistoryTypeOK, LiveStands
<1>2. /\ f.required = live.required /\ Leads(f, ds, live)
      /\ ds # <<>> => history.order = LiveIds(live)
      /\ live.rev = f.rev => live = f
  BY DEF LiveStands
<1> HIDE DEF f, ds
<1>3. CASE ds = <<>>
  <2>1. f.rev \in [Ids -> Int] /\ live.rev \in [Ids -> Int]
    BY <1>1, StatesAre
  <2>2. \A i \in Ids : live.rev[i] = f.rev[i]
    <3>1. 1..Len(ds) = {}
      BY <1>3
    <3> QED  BY <1>2, <3>1 DEF Leads
  <2>3. live = f
    BY <1>2, <2>1, <2>2
  <2> QED  BY <1>3, <2>3 DEF Rebuilt, Replay, f, ds
<1>4. CASE ds # <<>>
  <2> DEFINE r == Replayed(f, ds)
  <2>1. /\ r \in FilterStates /\ r.required = live.required /\ r.rev = live.rev
        /\ \A i \in Ids : Named(r.preds, i) = Named(live.preds, i)
    BY <1>1, <1>2, ReplayLeads DEF ExprsParse
  <2> HIDE DEF r
  <2>2. WithPredicateOrder(r, history.order) = live
    BY <1>1, <1>2, <1>4, <2>1, OrderRestores
  <2>3. r # Rejected
    BY <2>1, RejectedAssumption
  <2> QED  BY <1>4, <2>2, <2>3 DEF Rebuilt, Replay, f, ds, r
<1> QED  BY <1>3, <1>4

LEMMA LiveStandsInit == HistoryInit => LiveStands
<1> SUFFICES ASSUME HistoryInit PROVE LiveStands
  OBVIOUS
<1>1. /\ history.deltas = <<>> /\ snapshot \in Snapshots
      /\ live = Filters(snapshot) /\ turns = "running"
  BY DEF HistoryInit, EmptyHistory
<1>2. live \in FilterStates
  BY <1>1, SnapshotIs
<1>3. Leads(live, <<>>, live)
  BY DEF Leads
<1> QED  BY <1>1, <1>2, <1>3 DEF LiveStands

LEMMA LiveStandsStep ==
    ASSUME ExprsParse, HistoryTypeOK, LiveStands, [HistoryNext]_historyVars
    PROVE  LiveStands'
<1>1. CASE UNCHANGED historyVars
  BY <1>1 DEF historyVars, LiveStands
<1>2. ASSUME turns = "running", NEW d \in Deltas, Turn(Rebuilt, d) PROVE LiveStands'
  <2> DEFINE f == Filters(snapshot)
             ds == history.deltas
             h == ApplyTo(live, d)
  <2>1. Rebuilt = live
    BY <1>2, RebuiltIs
  <2>2. live' = h /\ snapshot' = snapshot
    BY <1>2 DEF Turn
  <2>3. f' = f
    BY <2>2 DEF Filters
  <2>4. CASE h = Rejected
    <3>1. turns' = "failed"
      BY <1>2, <2>1, <2>4 DEF Turn
    <3> QED  BY <2>2, <2>4, <3>1 DEF LiveStands
  <2>5. CASE h # Rejected
    <3>1. history' = Record(h, history, d) /\ turns' = "running"
      BY <1>2, <2>1, <2>5 DEF Turn
    <3> HIDE DEF f, ds
    <3>2. /\ f \in FilterStates /\ ds \in Seq(Deltas) /\ live \in FilterStates
          /\ f.required = live.required /\ Leads(f, ds, live)
          /\ live.rev = f.rev => live = f
      BY <1>2, SnapshotIs DEF HistoryTypeOK, LiveStands, f, ds
    <3>3. h = Applied(live, d) /\ \A j \in 1..Len(d) : d[j].id \notin live.required
      BY <2>5, <3>2, ApplyToIs
    <3> HIDE DEF h
    <3>4. Moves(live, h, d, Len(d))
      BY <3>2, <3>3, AppliedIs
    <3>5. h \in FilterStates /\ h.required = f.required
      BY <3>2, <3>4 DEF Moves
    <3>6. /\ Leads(f, Append(ds, d), h)
          /\ \A i \in Ids : f.rev[i] <= live.rev[i] /\ live.rev[i] <= h.rev[i]
          /\ h.rev = live.rev => h = live
      BY <3>2, <3>3, <3>4, LeadsOn
    <3>7. Append(ds, d) \in Seq(Deltas)
      BY <3>2
    <3>8. history'.deltas = Kept(Append(ds, d), h) /\ history'.order = LiveIds(h)
      BY <3>1 DEF Record, ds
    <3>9. Leads(f, history'.deltas, h)
      BY <3>6, <3>7, <3>8, KeptLeads
    <3>10. h.rev = f.rev => h = f
      <4> SUFFICES ASSUME h.rev = f.rev PROVE h = f
        OBVIOUS
      <4>1. f.rev \in [Ids -> Int] /\ live.rev \in [Ids -> Int]
        BY <3>2, StatesAre
      <4>2. ASSUME NEW i \in Ids PROVE live.rev[i] = f.rev[i]
        <5>1. f.rev[i] \in Int /\ live.rev[i] \in Int
          BY <4>1
        <5>2. f.rev[i] <= live.rev[i] /\ live.rev[i] <= f.rev[i]
          BY <3>6
        <5> QED  BY <5>1, <5>2
      <4>3. live.rev = f.rev
        BY <4>1, <4>2
      <4> QED  BY <3>2, <3>6, <4>3
    <3>11. Filters(snapshot)' = f
      BY <2>3 DEF f
    <3> QED  BY <2>2, <3>1, <3>5, <3>8, <3>9, <3>10, <3>11 DEF LiveStands
  <2> QED  BY <2>4, <2>5
<1> QED  BY <1>1, <1>2 DEF HistoryNext

\* Whatever deltas the ticks bring, the filters a turn rebuilds from the
\* snapshot and the compacted history are those of a byte stream, with their
\* order and revisions, and a delta is refused over HTTP if and only if it is
\* refused there (replayFilterHistory, recordFilterDelta, withPredicateOrder).
THEOREM ReplayIsExact ==
    ASSUME ExprsParse
    PROVE  HistorySpec => []RebuiltIsLive
<1>1. HistorySpec => []HistoryTypeOK
  BY HistoryInvariant, PTL
<1>2. LiveStands /\ HistoryTypeOK /\ [HistoryNext]_historyVars => LiveStands'
  BY LiveStandsStep
<1>3. HistoryTypeOK /\ LiveStands => RebuiltIsLive
  BY RebuiltIs DEF RebuiltIsLive, LiveStands
<1> QED  BY <1>1, <1>2, <1>3, LiveStandsInit, PTL DEF HistorySpec
=============================================================================
