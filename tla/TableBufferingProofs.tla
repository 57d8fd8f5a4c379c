------------------------ MODULE TableBufferingProofs ------------------------
(***************************************************************************)
(* Proofs about TableBuffering, for any number of queries, threads and     *)
(* batches, any functions and both transports.  Types, InitialStateOnce,   *)
(* and Stands (who may call, and which rows a late call may leave) come    *)
(* first; then Exact, on which OutputExact rests: where a batch is, from   *)
(* the engine's call to the rows, the sorted run and what was handed out.  *)
(***************************************************************************)
EXTENDS TableBuffering, FiniteSetTheorems, TLAPS

USE DEF Callers, Live, Phases, Calls, Idle, FinalizeIds

-----------------------------------------------------------------------------
(* Types                                                                   *)

\* A step gives one thread's call the value k.
Turned(q, c, k) ==
    /\ k \in Calls
    /\ DOMAIN call' = Queries
    /\ call'[q] = [call[q] EXCEPT ![c] = k]
    /\ \A p \in Queries \ {q} : call'[p] = call[p]

LEMMA SendTurns ==
    ASSUME TypeOK, NEW q \in Queries, NEW c \in Callers(q),
           NEW op \in {"init", "process", "combine"}, NEW b \in Nat, Send(q, c, op, b)
    PROVE  Turned(q, c, [op |-> op, at |-> "sent", batch |-> b, todo |-> {}])
BY DEF TypeOK, Send, Turned

LEMMA AdvanceTurns ==
    ASSUME TypeOK, NEW q \in Queries, NEW c \in Callers(q),
           NEW at \in {"loaded", "writing", "answer", "refused"}, Advance(q, c, at)
    PROVE  Turned(q, c, [call[q][c] EXCEPT !.at = at])
<1>1. call[q][c] \in Calls
  BY DEF TypeOK
<1>2. [call[q][c] EXCEPT !.at = at] \in Calls
  BY <1>1
<1> QED  BY <1>2 DEF TypeOK, Advance, Turned

LEMMA IdleTurns ==
    ASSUME TypeOK, NEW q \in Queries, NEW c \in Callers(q),
           call' = [call EXCEPT ![q][c] = Idle]
    PROVE  Turned(q, c, Idle)
BY DEF TypeOK, Turned

LEMMA TurnedType ==
    ASSUME TypeOK, NEW q \in Queries, NEW c \in Callers(q), NEW k, Turned(q, c, k)
    PROVE  /\ DOMAIN call' = Queries
           /\ \A p \in Queries : call'[p] \in [Callers(p) -> Calls]
<1>1. ASSUME NEW p \in Queries PROVE call[p] \in [Callers(p) -> Calls]
  BY DEF TypeOK
<1>2. k \in Calls /\ call'[q] = [call[q] EXCEPT ![c] = k]
  BY DEF Turned
<1>3. call'[q] \in [Callers(q) -> Calls]
  <2> HIDE DEF Calls, Callers
  <2> QED  BY <1>1, <1>2
<1>4. \A p \in Queries \ {q} : call'[p] = call[p]
  BY DEF Turned
<1> QED  BY <1>1, <1>3, <1>4 DEF Turned

LEMMA UninitIsNoState == Uninit \notin FinalizeStates
<1>1. DOMAIN Uninit = {"uninit"}
  BY DEF Uninit
<1>2. \A s \in FinalizeStates : DOMAIN s = {"afterId", "emitted"}
  BY DEF FinalizeStates
<1> QED  BY <1>1, <1>2

\* Every variable keeps its type.
LEMMA TypeInit == Init => TypeOK
<1> SUFFICES ASSUME Init PROVE TypeOK
  OBVIOUS
<1>1. Idle \in Calls
  OBVIOUS
<1>2. \A q \in Queries : call[q] \in [Callers(q) -> Calls]
  <2> HIDE DEF Idle, Calls, Callers
  <2> QED  BY <1>1 DEF Init
<1>3. stream \in [Queries -> [FinalizeIds -> [at : {"new", "open", "end"},
                                              state : FinalizeStates \cup {Uninit}]]]
  BY DEF Init
<1> HIDE DEF Idle, Calls, Callers
<1>4. out \in [Queries -> Seq(Nat)]
  BY DEF Init
<1>5. IsFiniteSet(log)
  BY FS_EmptySet DEF Init
<1> QED  BY <1>2, <1>3, <1>4, <1>5 DEF Init, TypeOK

Streams == [at : {"new", "open", "end"}, state : FinalizeStates \cup {Uninit}]

\* The calls aside.
RestTyped ==
    /\ http \in BOOLEAN
    /\ kind \in [Queries -> Functions]
    /\ phase \in [Queries -> Phases]
    /\ next \in [Queries -> Nat \ {0}]
    /\ joined \in [Queries -> SUBSET Pooled]
    /\ known \in [Queries -> BOOLEAN]
    /\ log \subseteq [id : Nat, query : Queries, ns : {"buf", "unsorted", "shard"}, batch : Nat]
    /\ IsFiniteSet(log) /\ lastId \in Nat
    /\ fids \in [Queries -> SUBSET FinalizeIds]
    /\ stream \in [Queries -> [FinalizeIds -> Streams]]
    /\ out \in [Queries -> Seq(Nat)]
    /\ inits \in [Queries -> [FinalizeIds -> Nat]]
    /\ late \in [Queries -> SUBSET Nat]

LEMMA TypeParts ==
    TypeOK <=> /\ RestTyped /\ DOMAIN call = Queries
               /\ \A q \in Queries : call[q] \in [Callers(q) -> Calls]
BY DEF TypeOK, RestTyped, Streams

LEMMA AppendType ==
    ASSUME RestTyped, NEW q \in Queries, NEW b \in Nat,
           NEW ns \in {"buf", "unsorted", "shard"}, StateAppend(q, ns, b)
    PROVE  /\ log' \subseteq [id : Nat, query : Queries, ns : {"buf", "unsorted", "shard"}, batch : Nat]
           /\ IsFiniteSet(log') /\ lastId' \in Nat
<1> DEFINE r == [id |-> lastId + 1, query |-> q, ns |-> ns, batch |-> b]
<1>1. r \in [id : Nat, query : Queries, ns : {"buf", "unsorted", "shard"}, batch : Nat]
  BY DEF RestTyped
<1>2. log' = log \cup {r} /\ lastId' = lastId + 1
  BY DEF StateAppend
<1>3. IsFiniteSet(log \cup {r})
  BY FS_AddElement DEF RestTyped
<1> QED  BY <1>1, <1>2, <1>3 DEF RestTyped

LEMMA EngineTypes ==
    ASSUME TypeOK, NEW q \in Queries, Engine(q)
    PROVE  TypeOK'
<1> USE BufferingAssumption
<1>0. /\ RestTyped /\ DOMAIN call = Queries
      /\ \A p \in Queries : call[p] \in [Callers(p) -> Calls]
  BY TypeParts
<1> DEFINE CallsTyped == /\ DOMAIN call = Queries
                         /\ \A p \in Queries : call[p] \in [Callers(p) -> Calls]
<1> SUFFICES RestTyped' /\ CallsTyped'
  BY DEF TypeOK, RestTyped, Streams
<1>1. CASE Start(q)
  <2>1. CallsTyped'
    BY <1>1, SendTurns, TurnedType DEF Start
  <2> QED  BY <1>0, <1>1, <2>1 DEF Start, RestTyped
<1>2. ASSUME NEW t \in Threads[q], Join(q, t) PROVE RestTyped' /\ CallsTyped'
  <2>1. CallsTyped'
    BY <1>2, SendTurns, TurnedType DEF Join
  <2> QED  BY <1>0, <1>2, <2>1 DEF Join, RestTyped
<1>3. ASSUME NEW t \in Threads[q], SendBatch(q, t) PROVE RestTyped' /\ CallsTyped'
  <2>1. next[q] \in Nat /\ next[q] + 1 \in Nat \ {0}
    BY <1>0 DEF RestTyped
  <2>2. CallsTyped'
    BY <1>3, <2>1, SendTurns, TurnedType DEF SendBatch
  <2>3. next' \in [Queries -> Nat \ {0}]
    BY <1>0, <1>3, <2>1 DEF SendBatch, RestTyped
  <2> QED  BY <1>0, <1>3, <2>2, <2>3 DEF SendBatch, RestTyped
<1>4. CASE SendCombine(q)
  <2>1. CallsTyped'
    BY <1>4, SendTurns, TurnedType DEF SendCombine
  <2> QED  BY <1>0, <1>4, <2>1 DEF SendCombine, RestTyped
<1>5. ASSUME NEW c \in Callers(q), Replied(q, c) PROVE RestTyped' /\ CallsTyped'
  <2>1. CallsTyped'
    BY <1>5, IdleTurns, TurnedType DEF Replied
  <2>2. FinalizeStateIds(kind[q]) \subseteq FinalizeIds
    BY DEF FinalizeStateIds
  <2>3. /\ phase' \in {phase, [phase EXCEPT ![q] = "drain"], [phase EXCEPT ![q] = "sink"]}
        /\ fids' \in {fids, [fids EXCEPT ![q] = FinalizeStateIds(kind[q])]}
    BY <1>5 DEF Replied
  <2>4. phase' \in [Queries -> Phases]
    BY <1>0, <2>3 DEF RestTyped
  <2>6. fids' \in [Queries -> SUBSET FinalizeIds]
    <3> HIDE DEF FinalizeIds
    <3>1. fids \in [Queries -> SUBSET FinalizeIds]
      BY <1>0 DEF RestTyped
    <3> QED  BY <3>1, <2>2, <2>3
  <2>5. UNCHANGED <<http, kind, next, joined, known, log, lastId, stream, out, inits, late>>
    BY <1>5 DEF Replied
  <2> HIDE DEF FinalizeIds, CallsTyped
  <2> QED  BY <1>0, <2>1, <2>4, <2>5, <2>6 DEF RestTyped
<1>6. ASSUME NEW c \in Callers(q), CallFails(q, c) PROVE RestTyped' /\ CallsTyped'
  <2>1. CallsTyped'
    BY <1>6, IdleTurns, TurnedType DEF CallFails
  <2> QED  BY <1>0, <1>6, <2>1 DEF CallFails, RestTyped
<1>7. CASE GiveUp(q)
  BY <1>0, <1>7 DEF GiveUp, RestTyped
<1>8. ASSUME NEW f \in FinalizeIds, OpenStream(q, f) PROVE RestTyped' /\ CallsTyped'
  <2>1. stream' \in [Queries -> [FinalizeIds -> Streams]]
    <3> DEFINE s == [stream[q][f] EXCEPT !.at = "open"]
    <3>1. stream[q][f] \in Streams
      BY <1>0 DEF RestTyped
    <3>2. s \in Streams
      BY <3>1 DEF Streams
    <3>3. stream' = [stream EXCEPT ![q][f] = s]
      <4> HIDE DEF FinalizeIds
      <4> QED  BY <1>8 DEF OpenStream
    <3> HIDE DEF s, FinalizeIds
    <3> QED  BY <1>0, <3>2, <3>3 DEF RestTyped
  <2> QED  BY <1>0, <1>8, <2>1 DEF OpenStream, RestTyped
<1>9. CASE Done(q)
  BY <1>0, <1>9 DEF Done, RestTyped
<1> QED  BY <1>1, <1>2, <1>3, <1>4, <1>5, <1>6, <1>7, <1>8, <1>9 DEF Engine

\* What Tick keeps of a stream.
LEMMA TickTypes ==
    ASSUME TypeOK, NEW q \in Queries, NEW f \in FinalizeIds, Tick(q, f)
    PROVE  /\ \E s \in Streams : /\ s.state # Uninit
                                 /\ stream' = [stream EXCEPT ![q][f] = s]
           /\ stream' \in [Queries -> [FinalizeIds -> Streams]]
           /\ out' \in [Queries -> Seq(Nat)]
           /\ inits' \in [Queries -> [FinalizeIds -> Nat]]
<1> DEFINE first == Resume(stream[q][f].state) = Uninit
           state == IF first THEN InitialFinalizeState ELSE Resume(stream[q][f].state)
           rows == StateLogScan(q, "buf", state.afterId)
<1>1. /\ stream \in [Queries -> [FinalizeIds -> Streams]]
      /\ inits \in [Queries -> [FinalizeIds -> Nat]]
      /\ out \in [Queries -> Seq(Nat)]
      /\ log \subseteq [id : Nat, query : Queries, ns : {"buf", "unsorted", "shard"}, batch : Nat]
  BY TypeParts DEF RestTyped
<1>2. stream[q][f] \in Streams
  <2> HIDE DEF FinalizeIds
  <2> QED  BY <1>1
<1>3. state \in FinalizeStates
  BY <1>2 DEF Resume, Streams, InitialFinalizeState, FinalizeStates
<1>4. \A r \in rows : r.id \in Nat /\ r.batch \in Nat
  BY <1>1 DEF StateLogScan
<1>5. f \in Nat
  BY BufferingAssumption
<1>6. \/ \E b \in Nat, s \in FinalizeStates :
            /\ out' = [out EXCEPT ![q] = Append(@, b)]
            /\ stream' = [stream EXCEPT ![q][f] = [@ EXCEPT !.state = s]]
      \/ /\ out' = out
         /\ stream' = [stream EXCEPT ![q][f] = [at |-> "end", state |-> state]]
  <2>1. [state EXCEPT !.emitted = TRUE] \in FinalizeStates
    BY <1>3 DEF FinalizeStates
  <2>2. \A r \in rows : [state EXCEPT !.afterId = r.id] \in FinalizeStates
    BY <1>3, <1>4 DEF FinalizeStates
  <2> HIDE DEF first, state, rows, FinalizeIds
  <2>3. \/ /\ out' = out
           /\ stream' = [stream EXCEPT ![q][f] = [at |-> "end", state |-> state]]
        \/ /\ out' = [out EXCEPT ![q] = Append(@, f)]
           /\ stream' = [stream EXCEPT ![q][f] =
                            [@ EXCEPT !.state = [state EXCEPT !.emitted = TRUE]]]
        \/ \E r \in rows :
              /\ out' = [out EXCEPT ![q] = Append(@, r.batch)]
              /\ stream' = [stream EXCEPT ![q][f] =
                               [@ EXCEPT !.state = [state EXCEPT !.afterId = r.id]]]
    BY Zenon DEF Tick, first, state, rows
  <2> QED  BY <2>1, <2>2, <2>3, <1>4, <1>5
<1>7. out' \in [Queries -> Seq(Nat)]
  <2> HIDE DEF first, state, rows, FinalizeIds
  <2>1. out' = out \/ \E b \in Nat : out' = [out EXCEPT ![q] = Append(@, b)]
    BY <1>6
  <2>2. \A b \in Nat : Append(out[q], b) \in Seq(Nat)
    BY <1>1
  <2> QED  BY <1>1, <2>1, <2>2
<1>8. \E s \in Streams : s.state # Uninit /\ stream' = [stream EXCEPT ![q][f] = s]
  <2>1. \A s \in FinalizeStates : LET e == [stream[q][f] EXCEPT !.state = s]
                                 IN  e \in Streams /\ e.state = s
    BY <1>2 DEF Streams
  <2>2. LET e == [at |-> "end", state |-> state] IN e \in Streams /\ e.state = state
    BY <1>3 DEF Streams
  <2> HIDE DEF first, state, rows, FinalizeIds
  <2> QED  BY <1>3, <1>6, <2>1, <2>2, UninitIsNoState
<1>10. stream' \in [Queries -> [FinalizeIds -> Streams]]
  <2> HIDE DEF FinalizeIds
  <2> QED  BY <1>1, <1>8
<1>9. inits' \in [Queries -> [FinalizeIds -> Nat]]
  <2>1. inits' = [inits EXCEPT ![q][f] = IF first THEN @ + 1 ELSE @]
    BY DEF Tick
  <2> HIDE DEF first, FinalizeIds
  <2>2. inits[q][f] \in Nat
    BY <1>1
  <2>3. (IF first THEN inits[q][f] + 1 ELSE inits[q][f]) \in Nat
    BY <2>2
  <2> QED  BY <1>1, <2>1, <2>3
<1> QED  BY <1>7, <1>8, <1>9, <1>10

LEMMA ScanFinite ==
    ASSUME RestTyped, NEW q, NEW ns, NEW after
    PROVE  /\ IsFiniteSet(StateLogScan(q, ns, after))
           /\ Cardinality(StateLogScan(q, ns, after)) \in Nat
<1>1. StateLogScan(q, ns, after) \subseteq log
  BY DEF StateLogScan
<1>2. IsFiniteSet(log)
  BY DEF RestTyped
<1>3. IsFiniteSet(StateLogScan(q, ns, after))
  BY <1>1, <1>2, FS_Subset
<1> QED  BY <1>3, FS_CardinalityType

LEMMA CombineTypes ==
    ASSUME TypeOK, NEW q \in Queries, NEW c \in Callers(q), Combine(q, c)
    PROVE  /\ out' \in [Queries -> Seq(Nat)]
           /\ \E at \in {"answer", "writing"}, todo \in SUBSET Nat :
                 /\ \A b \in todo : b \in call[q][c].todo \/ \E r \in log : r.query = q /\ b = r.batch
                 /\ Turned(q, c, [call[q][c] EXCEPT !.at = at, !.todo = todo])
<1>1. RestTyped
  BY TypeParts
<1>a. ASSUME Advance(q, c, "answer")
      PROVE  /\ call[q][c].todo \in SUBSET Nat
             /\ Turned(q, c, [call[q][c] EXCEPT !.at = "answer", !.todo = call[q][c].todo])
  <2>1. Turned(q, c, [call[q][c] EXCEPT !.at = "answer"])
    BY <1>a, AdvanceTurns
  <2>2. call[q][c] \in Calls
    BY DEF TypeOK
  <2>3. [call[q][c] EXCEPT !.at = "answer", !.todo = call[q][c].todo] = [call[q][c] EXCEPT !.at = "answer"]
    BY <2>2
  <2> QED  BY <2>1, <2>2, <2>3
<1>2. CASE kind[q] = "batch_index_buffer_input"
  <2> DEFINE run == {r.batch : r \in StateLogScan(q, "unsorted", -1)}
             at == IF run = {} THEN "answer" ELSE "writing"
             k == [call[q][c] EXCEPT !.at = at, !.todo = run]
  <2>1. run \subseteq Nat
    BY <1>1 DEF StateLogScan, RestTyped
  <2>2. call[q][c] \in Calls
    BY DEF TypeOK
  <2>3. k \in Calls
    BY <2>1, <2>2
  <2>4. call' = [call EXCEPT ![q][c] = k] /\ out' = out
    <3> HIDE DEF Calls, Callers
    <3> QED  BY <1>2 DEF Combine
  <2>5. Turned(q, c, k)
    <3> HIDE DEF Calls, k
    <3> QED  BY <2>3, <2>4 DEF Turned, TypeOK
  <2>6. \A b \in run : \E r \in log : r.query = q /\ b = r.batch
    BY DEF StateLogScan
  <2>7. out' \in [Queries -> Seq(Nat)]
    BY <2>4, <1>1 DEF RestTyped
  <2> HIDE DEF run
  <2> QED  BY <2>1, <2>5, <2>6, <2>7
<1>3. CASE kind[q] = "lines_writer"
  <2> DEFINE rows == StateLogScan(q, "shard", -1)
  <2>1. PICK s \in InLogOrder(rows) : out' = [out EXCEPT ![q] = [i \in DOMAIN s |-> s[i].batch]]
    BY <1>3 DEF Combine
  <2>2. Cardinality(rows) \in Nat
    BY <1>1, ScanFinite
  <2>3. s \in [1..Cardinality(rows) -> rows]
    BY DEF InLogOrder
  <2>4. \A r \in rows : r.batch \in Nat
    BY <1>1 DEF StateLogScan, RestTyped
  <2> HIDE DEF rows
  <2>5. [i \in DOMAIN s |-> s[i].batch] \in Seq(Nat)
    BY <2>2, <2>3, <2>4
  <2>6. out' \in [Queries -> Seq(Nat)]
    BY <2>1, <2>5, <1>1 DEF RestTyped
  <2>7. Advance(q, c, "answer")
    BY <1>3 DEF Combine
  <2> QED  BY <1>a, <2>6, <2>7
<1>4. CASE kind[q] \notin {"batch_index_buffer_input", "lines_writer"}
  <2>1. Advance(q, c, "answer") /\ out' = out
    BY <1>4 DEF Combine
  <2>2. out' \in [Queries -> Seq(Nat)]
    BY <1>1, <2>1 DEF RestTyped
  <2> QED  BY <1>a, <2>1, <2>2
<1> QED  BY <1>2, <1>3, <1>4

LEMMA SortedTypes ==
    ASSUME TypeOK, NEW q \in Queries, NEW c \in Callers(q), AppendSorted(q, c)
    PROVE  \E b \in call[q][c].todo :
              LET todo == call[q][c].todo \ {b}
                  at == IF todo = {} THEN "answer" ELSE "writing"
              IN  /\ b \in Nat /\ StateAppend(q, "buf", b)
                  /\ Turned(q, c, [call[q][c] EXCEPT !.at = at, !.todo = todo])
<1>1. PICK b \in call[q][c].todo :
          /\ StateAppend(q, "buf", b)
          /\ LET todo == call[q][c].todo \ {b}
             IN  call' = [call EXCEPT ![q][c] =
                             [@ EXCEPT !.at = IF todo = {} THEN "answer" ELSE "writing",
                                       !.todo = todo]]
  BY Zenon DEF AppendSorted
<1> DEFINE todo == call[q][c].todo \ {b}
           at == IF todo = {} THEN "answer" ELSE "writing"
           k == [call[q][c] EXCEPT !.at = at, !.todo = todo]
<1>2. call[q][c] \in Calls
  BY DEF TypeOK
<1>3. k \in Calls /\ b \in Nat
  BY <1>2
<1>4. call' = [call EXCEPT ![q][c] = k]
  <2> HIDE DEF Calls, Callers
  <2> QED  BY <1>1
<1>5. Turned(q, c, k)
  <2> HIDE DEF Calls, k
  <2> QED  BY <1>3, <1>4 DEF Turned, TypeOK
<1> QED  BY <1>1, <1>3, <1>5

LEMMA WorkerTypes ==
    ASSUME TypeOK, NEW q \in Queries, Worker(q)
    PROVE  TypeOK'
<1>0. RestTyped
  BY TypeParts
<1> DEFINE CallsTyped == /\ DOMAIN call = Queries
                         /\ \A p \in Queries : call[p] \in [Callers(p) -> Calls]
<1>c. CallsTyped
  BY TypeParts
<1> SUFFICES RestTyped' /\ CallsTyped'
  BY DEF TypeOK, RestTyped, Streams
<1>k. ASSUME NEW c \in Callers(q), NEW k, Turned(q, c, k) PROVE CallsTyped'
  BY <1>k, TurnedType
<1>1. ASSUME NEW c \in Callers(q), GlobalInit(q, c) PROVE RestTyped' /\ CallsTyped'
  <2>1. CallsTyped'
    BY <1>1, <1>k, AdvanceTurns DEF GlobalInit
  <2> HIDE DEF CallsTyped
  <2> QED  BY <1>0, <1>1, <2>1 DEF GlobalInit, RestTyped
<1>2. ASSUME NEW c \in Callers(q), LoadParams(q, c) PROVE RestTyped' /\ CallsTyped'
  <2>1. CallsTyped'
    BY <1>2, <1>k, AdvanceTurns DEF LoadParams
  <2> HIDE DEF CallsTyped
  <2> QED  BY <1>0, <1>2, <2>1 DEF LoadParams, RestTyped
<1>3. ASSUME NEW c \in Callers(q), Process(q, c) PROVE RestTyped' /\ CallsTyped'
  <2>1. CallsTyped'
    BY <1>3, <1>k, AdvanceTurns DEF Process
  <2>2. call[q][c].batch \in Nat
    BY <1>c
  <2> HIDE DEF CallsTyped, Callers, Calls
  <2>3. InputNs(kind[q]) \in {"buf", "unsorted", "shard"}
    BY DEF InputNs
  <2>4. UNCHANGED <<log, lastId>> \/ StateAppend(q, InputNs(kind[q]), call[q][c].batch)
    BY <1>3 DEF Process
  <2>5. /\ log' \subseteq [id : Nat, query : Queries, ns : {"buf", "unsorted", "shard"}, batch : Nat]
        /\ IsFiniteSet(log') /\ lastId' \in Nat
    BY <1>0, <2>2, <2>3, <2>4, AppendType DEF RestTyped
  <2>6. UNCHANGED <<http, kind, phase, next, joined, known, fids, stream, out, inits, late>>
    BY <1>3 DEF Process
  <2> QED  BY <1>0, <2>1, <2>5, <2>6 DEF RestTyped
<1>4. ASSUME NEW c \in Callers(q), Combine(q, c) PROVE RestTyped' /\ CallsTyped'
  <2>1. CallsTyped' /\ out' \in [Queries -> Seq(Nat)]
    BY <1>4, <1>k, CombineTypes
  <2>2. UNCHANGED <<http, kind, phase, next, joined, known, log, lastId, fids, stream, inits, late>>
    BY <1>4 DEF Combine
  <2> HIDE DEF CallsTyped
  <2> QED  BY <1>0, <2>1, <2>2 DEF RestTyped
<1>5. ASSUME NEW c \in Callers(q), AppendSorted(q, c) PROVE RestTyped' /\ CallsTyped'
  <2>1. CallsTyped' /\ \E b \in Nat : StateAppend(q, "buf", b)
    BY <1>5, <1>k, SortedTypes
  <2>2. UNCHANGED <<http, kind, phase, next, joined, known, fids, stream, out, inits, late>>
    BY <1>5 DEF AppendSorted
  <2> HIDE DEF CallsTyped
  <2>3. /\ log' \subseteq [id : Nat, query : Queries, ns : {"buf", "unsorted", "shard"}, batch : Nat]
        /\ IsFiniteSet(log') /\ lastId' \in Nat
    BY <1>0, <2>1, AppendType
  <2> QED  BY <1>0, <2>1, <2>2, <2>3 DEF RestTyped
<1>6. ASSUME NEW f \in FinalizeIds, Tick(q, f) PROVE RestTyped' /\ CallsTyped'
  <2>1. UNCHANGED <<http, kind, phase, next, call, joined, known, log, lastId, fids, late>>
    BY <1>6 DEF Tick
  <2>2. CallsTyped'
    BY <1>c, <2>1
  <2> HIDE DEF CallsTyped
  <2> QED  BY <1>0, <1>6, <2>1, <2>2, TickTypes DEF RestTyped
<1>7. CASE ClearState(q)
  <2>1. CallsTyped'
    BY <1>7, <1>c DEF ClearState
  <2>2. OnTheWay(q) \subseteq Nat
    BY <1>c DEF OnTheWay
  <2> HIDE DEF CallsTyped
  <2> QED  BY <1>0, <1>7, <2>1, <2>2 DEF ClearState, RestTyped
<1>8. CASE ClearLog(q)
  <2>1. CallsTyped'
    BY <1>8, <1>c DEF ClearLog
  <2> HIDE DEF CallsTyped
  <2>2. log' \subseteq log
    BY <1>8 DEF ClearLog
  <2>3. IsFiniteSet(log')
    BY <1>0, <2>2, FS_Subset DEF RestTyped
  <2> QED  BY <1>0, <1>8, <2>1, <2>2, <2>3 DEF ClearLog, RestTyped
<1>9. CASE ClearFails(q)
  BY <1>0, <1>9, <1>c DEF ClearFails, RestTyped
<1> QED  BY <1>1, <1>2, <1>3, <1>4, <1>5, <1>6, <1>7, <1>8, <1>9 DEF Worker

LEMMA TypeStep == TypeOK /\ [Next]_vars => TypeOK'
<1> SUFFICES ASSUME TypeOK, [Next]_vars PROVE TypeOK'
  OBVIOUS
<1>1. ASSUME NEW q \in Queries, Engine(q) \/ Worker(q) PROVE TypeOK'
  BY <1>1, EngineTypes, WorkerTypes
<1>2. CASE UNCHANGED vars
  BY <1>2 DEF vars, TypeOK
<1> QED  BY <1>1, <1>2 DEF Next

\* Every variable keeps its type, whatever the number of queries, threads,
\* batches and finalize ids (table-buffering.ts, the storage and the streams).
THEOREM TypeCorrect == Spec => []TypeOK
BY TypeInit, TypeStep, PTL DEF Spec

-----------------------------------------------------------------------------
(* initialFinalizeState                                                    *)

\* initialFinalizeState has run exactly when the stream's marker is gone.
InitsStand ==
    \A q \in Queries, f \in FinalizeIds :
        inits[q][f] = IF stream[q][f].state = Uninit THEN 0 ELSE 1

LEMMA InitsStep ==
    ASSUME TypeOK, InitsStand, [Next]_vars
    PROVE  InitsStand'
<1>0. /\ stream \in [Queries -> [FinalizeIds -> Streams]]
      /\ inits \in [Queries -> [FinalizeIds -> Nat]]
  BY TypeParts DEF RestTyped
<1> HIDE DEF FinalizeIds
<1>1. ASSUME NEW q \in Queries, NEW f \in FinalizeIds, Tick(q, f) PROVE InitsStand'
  <2>1. PICK s \in Streams : s.state # Uninit /\ stream' = [stream EXCEPT ![q][f] = s]
    BY <1>1, TickTypes
  <2>2. inits' = [inits EXCEPT ![q][f] = IF stream[q][f].state = Uninit THEN @ + 1 ELSE @]
    BY <1>1 DEF Tick, Resume
  <2>3. inits'[q][f] = 1
    BY <1>0, <2>2 DEF InitsStand
  <2>4. stream'[q][f] = s
    BY <1>0, <2>1
  <2>5. ASSUME NEW p \in Queries, NEW g \in FinalizeIds, <<p, g>> # <<q, f>>
        PROVE  inits'[p][g] = inits[p][g] /\ stream'[p][g] = stream[p][g]
    BY <1>0, <2>1, <2>2, <2>5
  <2> QED  BY <2>1, <2>3, <2>4, <2>5 DEF InitsStand
<1>2. ASSUME NEW q \in Queries, NEW f \in FinalizeIds, OpenStream(q, f) PROVE InitsStand'
  <2> DEFINE s == [stream[q][f] EXCEPT !.at = "open"]
  <2>1. stream' = [stream EXCEPT ![q][f] = s] /\ inits' = inits
    BY <1>2 DEF OpenStream
  <2>2. stream[q][f] \in Streams
    BY <1>0
  <2>3. s.state = stream[q][f].state
    BY <2>2 DEF Streams
  <2> HIDE DEF s
  <2>4. \A p \in Queries, g \in FinalizeIds : stream'[p][g].state = stream[p][g].state
    BY <1>0, <2>1, <2>3
  <2> QED  BY <2>1, <2>4 DEF InitsStand
<1>3. CASE UNCHANGED <<stream, inits>>
  BY <1>3 DEF InitsStand
<1>4. ASSUME NEW q \in Queries, Engine(q), ~ \E f \in FinalizeIds : OpenStream(q, f)
      PROVE  UNCHANGED <<stream, inits>>
  BY <1>4, Zenon DEF Engine, Start, SendCombine, GiveUp, Done, Join, SendBatch, Replied, CallFails
<1>5. ASSUME NEW q \in Queries, Worker(q), ~ \E f \in FinalizeIds : Tick(q, f)
      PROVE  UNCHANGED <<stream, inits>>
  BY <1>5, Zenon DEF Worker, GlobalInit, LoadParams, Process, Combine, AppendSorted,
                     ClearState, ClearLog, ClearFails
<1> QED  BY <1>1, <1>2, <1>3, <1>4, <1>5 DEF Next, vars

\* initialFinalizeState runs at most once per finalize stream, however many
\* ticks it takes and over both transports: the state that a tick leaves, in
\* memory or in the token, is never the marker __tbf_uninit.
THEOREM InitialStateCorrect == Spec => []InitialStateOnce
<1>1. Init => InitsStand
  BY DEF Init, InitsStand
<1>2. TypeOK /\ InitsStand /\ [Next]_vars => InitsStand'
  BY InitsStep
<1>3. InitsStand => InitialStateOnce
  <2> HIDE DEF FinalizeIds
  <2>1. ASSUME InitsStand, NEW q \in Queries, NEW f \in FinalizeIds PROVE inits[q][f] <= 1
    BY <2>1 DEF InitsStand
  <2> QED  BY <2>1 DEF InitialStateOnce
<1> QED  BY <1>1, <1>2, <1>3, TypeCorrect, PTL DEF Spec

-----------------------------------------------------------------------------
(* Calls, phases, rows and the destructor                                  *)

\* What the engine's phase says about the calls of a query and its metadata.
PhaseStands(q) ==
    /\ phase[q] = "new" => \A c \in Callers(q) : call[q][c] = Idle
    /\ phase[q] = "init" =>
          /\ \A t \in Threads[q] : call[q][t] = Idle
          /\ call[q][Main].op = "init"
          /\ call[q][Main].at = "answer" => known[q]
    /\ phase[q] \in {"sink", "combine", "drain"} => known[q]
    /\ phase[q] = "sink" => call[q][Main] = Idle
    /\ phase[q] = "combine" => call[q][Main].op = "combine"
    /\ phase[q] = "drain" => \A c \in Callers(q) : call[q][c] = Idle
    /\ \A c \in Callers(q) : call[q][c].at = "refused" => phase[q] \notin Live

\* What each kind of call may be doing; no two threads have the same batch.
CallsStand(q) ==
    \A c \in Callers(q) :
        /\ call[q][c].op = "none" => call[q][c] = Idle
        /\ call[q][c].at = "idle" => call[q][c] = Idle
        /\ call[q][c].op = "init" => call[q][c].at \in {"sent", "answer"}
        /\ call[q][c].at = "writing" => call[q][c].op = "combine"
        /\ call[q][c].op = "process" =>
              /\ c \in Threads[q] /\ call[q][c].batch < next[q]
              /\ \A d \in Callers(q) \ {c} :
                    call[q][d].op = "process" => call[q][d].batch # call[q][c].batch
        /\ call[q][c].op = "combine" =>
              /\ c = Main /\ \A t \in Threads[q] : call[q][t] = Idle
              /\ \A b \in call[q][c].todo : b < next[q]

\* A row was sunk by a call that is past its append.
RowsStand(q) ==
    \A r \in log : r.query = q =>
        /\ r.batch < next[q]
        /\ \A t \in Threads[q] :
              call[q][t].op = "process" /\ call[q][t].at \in {"sent", "loaded"}
                  => call[q][t].batch # r.batch

\* Once the destructor deleted the metadata nothing brings it back, and the
\* calls that were on their way can only be refused.
LateStands(q) ==
    late[q] # {} =>
        /\ phase[q] \in {"clearing", "gone"} /\ ~known[q]
        /\ \A c \in Callers(q) :
              /\ call[q][c].op # "combine"
              /\ call[q][c].op = "init" => call[q][c].at # "sent"
              /\ call[q][c].op = "process" /\ call[q][c].batch \in late[q]
                    => call[q][c].at \in {"sent", "refused"}
        /\ \A r \in log : r.query = q => r.batch \notin late[q]

Stands(q) == PhaseStands(q) /\ CallsStand(q) /\ RowsStand(q) /\ LateStands(q)

LEMMA IdleFields ==
    /\ Idle \in Calls /\ Idle.op = "none" /\ Idle.at = "idle"
    /\ Idle.batch = 0 /\ Idle.todo = {}
OBVIOUS

LEMMA TurnedCalls ==
    ASSUME TypeOK, NEW q \in Queries, NEW c \in Callers(q), NEW k, Turned(q, c, k)
    PROVE  /\ k \in Calls /\ call'[q][c] = k
           /\ \A d \in Callers(q) : d # c => call'[q][d] = call[q][d]
           /\ \A p \in Queries : p # q => call'[p] = call[p]
<1> HIDE DEF Callers, Calls
<1>1. call[q] \in [Callers(q) -> Calls]
  BY DEF TypeOK
<1> QED  BY <1>1 DEF Turned

\* A step of q is about q alone.
LEMMA Elsewhere ==
    ASSUME TypeOK, NEW q \in Queries, Engine(q) \/ Worker(q),
           NEW p \in Queries, p # q
    PROVE  /\ phase'[p] = phase[p] /\ next'[p] = next[p] /\ known'[p] = known[p]
           /\ late'[p] = late[p] /\ call'[p] = call[p]
           /\ \A r \in log' : r.query = p => r \in log
<1> HIDE DEF Callers, Calls, Idle, FinalizeIds, Live, Phases
<1> DEFINE Same == /\ phase'[p] = phase[p] /\ next'[p] = next[p] /\ known'[p] = known[p]
                   /\ late'[p] = late[p] /\ call'[p] = call[p]
                   /\ \A r \in log' : r.query = p => r \in log
<1>0. /\ phase \in [Queries -> Phases] /\ next \in [Queries -> Nat \ {0}]
      /\ known \in [Queries -> BOOLEAN] /\ late \in [Queries -> SUBSET Nat]
      /\ DOMAIN call = Queries
  BY DEF TypeOK
<1>a. \A ns, b : StateAppend(q, ns, b) => \A r \in log' : r.query = p => r \in log
  BY DEF StateAppend
<1>1. Start(q) => Same
  BY <1>0 DEF Start, Send
<1>2. ASSUME NEW t, Join(q, t) PROVE Same
  BY <1>0, <1>2 DEF Join, Send
<1>3. ASSUME NEW t, SendBatch(q, t) PROVE Same
  BY <1>0, <1>3 DEF SendBatch, Send
<1>4. SendCombine(q) => Same
  BY <1>0 DEF SendCombine, Send
<1>5. ASSUME NEW c, Replied(q, c) PROVE Same
  <2>1. phase' = phase \/ \E x : phase' = [phase EXCEPT ![q] = x]
    BY <1>5 DEF Replied
  <2>2. /\ call' = [call EXCEPT ![q][c] = Idle]
        /\ UNCHANGED <<next, known, late, log>>
    BY <1>5 DEF Replied
  <2> QED  BY <1>0, <2>1, <2>2
<1>6. ASSUME NEW c, CallFails(q, c) PROVE Same
  BY <1>0, <1>6 DEF CallFails
<1>7. GiveUp(q) \/ Done(q) \/ ClearFails(q) => Same
  BY <1>0 DEF GiveUp, Done, ClearFails
<1>8. ASSUME NEW f, OpenStream(q, f) \/ Tick(q, f) PROVE Same
  BY <1>8, Zenon DEF OpenStream, Tick
<1>9. ASSUME NEW c, GlobalInit(q, c) \/ LoadParams(q, c) PROVE Same
  BY <1>0, <1>9 DEF GlobalInit, LoadParams, Advance
<1>10. ASSUME NEW c, Process(q, c) PROVE Same
  <2>1. UNCHANGED log \/ \E ns, b : StateAppend(q, ns, b)
    BY <1>10 DEF Process
  <2>2. Advance(q, c, "answer") /\ UNCHANGED <<phase, next, known, late>>
    BY <1>10 DEF Process
  <2> QED  BY <1>0, <1>a, <2>1, <2>2 DEF Advance
<1>11. ASSUME NEW c, Combine(q, c) PROVE Same
  <2>1. \E k : call' = [call EXCEPT ![q][c] = k]
    BY <1>11, Zenon DEF Combine, Advance
  <2>2. UNCHANGED <<phase, next, known, late, log>>
    BY <1>11, Zenon DEF Combine
  <2> QED  BY <1>0, <2>1, <2>2
<1>12. ASSUME NEW c, AppendSorted(q, c) PROVE Same
  <2>1. \E k, ns, b : call' = [call EXCEPT ![q][c] = k] /\ StateAppend(q, ns, b)
    BY <1>12, Zenon DEF AppendSorted
  <2>2. UNCHANGED <<phase, next, known, late>>
    BY <1>12, Zenon DEF AppendSorted
  <2> QED  BY <1>0, <1>a, <2>1, <2>2
<1>13. ClearState(q) \/ ClearLog(q) => Same
  BY <1>0 DEF ClearState, ClearLog
<1> QED  BY <1>1, <1>2, <1>3, <1>4, <1>5, <1>6, <1>7, <1>8, <1>9, <1>10, <1>11, <1>12, <1>13
         DEF Engine, Worker

LEMMA EngineStands ==
    ASSUME TypeOK, NEW q \in Queries, Stands(q), Engine(q)
    PROVE  Stands(q)'
<1> HIDE DEF Callers, Calls, Idle, FinalizeIds, Phases
<1> USE DEF Stands, PhaseStands, CallsStand, RowsStand, LateStands
<1> USE IdleFields
<1>0. /\ phase \in [Queries -> Phases] /\ next \in [Queries -> Nat \ {0}]
      /\ known \in [Queries -> BOOLEAN] /\ late \in [Queries -> SUBSET Nat]
      /\ \A r \in log : r.batch \in Nat
      /\ \A c \in Callers(q) : call[q][c] \in Calls
  BY DEF TypeOK
<1>t. /\ Main \notin Threads[q] /\ Threads[q] # {}
      /\ \A c : c \in Callers(q) <=> c \in Threads[q] \/ c = Main
  BY BufferingAssumption DEF Callers
<1>k. \A c \in Callers(q) : call[q][c].batch \in Nat /\ call[q][c].todo \subseteq Nat
  BY <1>0 DEF Calls
<1>1. ASSUME Start(q) PROVE Stands(q)'
  <2> DEFINE k == [op |-> "init", at |-> "sent", batch |-> 0, todo |-> {}]
  <2>1. /\ call'[q][Main] = k
        /\ \A d \in Callers(q) : d # Main => call'[q][d] = call[q][d]
    BY <1>1, <1>t, SendTurns, TurnedCalls DEF Start
  <2>2. /\ phase[q] = "new" /\ phase'[q] = "init"
        /\ UNCHANGED <<next, known, log, late>>
    BY <1>0, <1>1 DEF Start
  <2> QED  BY <1>t, <2>1, <2>2
<1>2. ASSUME NEW t \in Threads[q], Join(q, t) PROVE Stands(q)'
  <2> DEFINE k == [op |-> "init", at |-> "sent", batch |-> 0, todo |-> {}]
  <2>1. /\ call'[q][t] = k
        /\ \A d \in Callers(q) : d # t => call'[q][d] = call[q][d]
    BY <1>2, <1>t, SendTurns, TurnedCalls DEF Join
  <2>2. /\ phase[q] = "sink" /\ call[q][t] = Idle
        /\ UNCHANGED <<phase, next, known, log, late>>
    BY <1>2 DEF Join
  <2> QED  BY <1>t, <2>1, <2>2
<1>3. ASSUME NEW t \in Threads[q], SendBatch(q, t) PROVE Stands(q)'
  <2> DEFINE k == [op |-> "process", at |-> "sent", batch |-> next[q], todo |-> {}]
  <2>0. next[q] \in Nat
    BY <1>0
  <2>1. /\ call'[q][t] = k
        /\ \A d \in Callers(q) : d # t => call'[q][d] = call[q][d]
    BY <1>3, <1>t, <2>0, SendTurns, TurnedCalls DEF SendBatch
  <2>2. /\ phase[q] = "sink" /\ call[q][t] = Idle /\ next'[q] = next[q] + 1
        /\ UNCHANGED <<phase, known, log, late>>
    BY <1>0, <1>3 DEF SendBatch
  <2>3. PhaseStands(q)' /\ LateStands(q)'
    BY <1>t, <2>1, <2>2
  <2>4. RowsStand(q)'
    BY <1>0, <1>k, <1>t, <2>0, <2>1, <2>2
  <2>5. CallsStand(q)'
    BY <1>k, <1>t, <2>0, <2>1, <2>2
  <2> QED  BY <2>3, <2>4, <2>5
<1>4. ASSUME SendCombine(q) PROVE Stands(q)'
  <2> DEFINE k == [op |-> "combine", at |-> "sent", batch |-> 0, todo |-> {}]
  <2>1. /\ call'[q][Main] = k
        /\ \A d \in Callers(q) : d # Main => call'[q][d] = call[q][d]
    BY <1>4, <1>t, SendTurns, TurnedCalls DEF SendCombine
  <2>2. /\ phase[q] = "sink" /\ phase'[q] = "combine" /\ \A c \in Callers(q) : call[q][c] = Idle
        /\ UNCHANGED <<next, known, log, late>>
    BY <1>0, <1>4 DEF SendCombine
  <2> QED  BY <1>t, <2>1, <2>2
<1>5. ASSUME NEW c \in Callers(q), Replied(q, c) PROVE Stands(q)'
  <2>1. /\ call'[q][c] = Idle
        /\ \A d \in Callers(q) : d # c => call'[q][d] = call[q][d]
    <3>1. call' = [call EXCEPT ![q][c] = Idle]
      BY <1>5 DEF Replied
    <3>2. Turned(q, c, Idle)
      BY <3>1, IdleTurns, Zenon
    <3> QED  BY <3>2, TurnedCalls
  <2>2. /\ call[q][c].at = "answer"
        /\ UNCHANGED <<next, known, log, late>>
    BY <1>5 DEF Replied
  <2>3. \/ phase'[q] = phase[q] /\ (phase[q] \in Live => call[q][c].op \notin {"init", "combine"})
        \/ phase[q] \in Live /\ call[q][c].op = "combine" /\ phase'[q] = "drain"
        \/ phase[q] \in Live /\ call[q][c].op = "init" /\ phase'[q] = "sink"
    BY <1>0, <1>5 DEF Replied
  <2>4. PhaseStands(q)'
    BY <1>t, <2>1, <2>2, <2>3
  <2>5. CallsStand(q)' /\ RowsStand(q)'
    BY <1>t, <2>1, <2>2
  <2>6. LateStands(q)'
    BY <1>t, <2>1, <2>2, <2>3
  <2> QED  BY <2>4, <2>5, <2>6
<1>6. ASSUME NEW c \in Callers(q), CallFails(q, c) PROVE Stands(q)'
  <2>1. /\ call'[q][c] = Idle
        /\ \A d \in Callers(q) : d # c => call'[q][d] = call[q][d]
    <3>1. call' = [call EXCEPT ![q][c] = Idle]
      BY <1>6 DEF CallFails
    <3>2. Turned(q, c, Idle)
      BY <3>1, IdleTurns, Zenon
    <3> QED  BY <3>2, TurnedCalls
  <2>2. /\ call[q][c] # Idle /\ UNCHANGED <<next, known, log, late>>
        /\ phase'[q] = IF phase[q] \in Live THEN "failed" ELSE phase[q]
    BY <1>0, <1>6 DEF CallFails
  <2>4. PhaseStands(q)'
    BY <1>t, <2>1, <2>2
  <2>5. CallsStand(q)' /\ RowsStand(q)'
    BY <1>t, <2>1, <2>2
  <2>6. LateStands(q)'
    BY <1>t, <2>1, <2>2
  <2> QED  BY <2>4, <2>5, <2>6
<1>7. ASSUME GiveUp(q) \/ Done(q) PROVE Stands(q)'
  <2>1. /\ phase[q] \in Live /\ phase'[q] \in {"failed", "done"}
        /\ UNCHANGED <<next, call, known, log, late>>
    BY <1>0, <1>7 DEF GiveUp, Done
  <2> QED  BY <2>1
<1>8. ASSUME NEW f \in FinalizeIds, OpenStream(q, f) PROVE Stands(q)'
  BY <1>8 DEF OpenStream
<1> QED  BY <1>1, <1>2, <1>3, <1>4, <1>5, <1>6, <1>7, <1>8 DEF Engine

LEMMA WorkerStands ==
    ASSUME TypeOK, NEW q \in Queries, Stands(q), Worker(q)
    PROVE  Stands(q)'
<1> HIDE DEF Callers, Calls, Idle, FinalizeIds, Phases
<1> USE DEF Stands, PhaseStands, CallsStand, RowsStand, LateStands
<1> USE IdleFields
<1>0. /\ phase \in [Queries -> Phases] /\ next \in [Queries -> Nat \ {0}]
      /\ known \in [Queries -> BOOLEAN] /\ late \in [Queries -> SUBSET Nat]
      /\ \A r \in log : r.batch \in Nat
      /\ \A c \in Callers(q) : call[q][c] \in Calls
  BY DEF TypeOK
<1>t. /\ Main \notin Threads[q] /\ Threads[q] # {}
      /\ \A c : c \in Callers(q) <=> c \in Threads[q] \/ c = Main
  BY BufferingAssumption DEF Callers
<1>k. \A c \in Callers(q) : call[q][c].batch \in Nat /\ call[q][c].todo \subseteq Nat
  BY <1>0 DEF Calls
<1>a. ASSUME NEW c \in Callers(q), NEW at \in {"loaded", "writing", "answer", "refused"},
             Advance(q, c, at)
      PROVE  /\ call'[q][c].op = call[q][c].op /\ call'[q][c].at = at
             /\ call'[q][c].batch = call[q][c].batch /\ call'[q][c].todo = call[q][c].todo
             /\ \A d \in Callers(q) : d # c => call'[q][d] = call[q][d]
  <2>1. /\ call'[q][c] = [call[q][c] EXCEPT !.at = at]
        /\ \A d \in Callers(q) : d # c => call'[q][d] = call[q][d]
    <3>1. Turned(q, c, [call[q][c] EXCEPT !.at = at])
      BY <1>a, AdvanceTurns, Zenon
    <3> QED  BY <3>1, TurnedCalls
  <2> QED  BY <1>0, <2>1 DEF Calls
<1>1. ASSUME NEW c \in Callers(q), GlobalInit(q, c) PROVE Stands(q)'
  <2>1. /\ call[q][c].op = "init" /\ call[q][c].at = "sent"
        /\ known'[q] = TRUE /\ Advance(q, c, "answer")
        /\ UNCHANGED <<phase, next, log, late>>
    BY <1>0, <1>1 DEF GlobalInit
  <2>2. PhaseStands(q)'
    BY <1>t, <1>a, <2>1
  <2>3. CallsStand(q)' /\ RowsStand(q)'
    BY <1>t, <1>a, <2>1
  <2>4. LateStands(q)'
    BY <1>t, <1>a, <2>1
  <2> QED  BY <2>2, <2>3, <2>4
<1>2. ASSUME NEW c \in Callers(q), LoadParams(q, c) PROVE Stands(q)'
  <2> DEFINE at == IF known[q] THEN "loaded" ELSE "refused"
  <2>1. /\ call[q][c].op \in {"process", "combine"} /\ call[q][c].at = "sent"
        /\ Advance(q, c, at) /\ at \in {"loaded", "refused"}
        /\ UNCHANGED <<phase, next, known, log, late>>
    BY <1>2 DEF LoadParams
  <2>2. PhaseStands(q)'
    BY <1>t, <1>a, <2>1
  <2>3. CallsStand(q)' /\ RowsStand(q)'
    BY <1>t, <1>a, <2>1
  <2>4. LateStands(q)'
    BY <1>t, <1>a, <2>1
  <2> QED  BY <2>2, <2>3, <2>4
<1>3. ASSUME NEW c \in Callers(q), Process(q, c) PROVE Stands(q)'
  <2>1. /\ call[q][c].op = "process" /\ call[q][c].at = "loaded"
        /\ Advance(q, c, "answer") /\ UNCHANGED <<phase, next, known, late>>
    BY <1>3 DEF Process
  <2>2. \A r \in log' : r \in log \/ r.batch = call[q][c].batch
    BY <1>3 DEF Process, StateAppend
  <2>3. PhaseStands(q)'
    BY <1>t, <1>a, <2>1
  <2>4. CallsStand(q)'
    BY <1>t, <1>a, <2>1
  <2>5. RowsStand(q)'
    BY <1>t, <1>a, <2>1, <2>2
  <2>6. LateStands(q)'
    BY <1>t, <1>a, <2>1, <2>2
  <2> QED  BY <2>3, <2>4, <2>5, <2>6
<1>4. ASSUME NEW c \in Callers(q), Combine(q, c) PROVE Stands(q)'
  <2>1. /\ call[q][c].op = "combine" /\ call[q][c].at = "loaded"
        /\ UNCHANGED <<phase, next, known, log, late>>
    BY <1>4 DEF Combine
  <2>2. PICK at \in {"answer", "writing"}, todo \in SUBSET Nat :
           /\ \A b \in todo : b \in call[q][c].todo \/ \E r \in log : r.query = q /\ b = r.batch
           /\ Turned(q, c, [call[q][c] EXCEPT !.at = at, !.todo = todo])
    BY <1>4, CombineTypes
  <2>3. \A b \in todo : b < next[q]
    BY <2>1, <2>2
  <2>4. /\ call'[q][c] = [call[q][c] EXCEPT !.at = at, !.todo = todo]
        /\ \A d \in Callers(q) : d # c => call'[q][d] = call[q][d]
    BY <2>2, TurnedCalls
  <2>5. /\ call'[q][c].op = "combine" /\ call'[q][c].at = at /\ call'[q][c].todo = todo
    BY <1>0, <2>1, <2>4 DEF Calls
  <2> HIDE DEF Turned
  <2>6. PhaseStands(q)'
    BY <1>t, <2>1, <2>4, <2>5
  <2>7. CallsStand(q)'
    <3>1. c = Main /\ \A t \in Threads[q] : call'[q][t] = Idle
      BY <1>t, <2>1, <2>4
    <3> QED  BY <1>t, <2>1, <2>3, <2>5, <3>1
  <2>8. RowsStand(q)' /\ LateStands(q)'
    BY <1>t, <2>1, <2>4, <2>5
  <2> QED  BY <2>6, <2>7, <2>8
<1>5. ASSUME NEW c \in Callers(q), AppendSorted(q, c) PROVE Stands(q)'
  <2>1. /\ call[q][c].op = "combine" /\ call[q][c].at = "writing"
        /\ UNCHANGED <<phase, next, known, late>>
    BY <1>5 DEF AppendSorted
  <2>2. PICK b \in call[q][c].todo :
           LET todo == call[q][c].todo \ {b}
               at == IF todo = {} THEN "answer" ELSE "writing"
           IN  /\ b \in Nat /\ StateAppend(q, "buf", b)
               /\ Turned(q, c, [call[q][c] EXCEPT !.at = at, !.todo = todo])
    BY <1>5, SortedTypes
  <2> DEFINE todo == call[q][c].todo \ {b}
             at == IF todo = {} THEN "answer" ELSE "writing"
  <2>4. /\ call'[q][c] = [call[q][c] EXCEPT !.at = at, !.todo = todo]
        /\ \A d \in Callers(q) : d # c => call'[q][d] = call[q][d]
    BY <2>2, TurnedCalls
  <2>5. /\ call'[q][c].op = "combine" /\ call'[q][c].at \in {"answer", "writing"}
        /\ call'[q][c].todo \subseteq call[q][c].todo
    BY <1>0, <2>1, <2>4 DEF Calls
  <2>6. b < next[q] /\ \A r \in log' : r \in log \/ r.batch = b
    BY <2>1, <2>2 DEF StateAppend
  <2>7. PhaseStands(q)'
    BY <1>t, <2>1, <2>4, <2>5
  <2>8. CallsStand(q)'
    <3>1. c = Main /\ \A t \in Threads[q] : call'[q][t] = Idle
      BY <1>t, <2>1, <2>4
    <3>2. \A o \in call'[q][c].todo : o < next[q]
      BY <2>1, <2>5
    <3> HIDE DEF todo, at
    <3> QED  BY <1>t, <2>1, <2>5, <3>1, <3>2
  <2>9. RowsStand(q)' /\ LateStands(q)'
    BY <1>t, <2>1, <2>4, <2>5, <2>6
  <2> QED  BY <2>7, <2>8, <2>9
<1>6. ASSUME NEW f \in FinalizeIds, Tick(q, f) PROVE Stands(q)'
  <2>1. UNCHANGED <<phase, next, call, known, log, late>>
    BY <1>6, Zenon DEF Tick
  <2> QED  BY <2>1
<1>7. ASSUME ClearState(q) PROVE Stands(q)'
  <2>1. /\ phase[q] \in {"done", "failed"} /\ phase'[q] = "clearing"
        /\ known'[q] = FALSE /\ late'[q] = OnTheWay(q)
        /\ UNCHANGED <<next, call, log>>
    BY <1>0, <1>7 DEF ClearState
  <2>2. PhaseStands(q)' /\ CallsStand(q)' /\ RowsStand(q)'
    BY <1>t, <2>1
  <2>3. ASSUME NEW b \in OnTheWay(q)
        PROVE  \E t \in Threads[q] :
                  call[q][t].op = "process" /\ call[q][t].at = "sent" /\ call[q][t].batch = b
    <3>1. PICK t \in Threads[q] : call[q][t].at = "sent" /\ call[q][t].batch = b
      BY <2>3 DEF OnTheWay
    <3>2. call[q][t].op # "init"
      BY <1>t, <2>3, <3>1 DEF OnTheWay
    <3>3. call[q][t].op \in {"none", "init", "process", "combine"}
      BY <1>0, <1>t DEF Calls
    <3>4. call[q][t].op = "process"
      BY <1>t, <3>1, <3>2, <3>3
    <3> QED  BY <3>1, <3>4
  <2>4. OnTheWay(q) # {} => \A c \in Callers(q) : call[q][c].op = "init" => call[q][c].at # "sent"
    BY DEF OnTheWay
  <2> HIDE DEF OnTheWay
  <2>5. LateStands(q)'
    BY <1>t, <2>1, <2>3, <2>4
  <2> QED  BY <2>2, <2>5
<1>8. ASSUME ClearLog(q) \/ ClearFails(q) PROVE Stands(q)'
  <2>1. /\ phase[q] \in {"done", "failed", "clearing"} /\ phase'[q] = "gone"
        /\ log' \subseteq log /\ UNCHANGED <<next, call, known, late>>
    BY <1>0, <1>8 DEF ClearLog, ClearFails
  <2> QED  BY <1>t, <2>1
<1> QED  BY <1>1, <1>2, <1>3, <1>4, <1>5, <1>6, <1>7, <1>8 DEF Worker

LEMMA StandsStep ==
    TypeOK /\ (\A q \in Queries : Stands(q)) /\ [Next]_vars => (\A q \in Queries : Stands(q))'
<1> SUFFICES ASSUME TypeOK, \A q \in Queries : Stands(q), [Next]_vars,
                    NEW p \in Queries
             PROVE  Stands(p)'
  OBVIOUS
<1>1. ASSUME NEW q \in Queries, Engine(q) \/ Worker(q), p # q PROVE Stands(p)'
  <2> HIDE DEF Callers, Calls, Idle, FinalizeIds, Live, Phases
  <2>1. /\ phase'[p] = phase[p] /\ next'[p] = next[p] /\ known'[p] = known[p]
        /\ late'[p] = late[p] /\ call'[p] = call[p]
        /\ \A r \in log' : r.query = p => r \in log
    BY <1>1, Elsewhere
  <2> QED  BY <2>1 DEF Stands, PhaseStands, CallsStand, RowsStand, LateStands
<1>2. ASSUME Engine(p) \/ Worker(p) PROVE Stands(p)'
  BY <1>2, EngineStands, WorkerStands
<1>3. CASE UNCHANGED vars
  BY <1>3 DEF vars, Stands, PhaseStands, CallsStand, RowsStand, LateStands
<1> QED  BY <1>1, <1>2, <1>3 DEF Next

LEMMA StandsInvariant == Spec => [](\A q \in Queries : Stands(q))
<1>1. Init => \A q \in Queries : Stands(q)
  <2> HIDE DEF Callers, Idle
  <2> USE IdleFields
  <2> SUFFICES ASSUME Init, NEW q \in Queries PROVE Stands(q)
    OBVIOUS
  <2>1. /\ phase[q] = "new" /\ log = {} /\ late[q] = {}
        /\ \A c \in Callers(q) : call[q][c] = Idle
    BY DEF Init
  <2>2. PhaseStands(q) /\ CallsStand(q)
    BY <2>1 DEF PhaseStands, CallsStand
  <2>3. RowsStand(q) /\ LateStands(q)
    BY <2>1 DEF RowsStand, LateStands
  <2> QED  BY <2>2, <2>3 DEF Stands
<1> QED  BY <1>1, StandsStep, TypeCorrect, PTL DEF Spec

\* A worker answers "unknown execution_id" to a query only when the engine is
\* through with it: no process serves a call before the metadata is there, and
\* no destructor of another query takes it away (loadParams, init, destructor).
THEOREM RefusalCorrect == Spec => []OnlyDeadRefused
<1>1. (\A q \in Queries : Stands(q)) => OnlyDeadRefused
  BY DEF Stands, PhaseStands, OnlyDeadRefused
<1> QED  BY <1>1, StandsInvariant, PTL

\* What was on its way to a worker when the destructor deleted the metadata
\* never leaves a row in the storage (loadParams, process, destructor).
THEOREM DestructionCorrect == Spec => []DeadStaysEmpty
<1>1. (\A q \in Queries : Stands(q)) => DeadStaysEmpty
  BY DEF Stands, LateStands, DeadStaysEmpty
<1> QED  BY <1>1, StandsInvariant, PTL

-----------------------------------------------------------------------------
(* The output                                                              *)

Ordered == {"ordered_buffer_input", "batch_index_buffer_input"}
Buffering == Ordered \cup {"buffer_input"}
Early == {"new", "init", "sink", "combine"}

Rows(q, ns) == {r \in log : r.query = q /\ r.ns = ns}
Given(q, b) == \E i \in 1..Len(out[q]) : out[q][i] = b
All(q) == IF kind[q] = "ordered_source" THEN 1..Sources ELSE Batches(q)

\* Ids tell the rows of all queries apart.
LogStands ==
    /\ \A r \in log : 1 <= r.id /\ r.id <= lastId
    /\ \A r, s \in log : r.id = s.id => r = s

\* The calls carry batches of the input, a single thread those of
\* ordered_buffer_input, and only a sorting combine() has batches to append.
BatchesStand(q) ==
    /\ next[q] <= Inputs[q] + 1
    /\ phase[q] \in {"combine", "drain", "done"} => next[q] > Inputs[q]
    /\ phase[q] = "done" => \A c \in Callers(q) : call[q][c] = Idle
    /\ \A c \in Callers(q) :
          /\ call[q][c].op = "process" =>
                /\ 1 <= call[q][c].batch
                /\ kind[q] = "ordered_buffer_input" => call[q][c].batch + 1 = next[q]
          /\ call[q][c].at # "writing" => call[q][c].todo = {}
          /\ call[q][c].at = "writing" => kind[q] = "batch_index_buffer_input"

\* Where rows are: each batch is in a namespace once, in the order of the
\* batches where the function promises one.
LogExact(q) ==
    /\ \A r \in log : r.query = q =>
          /\ 1 <= r.batch /\ r.batch <= Inputs[q]
          /\ kind[q] # "ordered_source"
          /\ r.ns # InputNs(kind[q]) => kind[q] = "batch_index_buffer_input" /\ r.ns = "buf"
    /\ \A r, s \in log : r.query = q /\ s.query = q /\ r.ns = s.ns /\ r.batch = s.batch => r = s
    /\ kind[q] \in Ordered =>
          \A r, s \in Rows(q, "buf") : r.id < s.id => r.batch < s.batch

Unsorted(q) ==
    \/ phase[q] \in {"new", "init", "sink"}
    \/ call[q][Main].op = "combine" /\ call[q][Main].at \in {"sent", "loaded"}

\* The sorted run grows behind what it has.
RunStands(q) ==
    kind[q] = "batch_index_buffer_input" =>
        /\ Unsorted(q) => Rows(q, "buf") = {}
        /\ \A r \in Rows(q, "buf"), b \in call[q][Main].todo : r.batch < b
        /\ \A b \in call[q][Main].todo : 1 <= b /\ b <= Inputs[q]

\* combine() has what it takes from the log.
Combined(q, ats) ==
    \/ phase[q] = "combine" /\ call[q][Main].at \in ats
    \/ phase[q] = "drain"

\* Until a query fails, nothing of what was sunk is missing.
Sunk(q) ==
    kind[q] # "ordered_source" /\ phase[q] \in {"new", "init", "sink", "combine", "drain"} =>
        \A b \in 1..Inputs[q] : b < next[q] =>
            \/ \E t \in Threads[q] : /\ call[q][t].op = "process" /\ call[q][t].at \in {"sent", "loaded"}
                                     /\ call[q][t].batch = b
            \/ \E r \in Rows(q, InputNs(kind[q])) : r.batch = b

Sorted(q) ==
    kind[q] = "batch_index_buffer_input" /\ Combined(q, {"writing", "answer"}) =>
        \A b \in Batches(q) : \/ b \in call[q][Main].todo
                               \/ \E r \in Rows(q, "buf") : r.batch = b

Written(q) ==
    kind[q] = "lines_writer" /\ Combined(q, {"answer"}) =>
        \A b \in Batches(q) : Given(q, b)

NothingMissing(q) == Sunk(q) /\ Sorted(q) /\ Written(q)

\* The streams are those of the finalize ids, once the engine has these.
StreamsStand(q) ==
    /\ phase[q] \in Early => /\ fids[q] = {}
                             /\ kind[q] # "lines_writer" => out[q] = <<>>
    /\ phase[q] = "drain" => fids[q] = FinalizeStateIds(kind[q])
    /\ \A f \in FinalizeIds :
          /\ stream[q][f].at # "new" => f \in fids[q]
          /\ stream[q][f].at = "new" => stream[q][f].state = Uninit

Cursor(q) == IF stream[q][0].state = Uninit THEN -1 ELSE stream[q][0].state.afterId
Emitted(q, f) == stream[q][f].state # Uninit /\ stream[q][f].state.emitted

\* A drain has given out what its cursor, or its streams, are past.
DrainStands(q) ==
    phase[q] = "drain" =>
        /\ kind[q] \in Buffering =>
              /\ \A r \in Rows(q, "buf") : r.id <= Cursor(q) <=> Given(q, r.batch)
              /\ stream[q][0].at = "end" => \A r \in Rows(q, "buf") : r.id <= Cursor(q)
        /\ kind[q] = "ordered_source" => \A f \in 1..Sources :
              /\ Emitted(q, f) <=> Given(q, f)
              /\ stream[q][f].at = "end" => Emitted(q, f)
              /\ stream[q][f].at # "new" => \A e \in 1..Sources : e < f => stream[q][e].at = "end"

OutStands(q) ==
    /\ NoneTwice(out[q])
    /\ \A i \in 1..Len(out[q]) : out[q][i] \in All(q)
    /\ kind[q] \in Ordered \cup {"ordered_source"} => IsInterval(out[q])
    /\ phase[q] = "done" => \A b \in All(q) : Given(q, b)

Exact(q) ==
    /\ BatchesStand(q) /\ LogExact(q) /\ RunStands(q) /\ NothingMissing(q)
    /\ StreamsStand(q) /\ DrainStands(q) /\ OutStands(q)


LEMMA Typed ==
    ASSUME TypeOK, NEW q \in Queries
    PROVE  /\ phase \in [Queries -> Phases] /\ next \in [Queries -> Nat \ {0}]
           /\ kind \in [Queries -> Functions] /\ known \in [Queries -> BOOLEAN]
           /\ out \in [Queries -> Seq(Nat)] /\ fids \in [Queries -> SUBSET FinalizeIds]
           /\ stream \in [Queries -> [FinalizeIds -> Streams]]
           /\ Inputs[q] \in Nat /\ next[q] \in Nat /\ 1 <= next[q] /\ lastId \in Nat
           /\ \A r \in log : /\ r.id \in Nat /\ r.batch \in Nat
                             /\ r.ns \in {"buf", "unsorted", "shard"}
           /\ \A c \in Callers(q) :
                 /\ call[q][c] \in Calls
                 /\ call[q][c].op \in {"none", "init", "process", "combine"}
                 /\ call[q][c].at \in {"idle", "sent", "loaded", "writing", "answer", "refused"}
                 /\ call[q][c].batch \in Nat /\ call[q][c].todo \subseteq Nat
<1>1. \A c \in Callers(q) : call[q][c] \in Calls
  BY DEF TypeOK
<1>2. \A c \in Callers(q) :
         /\ call[q][c].op \in {"none", "init", "process", "combine"}
         /\ call[q][c].at \in {"idle", "sent", "loaded", "writing", "answer", "refused"}
         /\ call[q][c].batch \in Nat /\ call[q][c].todo \subseteq Nat
  BY <1>1
<1>3. stream \in [Queries -> [FinalizeIds -> Streams]]
  BY DEF TypeOK, Streams
<1> HIDE DEF Callers, Calls, Idle, FinalizeIds, Phases
<1>4. Inputs[q] \in Nat
  BY BufferingAssumption
<1>5. next[q] \in Nat /\ 1 <= next[q]
  <2>1. next[q] \in Nat \ {0}
    BY DEF TypeOK
  <2> QED  BY <2>1
<1>6. \A r \in log : /\ r.id \in Nat /\ r.batch \in Nat
                     /\ r.ns \in {"buf", "unsorted", "shard"}
  BY DEF TypeOK
<1> QED  BY <1>1, <1>2, <1>3, <1>4, <1>5, <1>6 DEF TypeOK

LEMMA Threaded ==
    ASSUME NEW q \in Queries
    PROVE  /\ Main \notin Threads[q] /\ Threads[q] # {} /\ Main \in Callers(q)
           /\ \A c : c \in Callers(q) <=> c \in Threads[q] \/ c = Main
BY BufferingAssumption DEF Callers

\* A step of q leaves to the other queries all they have.
LEMMA AllElsewhere ==
    ASSUME TypeOK, NEW q \in Queries, Engine(q) \/ Worker(q),
           NEW p \in Queries, p # q
    PROVE  /\ kind' = kind /\ out'[p] = out[p] /\ fids'[p] = fids[p] /\ stream'[p] = stream[p]
           /\ \A r : r.query = p => (r \in log' <=> r \in log)
<1> HIDE DEF Callers, Calls, Idle, FinalizeIds, Live, Phases
<1> DEFINE Same == /\ kind' = kind /\ out'[p] = out[p] /\ fids'[p] = fids[p] /\ stream'[p] = stream[p]
                   /\ \A r : r.query = p => (r \in log' <=> r \in log)
<1>0. /\ out \in [Queries -> Seq(Nat)] /\ fids \in [Queries -> SUBSET FinalizeIds]
      /\ stream \in [Queries -> [FinalizeIds -> Streams]]
  BY Typed
<1>a. \A ns, b : StateAppend(q, ns, b) => \A r : r.query = p => (r \in log' <=> r \in log)
  BY DEF StateAppend
<1>1. \/ Start(q) \/ SendCombine(q) \/ GiveUp(q) \/ Done(q) \/ ClearState(q) \/ ClearFails(q)
      \/ \E c : Join(q, c) \/ SendBatch(q, c) \/ CallFails(q, c) \/ GlobalInit(q, c) \/ LoadParams(q, c)
      => Same
  BY Zenon DEF Start, SendCombine, GiveUp, Done, ClearState, ClearFails, Join, SendBatch,
               CallFails, GlobalInit, LoadParams
<1>2. ASSUME NEW c, Replied(q, c) PROVE Same
  <2>1. fids' = fids \/ \E x : fids' = [fids EXCEPT ![q] = x]
    BY <1>2 DEF Replied
  <2>2. UNCHANGED <<kind, out, stream, log>>
    BY <1>2 DEF Replied
  <2> QED  BY <1>0, <2>1, <2>2
<1>3. ASSUME NEW f, OpenStream(q, f) PROVE Same
  BY <1>0, <1>3 DEF OpenStream
<1>4. ASSUME NEW f \in FinalizeIds, Tick(q, f) PROVE Same
  <2>1. UNCHANGED <<kind, fids, log>>
    BY <1>4, Zenon DEF Tick
  <2>2. out' = out \/ \E x : out' = [out EXCEPT ![q] = x]
    BY <1>4, Zenon DEF Tick
  <2>3. \E s : stream' = [stream EXCEPT ![q][f] = s]
    BY <1>4, TickTypes
  <2> QED  BY <1>0, <2>1, <2>2, <2>3
<1>5. ASSUME NEW c, Process(q, c) PROVE Same
  <2>1. UNCHANGED log \/ \E ns, b : StateAppend(q, ns, b)
    BY <1>5 DEF Process
  <2>2. UNCHANGED <<kind, out, fids, stream>>
    BY <1>5 DEF Process
  <2> QED  BY <1>a, <2>1, <2>2
<1>6. ASSUME NEW c, Combine(q, c) PROVE Same
  <2>1. out' = out \/ \E x : out' = [out EXCEPT ![q] = x]
    BY <1>6, Zenon DEF Combine
  <2>2. UNCHANGED <<kind, fids, stream, log>>
    BY <1>6, Zenon DEF Combine
  <2> QED  BY <1>0, <2>1, <2>2
<1>7. ASSUME NEW c, AppendSorted(q, c) PROVE Same
  <2>1. \E ns, b : StateAppend(q, ns, b)
    BY <1>7, Zenon DEF AppendSorted
  <2>2. UNCHANGED <<kind, out, fids, stream>>
    BY <1>7, Zenon DEF AppendSorted
  <2> QED  BY <1>a, <2>1, <2>2
<1>8. ClearLog(q) => Same
  BY DEF ClearLog
<1> QED  BY <1>1, <1>2, <1>3, <1>4, <1>5, <1>6, <1>7, <1>8 DEF Engine, Worker

LEMMA ExactElsewhere ==
    ASSUME TypeOK, NEW q \in Queries, Engine(q) \/ Worker(q),
           NEW p \in Queries, p # q, Exact(p)
    PROVE  Exact(p)'
<1> HIDE DEF Callers, Calls, Idle, FinalizeIds, Live, Phases
<1>1. /\ phase'[p] = phase[p] /\ next'[p] = next[p] /\ call'[p] = call[p]
  BY Elsewhere
<1>2. /\ kind' = kind /\ out'[p] = out[p] /\ fids'[p] = fids[p] /\ stream'[p] = stream[p]
      /\ \A r : r.query = p => (r \in log' <=> r \in log)
  BY AllElsewhere
<1>3. \A ns : Rows(p, ns)' = Rows(p, ns)
  BY <1>2 DEF Rows
<1>4. /\ \A b : Given(p, b)' <=> Given(p, b)
      /\ All(p)' = All(p) /\ Cursor(p)' = Cursor(p)
      /\ \A f : Emitted(p, f)' <=> Emitted(p, f)
      /\ \A ats : Combined(p, ats)' <=> Combined(p, ats)
      /\ Unsorted(p)' <=> Unsorted(p)
  BY <1>1, <1>2 DEF Given, All, Cursor, Emitted, Combined, Unsorted
<1>5. BatchesStand(p)'
  BY <1>1, <1>2 DEF Exact, BatchesStand
<1>6. LogExact(p)'
  BY <1>1, <1>2, <1>3 DEF Exact, LogExact
<1>7. RunStands(p)'
  BY <1>1, <1>2, <1>3, <1>4 DEF Exact, RunStands
<1>8. NothingMissing(p)'
  BY <1>1, <1>2, <1>3, <1>4 DEF Exact, NothingMissing, Sunk, Sorted, Written
<1>9. StreamsStand(p)'
  BY <1>1, <1>2 DEF Exact, StreamsStand
<1>10. DrainStands(p)'
  BY <1>1, <1>2, <1>3, <1>4 DEF Exact, DrainStands
<1>11. OutStands(p)'
  BY <1>1, <1>2, <1>4 DEF Exact, OutStands
<1> QED  BY <1>5, <1>6, <1>7, <1>8, <1>9, <1>10, <1>11 DEF Exact

LEMMA LogStandsStep ==
    ASSUME TypeOK, LogStands, [Next]_vars
    PROVE  LogStands'
<1> HIDE DEF Callers, Calls, Idle, FinalizeIds, Live, Phases
<1>0. lastId \in Nat /\ \A r \in log : r.id \in Nat
  BY DEF TypeOK
<1>1. ASSUME NEW q, NEW ns, NEW b, StateAppend(q, ns, b) PROVE LogStands'
  BY <1>0, <1>1 DEF StateAppend, LogStands
<1>2. ASSUME log' \subseteq log, lastId' = lastId PROVE LogStands'
  BY <1>2 DEF LogStands
<1>3. ASSUME NEW q \in Queries, Engine(q) PROVE LogStands'
  <2>1. log' = log /\ lastId' = lastId
    BY <1>3, Zenon DEF Engine, Start, SendCombine, GiveUp, Done, Join, SendBatch, Replied,
                       CallFails, OpenStream
  <2> QED  BY <1>2, <2>1
<1>4. ASSUME NEW q \in Queries, Worker(q) PROVE LogStands'
  <2>1. \/ log' = log /\ lastId' = lastId
        \/ \E ns, b : StateAppend(q, ns, b)
        \/ ClearLog(q)
    BY <1>4, Zenon DEF Worker, GlobalInit, LoadParams, Process, Combine, AppendSorted, Tick,
                       ClearState, ClearFails
  <2>2. ClearLog(q) => log' \subseteq log /\ lastId' = lastId
    BY DEF ClearLog
  <2> QED  BY <1>1, <1>2, <2>1, <2>2
<1>5. CASE UNCHANGED vars
  BY <1>2, <1>5 DEF vars
<1> QED  BY <1>3, <1>4, <1>5 DEF Next

\* A step that moves calls and the engine's phase only.
Still(q) == log' = log /\ kind' = kind /\ out' = out /\ stream' = stream

LEMMA StillStands ==
    ASSUME NEW q \in Queries, Exact(q), Still(q)
    PROVE  /\ \A ns : Rows(q, ns)' = Rows(q, ns)
           /\ \A b : Given(q, b)' <=> Given(q, b)
           /\ LogExact(q)'
           /\ (phase'[q] = "drain" => phase[q] = "drain") => DrainStands(q)'
           /\ (phase'[q] = "done" => phase[q] = "done") => OutStands(q)'
<1> HIDE DEF FinalizeIds, Live
<1>1. \A ns : Rows(q, ns)' = Rows(q, ns)
  BY DEF Still, Rows
<1>2. \A b : Given(q, b)' <=> Given(q, b)
  BY DEF Still, Given
<1>3. LogExact(q)'
  BY <1>1 DEF Exact, LogExact, Still
<1>4. All(q)' = All(q) /\ Cursor(q)' = Cursor(q) /\ \A f : Emitted(q, f)' <=> Emitted(q, f)
  BY DEF Still, All, Cursor, Emitted
<1>5. (phase'[q] = "drain" => phase[q] = "drain") => DrainStands(q)'
  BY <1>1, <1>2, <1>4 DEF Exact, DrainStands, Still
<1>6. (phase'[q] = "done" => phase[q] = "done") => OutStands(q)'
  BY <1>2, <1>4 DEF Exact, OutStands, Still
<1> QED  BY <1>1, <1>2, <1>3, <1>5, <1>6

\* A drained query has been given everything.
LEMMA DoneHasAll ==
    ASSUME TypeOK, NEW q \in Queries, Stands(q), Exact(q), Done(q), NEW b \in All(q)
    PROVE  Given(q, b)
<1> HIDE DEF Callers, Calls, Idle, FinalizeIds, Phases
<1>0. /\ phase[q] = "drain" /\ fids[q] = FinalizeStateIds(kind[q])
      /\ \A f \in fids[q] : stream[q][f].at = "end"
      /\ \A c \in Callers(q) : call[q][c] = Idle
      /\ next[q] > Inputs[q]
      /\ kind[q] \in Functions /\ Inputs[q] \in Nat /\ next[q] \in Nat
  BY Typed DEF Done, Exact, StreamsStand, Stands, PhaseStands, BatchesStand
<1>1. CASE kind[q] = "ordered_source"
  <2>1. b \in 1..Sources /\ fids[q] = 1..Sources
    BY <1>0, <1>1 DEF All, FinalizeStateIds
  <2> QED  BY <1>0, <1>1, <2>1 DEF Exact, DrainStands
<1>2. CASE kind[q] = "lines_writer"
  BY <1>0, <1>2 DEF Exact, NothingMissing, Written, Combined, All
<1>3. CASE kind[q] \in Buffering
  <2>1. b \in 1..Inputs[q] /\ b < next[q] /\ 0 \in fids[q] /\ kind[q] # "ordered_source"
    BY <1>0, <1>3 DEF All, Batches, FinalizeStateIds, Buffering, Ordered
  <2>2. \E r \in Rows(q, "buf") : r.batch = b
    <3>1. CASE kind[q] = "batch_index_buffer_input"
      <4>1. call[q][Main].todo = {}
        BY <1>0, Threaded, IdleFields
      <4> QED  BY <1>0, <2>1, <3>1, <4>1 DEF Exact, NothingMissing, Sorted, Combined, Batches
    <3>2. CASE kind[q] # "batch_index_buffer_input"
      <4>1. InputNs(kind[q]) = "buf"
        BY <1>3, <3>2 DEF InputNs, Buffering, Ordered
      <4>2. \A t \in Threads[q] : call[q][t].op = "none"
        BY <1>0, Threaded, IdleFields
      <4> QED  BY <1>0, <2>1, <4>1, <4>2 DEF Exact, NothingMissing, Sunk
    <3> QED  BY <3>1, <3>2
  <2> QED  BY <1>0, <1>3, <2>1, <2>2 DEF Exact, DrainStands
<1> QED  BY <1>0, <1>1, <1>2, <1>3 DEF Functions, Buffering, Ordered

LEMMA EngineExact ==
    ASSUME TypeOK, LogStands, NEW q \in Queries, Stands(q), Exact(q), Engine(q)
    PROVE  Exact(q)'
<1> HIDE DEF Callers, Calls, Idle, FinalizeIds, Phases
<1> USE IdleFields, Threaded
<1>0. /\ phase \in [Queries -> Phases] /\ next \in [Queries -> Nat \ {0}]
      /\ kind \in [Queries -> Functions] /\ fids \in [Queries -> SUBSET FinalizeIds]
      /\ stream \in [Queries -> [FinalizeIds -> Streams]]
      /\ Inputs[q] \in Nat /\ next[q] \in Nat /\ 1 <= next[q] /\ lastId \in Nat
  BY Typed
<1>k. \A c \in Callers(q) :
         /\ call[q][c].op \in {"none", "init", "process", "combine"}
         /\ call[q][c].at \in {"idle", "sent", "loaded", "writing", "answer", "refused"}
         /\ call[q][c].batch \in Nat /\ call[q][c].todo \subseteq Nat
  BY Typed
<1>l. \A r \in log : r.id \in Nat /\ r.batch \in Nat /\ r.ns \in {"buf", "unsorted", "shard"}
  BY Typed
<1>e. /\ BatchesStand(q) /\ LogExact(q) /\ RunStands(q) /\ Sunk(q) /\ Sorted(q) /\ Written(q)
      /\ StreamsStand(q) /\ DrainStands(q) /\ OutStands(q)
  BY DEF Exact, NothingMissing
<1>p. PhaseStands(q) /\ CallsStand(q) /\ RowsStand(q)
  BY DEF Stands
<1>s. ASSUME Still(q), phase'[q] \notin {"drain", "done"} \/ phase'[q] = phase[q],
             BatchesStand(q)', RunStands(q)', Sunk(q)', Sorted(q)', Written(q)', StreamsStand(q)'
      PROVE  Exact(q)'
  BY <1>s, StillStands DEF Exact, NothingMissing
<1> USE DEF Early
<1>1. ASSUME Start(q) PROVE Exact(q)'
  <2> DEFINE k == [op |-> "init", at |-> "sent", batch |-> 0, todo |-> {}]
  <2>1. /\ call'[q][Main] = k
        /\ \A d \in Callers(q) : d # Main => call'[q][d] = call[q][d]
    BY <1>1, SendTurns, TurnedCalls DEF Start
  <2>2. /\ phase[q] = "new" /\ phase'[q] = "init" /\ Still(q)
        /\ next'[q] = next[q] /\ fids' = fids
    BY <1>0, <1>1 DEF Start, Still
  <2>a. Still(q) /\ kind'[q] = kind[q]
    BY <2>2 DEF Still
  <2>3. BatchesStand(q)'
    BY <1>e, <2>1, <2>2, <2>a DEF BatchesStand
  <2>4. RunStands(q)'
    BY <1>e, <2>1, <2>2, <2>a, StillStands DEF RunStands, Unsorted
  <2>5. Sunk(q)'
    BY <1>e, <2>1, <2>2, <2>a, StillStands DEF Sunk
  <2>6. Sorted(q)' /\ Written(q)'
    BY <2>2, <2>a DEF Sorted, Written, Combined
  <2>7. StreamsStand(q)'
    BY <1>e, <2>2, <2>a DEF StreamsStand, Still
  <2> QED  BY <1>s, <2>2, <2>3, <2>4, <2>5, <2>6, <2>7
<1>2. ASSUME NEW t \in Threads[q], Join(q, t) PROVE Exact(q)'
  <2> DEFINE k == [op |-> "init", at |-> "sent", batch |-> 0, todo |-> {}]
  <2>1. /\ call'[q][t] = k
        /\ \A d \in Callers(q) : d # t => call'[q][d] = call[q][d]
    BY <1>2, SendTurns, TurnedCalls DEF Join
  <2>2. /\ phase[q] = "sink" /\ phase'[q] = phase[q] /\ Still(q) /\ call[q][t] = Idle
        /\ next'[q] = next[q] /\ fids' = fids /\ kind'[q] = kind[q]
    BY <1>0, <1>2 DEF Join, Still
  <2>3. BatchesStand(q)'
    BY <1>e, <2>1, <2>2 DEF BatchesStand
  <2>4. RunStands(q)'
    BY <1>e, <2>1, <2>2, StillStands DEF RunStands, Unsorted
  <2>5. Sunk(q)'
    BY <1>e, <2>1, <2>2, StillStands DEF Sunk
  <2>6. Sorted(q)' /\ Written(q)'
    BY <2>2 DEF Sorted, Written, Combined
  <2>7. StreamsStand(q)'
    BY <1>e, <2>2 DEF StreamsStand, Still
  <2> QED  BY <1>s, <2>2, <2>3, <2>4, <2>5, <2>6, <2>7
<1>3. ASSUME NEW t \in Threads[q], SendBatch(q, t) PROVE Exact(q)'
  <2> DEFINE k == [op |-> "process", at |-> "sent", batch |-> next[q], todo |-> {}]
  <2>1. /\ call'[q][t] = k
        /\ \A d \in Callers(q) : d # t => call'[q][d] = call[q][d]
    BY <1>0, <1>3, SendTurns, TurnedCalls DEF SendBatch
  <2>2. /\ phase[q] = "sink" /\ phase'[q] = phase[q] /\ Still(q) /\ call[q][t] = Idle
        /\ next'[q] = next[q] + 1 /\ next[q] <= Inputs[q] /\ fids' = fids /\ kind'[q] = kind[q]
        /\ kind[q] = "ordered_buffer_input" => \A o \in Threads[q] : call[q][o] = Idle
    BY <1>0, <1>3 DEF SendBatch, Still, SinkOrderDependent
  <2>3. BatchesStand(q)'
    <3>1. call[q][Main].op = "none"
      BY <1>p, <2>2 DEF PhaseStands
    <3>2. ASSUME NEW d \in Callers(q), call'[q][d].op = "process"
          PROVE  /\ 1 <= call'[q][d].batch
                 /\ kind[q] = "ordered_buffer_input" => call'[q][d].batch + 1 = next'[q]
      BY <1>0, <1>e, <2>1, <2>2, <3>1, <3>2 DEF BatchesStand
    <3>3. next'[q] <= Inputs[q] + 1
      BY <1>0, <2>2
    <3> QED  BY <1>e, <2>1, <2>2, <3>2, <3>3 DEF BatchesStand
  <2>4. RunStands(q)'
    BY <1>e, <2>1, <2>2, StillStands DEF RunStands, Unsorted
  <2>5. Sunk(q)'
    <3>1. ASSUME NEW b \in 1..Inputs[q], b < next'[q] PROVE b = next[q] \/ b < next[q]
      <4>1. b \in Nat /\ b < next[q] + 1
        BY <1>0, <2>2, <3>1
      <4>2. next[q] \in Nat
        BY <1>0
      <4> QED  BY <4>1, <4>2
    <3>2. \A d \in Threads[q] : d = t \/ call'[q][d] = call[q][d]
      BY <2>1
    <3>3. call[q][t].op = "none"
      BY <2>2
    <3> QED  BY <1>e, <2>1, <2>2, <3>1, <3>2, <3>3, StillStands DEF Sunk
  <2>6. Sorted(q)' /\ Written(q)'
    BY <2>2 DEF Sorted, Written, Combined
  <2>7. StreamsStand(q)'
    BY <1>e, <2>2 DEF StreamsStand, Still
  <2> QED  BY <1>s, <2>2, <2>3, <2>4, <2>5, <2>6, <2>7
<1>4. ASSUME SendCombine(q) PROVE Exact(q)'
  <2> DEFINE k == [op |-> "combine", at |-> "sent", batch |-> 0, todo |-> {}]
  <2>1. /\ call'[q][Main] = k
        /\ \A d \in Callers(q) : d # Main => call'[q][d] = call[q][d]
    BY <1>4, SendTurns, TurnedCalls DEF SendCombine
  <2>2. /\ phase[q] = "sink" /\ phase'[q] = "combine" /\ Still(q) /\ next[q] > Inputs[q]
        /\ next'[q] = next[q] /\ fids' = fids /\ kind'[q] = kind[q]
    BY <1>0, <1>4 DEF SendCombine, Still
  <2>3. BatchesStand(q)'
    BY <1>e, <2>1, <2>2 DEF BatchesStand
  <2>4. RunStands(q)'
    BY <1>e, <2>1, <2>2, StillStands DEF RunStands, Unsorted
  <2>5. Sunk(q)'
    BY <1>e, <2>1, <2>2, StillStands DEF Sunk
  <2>6. Sorted(q)' /\ Written(q)'
    BY <2>1, <2>2 DEF Sorted, Written, Combined
  <2>7. StreamsStand(q)'
    BY <1>e, <2>2 DEF StreamsStand, Still
  <2> QED  BY <1>s, <2>2, <2>3, <2>4, <2>5, <2>6, <2>7
<1>5. ASSUME NEW c \in Callers(q), Replied(q, c) PROVE Exact(q)'
  <2>1. /\ call'[q][c] = Idle
        /\ \A d \in Callers(q) : d # c => call'[q][d] = call[q][d]
    <3>1. call' = [call EXCEPT ![q][c] = Idle]
      BY <1>5 DEF Replied
    <3>2. Turned(q, c, Idle)
      BY <3>1, IdleTurns, Zenon
    <3> QED  BY <3>2, TurnedCalls
  <2>2. /\ call[q][c].at = "answer" /\ Still(q) /\ next'[q] = next[q] /\ kind'[q] = kind[q]
    BY <1>5 DEF Replied, Still
  <2>3. \/ /\ phase'[q] = phase[q] /\ fids'[q] = fids[q]
           /\ phase[q] \in Live => call[q][c].op \notin {"init", "combine"}
        \/ /\ phase[q] \in Live /\ call[q][c].op = "combine" /\ phase'[q] = "drain"
           /\ fids'[q] = FinalizeStateIds(kind[q])
        \/ /\ phase[q] \in Live /\ call[q][c].op = "init" /\ phase'[q] = "sink"
           /\ fids'[q] = fids[q]
    BY <1>0, <1>5 DEF Replied
  <2>4. /\ call[q][c].op = "combine" => c = Main
        /\ call[q][c].op = "combine" /\ phase[q] \in Live => phase[q] = "combine"
        /\ call[q][c].op = "init" /\ phase[q] \in Live => phase[q] \in {"init", "sink"}
        /\ phase[q] \in {"combine", "drain"} => c = Main /\ call[q][c].op = "combine" /\ phase'[q] = "drain"
        /\ phase[q] \notin {"new", "done"}
    <3>1. call[q][c] # Idle
      BY <2>2
    <3>2. phase[q] = "combine" => c = Main /\ call[q][Main].op = "combine"
      BY <1>p, <3>1 DEF PhaseStands, CallsStand
    <3>3. phase[q] \notin {"new", "drain", "done"}
      BY <1>e, <1>p, <3>1 DEF PhaseStands, BatchesStand
    <3>4. phase[q] = "init" => \A t \in Threads[q] : call[q][t] = Idle
      BY <1>p DEF PhaseStands
    <3>5. phase[q] = "init" => call[q][Main].op = "init"
      BY <1>p DEF PhaseStands
    <3>6. phase[q] = "sink" => call[q][Main] = Idle
      BY <1>p DEF PhaseStands
    <3>7. call[q][c].op = "combine" => c = Main
      BY <1>p DEF CallsStand
    <3> QED  BY <2>3, <3>1, <3>2, <3>3, <3>4, <3>5, <3>6, <3>7
  <2>t. call[q][c].todo = {}
    BY <1>e, <2>2 DEF BatchesStand
  <2>5. BatchesStand(q)'
    BY <1>e, <2>1, <2>2, <2>3, <2>4 DEF BatchesStand
  <2>6. RunStands(q)'
    <3>1. Unsorted(q)' => Unsorted(q)
      BY <2>1, <2>2, <2>3, <2>4 DEF Unsorted
    <3>2. call'[q][Main].todo \subseteq call[q][Main].todo
      BY <2>1
    <3> QED  BY <1>e, <2>2, <3>1, <3>2, StillStands DEF RunStands
  <2>7. Sunk(q)'
    <3>1. phase'[q] \in {"new", "init", "sink", "combine", "drain"} =>
            phase[q] \in {"new", "init", "sink", "combine", "drain"}
      BY <2>3
    <3>2. \A d \in Threads[q] : call[q][d].at \in {"sent", "loaded"} => call'[q][d] = call[q][d]
      BY <2>1, <2>2
    <3> QED  BY <1>e, <2>2, <3>1, <3>2, StillStands DEF Sunk
  <2>8. Sorted(q)'
    <3>1. Combined(q, {"writing", "answer"})' => /\ Combined(q, {"writing", "answer"})
                                                /\ call'[q][Main].todo = call[q][Main].todo
      BY <2>1, <2>2, <2>3, <2>4, <2>t DEF Combined
    <3> QED  BY <1>e, <2>2, <3>1, StillStands DEF Sorted, Batches
  <2>9. Written(q)'
    <3>1. Combined(q, {"answer"})' => Combined(q, {"answer"})
      BY <2>1, <2>2, <2>3, <2>4 DEF Combined
    <3> QED  BY <1>e, <2>2, <3>1, StillStands DEF Written, Batches
  <2>10. StreamsStand(q)'
    <3>1. phase'[q] = "drain" => fids'[q] = FinalizeStateIds(kind[q]) /\ fids[q] = {}
      BY <1>e, <2>3, <2>4 DEF StreamsStand
    <3>2. phase'[q] # "drain" => fids'[q] = fids[q] /\ (phase'[q] \in Early => phase[q] \in Early)
      BY <2>3, <2>4
    <3> QED  BY <1>e, <2>2, <3>1, <3>2 DEF StreamsStand, Still
  <2>11. DrainStands(q)'
    <3>1. CASE phase'[q] = "drain"
      <4>1. /\ fids[q] = {}
            /\ kind[q] # "lines_writer" => out[q] = <<>>
        BY <1>e, <2>3, <2>4, <3>1 DEF StreamsStand
      <4>2. \A f \in FinalizeIds : stream[q][f].at = "new" /\ stream[q][f].state = Uninit
        BY <1>e, <4>1 DEF StreamsStand
      <4>3. 0 \in FinalizeIds /\ 1..Sources \subseteq FinalizeIds
        BY BufferingAssumption DEF FinalizeIds
      <4>4. kind[q] # "lines_writer" => \A b : ~ Given(q, b)'
        <5>1. kind[q] # "lines_writer" => out'[q] = <<>>
          BY <2>2, <4>1 DEF Still
        <5>2. ASSUME out'[q] = <<>> PROVE \A i : i \notin 1..Len(out'[q])
          <6>1. Len(out'[q]) = 0
            BY <5>2
          <6> QED  BY <6>1
        <5> QED  BY <5>1, <5>2 DEF Given
      <4>5. Cursor(q)' = -1 /\ \A f \in 1..Sources : ~ Emitted(q, f)'
        BY <2>2, <4>2, <4>3 DEF Cursor, Emitted, Still
      <4>6. \A r \in Rows(q, "buf")' : ~ (r.id <= -1)
        BY <1>l, <2>2 DEF Rows, Still
      <4>7. stream'[q][0].at = "new" /\ \A f \in 1..Sources : stream'[q][f].at = "new"
        BY <2>2, <4>2, <4>3 DEF Still
      <4> QED  BY <2>2, <4>4, <4>5, <4>6, <4>7 DEF DrainStands, Buffering, Ordered
    <3>2. CASE phase'[q] # "drain"
      BY <3>2 DEF DrainStands
    <3> QED  BY <3>1, <3>2
  <2>12. LogExact(q)' /\ OutStands(q)'
    BY <2>2, <2>3, StillStands
  <2> QED  BY <2>5, <2>6, <2>7, <2>8, <2>9, <2>10, <2>11, <2>12 DEF Exact, NothingMissing
<1>6. ASSUME NEW c \in Callers(q), CallFails(q, c) PROVE Exact(q)'
  <2>1. /\ call'[q][c] = Idle
        /\ \A d \in Callers(q) : d # c => call'[q][d] = call[q][d]
    <3>1. call' = [call EXCEPT ![q][c] = Idle]
      BY <1>6 DEF CallFails
    <3>2. Turned(q, c, Idle)
      BY <3>1, IdleTurns, Zenon
    <3> QED  BY <3>2, TurnedCalls
  <2>2. /\ call[q][c] # Idle /\ Still(q) /\ next'[q] = next[q] /\ kind'[q] = kind[q] /\ fids' = fids
        /\ phase'[q] = IF phase[q] \in Live THEN "failed" ELSE phase[q]
    BY <1>0, <1>6 DEF CallFails, Still
  <2>3. phase[q] \notin {"new", "done"}
    BY <1>e, <1>p, <2>2 DEF PhaseStands, BatchesStand
  <2>4. phase'[q] \notin {"new", "init", "sink", "combine", "drain", "done"}
    BY <2>2, <2>3
  <2>5. BatchesStand(q)'
    BY <1>e, <2>1, <2>2, <2>4 DEF BatchesStand
  <2>6. RunStands(q)'
    <3>1. Unsorted(q)' => Unsorted(q)
      BY <2>1, <2>4 DEF Unsorted
    <3>2. call'[q][Main].todo \subseteq call[q][Main].todo
      BY <2>1
    <3> QED  BY <1>e, <2>2, <3>1, <3>2, StillStands DEF RunStands
  <2>7. Sunk(q)' /\ Sorted(q)' /\ Written(q)'
    BY <2>4 DEF Sunk, Sorted, Written, Combined
  <2>8. StreamsStand(q)'
    BY <1>e, <2>2, <2>4 DEF StreamsStand, Still
  <2> QED  BY <1>s, <2>2, <2>4, <2>5, <2>6, <2>7, <2>8
<1>7. ASSUME GiveUp(q) \/ Done(q) PROVE Exact(q)'
  <2>1. /\ Still(q) /\ next'[q] = next[q] /\ kind'[q] = kind[q] /\ fids' = fids /\ call' = call
        /\ \/ phase'[q] = "failed"
           \/ Done(q) /\ phase[q] = "drain" /\ phase'[q] = "done"
    BY <1>0, <1>7 DEF GiveUp, Done, Still
  <2>2. BatchesStand(q)'
    <3>1. phase[q] = "drain" => \A c \in Callers(q) : call[q][c] = Idle
      BY <1>p DEF PhaseStands
    <3> QED  BY <1>e, <2>1, <3>1 DEF BatchesStand
  <2>3. RunStands(q)'
    BY <1>e, <2>1, StillStands DEF RunStands, Unsorted
  <2>4. Sunk(q)' /\ Sorted(q)' /\ Written(q)' /\ DrainStands(q)'
    BY <2>1 DEF Sunk, Sorted, Written, Combined, DrainStands
  <2>5. StreamsStand(q)'
    BY <1>e, <2>1 DEF StreamsStand, Still
  <2>6. OutStands(q)'
    <3>1. phase'[q] = "done" => \A b \in All(q) : Given(q, b)
      BY <2>1, DoneHasAll
    <3>2. All(q)' = All(q)
      BY <2>1 DEF All, Still
    <3> QED  BY <1>e, <2>1, <3>1, <3>2, StillStands DEF OutStands, Still
  <2>7. LogExact(q)'
    BY <2>1, StillStands
  <2> QED  BY <2>2, <2>3, <2>4, <2>5, <2>6, <2>7 DEF Exact, NothingMissing
<1>8. ASSUME NEW f \in FinalizeIds, OpenStream(q, f) PROVE Exact(q)'
  <2> DEFINE s == [stream[q][f] EXCEPT !.at = "open"]
  <2>1. /\ phase[q] = "drain" /\ f \in fids[q] /\ stream[q][f].at = "new"
        /\ kind[q] = "ordered_source" => \A e \in fids[q] : e < f => stream[q][e].at = "end"
        /\ stream' = [stream EXCEPT ![q][f] = s]
        /\ UNCHANGED <<kind, phase, next, call, log, fids, out>>
    BY <1>8 DEF OpenStream, SourceOrderDependent
  <2>2. s.at = "open" /\ s.state = stream[q][f].state
    BY <1>0 DEF Streams
  <2> HIDE DEF s
  <2>3. /\ stream'[q][f].at = "open" /\ stream'[q][f].state = stream[q][f].state
        /\ \A g \in FinalizeIds : g # f => stream'[q][g] = stream[q][g]
    BY <1>0, <2>1, <2>2
  <2>4. 0 \in FinalizeIds /\ 1..Sources \subseteq FinalizeIds
    BY BufferingAssumption DEF FinalizeIds
  <2>5. /\ BatchesStand(q)' /\ LogExact(q)' /\ RunStands(q)' /\ Sunk(q)' /\ Sorted(q)' /\ Written(q)'
        /\ OutStands(q)'
    BY <1>e, <2>1 DEF BatchesStand, LogExact, RunStands, Sunk, Sorted, Written, OutStands,
                      Rows, Given, All, Combined, Unsorted
  <2>6. StreamsStand(q)'
    BY <1>e, <2>1, <2>3 DEF StreamsStand
  <2>7. DrainStands(q)'
    <3>1. /\ Cursor(q)' = Cursor(q) /\ Rows(q, "buf")' = Rows(q, "buf")
          /\ \A b : Given(q, b)' <=> Given(q, b)
          /\ \A e \in 1..Sources : Emitted(q, e)' <=> Emitted(q, e)
      BY <2>1, <2>3, <2>4 DEF Cursor, Rows, Given, Emitted
    <3>2. \A e \in FinalizeIds : stream'[q][e].at = "end" <=> stream[q][e].at = "end"
      BY <2>1, <2>3
    <3>3. kind[q] = "ordered_source" => fids[q] = 1..Sources
      BY <1>e, <2>1 DEF StreamsStand, FinalizeStateIds
    <3>4. kind'[q] = kind[q] /\ phase'[q] = "drain"
      BY <2>1
    <3>5. ASSUME kind[q] = "ordered_source", NEW g \in 1..Sources, stream'[q][g].at # "new",
                 NEW e \in 1..Sources, e < g
          PROVE  stream[q][e].at = "end"
      <4>1. CASE g = f
        BY <2>1, <3>3, <3>5, <4>1
      <4>2. CASE g # f
        BY <1>e, <2>1, <2>3, <2>4, <3>5, <4>2 DEF DrainStands
      <4> QED  BY <4>1, <4>2
    <3>6. kind[q] = "ordered_source" => \A g \in 1..Sources :
             /\ Emitted(q, g)' <=> Given(q, g)'
             /\ stream'[q][g].at = "end" => Emitted(q, g)'
             /\ stream'[q][g].at # "new" => \A e \in 1..Sources : e < g => stream'[q][e].at = "end"
      BY <1>e, <2>1, <2>4, <3>1, <3>2, <3>5 DEF DrainStands
    <3>7. kind[q] \in Buffering =>
             /\ \A r \in Rows(q, "buf")' : r.id <= Cursor(q)' <=> Given(q, r.batch)'
             /\ stream'[q][0].at = "end" => \A r \in Rows(q, "buf")' : r.id <= Cursor(q)'
      BY <1>e, <2>1, <2>4, <3>1, <3>2 DEF DrainStands
    <3> QED  BY <3>4, <3>6, <3>7 DEF DrainStands
  <2> QED  BY <2>5, <2>6, <2>7 DEF Exact, NothingMissing
<1> QED  BY <1>1, <1>2, <1>3, <1>4, <1>5, <1>6, <1>7, <1>8 DEF Engine

\* The log grows by one row of q.
LEMMA GrowsStands ==
    ASSUME LogStands, NEW q \in Queries, NEW ns, NEW b, StateAppend(q, ns, b), lastId \in Nat
    PROVE  LET r == [id |-> lastId + 1, query |-> q, ns |-> ns, batch |-> b]
           IN  /\ log' = log \cup {r}
               /\ \A s \in log : s.id \in Int => s.id < r.id
               /\ Rows(q, ns)' = Rows(q, ns) \cup {r}
               /\ \A m : m # ns => Rows(q, m)' = Rows(q, m)
<1> DEFINE r == [id |-> lastId + 1, query |-> q, ns |-> ns, batch |-> b]
<1>1. log' = log \cup {r} /\ r.id = lastId + 1 /\ r.query = q /\ r.ns = ns
  BY DEF StateAppend
<1>2. \A s \in log : s.id \in Int => s.id < lastId + 1
  BY DEF LogStands
<1> HIDE DEF r
<1>3. Rows(q, ns)' = Rows(q, ns) \cup {r} /\ \A m : m # ns => Rows(q, m)' = Rows(q, m)
  BY <1>1 DEF Rows
<1> QED  BY <1>1, <1>2, <1>3 DEF r

\* All of a run's rows are in the file once, in the order of the log.
LEMMA FileHasAll ==
    ASSUME RestTyped, NEW q \in Queries, NEW ns, NEW s \in InLogOrder(StateLogScan(q, ns, -1))
    PROVE  /\ DOMAIN s = 1..Len(s) /\ Len(s) \in Nat
           /\ \A i, j \in 1..Len(s) : s[i] = s[j] => i = j
           /\ \A i \in 1..Len(s) : s[i] \in Rows(q, ns)
           /\ \A r \in Rows(q, ns) : \E i \in 1..Len(s) : s[i] = r
<1> DEFINE rows == StateLogScan(q, ns, -1)
           n == Cardinality(rows)
<1>1. IsFiniteSet(rows) /\ n \in Nat
  BY ScanFinite
<1>2. \A r \in log : r.id \in Nat
  BY DEF RestTyped
<1>3. rows = Rows(q, ns)
  BY <1>2 DEF StateLogScan, Rows
<1>4. s \in [1..n -> rows] /\ \A i, j \in 1..n : i < j => s[i].id < s[j].id
  BY DEF InLogOrder
<1>5. \A r \in rows : r.id \in Nat
  BY <1>2 DEF StateLogScan
<1> HIDE DEF rows, n
<1>6. \A i, j \in 1..n : s[i] = s[j] => i = j
  <2> SUFFICES ASSUME NEW i \in 1..n, NEW j \in 1..n, s[i] = s[j], i # j PROVE FALSE
    OBVIOUS
  <2>1. i < j \/ j < i
    BY <1>1
  <2> QED  BY <1>4, <1>5, <2>1
<1>7. s \in Injection(1..n, rows)
  BY <1>4, <1>6 DEF Injection, IsInjective
<1>8. Cardinality(1..n) = n
  <2>1. Cardinality(1..n) = IF 1 > n THEN 0 ELSE n - 1 + 1
    BY <1>1, FS_Interval
  <2> QED  BY <1>1, <2>1
<1>9. s \in Surjection(1..n, rows)
  BY <1>1, <1>7, <1>8, FS_Injection DEF n
<1>10. \A r \in rows : \E i \in 1..n : s[i] = r
  BY <1>9 DEF Surjection
<1>11. Len(s) = n
  BY <1>1, <1>4
<1> QED  BY <1>1, <1>3, <1>4, <1>6, <1>10, <1>11

\* One tick of a drain emits the batch that is next, and moves the cursor, or
\* the stream's flag, past it.
LEMMA TickMoves ==
    ASSUME TypeOK, NEW q \in Queries, NEW f \in FinalizeIds, Tick(q, f)
    PROVE  LET state == IF stream[q][f].state = Uninit THEN InitialFinalizeState
                                                      ELSE stream[q][f].state
               Ended(s) == s.at = "end" /\ s.state = state
               Passed(s, afterId, emitted) ==
                   s.at = "open" /\ s.state.afterId = afterId /\ s.state.emitted = emitted
           IN  /\ state \in FinalizeStates
               /\ phase[q] = "drain" /\ stream[q][f].at = "open"
               /\ UNCHANGED <<kind, phase, next, call, log, fids>>
               /\ \A g \in FinalizeIds : g # f => stream'[q][g] = stream[q][g]
               /\ stream'[q][f].state # Uninit
               /\ kind[q] = "ordered_source" =>
                     \/ state.emitted /\ out' = out /\ Ended(stream'[q][f])
                     \/ /\ ~state.emitted /\ out'[q] = Append(out[q], f)
                        /\ Passed(stream'[q][f], state.afterId, TRUE)
               /\ kind[q] # "ordered_source" =>
                     \/ /\ \A r \in Rows(q, "buf") : ~ (r.id > state.afterId)
                        /\ out' = out /\ Ended(stream'[q][f])
                     \/ \E r \in Rows(q, "buf") :
                           /\ r.id > state.afterId
                           /\ \A o \in Rows(q, "buf") : o.id > state.afterId => r.id <= o.id
                           /\ out'[q] = Append(out[q], r.batch)
                           /\ Passed(stream'[q][f], r.id, state.emitted)
<1> DEFINE first == Resume(stream[q][f].state) = Uninit
           state == IF first THEN InitialFinalizeState ELSE Resume(stream[q][f].state)
           rows == StateLogScan(q, "buf", state.afterId)
           emits == [state EXCEPT !.emitted = TRUE]
           passes(r) == [state EXCEPT !.afterId = r.id]
<1>0. /\ out \in [Queries -> Seq(Nat)] /\ stream \in [Queries -> [FinalizeIds -> Streams]]
  BY Typed
<1>1. stream[q][f] \in Streams
  <2> HIDE DEF FinalizeIds
  <2> QED  BY <1>0
<1>2. state \in FinalizeStates
  BY <1>1 DEF Resume, Streams, InitialFinalizeState, FinalizeStates
<1>3. /\ emits.afterId = state.afterId /\ emits.emitted = TRUE
      /\ \A r : (passes(r)).afterId = r.id /\ (passes(r)).emitted = state.emitted
  BY <1>2 DEF FinalizeStates
<1>4. rows = {r \in Rows(q, "buf") : r.id > state.afterId}
  BY DEF StateLogScan, Rows
<1>5. \A s : [stream[q][f] EXCEPT !.state = s].state = s
             /\ [stream[q][f] EXCEPT !.state = s].at = stream[q][f].at
  BY <1>1 DEF Streams
<1>6. /\ phase[q] = "drain" /\ stream[q][f].at = "open"
      /\ UNCHANGED <<kind, phase, next, call, log, fids>>
  BY Zenon DEF Tick
<1>7. PICK s \in Streams : s.state # Uninit /\ stream' = [stream EXCEPT ![q][f] = s]
  BY TickTypes
<1> HIDE DEF FinalizeIds
<1>8. stream'[q][f] = s /\ \A g \in FinalizeIds : g # f => stream'[q][g] = stream[q][g]
  BY <1>0, <1>7
<1>9. kind[q] = "ordered_source" =>
         \/ /\ state.emitted /\ out' = out
            /\ stream' = [stream EXCEPT ![q][f] = [at |-> "end", state |-> state]]
         \/ /\ ~state.emitted /\ out' = [out EXCEPT ![q] = Append(@, f)]
            /\ stream' = [stream EXCEPT ![q][f] = [@ EXCEPT !.state = emits]]
  BY Zenon DEF Tick
<1>10. kind[q] # "ordered_source" =>
         \/ /\ rows = {} /\ out' = out
            /\ stream' = [stream EXCEPT ![q][f] = [at |-> "end", state |-> state]]
         \/ \E r \in rows :
              /\ IsFirst(r, rows) /\ out' = [out EXCEPT ![q] = Append(@, r.batch)]
              /\ stream' = [stream EXCEPT ![q][f] = [@ EXCEPT !.state = passes(r)]]
  BY Zenon DEF Tick
<1> HIDE DEF first, state, rows, emits, passes
<1>a. \A x : stream' = [stream EXCEPT ![q][f] = x] => s = x
  BY <1>0, <1>8
<1>b. \A x : out' = [out EXCEPT ![q] = x] => out'[q] = x
  BY <1>0
<1>c. ASSUME NEW x, stream' = [stream EXCEPT ![q][f] = [@ EXCEPT !.state = x]]
      PROVE  s.state = x /\ s.at = "open"
  <2>1. s = [stream[q][f] EXCEPT !.state = x]
    BY <1>0, <1>8, <1>c
  <2>2. /\ [stream[q][f] EXCEPT !.state = x].state = x
        /\ [stream[q][f] EXCEPT !.state = x].at = stream[q][f].at
    BY <1>5
  <2> QED  BY <1>6, <2>1, <2>2
<1>d. stream' = [stream EXCEPT ![q][f] = [at |-> "end", state |-> state]] => s.at = "end" /\ s.state = state
  <2>1. [at |-> "end", state |-> state].at = "end" /\ [at |-> "end", state |-> state].state = state
    OBVIOUS
  <2> QED  BY <1>a, <2>1
<1>11. kind[q] = "ordered_source" =>
         \/ state.emitted /\ out' = out /\ s.at = "end" /\ s.state = state
         \/ /\ ~state.emitted /\ out'[q] = Append(out[q], f)
            /\ s.at = "open" /\ s.state.afterId = state.afterId /\ s.state.emitted = TRUE
  <2>1. ASSUME stream' = [stream EXCEPT ![q][f] = [@ EXCEPT !.state = emits]]
        PROVE  s.at = "open" /\ s.state.afterId = state.afterId /\ s.state.emitted = TRUE
    <3>1. s.state = emits /\ s.at = "open"
      BY <1>c, <2>1, Zenon
    <3> QED  BY <1>3, <3>1
  <2> QED  BY <1>9, <1>b, <1>d, <2>1, Zenon
<1>12. kind[q] # "ordered_source" =>
         \/ rows = {} /\ out' = out /\ s.at = "end" /\ s.state = state
         \/ \E r \in rows :
              /\ IsFirst(r, rows) /\ out'[q] = Append(out[q], r.batch)
              /\ s.at = "open" /\ s.state.afterId = r.id /\ s.state.emitted = state.emitted
  <2>1. ASSUME NEW r, stream' = [stream EXCEPT ![q][f] = [@ EXCEPT !.state = passes(r)]]
        PROVE  s.at = "open" /\ s.state.afterId = r.id /\ s.state.emitted = state.emitted
    <3>1. s.state = passes(r) /\ s.at = "open"
      BY <1>c, <2>1, Zenon
    <3> QED  BY <1>3, <3>1
  <2> QED  BY <1>10, <1>b, <1>d, <2>1, Zenon
<1>13. state = IF stream[q][f].state = Uninit THEN InitialFinalizeState ELSE stream[q][f].state
  BY DEF state, first, Resume
<1>14. kind[q] # "ordered_source" =>
         \/ /\ \A r \in Rows(q, "buf") : ~ (r.id > state.afterId)
            /\ out' = out /\ s.at = "end" /\ s.state = state
         \/ \E r \in Rows(q, "buf") :
               /\ r.id > state.afterId
               /\ \A o \in Rows(q, "buf") : o.id > state.afterId => r.id <= o.id
               /\ out'[q] = Append(out[q], r.batch)
               /\ s.at = "open" /\ s.state.afterId = r.id /\ s.state.emitted = state.emitted
  BY <1>4, <1>12 DEF IsFirst
<1> QED  BY <1>2, <1>6, <1>7, <1>8, <1>11, <1>13, <1>14

LEMMA CallMoves ==
    ASSUME TypeOK, NEW q \in Queries, NEW c \in Callers(q),
           NEW at \in {"loaded", "writing", "answer", "refused"}, Advance(q, c, at)
    PROVE  /\ call'[q][c].op = call[q][c].op /\ call'[q][c].at = at
           /\ call'[q][c].batch = call[q][c].batch /\ call'[q][c].todo = call[q][c].todo
           /\ \A d \in Callers(q) : d # c => call'[q][d] = call[q][d]
<1> HIDE DEF Callers, Calls
<1>1. call[q][c] \in Calls
  BY DEF TypeOK
<1>2. Turned(q, c, [call[q][c] EXCEPT !.at = at])
  BY AdvanceTurns, Zenon
<1>3. /\ call'[q][c] = [call[q][c] EXCEPT !.at = at]
      /\ \A d \in Callers(q) : d # c => call'[q][d] = call[q][d]
  BY <1>2, TurnedCalls
<1> QED  BY <1>1, <1>3 DEF Calls

\* A row that Process, or a sorting combine(), appends.
LEMMA AppendExact ==
    ASSUME TypeOK, LogStands, NEW q \in Queries, LogExact(q),
           NEW b \in Nat, 1 <= b, b <= Inputs[q],
           NEW ns \in {"buf", "unsorted", "shard"}, StateAppend(q, ns, b), kind' = kind,
           kind[q] # "ordered_source",
           ns = InputNs(kind[q]) \/ (kind[q] = "batch_index_buffer_input" /\ ns = "buf"),
           \A r \in Rows(q, ns) : r.batch # b,
           kind[q] \in Ordered /\ ns = "buf" => \A r \in Rows(q, "buf") : r.batch < b
    PROVE  LogExact(q)'
<1> HIDE DEF Callers, Calls, Idle, FinalizeIds, Phases
<1> DEFINE n == [id |-> lastId + 1, query |-> q, ns |-> ns, batch |-> b]
<1>0. /\ lastId \in Nat /\ Inputs[q] \in Nat
      /\ \A r \in log : r.id \in Nat /\ r.batch \in Nat
  BY Typed
<1>1. /\ log' = log \cup {n}
      /\ \A s \in log : s.id < n.id
      /\ Rows(q, ns)' = Rows(q, ns) \cup {n}
      /\ \A m : m # ns => Rows(q, m)' = Rows(q, m)
  BY <1>0, GrowsStands
<1>2. n.query = q /\ n.ns = ns /\ n.batch = b /\ n.id \in Nat
  BY <1>0
<1> HIDE DEF n
<1>3. \A r \in log : r.query = q /\ r.ns = ns => r.batch # b
  BY DEF Rows
<1>4. \A r \in log' : r.query = q =>
         /\ 1 <= r.batch /\ r.batch <= Inputs[q]
         /\ kind[q] # "ordered_source"
         /\ r.ns # InputNs(kind[q]) => kind[q] = "batch_index_buffer_input" /\ r.ns = "buf"
  BY <1>1, <1>2 DEF LogExact
<1>5. \A r, s \in log' : r.query = q /\ s.query = q /\ r.ns = s.ns /\ r.batch = s.batch => r = s
  BY <1>1, <1>2, <1>3 DEF LogExact
<1>6. ASSUME kind[q] \in Ordered, NEW r \in Rows(q, "buf")', NEW s \in Rows(q, "buf")', r.id < s.id
      PROVE  r.batch < s.batch
  <2>1. CASE ns = "buf"
    <3>1. r = n => s \notin log
      <4>1. \A x \in log : ~ (n.id < x.id)
        BY <1>0, <1>1, <1>2
      <4> QED  BY <1>6, <4>1
    <3>2. s \in Rows(q, "buf") \cup {n} /\ r \in Rows(q, "buf") \cup {n}
      BY <1>1, <2>1
    <3>3. Rows(q, "buf") \subseteq log
      BY DEF Rows
    <3>4. r # n
      <4>1. ~ (n.id < n.id)
        BY <1>2
      <4> QED  BY <1>6, <3>1, <3>2, <3>3, <4>1
    <3> QED  BY <1>2, <1>6, <2>1, <3>2, <3>4 DEF LogExact
  <2>2. CASE ns # "buf"
    BY <1>1, <1>6, <2>2 DEF LogExact
  <2> QED  BY <2>1, <2>2
<1> QED  BY <1>4, <1>5, <1>6 DEF LogExact

\* combine() of lines_writer writes the file: each batch sunk, once.
LEMMA WriterExact ==
    ASSUME TypeOK, NEW q \in Queries, Stands(q), Exact(q), NEW c \in Callers(q), Combine(q, c),
           kind[q] = "lines_writer"
    PROVE  /\ NoneTwice(out'[q])
           /\ \A i \in 1..Len(out'[q]) : out'[q][i] \in Batches(q)
           /\ phase[q] = "combine" => \A b \in Batches(q) : Given(q, b)'
<1> HIDE DEF Callers, Calls, Idle, FinalizeIds, Phases
<1>0. out \in [Queries -> Seq(Nat)] /\ RestTyped
  BY Typed, TypeParts
<1>1. PICK s \in InLogOrder(StateLogScan(q, "shard", -1)) :
         out' = [out EXCEPT ![q] = [i \in DOMAIN s |-> s[i].batch]]
  BY Zenon DEF Combine
<1>2. /\ DOMAIN s = 1..Len(s) /\ Len(s) \in Nat
      /\ \A i, j \in 1..Len(s) : s[i] = s[j] => i = j
      /\ \A i \in 1..Len(s) : s[i] \in Rows(q, "shard")
      /\ \A r \in Rows(q, "shard") : \E i \in 1..Len(s) : s[i] = r
  BY <1>0, FileHasAll
<1> DEFINE o == [i \in 1..Len(s) |-> s[i].batch]
<1>3. out'[q] = o
  BY <1>0, <1>1, <1>2
<1>4. Len(o) = Len(s) /\ \A i \in 1..Len(s) : o[i] = s[i].batch
  BY <1>2
<1> HIDE DEF o
<1>5. LogExact(q)
  BY DEF Exact
<1>6. NoneTwice(o)
  <2> SUFFICES ASSUME NEW i \in 1..Len(s), NEW j \in 1..Len(s), o[i] = o[j] PROVE i = j
    BY <1>4 DEF NoneTwice
  <2>1. s[i] \in Rows(q, "shard") /\ s[j] \in Rows(q, "shard") /\ s[i].batch = s[j].batch
    BY <1>2, <1>4
  <2>2. s[i] = s[j]
    BY <1>5, <2>1 DEF LogExact, Rows
  <2> QED  BY <1>2, <2>2
<1>7. \A i \in 1..Len(o) : o[i] \in Batches(q)
  <2>1. \A r \in Rows(q, "shard") : r.batch \in Batches(q)
    <3>1. \A r \in log : r.batch \in Nat
      BY Typed
    <3>2. \A r \in Rows(q, "shard") : r \in log /\ 1 <= r.batch /\ r.batch <= Inputs[q]
      BY <1>5 DEF LogExact, Rows
    <3>3. Inputs[q] \in Nat
      BY Typed
    <3> QED  BY <3>1, <3>2, <3>3 DEF Batches
  <2> QED  BY <1>2, <1>4, <2>1
<1>8. ASSUME phase[q] = "combine", NEW b \in Batches(q) PROVE Given(q, b)'
  <2>1. call[q][c].op = "combine" /\ \A t \in Threads[q] : call[q][t] = Idle
    BY Zenon DEF Combine, Stands, CallsStand
  <2>2. b \in 1..Inputs[q] /\ b < next[q]
    <3>1. next[q] > Inputs[q] /\ Inputs[q] \in Nat /\ next[q] \in Nat
      BY <1>8, Typed DEF Exact, BatchesStand
    <3> QED  BY <3>1 DEF Batches
  <2>3. \E r \in Rows(q, InputNs(kind[q])) : r.batch = b
    BY <1>8, <2>1, <2>2, IdleFields DEF Exact, NothingMissing, Sunk
  <2>4. PICK r \in Rows(q, "shard") : r.batch = b
    BY <2>3 DEF InputNs
  <2>5. PICK i \in 1..Len(s) : s[i] = r
    BY <1>2
  <2> QED  BY <1>3, <1>4, <2>4, <2>5 DEF Given
<1> QED  BY <1>3, <1>6, <1>7, <1>8

LEMMA TickExact ==
    ASSUME TypeOK, LogStands, NEW q \in Queries, Stands(q), Exact(q), NEW f \in FinalizeIds, Tick(q, f)
    PROVE  Exact(q)'
<1> HIDE DEF Callers, Calls, Idle, FinalizeIds, Phases
<1> DEFINE state == IF stream[q][f].state = Uninit THEN InitialFinalizeState
                                                   ELSE stream[q][f].state
<1>0. /\ kind[q] \in Functions /\ Inputs[q] \in Nat /\ next[q] \in Nat
      /\ out[q] \in Seq(Nat)
      /\ \A r \in log : r.id \in Nat /\ r.batch \in Nat
  BY Typed
<1>e. /\ BatchesStand(q) /\ LogExact(q) /\ RunStands(q) /\ Sunk(q) /\ Sorted(q) /\ Written(q)
      /\ StreamsStand(q) /\ DrainStands(q) /\ OutStands(q)
  BY DEF Exact, NothingMissing
<1>1. /\ state \in FinalizeStates
      /\ phase[q] = "drain" /\ stream[q][f].at = "open"
      /\ UNCHANGED <<kind, phase, next, call, log, fids>>
      /\ \A g \in FinalizeIds : g # f => stream'[q][g] = stream[q][g]
      /\ stream'[q][f].state # Uninit
  <2>1. state \in FinalizeStates
    BY TickMoves
  <2> HIDE DEF state
  <2>2. phase[q] = "drain" /\ stream[q][f].at = "open"
    BY TickMoves
  <2>3. UNCHANGED <<kind, phase, next, call, log, fids>>
    BY TickMoves
  <2>4. \A g \in FinalizeIds : g # f => stream'[q][g] = stream[q][g]
    <3>1. \E s : stream' = [stream EXCEPT ![q][f] = s]
      BY TickTypes, Zenon
    <3>2. stream \in [Queries -> [FinalizeIds -> Streams]]
      BY Typed
    <3> QED  BY <3>1, <3>2
  <2>5. stream'[q][f].state # Uninit
    BY TickMoves, Zenon
  <2> QED  BY <2>1, <2>2, <2>3, <2>4, <2>5
<1>2. kind[q] = "ordered_source" =>
         \/ /\ state.emitted /\ out' = out
            /\ stream'[q][f].at = "end" /\ stream'[q][f].state = state
         \/ /\ ~state.emitted /\ out'[q] = Append(out[q], f)
            /\ stream'[q][f].at = "open" /\ stream'[q][f].state.afterId = state.afterId
            /\ stream'[q][f].state.emitted = TRUE
  BY TickMoves
<1>3. kind[q] # "ordered_source" =>
         \/ /\ \A r \in Rows(q, "buf") : ~ (r.id > state.afterId)
            /\ out' = out
            /\ stream'[q][f].at = "end" /\ stream'[q][f].state = state
         \/ \E r \in Rows(q, "buf") :
               /\ r.id > state.afterId
               /\ \A o \in Rows(q, "buf") : o.id > state.afterId => r.id <= o.id
               /\ out'[q] = Append(out[q], r.batch)
               /\ stream'[q][f].at = "open" /\ stream'[q][f].state.afterId = r.id
               /\ stream'[q][f].state.emitted = state.emitted
  BY TickMoves
<1> HIDE DEF state
<1>4. f \in fids[q] /\ fids[q] = FinalizeStateIds(kind[q])
  BY <1>1, <1>e DEF StreamsStand
<1>5. stream'[q][f].at # "new"
  BY <1>2, <1>3
<1>6. /\ BatchesStand(q)' /\ LogExact(q)' /\ RunStands(q)' /\ Sunk(q)' /\ Sorted(q)'
      /\ Rows(q, "buf")' = Rows(q, "buf") /\ All(q)' = All(q)
  BY <1>1, <1>e DEF BatchesStand, LogExact, RunStands, Sunk, Sorted, Rows, Combined, Unsorted, All
<1>7. StreamsStand(q)'
  BY <1>1, <1>4, <1>5, <1>e DEF StreamsStand, Early
<1>8. kind[q] # "lines_writer" /\ Written(q)'
  BY <1>1, <1>4 DEF FinalizeStateIds, Written
<1>a. ASSUME NEW b \in Nat, out'[q] = Append(out[q], b)
      PROVE  /\ Len(out'[q]) = Len(out[q]) + 1 /\ out'[q][Len(out[q]) + 1] = b
             /\ \A i \in 1..Len(out[q]) : out'[q][i] = out[q][i] /\ i \in 1..Len(out'[q])
             /\ \A i \in 1..Len(out'[q]) : i \in 1..Len(out[q]) \/ i = Len(out[q]) + 1
             /\ Len(out[q]) \in Nat
  <2> DEFINE o == out[q]
  <2>1. o \in Seq(Nat)
    BY <1>0
  <2> HIDE DEF o
  <2>2. Len(o) \in Nat /\ Len(Append(o, b)) = Len(o) + 1
    BY <2>1
  <2>3. Append(o, b)[Len(o) + 1] = b /\ \A i \in 1..Len(o) : Append(o, b)[i] = o[i]
    BY <2>1
  <2>4. /\ \A i \in 1..Len(o) : i \in 1..(Len(o) + 1)
        /\ \A i \in 1..(Len(o) + 1) : i \in 1..Len(o) \/ i = Len(o) + 1
    BY <2>2
  <2> QED  BY <1>a, <2>2, <2>3, <2>4 DEF o
<1>b. ASSUME NEW b \in Nat, out'[q] = Append(out[q], b)
      PROVE  \A x : Given(q, x)' <=> Given(q, x) \/ x = b
  <2>1. /\ Len(out'[q]) = Len(out[q]) + 1 /\ out'[q][Len(out[q]) + 1] = b
        /\ \A i \in 1..Len(out[q]) : out'[q][i] = out[q][i] /\ i \in 1..Len(out'[q])
        /\ \A i \in 1..Len(out'[q]) : i \in 1..Len(out[q]) \/ i = Len(out[q]) + 1
        /\ Len(out[q]) \in Nat
    BY <1>a, <1>b
  <2>2. Len(out[q]) + 1 \in 1..Len(out'[q])
    BY <2>1
  <2> QED  BY <2>1, <2>2 DEF Given
\* A batch that was not given before, and is the next where that is promised.
<1>c. ASSUME NEW b \in Nat, out'[q] = Append(out[q], b), b \in All(q), ~Given(q, b),
             kind[q] \in Ordered \cup {"ordered_source"} => b = Len(out[q]) + 1
      PROVE  OutStands(q)'
  <2>1. /\ Len(out'[q]) = Len(out[q]) + 1 /\ out'[q][Len(out[q]) + 1] = b
        /\ \A i \in 1..Len(out[q]) : out'[q][i] = out[q][i] /\ i \in 1..Len(out'[q])
        /\ \A i \in 1..Len(out'[q]) : i \in 1..Len(out[q]) \/ i = Len(out[q]) + 1
        /\ Len(out[q]) \in Nat
    BY <1>a, <1>c
  <2>2. NoneTwice(out'[q])
    BY <1>c, <1>e, <2>1 DEF OutStands, NoneTwice, Given
  <2>3. \A i \in 1..Len(out'[q]) : out'[q][i] \in All(q)
    BY <1>c, <1>e, <2>1 DEF OutStands
  <2>4. kind[q] \in Ordered \cup {"ordered_source"} => IsInterval(out'[q])
    BY <1>c, <1>e, <2>1 DEF OutStands, IsInterval
  <2> QED  BY <1>1, <1>6, <2>2, <2>3, <2>4 DEF OutStands
<1>d. ASSUME out' = out PROVE OutStands(q)' /\ \A x : Given(q, x)' <=> Given(q, x)
  BY <1>1, <1>6, <1>d, <1>e DEF OutStands, Given
<1>9. CASE kind[q] = "ordered_source"
  <2>1. fids[q] = 1..Sources /\ f \in 1..Sources /\ Sources \in Nat /\ f \in Nat
    BY <1>4, <1>9, BufferingAssumption DEF FinalizeStateIds
  <2>2. \A e \in 1..Sources : e \in FinalizeIds
    BY BufferingAssumption DEF FinalizeIds
  <2>3. state.emitted <=> Emitted(q, f)
    BY DEF state, Emitted, InitialFinalizeState
  <2>4. \A e \in 1..Sources : /\ Emitted(q, e) <=> Given(q, e)
                              /\ stream[q][e].at = "end" => Emitted(q, e)
                              /\ stream[q][e].at # "new" => \A d \in 1..Sources : d < e => stream[q][d].at = "end"
    BY <1>1, <1>9, <1>e DEF DrainStands
  <2>5. \A e \in 1..Sources : e # f => /\ stream'[q][e] = stream[q][e]
                                       /\ Emitted(q, e)' <=> Emitted(q, e)
    BY <1>1, <2>2 DEF Emitted
  <2>6. Emitted(q, f)'
    BY <1>1, <1>2, <1>9 DEF Emitted
  <2>7. \A e \in 1..Sources : stream'[q][e].at # "new" => \A d \in 1..Sources : d < e => stream'[q][d].at = "end"
    <3> SUFFICES ASSUME NEW e \in 1..Sources, stream'[q][e].at # "new", NEW d \in 1..Sources, d < e
                 PROVE  stream'[q][d].at = "end"
      OBVIOUS
    <3>1. stream[q][e].at # "new"
      BY <1>1, <2>5
    <3>2. stream[q][d].at = "end"
      BY <2>4, <3>1
    <3>3. d # f
      BY <1>1, <3>2
    <3> QED  BY <2>5, <3>2, <3>3
  <2>8. CASE state.emitted
    <3>1. out' = out
      BY <1>2, <1>9, <2>8
    <3>2. \A e \in 1..Sources : Emitted(q, e)' <=> Given(q, e)'
      BY <1>d, <2>3, <2>4, <2>5, <2>6, <2>8, <3>1
    <3>3. \A e \in 1..Sources : stream'[q][e].at = "end" => Emitted(q, e)'
      BY <2>4, <2>5, <2>6
    <3>4. DrainStands(q)'
      BY <1>1, <1>9, <2>7, <3>2, <3>3 DEF DrainStands, Buffering, Ordered
    <3> QED  BY <1>6, <1>7, <1>8, <1>d, <3>1, <3>4 DEF Exact, NothingMissing
  <2>9. CASE ~state.emitted
    <3>1. out'[q] = Append(out[q], f)
      BY <1>2, <1>9, <2>9
    <3>2. f \in All(q) /\ ~Given(q, f)
      BY <1>9, <2>1, <2>3, <2>4, <2>9 DEF All
    <3>3. f = Len(out[q]) + 1
      <4>1. \A i \in 1..Len(out[q]) : out[q][i] = i
        BY <1>9, <1>e DEF OutStands, IsInterval
      <4>2. Len(out[q]) \in Nat
        BY <1>0
      <4>3. ~ (f <= Len(out[q]))
        <5>1. f <= Len(out[q]) => f \in 1..Len(out[q])
          BY <2>1, <4>2
        <5> QED  BY <3>2, <4>1, <5>1 DEF Given
      <4>4. ~ (Len(out[q]) + 1 < f)
        <5> SUFFICES ASSUME Len(out[q]) + 1 < f PROVE FALSE
          OBVIOUS
        <5>1. Len(out[q]) + 1 \in 1..Sources
          BY <2>1, <4>2
        <5>2. Given(q, Len(out[q]) + 1)
          BY <1>1, <2>1, <2>4, <5>1
        <5>3. PICK i \in 1..Len(out[q]) : out[q][i] = Len(out[q]) + 1
          BY <5>2 DEF Given
        <5> QED  BY <4>1, <4>2, <5>3
      <4> QED  BY <2>1, <4>2, <4>3, <4>4
    <3>4. OutStands(q)'
      BY <1>c, <2>1, <3>1, <3>2, <3>3
    <3>5. \A e \in 1..Sources : Emitted(q, e)' <=> Given(q, e)'
      BY <1>b, <2>1, <2>4, <2>5, <2>6, <3>1
    <3>6. \A e \in 1..Sources : stream'[q][e].at = "end" => Emitted(q, e)'
      BY <2>4, <2>5, <2>6
    <3>7. DrainStands(q)'
      BY <1>1, <1>9, <2>7, <3>5, <3>6 DEF DrainStands, Buffering, Ordered
    <3> QED  BY <1>6, <1>7, <1>8, <3>4, <3>7 DEF Exact, NothingMissing
  <2> QED  BY <2>8, <2>9
<1>10. CASE kind[q] # "ordered_source"
  <2>1. kind[q] \in Buffering /\ f = 0
    <3>1. kind[q] \in Buffering
      BY <1>0, <1>8, <1>10 DEF Functions, Buffering, Ordered
    <3>2. FinalizeStateIds(kind[q]) = {0}
      BY <1>8, <1>10 DEF FinalizeStateIds
    <3> QED  BY <1>4, <3>1, <3>2
  <2>2. state.afterId = Cursor(q) /\ Cursor(q) \in Int
    BY <1>1, <2>1 DEF state, Cursor, InitialFinalizeState, FinalizeStates
  <2>3. Cursor(q)' = stream'[q][0].state.afterId
    BY <1>1, <2>1 DEF Cursor
  <2>4. \A r \in Rows(q, "buf") : r.id <= Cursor(q) <=> Given(q, r.batch)
    BY <1>1, <1>e, <2>1 DEF DrainStands
  <2>5. \A r \in Rows(q, "buf") : /\ r \in log /\ r.query = q /\ r.ns = "buf"
                                  /\ r.id \in Nat /\ r.batch \in Nat
    BY <1>0 DEF Rows
  <2>6. ASSUME \A r \in Rows(q, "buf") : ~ (r.id > state.afterId), out' = out,
               stream'[q][f].state = state
        PROVE  Exact(q)'
    <3>1. Cursor(q)' = Cursor(q)
      BY <2>1, <2>2, <2>3, <2>6
    <3>2. \A r \in Rows(q, "buf") : r.id <= Cursor(q)
      BY <2>2, <2>5, <2>6
    <3>3. DrainStands(q)'
      BY <1>1, <1>6, <1>d, <1>10, <2>4, <2>6, <3>1, <3>2 DEF DrainStands
    <3> QED  BY <1>6, <1>7, <1>8, <1>d, <2>6, <3>3 DEF Exact, NothingMissing
  <2>7. ASSUME NEW r \in Rows(q, "buf"), r.id > state.afterId,
               \A o \in Rows(q, "buf") : o.id > state.afterId => r.id <= o.id,
               out'[q] = Append(out[q], r.batch),
               stream'[q][f].at = "open", stream'[q][f].state.afterId = r.id
        PROVE  Exact(q)'
    <3>1. Cursor(q)' = r.id
      BY <2>1, <2>3, <2>7
    <3>2. ~Given(q, r.batch) /\ r.id \in Nat /\ r.batch \in Nat
      BY <2>2, <2>4, <2>5, <2>7
    <3>3. r.batch \in 1..Inputs[q] /\ r.batch \in All(q)
      <4>1. 1 <= r.batch /\ r.batch <= Inputs[q]
        BY <1>e, <2>5 DEF LogExact
      <4> QED  BY <1>0, <1>10, <3>2, <4>1 DEF All, Batches
    <3>4. \A s \in Rows(q, "buf") : s.batch = r.batch => s = r
      BY <1>e, <2>5 DEF LogExact
    <3>5. \A s \in Rows(q, "buf") : s.id = r.id => s = r
      BY <2>5 DEF LogStands
    <3>6. \A s \in Rows(q, "buf") : s.id <= r.id <=> s.id <= Cursor(q) \/ s = r
      <4> TAKE s \in Rows(q, "buf")
      <4>1. s.id \in Nat
        BY <2>5
      <4> QED  BY <2>2, <2>7, <3>2, <3>5, <4>1
    <3>7. \A s \in Rows(q, "buf") : s.id <= r.id <=> Given(q, s.batch)'
      BY <1>b, <2>4, <2>7, <3>2, <3>4, <3>6
    <3>8. DrainStands(q)'
      BY <1>1, <1>6, <1>10, <2>1, <2>7, <3>1, <3>7 DEF DrainStands
    <3>9. ASSUME kind[q] \in Ordered PROVE r.batch = Len(out[q]) + 1
      <4>1. \A i \in 1..Len(out[q]) : out[q][i] = i
        BY <1>e, <3>9 DEF OutStands, IsInterval
      <4>2. Len(out[q]) \in Nat
        BY <1>0
      <4>3. ~ (r.batch <= Len(out[q]))
        <5>1. r.batch <= Len(out[q]) => r.batch \in 1..Len(out[q])
          BY <3>3, <4>2
        <5> QED  BY <3>2, <4>1, <5>1 DEF Given
      <4>4. ~ (Len(out[q]) + 1 < r.batch)
        <5> SUFFICES ASSUME Len(out[q]) + 1 < r.batch PROVE FALSE
          OBVIOUS
        <5>1. Len(out[q]) + 1 \in 1..Inputs[q]
          BY <1>0, <3>3, <4>2
        <5>2. PICK s \in Rows(q, "buf") : s.batch = Len(out[q]) + 1
          <6>1. next[q] > Inputs[q]
            BY <1>1, <1>e DEF BatchesStand
          <6>2. Len(out[q]) + 1 < next[q]
            BY <1>0, <5>1, <6>1
          <6>3. \A c \in Callers(q) : call[q][c] = Idle
            BY <1>1 DEF Stands, PhaseStands
          <6>4. CASE kind[q] = "batch_index_buffer_input"
            <7>1. call[q][Main].todo = {}
              BY <6>3, Threaded, IdleFields
            <7> QED  BY <1>1, <1>e, <5>1, <6>4, <7>1 DEF Sorted, Combined, Batches
          <6>5. CASE kind[q] # "batch_index_buffer_input"
            <7>1. InputNs(kind[q]) = "buf"
              BY <3>9, <6>5 DEF InputNs, Ordered
            <7>2. \A t \in Threads[q] : call[q][t].op = "none"
              BY <6>3, Threaded, IdleFields
            <7> QED  BY <1>1, <1>e, <1>10, <5>1, <6>2, <7>1, <7>2 DEF Sunk
          <6> QED  BY <6>4, <6>5
        <5>3. ~Given(q, s.batch)
          <6>1. ASSUME NEW i \in 1..Len(out[q]) PROVE out[q][i] # Len(out[q]) + 1
            BY <4>1, <4>2
          <6> QED  BY <5>2, <6>1 DEF Given
        <5>4. r.id <= s.id /\ s # r
          BY <2>2, <2>4, <2>5, <2>7, <5>2, <5>3
        <5>5. r.id < s.id
          BY <2>5, <3>2, <3>5, <5>4
        <5>6. r.batch < s.batch
          BY <1>e, <3>9, <5>5 DEF LogExact
        <5> QED  BY <2>5, <4>2, <5>2, <5>6
      <4> QED  BY <3>2, <4>2, <4>3, <4>4
    <3>10. OutStands(q)'
      BY <1>c, <1>10, <2>7, <3>2, <3>3, <3>9
    <3> QED  BY <1>6, <1>7, <1>8, <3>8, <3>10 DEF Exact, NothingMissing
  <2> QED  BY <1>3, <1>10, <2>6, <2>7
<1> QED  BY <1>9, <1>10

LEMMA WorkerExact ==
    ASSUME TypeOK, LogStands, NEW q \in Queries, Stands(q), Exact(q), Worker(q)
    PROVE  Exact(q)'
<1> HIDE DEF Callers, Calls, Idle, FinalizeIds, Phases
<1> USE IdleFields, Threaded
<1>0. /\ phase \in [Queries -> Phases] /\ kind \in [Queries -> Functions]
      /\ Inputs[q] \in Nat /\ next[q] \in Nat /\ 1 <= next[q] /\ lastId \in Nat
      /\ \A r \in log : r.id \in Nat /\ r.batch \in Nat
  BY Typed
<1>k. \A c \in Callers(q) :
         /\ call[q][c].op \in {"none", "init", "process", "combine"}
         /\ call[q][c].at \in {"idle", "sent", "loaded", "writing", "answer", "refused"}
         /\ call[q][c].batch \in Nat /\ call[q][c].todo \subseteq Nat
  BY Typed
<1>e. /\ BatchesStand(q) /\ LogExact(q) /\ RunStands(q) /\ Sunk(q) /\ Sorted(q) /\ Written(q)
      /\ StreamsStand(q) /\ DrainStands(q) /\ OutStands(q)
  BY DEF Exact, NothingMissing
<1>p. PhaseStands(q) /\ CallsStand(q) /\ RowsStand(q)
  BY DEF Stands
<1>s. ASSUME Still(q), phase'[q] \notin {"drain", "done"} \/ phase'[q] = phase[q],
             BatchesStand(q)', RunStands(q)', Sunk(q)', Sorted(q)', Written(q)', StreamsStand(q)'
      PROVE  Exact(q)'
  BY <1>s, StillStands DEF Exact, NothingMissing
<1>b. \* A busy query is not drained.
      ASSUME NEW c \in Callers(q), call[q][c] # Idle
      PROVE  phase[q] \notin {"new", "drain", "done"}
  BY <1>b, <1>e, <1>p DEF PhaseStands, BatchesStand
<1>c. \* combine() runs when the engine is combining, or is through.
      ASSUME NEW c \in Callers(q), call[q][c].op = "combine"
      PROVE  /\ c = Main /\ phase[q] \notin {"new", "init", "sink", "drain", "done"}
             /\ \A t \in Threads[q] : call[q][t].op = "none"
  <2>1. c = Main /\ \A t \in Threads[q] : call[q][t] = Idle
    BY <1>c, <1>p DEF CallsStand
  <2>2. phase[q] \notin {"new", "drain", "done"}
    BY <1>b, <1>c
  <2>3. phase[q] \notin {"init", "sink"}
    BY <1>c, <1>p, <2>1 DEF PhaseStands
  <2> QED  BY <2>1, <2>2, <2>3
<1> USE DEF Early
<1>1. ASSUME NEW c \in Callers(q), GlobalInit(q, c) PROVE Exact(q)'
  <2>1. /\ call[q][c].op = "init" /\ call[q][c].at = "sent" /\ Still(q)
        /\ phase'[q] = phase[q] /\ next'[q] = next[q] /\ kind'[q] = kind[q] /\ fids' = fids
        /\ Advance(q, c, "answer")
    BY <1>1 DEF GlobalInit, Still
  <2>2. /\ call'[q][c].op = "init" /\ call'[q][c].at = "answer"
        /\ call'[q][c].todo = call[q][c].todo /\ call'[q][c].batch = call[q][c].batch
        /\ \A d \in Callers(q) : d # c => call'[q][d] = call[q][d]
    BY <2>1, CallMoves
  <2>3. phase[q] \notin {"new", "drain", "done"}
    BY <1>b, <2>1
  <2>4. BatchesStand(q)'
    BY <1>e, <2>1, <2>2, <2>3 DEF BatchesStand
  <2>5. RunStands(q)'
    BY <1>e, <2>1, <2>2, StillStands DEF RunStands, Unsorted
  <2>6. Sunk(q)'
    BY <1>e, <2>1, <2>2, StillStands DEF Sunk
  <2>7. Sorted(q)' /\ Written(q)'
    <3>1. phase[q] = "combine" => c # Main
      BY <1>p, <2>1 DEF PhaseStands
    <3> QED  BY <1>e, <2>1, <2>2, <2>3, <3>1, StillStands DEF Sorted, Written, Combined, Batches
  <2>8. StreamsStand(q)'
    BY <1>e, <2>1 DEF StreamsStand, Still
  <2> QED  BY <1>s, <2>1, <2>4, <2>5, <2>6, <2>7, <2>8
<1>2. ASSUME NEW c \in Callers(q), LoadParams(q, c) PROVE Exact(q)'
  <2> DEFINE at == IF known[q] THEN "loaded" ELSE "refused"
  <2>1. /\ call[q][c].op \in {"process", "combine"} /\ call[q][c].at = "sent" /\ Still(q)
        /\ phase'[q] = phase[q] /\ next'[q] = next[q] /\ kind'[q] = kind[q] /\ fids' = fids
        /\ Advance(q, c, at) /\ at \in {"loaded", "refused"}
    BY <1>2 DEF LoadParams, Still
  <2>2. /\ call'[q][c].op = call[q][c].op /\ call'[q][c].at = at
        /\ call'[q][c].todo = call[q][c].todo /\ call'[q][c].batch = call[q][c].batch
        /\ \A d \in Callers(q) : d # c => call'[q][d] = call[q][d]
    BY <2>1, CallMoves
  <2>3. phase[q] \notin {"new", "drain", "done"}
    BY <1>b, <2>1
  <2>4. phase[q] \in {"init", "sink", "combine"} => at = "loaded"
    <3>1. phase[q] # "init"
      BY <1>p, <2>1 DEF PhaseStands
    <3> QED  BY <1>p, <3>1 DEF PhaseStands
  <2> HIDE DEF at
  <2>5. BatchesStand(q)'
    BY <1>e, <2>1, <2>2, <2>3 DEF BatchesStand
  <2>6. RunStands(q)'
    <3>1. Unsorted(q)' => Unsorted(q)
      BY <2>1, <2>2 DEF Unsorted
    <3>2. call'[q][Main].todo = call[q][Main].todo
      BY <2>2
    <3> QED  BY <1>e, <2>1, <3>1, <3>2, StillStands DEF RunStands
  <2>7. Sunk(q)'
    BY <1>e, <2>1, <2>2, <2>3, <2>4, StillStands DEF Sunk
  <2>8. Sorted(q)' /\ Written(q)'
    BY <1>e, <2>1, <2>2, <2>3, StillStands DEF Sorted, Written, Combined, Batches
  <2>9. StreamsStand(q)'
    BY <1>e, <2>1 DEF StreamsStand, Still
  <2> QED  BY <1>s, <2>1, <2>5, <2>6, <2>7, <2>8, <2>9
<1>3. ASSUME NEW c \in Callers(q), Process(q, c) PROVE Exact(q)'
  <2>a. InputNs(kind[q]) \in {"buf", "unsorted", "shard"} /\ call[q][c].batch \in Nat
    BY <1>k DEF InputNs
  <2>5. PICK b \in Nat, ns \in {"buf", "unsorted", "shard"} :
          b = call[q][c].batch /\ ns = InputNs(kind[q])
    BY <2>a
  <2>1. /\ call[q][c].op = "process" /\ call[q][c].at = "loaded"
        /\ UNCHANGED <<phase, next, kind, out, stream, fids>>
        /\ Advance(q, c, "answer")
    BY <1>3 DEF Process
  <2>2. /\ call'[q][c].op = "process" /\ call'[q][c].at = "answer"
        /\ call'[q][c].todo = call[q][c].todo /\ call'[q][c].batch = b
        /\ \A d \in Callers(q) : d # c => call'[q][d] = call[q][d]
    BY <2>1, <2>5, CallMoves
  <2>3. phase[q] \notin {"new", "drain", "done"}
    BY <1>b, <2>1
  <2>4. /\ c \in Threads[q] /\ c # Main
        /\ b \in Nat /\ 1 <= b /\ b < next[q] /\ b <= Inputs[q]
        /\ kind[q] = "ordered_buffer_input" => b + 1 = next[q]
    <3>1. c \in Threads[q] /\ b < next[q]
      BY <1>p, <2>1, <2>5 DEF CallsStand
    <3>2. b \in Nat /\ 1 <= b /\ next[q] <= Inputs[q] + 1
          /\ (kind[q] = "ordered_buffer_input" => b + 1 = next[q])
      BY <1>e, <2>1, <2>5 DEF BatchesStand
    <3> QED  BY <1>0, <3>1, <3>2
  <2>6. kind[q] # "ordered_source" => StateAppend(q, ns, b)
    BY <1>3, <2>5 DEF Process
  <2>7. kind[q] = "ordered_source" => log' = log
    BY <1>3 DEF Process
  <2>8. kind[q] # "ordered_source" =>
           \E r : /\ r.query = q /\ r.ns = ns /\ r.batch = b
                  /\ Rows(q, ns)' = Rows(q, ns) \cup {r}
                  /\ \A m : m # ns => Rows(q, m)' = Rows(q, m)
    <3>1. ASSUME kind[q] # "ordered_source"
          PROVE  LET r == [id |-> lastId + 1, query |-> q, ns |-> ns, batch |-> b]
                 IN  /\ Rows(q, ns)' = Rows(q, ns) \cup {r}
                     /\ \A m : m # ns => Rows(q, m)' = Rows(q, m)
                     /\ r.query = q /\ r.ns = ns /\ r.batch = b
      <4> DEFINE r == [id |-> lastId + 1, query |-> q, ns |-> ns, batch |-> b]
      <4>1. StateAppend(q, ns, b)
        BY <2>6, <3>1
      <4>2. Rows(q, ns)' = Rows(q, ns) \cup {r} /\ \A m : m # ns => Rows(q, m)' = Rows(q, m)
        BY <1>0, <4>1, GrowsStands
      <4>3. r.query = q /\ r.ns = ns /\ r.batch = b
        OBVIOUS
      <4> HIDE DEF r
      <4> QED  BY <4>2, <4>3 DEF r
    <3> QED  BY <3>1
  <2>9. \A m : Rows(q, m) \subseteq Rows(q, m)'
    BY <2>7, <2>8 DEF Rows
  <2>10. kind[q] = "batch_index_buffer_input" => ns = "unsorted" /\ Rows(q, "buf")' = Rows(q, "buf")
    <3>1. kind[q] = "batch_index_buffer_input" => ns = "unsorted"
      BY <2>5 DEF InputNs
    <3> QED  BY <2>8, <3>1
  <2>11. LogExact(q)'
    <3>1. CASE kind[q] = "ordered_source"
      BY <1>e, <2>1, <2>7, <3>1 DEF LogExact, Rows
    <3>2. CASE kind[q] # "ordered_source"
      <4>1. \A r \in Rows(q, ns) : r.batch # b /\ r.batch < next[q] /\ r.batch \in Nat
        BY <1>0, <1>p, <2>1, <2>4, <2>5 DEF RowsStand, Rows
      <4>2. kind[q] \in Ordered /\ ns = "buf" => \A r \in Rows(q, "buf") : r.batch < b
        <5> SUFFICES ASSUME kind[q] \in Ordered, ns = "buf", NEW r \in Rows(q, "buf") PROVE r.batch < b
          OBVIOUS
        <5>1. b + 1 = next[q]
          BY <2>4, <2>10 DEF Ordered
        <5>2. r.batch # b /\ r.batch < next[q] /\ r.batch \in Nat
          BY <4>1
        <5> QED  BY <2>4, <5>1, <5>2
      <4>3. kind' = kind /\ ns = InputNs(kind[q])
        BY <2>1, <2>5
      <4>4. \A r \in Rows(q, ns) : r.batch # b
        BY <4>1
      <4>5. StateAppend(q, ns, b)
        BY <2>6, <3>2
      <4> QED  BY <1>e, <2>4, <2>5, <3>2, <4>2, <4>3, <4>4, <4>5, AppendExact
    <3> QED  BY <3>1, <3>2
  <2>12. BatchesStand(q)'
    BY <1>e, <2>1, <2>2, <2>3, <2>5 DEF BatchesStand
  <2>13. RunStands(q)'
    BY <1>e, <2>1, <2>2, <2>4, <2>10 DEF RunStands, Unsorted
  <2>14. Sunk(q)'
    <3> SUFFICES ASSUME kind[q] # "ordered_source", phase[q] \in {"new", "init", "sink", "combine", "drain"},
                        NEW a \in 1..Inputs[q], a < next[q]
                 PROVE  \/ \E t \in Threads[q] : /\ call'[q][t].op = "process"
                                                 /\ call'[q][t].at \in {"sent", "loaded"}
                                                 /\ call'[q][t].batch = a
                        \/ \E r \in Rows(q, ns)' : r.batch = a
      BY <2>1, <2>5 DEF Sunk
    <3>1. CASE a = b
      BY <2>8, <3>1
    <3>2. CASE a # b
      <4>1. \/ \E t \in Threads[q] : /\ call[q][t].op = "process" /\ call[q][t].at \in {"sent", "loaded"}
                                     /\ call[q][t].batch = a
            \/ \E r \in Rows(q, ns) : r.batch = a
        BY <1>e, <2>5 DEF Sunk
      <4>2. ASSUME NEW t \in Threads[q], call[q][t].batch = a PROVE call'[q][t] = call[q][t]
        BY <2>2, <2>5, <3>2, <4>2
      <4>3. CASE \E r \in Rows(q, ns) : r.batch = a
        BY <2>9, <4>3
      <4>4. CASE \E t \in Threads[q] : /\ call[q][t].op = "process" /\ call[q][t].at \in {"sent", "loaded"}
                                       /\ call[q][t].batch = a
        BY <4>2, <4>4
      <4> QED  BY <4>1, <4>3, <4>4
    <3> QED  BY <3>1, <3>2
  <2>15. Sorted(q)'
    BY <1>e, <2>1, <2>2, <2>3, <2>4, <2>9 DEF Sorted, Combined, Batches
  <2>16. Written(q)' /\ OutStands(q)'
    BY <1>e, <2>1, <2>2, <2>3, <2>4 DEF Written, Combined, Batches, Given, OutStands, All
  <2>17. StreamsStand(q)' /\ DrainStands(q)'
    BY <1>e, <2>1, <2>3 DEF StreamsStand, DrainStands
  <2> QED  BY <2>11, <2>12, <2>13, <2>14, <2>15, <2>16, <2>17 DEF Exact, NothingMissing
<1>4. ASSUME NEW c \in Callers(q), Combine(q, c) PROVE Exact(q)'
  <2>1. /\ call[q][c].op = "combine" /\ call[q][c].at = "loaded"
        /\ UNCHANGED <<kind, phase, next, log, stream, fids>>
    BY <1>4, Zenon DEF Combine
  <2>2. /\ c = Main /\ phase[q] \notin {"new", "init", "sink", "drain", "done"}
        /\ \A t \in Threads[q] : call[q][t].op = "none"
    BY <1>c, <2>1
  <2>t. call[q][Main].todo = {}
    BY <1>e, <2>1, <2>2 DEF BatchesStand
  <2>3. \/ /\ kind[q] = "batch_index_buffer_input" /\ out' = out
           /\ \E run : /\ run = {r.batch : r \in Rows(q, "unsorted")}
                       /\ call'[q][Main].todo = run
                       /\ call'[q][Main].at = IF run = {} THEN "answer" ELSE "writing"
        \/ /\ kind[q] # "batch_index_buffer_input" /\ (kind[q] # "lines_writer" => out' = out)
           /\ call'[q][Main].todo = {} /\ call'[q][Main].at = "answer"
    <3>1. CASE kind[q] = "batch_index_buffer_input"
      <4> DEFINE scan == {r.batch : r \in StateLogScan(q, "unsorted", -1)}
                 at == IF scan = {} THEN "answer" ELSE "writing"
                 k == [call[q][c] EXCEPT !.at = at, !.todo = scan]
      <4>1. call' = [call EXCEPT ![q][c] = k] /\ out' = out
        BY <1>4, <3>1 DEF Combine
      <4>2. StateLogScan(q, "unsorted", -1) = Rows(q, "unsorted")
        BY <1>0 DEF StateLogScan, Rows
      <4>3. call[q][c] \in Calls /\ DOMAIN call = Queries /\ call[q] \in [Callers(q) -> Calls]
        BY DEF TypeOK
      <4>4. k.todo = scan /\ k.at = at
        BY <4>3 DEF Calls
      <4> HIDE DEF scan, at, k
      <4>5. call'[q][c] = k
        BY <4>1, <4>3
      <4>6. scan = {r.batch : r \in Rows(q, "unsorted")}
        BY <4>2 DEF scan
      <4> QED  BY <2>2, <3>1, <4>1, <4>4, <4>5, <4>6 DEF at
    <3>2. CASE kind[q] # "batch_index_buffer_input"
      <4>1. Advance(q, c, "answer") /\ (kind[q] # "lines_writer" => out' = out)
        BY <1>4, <3>2 DEF Combine
      <4> QED  BY <2>2, <2>t, <3>2, <4>1, CallMoves
    <3> QED  BY <3>1, <3>2
  <2>4. /\ call'[q][Main].op = "combine"
        /\ \A d \in Callers(q) : d # Main => call'[q][d] = call[q][d]
    <3>1. CASE kind[q] = "batch_index_buffer_input"
      <4> DEFINE scan == {r.batch : r \in StateLogScan(q, "unsorted", -1)}
                 at == IF scan = {} THEN "answer" ELSE "writing"
                 k == [call[q][c] EXCEPT !.at = at, !.todo = scan]
      <4>1. call' = [call EXCEPT ![q][c] = k]
        BY <1>4, <3>1 DEF Combine
      <4>2. call[q][c] \in Calls /\ DOMAIN call = Queries /\ call[q] \in [Callers(q) -> Calls]
        BY DEF TypeOK
      <4>3. k.op = call[q][c].op
        BY <4>2 DEF Calls
      <4> HIDE DEF scan, at, k
      <4>4. call'[q][c] = k /\ \A d \in Callers(q) : d # c => call'[q][d] = call[q][d]
        BY <4>1, <4>2
      <4> QED  BY <2>1, <2>2, <4>3, <4>4
    <3>2. CASE kind[q] # "batch_index_buffer_input"
      <4>1. Advance(q, c, "answer")
        BY <1>4, <3>2 DEF Combine
      <4> QED  BY <2>1, <2>2, <4>1, CallMoves
    <3> QED  BY <3>1, <3>2
  <2>5. /\ \A ns : Rows(q, ns)' = Rows(q, ns)
        /\ LogExact(q)'
    BY <1>e, <2>1 DEF LogExact, Rows
  <2>6. BatchesStand(q)'
    <3>1. /\ call'[q][Main].at # "writing" => call'[q][Main].todo = {}
          /\ call'[q][Main].at = "writing" => kind[q] = "batch_index_buffer_input"
      BY <2>3
    <3> QED  BY <1>e, <2>1, <2>2, <2>4, <3>1 DEF BatchesStand
  <2>7. RunStands(q)'
    <3>1. kind[q] = "batch_index_buffer_input" => Rows(q, "buf") = {}
      BY <1>e, <2>1, <2>2 DEF RunStands, Unsorted
    <3>2. \A r \in Rows(q, "unsorted") : 1 <= r.batch /\ r.batch <= Inputs[q]
      BY <1>e DEF LogExact, Rows
    <3> QED  BY <2>1, <2>3, <2>5, <3>1, <3>2 DEF RunStands
  <2>8. Sunk(q)'
    BY <1>e, <2>1, <2>2, <2>4, <2>5 DEF Sunk
  <2>9. Sorted(q)'
    <3>1. ASSUME kind[q] = "batch_index_buffer_input", phase[q] = "combine", NEW b \in Batches(q)
          PROVE  \E r \in Rows(q, "unsorted") : r.batch = b
      <4>1. b \in 1..Inputs[q] /\ b < next[q]
        <5>1. next[q] > Inputs[q]
          BY <1>e, <3>1 DEF BatchesStand
        <5> QED  BY <1>0, <5>1 DEF Batches
      <4> QED  BY <1>e, <2>2, <3>1, <4>1 DEF Sunk, InputNs
    <3> QED  BY <2>1, <2>2, <2>3, <3>1 DEF Sorted, Combined, Batches
  <2>10. Written(q)' /\ OutStands(q)'
    <3>1. CASE kind[q] = "lines_writer"
      <4>1. /\ NoneTwice(out'[q])
            /\ \A i \in 1..Len(out'[q]) : out'[q][i] \in Batches(q)
            /\ phase[q] = "combine" => \A b \in Batches(q) : Given(q, b)'
        BY <1>4, <3>1, WriterExact
      <4>2. OutStands(q)'
        BY <2>1, <2>2, <3>1, <4>1 DEF OutStands, All, Batches, Ordered
      <4>3. Written(q)'
        BY <2>1, <2>2, <4>1 DEF Written, Combined, Batches
      <4> QED  BY <4>2, <4>3
    <3>2. CASE kind[q] # "lines_writer"
      <4>1. out' = out
        BY <2>3, <3>2
      <4> QED  BY <1>e, <2>1, <3>2, <4>1 DEF Written, OutStands, All, Batches, Given
    <3> QED  BY <3>1, <3>2
  <2>11. StreamsStand(q)' /\ DrainStands(q)'
    <3>1. kind[q] # "lines_writer" => out' = out
      BY <2>3
    <3> QED  BY <1>e, <2>1, <2>2, <3>1 DEF StreamsStand, DrainStands
  <2> QED  BY <2>5, <2>6, <2>7, <2>8, <2>9, <2>10, <2>11 DEF Exact, NothingMissing
<1>5. ASSUME NEW c \in Callers(q), AppendSorted(q, c) PROVE Exact(q)'
  <2>1. /\ call[q][c].at = "writing"
        /\ UNCHANGED <<kind, phase, next, out, stream, fids>>
    BY <1>5, Zenon DEF AppendSorted
  <2>2. kind[q] = "batch_index_buffer_input" /\ call[q][c].op = "combine"
    BY <1>e, <1>p, <2>1 DEF BatchesStand, CallsStand
  <2>3. /\ c = Main /\ phase[q] \notin {"new", "init", "sink", "drain", "done"}
        /\ \A t \in Threads[q] : call[q][t].op = "none"
    BY <1>c, <2>2
  <2>4. PICK b \in call[q][c].todo :
          /\ \A o \in call[q][c].todo : b <= o
          /\ StateAppend(q, "buf", b)
          /\ LET todo == call[q][c].todo \ {b}
             IN  call' = [call EXCEPT ![q][c] =
                             [@ EXCEPT !.at = IF todo = {} THEN "answer" ELSE "writing",
                                       !.todo = todo]]
    BY <1>5, Zenon DEF AppendSorted
  <2> DEFINE todo == call[q][c].todo \ {b}
             at == IF todo = {} THEN "answer" ELSE "writing"
             k == [call[q][c] EXCEPT !.at = at, !.todo = todo]
  <2>5. call[q][c] \in Calls /\ DOMAIN call = Queries /\ call[q] \in [Callers(q) -> Calls]
    BY DEF TypeOK
  <2>6. k.todo = todo /\ k.at = at /\ k.op = "combine"
    BY <2>2, <2>5 DEF Calls
  <2>7. call' = [call EXCEPT ![q][c] = k]
    BY <2>4
  <2> HIDE DEF k
  <2>8. call'[q][c] = k /\ \A d \in Callers(q) : d # c => call'[q][d] = call[q][d]
    BY <2>5, <2>7
  <2>9. /\ b \in Nat /\ 1 <= b /\ b <= Inputs[q]
        /\ \A r \in Rows(q, "buf") : r.batch < b
        /\ \A o \in todo : b < o
    <3>1. call[q][c].todo \subseteq Nat
      BY <1>k
    <3>2. \A o \in todo : b <= o /\ b # o /\ o \in Nat
      BY <2>4, <3>1
    <3>3. b \in Nat
      BY <3>1
    <3>4. \A o \in todo : b < o
      <4> HIDE DEF todo
      <4> QED  BY <3>2, <3>3
    <3>5. /\ 1 <= b /\ b <= Inputs[q]
          /\ \A r \in Rows(q, "buf") : r.batch < b
      BY <1>e, <2>2, <2>3 DEF RunStands
    <3> QED  BY <3>3, <3>4, <3>5
  <2>10. \E r : /\ r.batch = b
                /\ Rows(q, "buf")' = Rows(q, "buf") \cup {r}
                /\ \A m : m # "buf" => Rows(q, m)' = Rows(q, m)
    <3>1. LET r == [id |-> lastId + 1, query |-> q, ns |-> "buf", batch |-> b]
          IN  /\ Rows(q, "buf")' = Rows(q, "buf") \cup {r}
              /\ \A m : m # "buf" => Rows(q, m)' = Rows(q, m)
              /\ r.batch = b
      BY <1>0, <2>4, GrowsStands
    <3> QED  BY <3>1
  <2>11. LogExact(q)'
    <3>1. \A r \in Rows(q, "buf") : r.batch # b
      <4>1. \A r \in Rows(q, "buf") : r.batch \in Nat
        BY <1>0 DEF Rows
      <4> QED  BY <2>9, <4>1
    <3>2. kind' = kind /\ kind[q] # "ordered_source"
      BY <2>1, <2>2
    <3>3. StateAppend(q, "buf", b) /\ "buf" \in {"buf", "unsorted", "shard"}
      BY <2>4
    <3> QED  BY <1>e, <2>2, <2>9, <3>1, <3>2, <3>3, AppendExact
  <2>12. BatchesStand(q)'
    <3>1. at # "writing" => todo = {}
      OBVIOUS
    <3> HIDE DEF at, todo
    <3> QED  BY <1>e, <2>1, <2>2, <2>3, <2>6, <2>8, <3>1 DEF BatchesStand
  <2>13. RunStands(q)'
    <3>1. ~Unsorted(q)'
      <4>1. at \in {"answer", "writing"}
        OBVIOUS
      <4> HIDE DEF at, todo
      <4> QED  BY <2>1, <2>3, <2>6, <2>8, <4>1 DEF Unsorted
    <3>2. call'[q][Main].todo = todo /\ todo \subseteq call[q][Main].todo
      BY <2>3, <2>6, <2>8
    <3> HIDE DEF at, todo
    <3>3. \A r \in Rows(q, "buf")', o \in todo : r.batch < o
      BY <1>e, <2>2, <2>9, <2>10, <3>2 DEF RunStands
    <3>4. \A o \in todo : 1 <= o /\ o <= Inputs[q]
      BY <1>e, <2>2, <3>2 DEF RunStands
    <3> QED  BY <3>1, <3>2, <3>3, <3>4 DEF RunStands
  <2>14. Sunk(q)'
    <3>1. InputNs(kind[q]) # "buf"
      BY <2>2 DEF InputNs
    <3> HIDE DEF at, todo
    <3> QED  BY <1>e, <2>1, <2>3, <2>8, <2>10, <3>1 DEF Sunk
  <2>15. Sorted(q)'
    <3> SUFFICES ASSUME phase[q] = "combine", NEW a \in Batches(q)
                 PROVE  a \in todo \/ \E r \in Rows(q, "buf")' : r.batch = a
      <4> HIDE DEF at, todo
      <4> QED  BY <2>1, <2>3, <2>6, <2>8 DEF Sorted, Combined, Batches
    <3>1. a \in call[q][Main].todo \/ \E r \in Rows(q, "buf") : r.batch = a
      BY <1>e, <2>1, <2>2, <2>3 DEF Sorted, Combined
    <3> QED  BY <2>3, <2>10, <3>1
  <2>16. Written(q)' /\ OutStands(q)' /\ StreamsStand(q)' /\ DrainStands(q)'
    <3> HIDE DEF at, todo
    <3> QED  BY <1>e, <2>1, <2>2, <2>3
             DEF Written, OutStands, All, Batches, Given, StreamsStand, DrainStands
  <2> QED  BY <2>11, <2>12, <2>13, <2>14, <2>15, <2>16 DEF Exact, NothingMissing
<1>6. ASSUME NEW f \in FinalizeIds, Tick(q, f) PROVE Exact(q)'
  BY <1>6, TickExact
<1>7. ASSUME ClearState(q) \/ ClearLog(q) \/ ClearFails(q) PROVE Exact(q)'
  <2>1. /\ phase[q] \in {"done", "failed", "clearing"} /\ phase'[q] \in {"clearing", "gone"}
        /\ log' \subseteq log
        /\ kind' = kind /\ next' = next /\ call' = call /\ stream' = stream /\ fids' = fids /\ out' = out
    BY <1>0, <1>7 DEF ClearState, ClearLog, ClearFails
  <2>2. \A ns : Rows(q, ns)' \subseteq Rows(q, ns)
    BY <2>1 DEF Rows
  <2>3. LogExact(q)'
    BY <1>e, <2>1, <2>2 DEF LogExact
  <2>4. BatchesStand(q)'
    BY <1>e, <2>1 DEF BatchesStand
  <2>5. RunStands(q)'
    BY <1>e, <2>1, <2>2 DEF RunStands, Unsorted
  <2>6. Sunk(q)' /\ Sorted(q)' /\ Written(q)' /\ DrainStands(q)'
    BY <2>1 DEF Sunk, Sorted, Written, Combined, DrainStands
  <2>7. StreamsStand(q)' /\ OutStands(q)'
    BY <1>e, <2>1 DEF StreamsStand, OutStands, All, Batches, Given
  <2> QED  BY <2>3, <2>4, <2>5, <2>6, <2>7 DEF Exact, NothingMissing
<1> QED  BY <1>1, <1>2, <1>3, <1>4, <1>5, <1>6, <1>7 DEF Worker

LEMMA ExactStep ==
    /\ TypeOK /\ (\A q \in Queries : Stands(q)) /\ LogStands /\ (\A q \in Queries : Exact(q))
    /\ [Next]_vars
    => (\A q \in Queries : Exact(q))'
<1> SUFFICES ASSUME TypeOK, \A q \in Queries : Stands(q), LogStands, \A q \in Queries : Exact(q),
                    [Next]_vars, NEW p \in Queries
             PROVE  Exact(p)'
  OBVIOUS
<1>1. ASSUME NEW q \in Queries, Engine(q) \/ Worker(q), p # q PROVE Exact(p)'
  BY <1>1, ExactElsewhere
<1>2. ASSUME Engine(p) \/ Worker(p) PROVE Exact(p)'
  BY <1>2, EngineExact, WorkerExact
<1>3. CASE UNCHANGED vars
  BY <1>3 DEF vars, Exact, BatchesStand, LogExact, RunStands, NothingMissing, Sunk, Sorted, Written,
              StreamsStand, DrainStands, OutStands, Rows, Given, All, Batches, Combined, Unsorted, Cursor,
              Emitted
<1> QED  BY <1>1, <1>2, <1>3 DEF Next

LEMMA ExactInit == Init => LogStands /\ \A q \in Queries : Exact(q)
<1> HIDE DEF Callers, Idle, Calls, FinalizeIds
<1> USE IdleFields, Threaded
<1> SUFFICES ASSUME Init, NEW q \in Queries PROVE LogStands /\ Exact(q)
  BY DEF Init, LogStands
<1>1. /\ phase[q] = "new" /\ next[q] = 1 /\ log = {} /\ fids[q] = {} /\ out[q] = <<>>
      /\ \A c \in Callers(q) : call[q][c] = Idle
      /\ \A f \in FinalizeIds : stream[q][f].at = "new" /\ stream[q][f].state = Uninit
      /\ Inputs[q] \in Nat
  BY BufferingAssumption DEF Init
<1>2. Len(out[q]) = 0 /\ \A ns : Rows(q, ns) = {}
  BY <1>1 DEF Rows
<1>3. LogStands /\ LogExact(q) /\ RunStands(q)
  BY <1>1, <1>2 DEF LogStands, LogExact, RunStands
<1>4. BatchesStand(q)
  BY <1>1 DEF BatchesStand
<1>5. NothingMissing(q) /\ DrainStands(q)
  BY <1>1 DEF NothingMissing, Sunk, Sorted, Written, Combined, DrainStands
<1>6. StreamsStand(q)
  BY <1>1 DEF StreamsStand
<1>7. OutStands(q)
  BY <1>1, <1>2 DEF OutStands, NoneTwice, IsInterval
<1> QED  BY <1>3, <1>4, <1>5, <1>6, <1>7 DEF Exact

\* A sequence that has each of the first n numbers once has n elements.
LEMMA AllOnce ==
    ASSUME NEW n \in Nat, NEW s \in Seq(Nat), NoneTwice(s),
           \A i \in 1..Len(s) : s[i] \in 1..n,
           \A b \in 1..n : \E i \in 1..Len(s) : s[i] = b
    PROVE  Len(s) = Cardinality(1..n)
<1>1. Len(s) \in Nat /\ DOMAIN s = 1..Len(s) /\ s = [i \in 1..Len(s) |-> s[i]]
  OBVIOUS
<1>2. s \in [1..Len(s) -> 1..n]
  BY <1>1
<1>3. s \in Surjection(1..Len(s), 1..n)
  BY <1>2 DEF Surjection
<1>4. s \in Injection(1..Len(s), 1..n)
  BY <1>2 DEF Injection, IsInjective, NoneTwice
<1>5. IsFiniteSet(1..Len(s)) /\ Cardinality(1..Len(s)) = Len(s)
  <2> DEFINE m == Len(s)
  <2>1. m \in Nat
    BY <1>1
  <2> HIDE DEF m
  <2>2. IsFiniteSet(1..m) /\ Cardinality(1..m) = IF 1 > m THEN 0 ELSE m - 1 + 1
    BY <2>1, FS_Interval
  <2>3. IsFiniteSet(1..m) /\ Cardinality(1..m) = m
    BY <2>1, <2>2
  <2> QED  BY <2>3 DEF m
<1>6. Cardinality(1..n) = Cardinality(1..Len(s))
  BY <1>3, <1>4, <1>5, FS_Surjection
<1> QED  BY <1>5, <1>6

\* No batch of a query is lost, doubled, put out of the order its function
\* promises or mixed with another query's, over either transport, whatever
\* processes serve the calls and whatever the destructors of other queries
\* delete (process, combine, finalize streams, copy-to.ts).
THEOREM OutputCorrect == Spec => []OutputExact
<1>1. TypeOK /\ (\A q \in Queries : Exact(q)) => OutputExact
  <2> SUFFICES ASSUME TypeOK, NEW q \in Queries, Exact(q)
               PROVE  LET all == IF kind[q] = "ordered_source" THEN 1..Sources ELSE Batches(q)
                      IN  /\ NoneTwice(out[q])
                          /\ \A i \in 1..Len(out[q]) : out[q][i] \in all
                          /\ kind[q] \in {"ordered_buffer_input", "batch_index_buffer_input", "ordered_source"}
                                => IsInterval(out[q])
                          /\ phase[q] = "done" => Len(out[q]) = Cardinality(all)
    BY DEF OutputExact
  <2> HIDE DEF Callers, Idle, Calls, FinalizeIds, Phases, Live
  <2>1. OutStands(q) /\ out[q] \in Seq(Nat) /\ Inputs[q] \in Nat /\ Sources \in Nat
    BY Typed, BufferingAssumption DEF Exact
  <2>2. \E n \in Nat : All(q) = 1..n
    BY <2>1 DEF All, Batches
  <2>3. phase[q] = "done" => Len(out[q]) = Cardinality(All(q))
    BY <2>1, <2>2, AllOnce DEF OutStands, Given
  <2> QED  BY <2>1, <2>3 DEF OutStands, All, Ordered
<1>2. TypeOK /\ LogStands /\ [Next]_vars => LogStands'
  BY LogStandsStep
<1> QED  BY <1>1, <1>2, ExactInit, ExactStep, StandsInvariant, TypeCorrect, PTL DEF Spec

=============================================================================
