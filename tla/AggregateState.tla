--------------------------- MODULE AggregateState ---------------------------
(***************************************************************************)
(* One execution of an aggregate function over pooled worker processes     *)
(* (functions/aggregate.ts, protocol/handlers/aggregate.ts).               *)
(*                                                                         *)
(* The engine's threads sink batches into groups of their own, merge them  *)
(* into the groups of the result, ask for those and drop them all.  Each   *)
(* call may reach any process.  The process reads the groups the call      *)
(* names from one file each, acts on its memory, and writes the groups it  *)
(* changed back, file by file; files of calls in other processes change in *)
(* between.  A process serves one call at a time: the handlers never await.*)
(*                                                                         *)
(* The engine is not in this repository.  Taken from it: a group is named  *)
(* by one call at a time, and a failed call ends the query, whose groups   *)
(* are then dropped.                                                       *)
(***************************************************************************)
EXTENDS AggregateFold, FiniteSets

CONSTANTS
    Threads,     \* the engine's sinks
    Main,        \* the actor that asks for the result
    Keys,        \* the GROUP BY keys
    Shapes,      \* bound: the batches a sink sends, by key and NULL-ness
    MaxBatches,  \* bound: how many batches a sink sends
    Workers,     \* processes of the pool
    NoJob

ASSUME ActorsAssumption == Main \notin Threads
ASSUME KeysAssumption == IsFiniteSet(Keys)
ASSUME BoundAssumption == MaxBatches \in Nat \ {0}
ASSUME ShapesAssumption == \A s \in Shapes : s # <<>> /\ \A i \in DOMAIN s :
    /\ s[i].key \in Keys /\ s[i].skipped \in BOOLEAN
    /\ \A j \in DOMAIN s : s[i].key = s[j].key => i = j

Actors == Threads \cup {Main}
Gids == Actors \X Keys
GidsOfActor(a) == {a} \X Keys
RowIds == Threads \X (1..MaxBatches) \X Keys

ASSUME NoStateAssumption == \A R \in SUBSET RowIds : SetToBag(R) # NoState

\* The n-th batch of thread t; its row ids name the rows apart.
UpdateCall(t, n, shape) ==
    [op |-> "update", actor |-> t,
     rows |-> [i \in DOMAIN shape |->
        [group |-> <<t, shape[i].key>>, id |-> <<t, n, shape[i].key>>, skipped |-> shape[i].skipped]]]

\* A thread's groups are merged into those of the result in any order.
CombineCall(t, order) ==
    [op |-> "combine", actor |-> t,
     merges |-> [i \in DOMAIN order |-> [from |-> <<t, order[i]>>, to |-> <<Main, order[i]>>]]]

FinalizeCall == [op |-> "finalize", actor |-> Main, gids |-> GidsOfActor(Main)]
DestroyCall(a) == [op |-> "destroy", actor |-> a, gids |-> GidsOfActor(a)]

UpdateCalls == {UpdateCall(t, n, s) : t \in Threads, n \in 1..MaxBatches, s \in Shapes}
CombineCalls == {CombineCall(t, o) : t \in Threads, o \in SetToSeqs(Keys)}
Calls == UpdateCalls \cup CombineCalls \cup {FinalizeCall} \cup {DestroyCall(a) : a \in Actors}

Jobs == [call : Calls, step : {"load", "persist"}, todo : SUBSET Gids]

ASSUME JobAssumption == NoJob \notin Jobs

\* getExecutionState's requestedGids: the destructor passes none.
Requested(c) == IF c.op = "destroy" THEN {} ELSE GidsOf(c)

\* The groups a handler hands persistGroupStates, on the memory it acts on.
Persisted(m, c) ==
    CASE c.op = "update" -> GidsOf(c)
      [] c.op = "combine" -> Touched(m, c.merges)
      [] c.op = "finalize" -> {}
      [] c.op = "destroy" -> c.gids

VARIABLES
    file,      \* file[g]: the state in <gid>.json
    mem,       \* mem[w]: stateStore's states of this execution in process w
    job,       \* the call a process serves
    stage,     \* of an actor: "sink", "merged" or "done"
    sent,      \* batches a thread has sent
    failed,    \* a call has failed
    answer,    \* {}, or what finalize answered
    fed,       \* history: the rows of answered updates
    dropped    \* history: the groups whose destructor was answered

client == <<stage, sent, failed, answer, fed, dropped>>
vars == <<file, mem, job, client>>

NoGroups == [g \in Gids |-> NoState]

\* aggregate_bind has written context.json, which nothing deletes:
\* deleteExecutionState has no caller.
Init ==
    /\ file = NoGroups
    /\ mem = [w \in Workers |-> NoGroups]
    /\ job = [w \in Workers |-> NoJob]
    /\ stage = [a \in Actors |-> "sink"]
    /\ sent = [t \in Threads |-> 0]
    /\ failed = FALSE
    /\ answer = {}
    /\ fed = {}
    /\ dropped = {}

-----------------------------------------------------------------------------
(* The engine                                                              *)

Serving == {w \in Workers : job[w] # NoJob}
InFlight(a) == \E w \in Serving : job[w].call.actor = a
Named == UNION {GidsOf(job[w].call) : w \in Serving}

\* An idle process takes the call and looks the execution up.
Send(c) ==
    /\ ~InFlight(c.actor)
    /\ GidsOf(c) \cap Named = {}
    /\ \E w \in Workers \ Serving :
         job' = [job EXCEPT ![w] = [call |-> c, step |-> "load", todo |-> Requested(c)]]
    /\ UNCHANGED <<file, mem, stage, failed, answer, fed, dropped>>

Update(t) ==
    /\ ~failed /\ stage[t] = "sink" /\ sent[t] < MaxBatches
    /\ \E s \in Shapes : Send(UpdateCall(t, sent[t] + 1, s))
    /\ sent' = [sent EXCEPT ![t] = @ + 1]

Combine(t) ==
    /\ ~failed /\ stage[t] = "sink"
    /\ \E o \in SetToSeqs(Keys) : Send(CombineCall(t, o))
    /\ UNCHANGED sent

Finalize ==
    /\ ~failed /\ stage[Main] = "sink" /\ \A t \in Threads : stage[t] # "sink"
    /\ Send(FinalizeCall)
    /\ UNCHANGED sent

Destroy(a) ==
    /\ stage[a] # "done" /\ (stage[a] = "merged" \/ failed)
    /\ Send(DestroyCall(a))
    /\ UNCHANGED sent

-----------------------------------------------------------------------------
(* A process                                                               *)

\* Mutant of Load: reads prefer the memory.
LoadIfMissing(w) ==
    /\ job[w] # NoJob /\ job[w].step = "load"
    /\ \E g \in job[w].todo :
         /\ mem' = [mem EXCEPT ![w][g] = IF @ = NoState THEN file[g] ELSE @]
         /\ job' = [job EXCEPT ![w].todo = @ \ {g}]
    /\ UNCHANGED <<file, client>>

\* getExecutionState reads one requested group.
Load(w) ==
    /\ job[w] # NoJob /\ job[w].step = "load"
    /\ \E g \in job[w].todo :
         /\ mem' = [mem EXCEPT ![w][g] = file[g]]
         /\ job' = [job EXCEPT ![w].todo = @ \ {g}]
    /\ UNCHANGED <<file, client>>

Loaded(w) == job[w] # NoJob /\ job[w].step = "load" /\ job[w].todo = {}

\* The handler acts on the memory, and turns to the files it has to write.
Run(w) ==
    /\ Loaded(w)
    /\ LET c == job[w].call IN
         /\ mem' = [mem EXCEPT ![w] = Effect(@, c)]
         /\ job' = [job EXCEPT ![w] = [call |-> c, step |-> "persist", todo |-> Persisted(mem[w], c)]]
         /\ answer' = IF c.op = "finalize" THEN {[g \in c.gids |-> mem[w][g]]} ELSE answer
    /\ UNCHANGED <<file, stage, sent, failed, fed, dropped>>

\* The function throws part way: its memory is changed and no file is.
Throw(w) ==
    /\ Loaded(w) /\ job[w].call.op \in {"update", "combine"}
    /\ LET c == job[w].call IN \E done \in {FALSE, TRUE} :
         mem' = [mem EXCEPT ![w] = IF done THEN Effect(@, c) ELSE
                   IF c.op = "update" THEN Updated(@, <<c.rows[1]>>) ELSE Combined(@, <<c.merges[1]>>)]
    /\ job' = [job EXCEPT ![w] = NoJob]
    /\ failed' = TRUE
    /\ UNCHANGED <<file, stage, sent, answer, fed, dropped>>

\* Mutant of Store: a group that has no state any more keeps its file.
StoreHeld(w) ==
    /\ job[w] # NoJob /\ job[w].step = "persist"
    /\ \E g \in job[w].todo :
         /\ file' = [file EXCEPT ![g] = IF mem[w][g] = NoState THEN @ ELSE mem[w][g]]
         /\ job' = [job EXCEPT ![w].todo = @ \ {g}]
    /\ UNCHANGED <<mem, client>>

\* persistGroupStates writes one file by tmp and rename, or unlinks it.
Store(w) ==
    /\ job[w] # NoJob /\ job[w].step = "persist"
    /\ \E g \in job[w].todo :
         /\ file' = [file EXCEPT ![g] = mem[w][g]]
         /\ job' = [job EXCEPT ![w].todo = @ \ {g}]
    /\ UNCHANGED <<mem, client>>

StageAfter(c) ==
    CASE c.op = "update" -> "sink" [] c.op = "destroy" -> "done" [] OTHER -> "merged"

Reply(w) ==
    /\ job[w] # NoJob /\ job[w].step = "persist" /\ job[w].todo = {}
    /\ LET c == job[w].call IN
         /\ stage' = [stage EXCEPT ![c.actor] = StageAfter(c)]
         /\ fed' = IF c.op = "update"
                   THEN fed \cup {c.rows[i].id : i \in {j \in DOMAIN c.rows : ~c.rows[j].skipped}}
                   ELSE fed
         /\ dropped' = IF c.op = "destroy" THEN dropped \cup c.gids ELSE dropped
    /\ job' = [job EXCEPT ![w] = NoJob]
    /\ UNCHANGED <<file, mem, sent, failed, answer>>

\* The process exits: its memory is gone, the files stay as they are, and the
\* call it served fails.  A destructor's failure is nobody's.
Crash(w) ==
    /\ mem' = [mem EXCEPT ![w] = NoGroups]
    /\ IF job[w] = NoJob THEN UNCHANGED <<job, stage, failed>>
       ELSE LET c == job[w].call IN
            /\ job' = [job EXCEPT ![w] = NoJob]
            /\ stage' = IF c.op = "destroy" THEN [stage EXCEPT ![c.actor] = "done"] ELSE stage
            /\ failed' = (failed \/ c.op # "destroy")
    /\ UNCHANGED <<file, sent, answer, fed, dropped>>

Next ==
    \/ \E t \in Threads : Update(t) \/ Combine(t)
    \/ Finalize
    \/ \E a \in Actors : Destroy(a)
    \/ \E w \in Workers : Load(w) \/ Run(w) \/ Throw(w) \/ Store(w) \/ Reply(w) \/ Crash(w)

Spec == Init /\ [][Next]_vars

-----------------------------------------------------------------------------
(* Properties                                                              *)

\* The groups of the result are the rows of the answered updates, each once;
\* a group whose rows were all NULL has no state, which finalize() turns into
\* SQL NULL (functions/aggregate.ts:76-84, handlers/aggregate.ts:241-246).
AnswerIsExact ==
    \A r \in answer : \A k \in Keys :
        LET rows == {id \in fed : id[3] = k} IN
        r[<<Main, k>>] = IF rows = {} THEN NoState ELSE SetToBag(rows)

\* A destroyed group stays destroyed: no memory of another process brings its
\* file back (handlers/aggregate.ts:283-285).
DroppedStaysDropped == \A g \in dropped : file[g] = NoState

\* Types; a state holds each row at most once, so it is a set of rows.
States == {SetToBag(R) : R \in SUBSET RowIds} \cup {NoState}

TypeOK ==
    /\ file \in [Gids -> States]
    /\ mem \in [Workers -> [Gids -> States]]
    /\ job \in [Workers -> Jobs \cup {NoJob}]
    /\ stage \in [Actors -> {"sink", "merged", "done"}]
    /\ sent \in [Threads -> 0..MaxBatches]
    /\ failed \in BOOLEAN
    /\ fed \subseteq RowIds
    /\ dropped \subseteq Gids

\* The groups as the engine sees them: a call takes effect when it runs.
GroupsSeen ==
    [g \in Gids |->
        IF \E w \in Serving : job[w].step = "persist" /\ g \in job[w].todo
        THEN mem[CHOOSE w \in Serving : job[w].step = "persist" /\ g \in job[w].todo][g]
        ELSE file[g]]

Acted == {job[w].call : w \in {v \in Serving : job[v].step = "persist"}}

Groups == INSTANCE AggregateGroups
    WITH groups <- GroupsSeen, kept <- file, acted <- Acted, Asked <- GidsOfActor(Main)

\* However the calls are spread over processes and their file operations
\* interleave, each acts at once on one table of groups; what an answered call
\* did stands in the files, and one that failed, of which the engine is told,
\* leaves each of its groups as before it or as after (handlers/aggregate.ts:87-299).
ImplementsGroups == Groups!Spec

=============================================================================
