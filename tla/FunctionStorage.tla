--------------------------- MODULE FunctionStorage ---------------------------
(***************************************************************************)
(* The storage worker processes share for one execution                    *)
(* (functions/storage.ts, functions/storage-cf-do.ts): a work queue, the   *)
(* worker states and an append-only log, in SQLite or in a Cloudflare      *)
(* Durable Object (DO).                                                    *)
(*                                                                         *)
(* SQLite does each operation in one transaction.  The DO is reached by    *)
(* HTTP: _post sends a request, sends the same body once more when fetch   *)
(* throws, and gives up when it throws again.  A request whose fetch threw *)
(* may still reach the DO, at any later time.  Of an ok answer whose body  *)
(* cannot be read, _post makes an empty one, and the call goes on with it. *)
(* Every request that changes state carries the call's attempt_id, and the *)
(* DO (which is external) answers an attempt_id it has executed from       *)
(* memory.                                                                 *)
(***************************************************************************)
EXTENDS Naturals, Sequences, FiniteSets

CONSTANTS
    Clients,     \* users of the storage: streams of the worker processes
    MaxCalls,    \* bound of the calls each makes, one after the other
    Workloads,   \* sets of operations, one of which they call
    Pushes,      \* what a push may carry: sequences of payloads
    Empty,       \* the payload of no bytes
    MaxKey,      \* worker-state keys are 1..MaxKey, in the DO's key order
    PageSize,    \* rows of one page of the DO
    NoItem

ASSUME SizesAssumption ==
    /\ MaxCalls \in Nat /\ MaxKey \in Nat
    /\ PageSize \in Nat \ {0}
ASSUME OpsAssumption ==
    \A ops \in Workloads : ops \subseteq {"push", "pop", "clear", "put", "collect", "append"}
ASSUME PushesAssumption == \A p \in Pushes : p \in Seq({p[i] : i \in DOMAIN p})

Ops == UNION Workloads
Bodies == UNION {{p[i] : i \in DOMAIN p} : p \in Pushes}

CallIds == Clients \X (1..MaxCalls)

\* What calls leave in the storage, named by the call that made it.
Items == [call : CallIds, nth : Nat, body : Bodies]
Rows == [key : 1..MaxKey, call : CallIds]

\* The null of a pop that found nothing is no item.
ASSUME NoItemAssumption == NoItem \notin Items

\* Arguments: the payloads of a push, <<key>> of a put.
Args(op) ==
    CASE op = "push" -> Pushes
      [] op = "put" -> [{1} -> 1..MaxKey]
      [] OTHER -> {<<>>}

\* An answer: the item of a pop, the rows of a page and the key the next page
\* starts after (0: there is none), the ordinal of an append.
Answer == [item : Items \cup {NoItem}, rows : SUBSET Rows, next : Nat, ordinal : Nat]
Done == [item |-> NoItem, rows |-> {}, next |-> 0, ordinal |-> 0]

VARIABLES
    remote,    \* the backend: TRUE the DO, FALSE SQLite
    ops,       \* the operations called
    queue,     \* work items, oldest first
    rows,      \* worker states
    log,       \* the calls that appended, in order
    memo,      \* the DO's answers to the requests it executed
    net,       \* requests under way to the DO
    answers,   \* answers under way to the clients
    call,      \* each client's current call
    returned   \* history: what calls returned

store == <<queue, rows, log>>
vars == <<remote, ops, store, memo, net, answers, call, returned>>

\* "before" is history: the calls that had returned when this one began.
ClientState ==
    [no : 0..MaxCalls, pc : {"idle", "wait", "failed"}, op : Ops \cup {"none"},
     arg : (UNION {Args(op) : op \in Ops}) \cup {<<>>}, try : {1, 2}, after : Nat,
     rows : SUBSET Rows, before : SUBSET CallIds]

\* The types of the storage, the calls and what they returned.
TypeOK ==
    /\ remote \in BOOLEAN /\ ops \in Workloads
    /\ queue \in Seq(Items) /\ rows \subseteq Rows /\ log \in Seq(CallIds)
    /\ \A m \in memo : m.answer \in Answer
    /\ call \in [Clients -> ClientState]
    /\ \A r \in returned : r.id \in CallIds /\ r.answer \in Answer

\* A client between calls, or whose call threw.
Between(no, pc) ==
    [no |-> no, pc |-> pc, op |-> "none", arg |-> <<>>, try |-> 1, after |-> 0,
     rows |-> {}, before |-> {}]

\* resolveStorageFromEnv chooses the backend once.
Init ==
    /\ remote \in BOOLEAN /\ ops \in Workloads
    /\ queue = <<>> /\ rows = {} /\ log = <<>>
    /\ memo = {} /\ net = {} /\ answers = {}
    /\ call = [c \in Clients |-> Between(0, "idle")]
    /\ returned = {}

-----------------------------------------------------------------------------
(* What an operation does to the storage, and answers                      *)

ItemsOf(id, bodies) ==
    [i \in DOMAIN bodies |-> [call |-> id, nth |-> i, body |-> bodies[i]]]

Push(id, bodies) == queue' = queue \o ItemsOf(id, bodies) /\ UNCHANGED <<rows, log>>

\* DELETE the oldest, RETURNING it.
Pop ==
    /\ queue' = IF queue = <<>> THEN queue ELSE Tail(queue)
    /\ UNCHANGED <<rows, log>>

Oldest == IF queue = <<>> THEN NoItem ELSE Head(queue)

Clear == queue' = <<>> /\ UNCHANGED <<rows, log>>

\* INSERT OR REPLACE.
Put(id, key) ==
    /\ rows' = {r \in rows : r.key # key} \cup {[key |-> key, call |-> id]}
    /\ UNCHANGED <<queue, log>>

\* SQLite drains all rows, the DO a page of those past key `after`.
Drained(after) ==
    LET past == {r \in rows : r.key > after} IN
    IF remote THEN {r \in past : Cardinality({q \in past : q.key <= r.key}) <= PageSize}
    ELSE rows

Drain(after) == rows' = rows \ Drained(after) /\ UNCHANGED <<queue, log>>

\* next_after: the page's last key when rows are left past it.
NextAfter(after) ==
    LET last == CHOOSE r \in Drained(after) : \A q \in Drained(after) : q.key <= r.key IN
    IF \E r \in rows \ Drained(after) : r.key > after THEN last.key ELSE 0

Extend(id) == log' = Append(log, id) /\ UNCHANGED <<queue, rows>>

Effect(op, id, arg, after) ==
    \/ op = "push" /\ Push(id, arg)
    \/ op = "pop" /\ Pop
    \/ op = "clear" /\ Clear
    \/ op = "put" /\ Put(id, arg[1])
    \/ op = "collect" /\ Drain(after)
    \/ op = "append" /\ Extend(id)

AnswerOf(op, after) ==
    CASE op = "pop" -> [Done EXCEPT !.item = Oldest]
      [] op = "collect" -> [Done EXCEPT !.rows = Drained(after), !.next = NextAfter(after)]
      [] op = "append" -> [Done EXCEPT !.ordinal = Len(log) + 1]
      [] OTHER -> Done

-----------------------------------------------------------------------------
(* Calls                                                                   *)

Begun(c, op, arg) ==
    [no |-> call[c].no + 1, pc |-> "wait", op |-> op, arg |-> arg, try |-> 1, after |-> 0,
     rows |-> {}, before |-> {r.id : r \in returned}]

Id(c, s) == <<c, s.no>>

\* "unread" is history: the call went on with an answer it could not read.
Return(c, s, answer, unread) ==
    returned' = returned \cup
        {[id |-> Id(c, s), op |-> s.op, arg |-> s.arg, before |-> s.before, answer |-> answer,
          unread |-> unread]}

\* Mutant of AttemptId: every try gets an attempt_id of its own.
AttemptIdPerTry(id, try) == <<id, try>>

\* newAttemptId: one per call, which its retry and its pages share.
AttemptId(id, try) == <<id, 1>>

Request(c, s) ==
    [attempt |-> AttemptId(Id(c, s), s.try), id |-> Id(c, s), op |-> s.op, arg |-> s.arg,
     after |-> s.after, try |-> s.try]

CanBegin(c) == call[c].pc = "idle" /\ call[c].no < MaxCalls

\* A call of the DO storage posts its first request.
Call(c, op, arg) ==
    LET s == Begun(c, op, arg) IN
    /\ remote /\ CanBegin(c)
    /\ call' = [call EXCEPT ![c] = s]
    /\ net' = net \cup {Request(c, s)}
    /\ UNCHANGED <<remote, ops, store, memo, answers, returned>>

\* A call of the SQLite storage is one transaction.
CallLocal(c, op, arg) ==
    LET s == Begun(c, op, arg) IN
    /\ ~remote /\ CanBegin(c)
    /\ call' = [call EXCEPT ![c] = Between(s.no, "idle")]
    /\ Effect(op, Id(c, s), arg, 0)
    /\ Return(c, s, AnswerOf(op, 0), FALSE)
    /\ UNCHANGED <<remote, ops, memo, net, answers>>

\* The client waits for the answer to this request.
Awaited(q) ==
    LET c == q.id[1] IN
    call[c].pc = "wait" /\ Request(c, call[c]) = q

\* The DO executes a request it has not seen; one it has seen it answers again.
Known(q) == {m \in memo : m.attempt = q.attempt /\ m.after = q.after}

Reply(q, answer) ==
    answers' = IF Awaited(q) THEN answers \cup {[request |-> q, answer |-> answer]} ELSE answers

Execute(q) ==
    /\ q \in net /\ Known(q) = {}
    /\ Effect(q.op, q.id, q.arg, q.after)
    /\ memo' = memo \cup {[attempt |-> q.attempt, after |-> q.after, op |-> q.op,
                           answer |-> AnswerOf(q.op, q.after)]}
    /\ Reply(q, AnswerOf(q.op, q.after))
    /\ net' = net \ {q}
    /\ UNCHANGED <<remote, ops, call, returned>>

Repeat(q) ==
    /\ q \in net
    /\ \E m \in Known(q) : Reply(q, m.answer)
    /\ net' = net \ {q}
    /\ UNCHANGED <<remote, ops, store, memo, call, returned>>

\* data.item ? b64ToBytes(data.item) : null
Decoded(answer) ==
    IF answer.item # NoItem /\ answer.item.body = Empty
    THEN [answer EXCEPT !.item = NoItem] ELSE answer

\* Mutant of MorePages: only the first page is read.
OnePage(answer) == FALSE

\* _statePaged goes on while the answer names a next page.
MorePages(answer) == answer.next # 0

\* The call goes on with what it makes of an answer: the next page is asked for,
\* or the call returns.
GoOn(a, answer, unread) ==
    LET c == a.request.id[1]
        next == [call[c] EXCEPT !.after = answer.next, !.try = 1, !.rows = @ \cup answer.rows]
    IN  /\ answers' = answers \ {a}
        /\ IF MorePages(answer)
           THEN /\ call' = [call EXCEPT ![c] = next]
                /\ net' = net \cup {Request(c, next)}
                /\ UNCHANGED returned
           ELSE /\ call' = [call EXCEPT ![c] = Between(@.no, "idle")]
                /\ Return(c, call[c], [Decoded(answer) EXCEPT !.rows = @ \cup call[c].rows], unread)
                /\ UNCHANGED net
        /\ UNCHANGED <<remote, ops, store, memo>>

\* The answer to the current try arrives.
Receive(a) == a \in answers /\ GoOn(a, a.answer, FALSE)

\* It arrives as ok, but resp.json() throws: _post returns {}, in which no item,
\* no rows, no next page and no ordinal are found, and nothing is sent again.
\* For an answer that says nothing else that makes no difference.
Misread(a) == a \in answers /\ a.answer # Done /\ GoOn(a, Done, TRUE)

\* fetch throws, and what was answered is lost.
Unanswered(c) == answers' = {a \in answers : a.request.id[1] # c}

\* The same body is sent once more; the first request may still arrive.
Retry(c) ==
    /\ call[c].pc = "wait" /\ call[c].try = 1
    /\ call' = [call EXCEPT ![c].try = 2]
    /\ net' = net \cup {Request(c, [call[c] EXCEPT !.try = 2])}
    /\ Unanswered(c)
    /\ UNCHANGED <<remote, ops, store, memo, returned>>

\* It throws again, or the DO answers with an error: the call throws, and the
\* turn it served fails with it.
GiveUp(c) ==
    /\ call[c].pc = "wait"
    /\ call' = [call EXCEPT ![c] = Between(@.no, "failed")]
    /\ Unanswered(c)
    /\ UNCHANGED <<remote, ops, store, memo, net, returned>>

Next ==
    \/ \E c \in Clients, op \in ops : \E arg \in Args(op) : Call(c, op, arg) \/ CallLocal(c, op, arg)
    \/ \E q \in net : Execute(q) \/ Repeat(q)
    \/ \E a \in answers : Receive(a) \/ Misread(a)
    \/ \E c \in Clients : Retry(c) \/ GiveUp(c)

Spec == Init /\ [][Next]_vars

-----------------------------------------------------------------------------
(* Properties                                                              *)

Returned(op) == {r \in returned : r.op = op}
InQueue == {queue[i] : i \in DOMAIN queue}
Quiet == \A c \in Clients : call[c].pc = "idle"

\* Whatever is retried and delayed, no work item is handed out twice, nor
\* while it is still in the queue (queuePush, queuePop and their attempt_id).
WorkHandedOutOnce ==
    /\ \A i, j \in DOMAIN queue : queue[i] = queue[j] => i = j
    /\ \A p \in Returned("pop") :
         p.answer.item # NoItem =>
            /\ p.answer.item \notin InQueue
            /\ \A r \in Returned("pop") : r.answer.item = p.answer.item => r = p

\* What a pop took at the DO.
Taken(id) == {m.answer.item : m \in {n \in memo : n.op = "pop" /\ n.attempt[1] = id}}

\* When no call has failed and none is under way, every item of a push that
\* returned is in the queue, or a pop returned it, or a queueClear that did not
\* return before the push began took it: a retry consumes nothing more.  Two
\* ways to lose it are the Durable Object client's own: the pop that took it
\* could not read the answer (storage-cf-do.ts:245), or made a null of an item of
\* no bytes (storage-cf-do.ts:112).
WorkConserved ==
    Quiet => \A p \in Returned("push") : \A i \in DOMAIN p.arg :
        LET item == ItemsOf(p.id, p.arg)[i] IN
        \/ item \in InQueue
        \/ \E r \in Returned("pop") : r.answer.item = item
        \/ \E r \in Returned("pop") : r.unread /\ item \in Taken(r.id)
        \/ \E k \in Returned("clear") : k.id \notin p.before
        \/ remote /\ item.body = Empty

\* A workerCollect that has returned, and could read every page, has taken every
\* worker state that was put before it began, however many pages that took: none
\* is left behind.  A page it could not read is its last (storage-cf-do.ts:211).
CollectTakesAll ==
    \A k \in Returned("collect"), r \in rows : ~k.unread => r.call \notin k.before

\* A worker state never gives way to one put earlier: a duplicate of an old
\* state_put_many that arrives late does not undo a newer one.
LaterPutStays ==
    \A r \in rows, p \in Returned("put") : p.arg[1] = r.key => r.call \notin p.before

\* Every append is in the log once, at the ordinal it returned, and an append
\* that began after another had returned comes after it.  One that could not read
\* its answer has no ordinal to return.
AppendedOnce ==
    /\ \A i, j \in DOMAIN log : log[i] = log[j] => i = j
    /\ \A a \in Returned("append") :
         /\ \E i \in DOMAIN log : log[i] = a.id
         /\ ~a.unread => /\ a.answer.ordinal \in DOMAIN log
                         /\ log[a.answer.ordinal] = a.id
    /\ \A a, b \in Returned("append") : \A i, j \in DOMAIN log :
         log[i] = a.id /\ log[j] = b.id /\ a.id \in b.before => i < j

\* A call that is sent again, or whose first request arrives late, acts once:
\* nothing is popped twice or appended twice, and nothing is lost but by an
\* answer that arrived and could not be read (storage-cf-do.ts:7-10, 219-249).
ActsOnce == TypeOK /\ WorkHandedOutOnce /\ WorkConserved /\ AppendedOnce

=============================================================================
