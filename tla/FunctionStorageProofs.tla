----------------------- MODULE FunctionStorageProofs -----------------------
(***************************************************************************)
(* What calls leave in the storage is right, for any number of clients,    *)
(* calls, payloads, keys and rows of a page, whatever is sent again and    *)
(* however late it arrives.                                                *)
(*                                                                         *)
(* A call acts once because its requests carry one attempt_id, and the     *)
(* Durable Object remembers what it executed: an operation without pages   *)
(* has one request to execute, and a page is asked for only when the one   *)
(* before it was answered.  So a call acts after every call that had       *)
(* returned when it began, and what it leaves comes after theirs.          *)
(***************************************************************************)
EXTENDS FunctionStorage, FiniteSetTheorems, SequenceTheorems, TLAPS

-----------------------------------------------------------------------------
(* The inductive invariant                                                 *)

\* What calls did to the storage: the requests the DO executed, or the calls
\* of SQLite, each of which returned as it acted.
Acts ==
    IF remote
    THEN {[id |-> m.attempt[1], op |-> m.op, after |-> m.after, answer |-> m.answer] : m \in memo}
    ELSE {[id |-> r.id, op |-> r.op, after |-> 0, answer |-> r.answer] : r \in returned}

Acted == {e.id : e \in Acts}
Popped == {e.answer.item : e \in {f \in Acts : f.op = "pop"}}

\* The calls whose arguments matter: those that returned and those under way.
Waiting == {c \in Clients : call[c].pc = "wait"}
Pending(c) == Id(c, call[c])
ReturnedIds == {r.id : r \in returned}
Views ==
    {[id |-> r.id, op |-> r.op, arg |-> r.arg, before |-> r.before] : r \in returned}
    \cup {[id |-> Pending(c), op |-> call[c].op, arg |-> call[c].arg,
           before |-> call[c].before] : c \in Waiting}

\* The last calls of the clients, under way or failed.
Unreturned == {Pending(c) : c \in {d \in Clients : call[d].pc # "idle"}}

\* Calls that have begun, and what a call may ask for.
Started == {id \in CallIds : id[2] <= call[id[1]].no}
Fits(op, arg) == op \in Ops /\ arg \in Args(op)

\* SQLite has nothing under way.
LocalStand == ~remote => memo = {} /\ net = {} /\ answers = {} /\ Waiting = {}

\* A page is executed once, every other operation has one page, and a page
\* names only a later one.
ActsStand ==
    /\ \A e \in Acts :
         /\ e.id \in Started
         /\ e.op \in Ops /\ e.after \in Nat /\ e.answer \in Answer
         /\ e.op # "collect" => e.after = 0 /\ e.answer.next = 0
         /\ e.answer.next # 0 => e.answer.next > e.after
         /\ e.id \in ReturnedIds \cup Unreturned
    /\ \A e, f \in Acts : e.id = f.id /\ e.after = f.after => e = f
    /\ \A e \in Acts, v \in Views : e.id = v.id => e.op = v.op

MemoStand == \A m \in memo : m.attempt = <<m.attempt[1], 1>>

\* A client that waits is never behind what was executed for it.
WaitStand ==
    \A c \in Waiting :
        /\ Pending(c) \in Started /\ Fits(call[c].op, call[c].arg)
        /\ Pending(c) \notin ReturnedIds
        /\ call[c].op # "collect" => call[c].after = 0
        /\ \A e \in Acts : e.id = Pending(c) => e.after <= call[c].after

\* A request carries what its call asked for.
RequestStands(q) ==
    /\ q.attempt = <<q.id, 1>>
    /\ q.id \in Started /\ Fits(q.op, q.arg)
    /\ q.after \in Nat /\ (q.op # "collect" => q.after = 0)
    /\ \A v \in Views : v.id = q.id => v.op = q.op /\ v.arg = q.arg
    /\ q.id \in ReturnedIds \cup Unreturned
    /\ \A c \in Waiting : Pending(c) = q.id => q.after <= call[c].after
    /\ \A e \in Acts : e.id = q.id => e.op = q.op

NetStand ==
    /\ \A q \in net : RequestStands(q)
    /\ \A q, p \in net : q.id = p.id => q.op = p.op /\ q.arg = p.arg

\* An answer is awaited, and is what the execution of its request answered.
AnswersStand ==
    /\ answers \subseteq [request : {a.request : a \in answers}, answer : Answer]
    /\ \A a \in answers :
         /\ a.request.id[1] \in Waiting
         /\ a.request = Request(a.request.id[1], call[a.request.id[1]])
         /\ \E e \in Acts :
              /\ e.id = a.request.id /\ e.after = a.request.after
              /\ e.op = a.request.op /\ e.answer = a.answer

\* A returned call answered what its execution did, or could not read that.
Tells(r, e) ==
    \/ /\ r.answer.ordinal = e.answer.ordinal
       /\ \/ r.answer.item = e.answer.item
          \/ remote /\ r.answer.item = NoItem /\ e.answer.item.body = Empty
    \/ r.unread /\ remote /\ r.answer.item = NoItem

\* A call returns once, and only after its execution.
ReturnedStand ==
    /\ \A r \in returned :
         /\ r.id \in Started /\ Fits(r.op, r.arg) /\ r.before \subseteq CallIds
         /\ r.id \in Acted
         /\ r.op # "collect" => \E e \in Acts : e.id = r.id /\ e.op = r.op /\ Tells(r, e)
    /\ \A r, p \in returned : r.id = p.id => r = p

ViewsStand == \A v \in Views : v.before \subseteq ReturnedIds

\* An item is in the queue once or was popped once.
QueueStand ==
    /\ \A i \in DOMAIN queue : queue[i].call \in Acted /\ queue[i] \notin Popped
    /\ \A i, j \in DOMAIN queue : queue[i] = queue[j] => i = j
    /\ \A e, f \in Acts :
         /\ e.op = "pop" /\ e.answer.item # NoItem
         => /\ e.answer.item.call \in Acted
            /\ f.op = "pop" /\ f.answer.item = e.answer.item => e = f

\* An item of a push that acted is in the queue, or popped, or cleared by a
\* call that had not returned when the push began.
PushesStand ==
    \A v \in Views :
        v.op = "push" /\ v.id \in Acted => \A i \in DOMAIN v.arg :
            \/ ItemsOf(v.id, v.arg)[i] \in InQueue
            \/ ItemsOf(v.id, v.arg)[i] \in Popped
            \/ \E e \in Acts : e.op = "clear" /\ e.id \notin v.before

\* Appends are in the log once, in the order of the calls.
LogStand ==
    /\ \A i \in DOMAIN log : log[i] \in Acted
    /\ \A i, j \in DOMAIN log : log[i] = log[j] => i = j
    /\ \A e \in Acts :
         e.op = "append" => e.answer.ordinal \in DOMAIN log /\ log[e.answer.ordinal] = e.id
    /\ \A v \in Views : \A i, j \in DOMAIN log : v.id = log[j] /\ log[i] \in v.before => i < j

\* One worker state for a key, of no call that had returned when one that put
\* this key began.
RowsStand ==
    /\ \A r \in rows : r.call \in Acted
    /\ \A r, q \in rows : r.key = q.key => r = q
    /\ \A v \in Views, r \in rows :
         v.op = "put" /\ v.id \in Acted /\ v.arg[1] = r.key => r.call \notin v.before

\* The worker states a collect still owes are past the pages it has read, and
\* past the page that was executed for it.
Owes(c, r) == call[c].op = "collect" /\ r.call \in call[c].before

CollectStand ==
    /\ \A c \in Waiting, r \in rows : Owes(c, r) => r.key > call[c].after
    /\ \A c \in Waiting, r \in rows, e \in Acts :
         Owes(c, r) /\ e.id = Pending(c) /\ e.after = call[c].after
         => e.answer.next # 0 /\ r.key > e.answer.next
    /\ CollectTakesAll

CallsStand == LocalStand /\ MemoStand /\ ActsStand /\ WaitStand /\ ReturnedStand /\ ViewsStand
WireStand == NetStand /\ AnswersStand
StoreStand == QueueStand /\ PushesStand /\ LogStand /\ RowsStand /\ CollectStand

IInv == TypeOK /\ CallsStand /\ WireStand /\ StoreStand

-----------------------------------------------------------------------------
(* Operations                                                              *)

LEMMA OpsNamed == Ops \subseteq {"push", "pop", "clear", "put", "collect", "append"}
BY OpsAssumption DEF Ops

LEMMA ArgShape ==
  /\ Args("push") = Pushes
  /\ Args("put") = [{1} -> 1..MaxKey]
  /\ \A op \in {"pop", "clear", "collect", "append"} : Args(op) = {<<>>}
BY DEF Args

\* What each operation answers.
LEMMA AnswerShape ==
  ASSUME NEW after
  PROVE  /\ AnswerOf("pop", after) = [item |-> Oldest, rows |-> {}, next |-> 0, ordinal |-> 0]
         /\ AnswerOf("collect", after) =
              [item |-> NoItem, rows |-> Drained(after), next |-> NextAfter(after), ordinal |-> 0]
         /\ AnswerOf("append", after) =
              [item |-> NoItem, rows |-> {}, next |-> 0, ordinal |-> Len(log) + 1]
         /\ \A op \in {"push", "clear", "put"} : AnswerOf(op, after) = Done
BY DEF AnswerOf, Done

\* The items of a push, in their order.
LEMMA ItemsShape ==
  ASSUME NEW id \in CallIds, NEW p \in Pushes
  PROVE  /\ p \in Seq(Bodies)
         /\ ItemsOf(id, p) \in Seq(Items)
         /\ Len(ItemsOf(id, p)) = Len(p)
         /\ DOMAIN ItemsOf(id, p) = DOMAIN p
         /\ \A i \in DOMAIN p :
              /\ i \in Nat
              /\ ItemsOf(id, p)[i] = [call |-> id, nth |-> i, body |-> p[i]]
              /\ ItemsOf(id, p)[i] \in Items
<1> DEFINE S == {p[i] : i \in DOMAIN p}
           s == ItemsOf(id, p)
<1>1. p \in Seq(S)
  BY PushesAssumption
<1>2. S \subseteq Bodies
  BY DEF Bodies
<1>3. p \in Seq(Bodies)
  <2> HIDE DEF S
  <2> QED BY <1>1, <1>2, SeqMonotonic
<1>4. DOMAIN p = 1..Len(p) /\ Len(p) \in Nat
  BY <1>3, LenProperties
<1>5. \A i \in DOMAIN p : p[i] \in Bodies /\ i \in Nat
  BY <1>2, <1>4
<1>6. s = [i \in 1..Len(p) |-> [call |-> id, nth |-> i, body |-> p[i]]]
  BY <1>4 DEF ItemsOf
<1>7. \A i \in 1..Len(p) : s[i] = [call |-> id, nth |-> i, body |-> p[i]] /\ s[i] \in Items
  BY <1>4, <1>5, <1>6 DEF Items
<1>8. s \in [1..Len(p) -> Items]
  BY <1>6, <1>7
<1>9. s \in Seq(Items) /\ Len(s) = Len(p) /\ DOMAIN s = 1..Len(p)
  <2> HIDE DEF s
  <2> QED BY <1>4, <1>8, SeqDef
<1>10. QED
  BY <1>3, <1>4, <1>5, <1>7, <1>9

-----------------------------------------------------------------------------
(* Pages                                                                   *)

KeysUnique == \A r, q \in rows : r.key = q.key => r = q

\* Of finitely many rows one has the lowest key, one the highest.
LEMMA LowestRow ==
  ASSUME NEW T \in SUBSET Rows, IsFiniteSet(T), T # {}
  PROVE  \E r \in T : \A q \in T : r.key <= q.key
<1> DEFINE below(r) == {q \in T : q.key < r.key}
           B == {below(r) : r \in T}
<1>1. \A r \in T : r.key \in Nat
  BY SizesAssumption DEF Rows
<1>2. B \subseteq SUBSET T
  OBVIOUS
<1>3. B # {}
  OBVIOUS
<1>4. PICK b \in B : \A y \in B : ~ (<<y, b>> \in StrictSubsetOrdering(T))
  <2> HIDE DEF B
  <2>1. B \subseteq FiniteSubsetsOf(T)
    BY <1>2, FS_FiniteSubsetsOfFinite
  <2>2. QED
    BY <1>3, <2>1, WFMin, FS_StrictSubsetOrderingWellFounded
<1>5. PICK r \in T : b = below(r)
  BY <1>4
<1>6. ASSUME NEW q \in T, q.key < r.key
      PROVE  FALSE
  <2>1. below(q) \subseteq below(r)
    BY <1>1, <1>6
  <2>2. q \in below(r) /\ q \notin below(q)
    BY <1>1, <1>6
  <2>3. below(q) \in B /\ below(r) \in B
    OBVIOUS
  <2>4. <<below(q), below(r)>> \in StrictSubsetOrdering(T)
    <3>1. below(q) # below(r)
      BY <2>2
    <3> HIDE DEF below
    <3>2. QED
      BY <1>2, <2>1, <2>3, <3>1 DEF StrictSubsetOrdering
  <2>5. QED
    BY <1>4, <1>5, <2>3, <2>4
<1>7. QED
  BY <1>1, <1>6

LEMMA HighestRow ==
  ASSUME NEW T \in SUBSET Rows, IsFiniteSet(T), T # {}
  PROVE  \E r \in T : \A q \in T : q.key <= r.key
<1> DEFINE past(r) == {q \in T : q.key > r.key}
           B == {past(r) : r \in T}
<1>1. \A r \in T : r.key \in Nat
  BY SizesAssumption DEF Rows
<1>2. B \subseteq SUBSET T
  OBVIOUS
<1>3. B # {}
  OBVIOUS
<1>4. PICK b \in B : \A y \in B : ~ (<<y, b>> \in StrictSubsetOrdering(T))
  <2> HIDE DEF B
  <2>1. B \subseteq FiniteSubsetsOf(T)
    BY <1>2, FS_FiniteSubsetsOfFinite
  <2>2. QED
    BY <1>3, <2>1, WFMin, FS_StrictSubsetOrderingWellFounded
<1>5. PICK r \in T : b = past(r)
  BY <1>4
<1>6. ASSUME NEW q \in T, q.key > r.key
      PROVE  FALSE
  <2>1. past(q) \subseteq past(r)
    BY <1>1, <1>6
  <2>2. q \in past(r) /\ q \notin past(q)
    BY <1>1, <1>6
  <2>3. past(q) \in B /\ past(r) \in B
    OBVIOUS
  <2>4. <<past(q), past(r)>> \in StrictSubsetOrdering(T)
    <3>1. past(q) # past(r)
      BY <2>2
    <3> HIDE DEF past
    <3>2. QED
      BY <1>2, <2>1, <2>3, <3>1 DEF StrictSubsetOrdering
  <2>5. QED
    BY <1>4, <1>5, <2>3, <2>4
<1>7. QED
  BY <1>1, <1>6

\* Rows past `after` that a page does not take have keys past the page's, and
\* then the page has a last row.
LEMMA PageStands ==
  ASSUME rows \subseteq Rows, KeysUnique, NEW after \in Nat
  PROVE  /\ Drained(after) \subseteq rows
         /\ NextAfter(after) \in Nat
         /\ ~remote => NextAfter(after) = 0 /\ rows \ Drained(after) = {}
         /\ NextAfter(after) # 0 => NextAfter(after) > after
         /\ \A r \in rows \ Drained(after) :
              r.key > after => NextAfter(after) # 0 /\ r.key > NextAfter(after)
<1>1. CASE ~remote
  <2>1. Drained(after) = rows
    BY <1>1 DEF Drained
  <2>2. NextAfter(after) = 0
    BY <2>1 DEF NextAfter
  <2>3. QED
    BY <1>1, <2>1, <2>2
<1>2. CASE remote
  <2> DEFINE past == {r \in rows : r.key > after}
             upto(r) == {q \in past : q.key <= r.key}
             page == Drained(after)
  <2>1. page = {r \in past : Cardinality(upto(r)) <= PageSize}
    BY <1>2 DEF Drained
  <2>2. \A r \in rows : r.key \in 1..MaxKey /\ r.key \in Nat
    BY SizesAssumption DEF Rows
  <2>3. IsFiniteSet(past)
    <3> DEFINE f == [r \in past |-> r.key]
    <3>1. f \in Injection(past, 1..MaxKey)
      BY <2>2 DEF Injection, IsInjective, KeysUnique
    <3>2. IsFiniteSet(1..MaxKey)
      BY FS_Interval, SizesAssumption
    <3>3. QED
      <4> HIDE DEF past, f
      <4> QED BY <3>1, <3>2, FS_Injection
  <2>4. \A r \in past : IsFiniteSet(upto(r)) /\ Cardinality(upto(r)) \in Nat
    <3> SUFFICES ASSUME NEW r \in past
                 PROVE  IsFiniteSet(upto(r)) /\ Cardinality(upto(r)) \in Nat
      OBVIOUS
    <3>1. upto(r) \in SUBSET past
      OBVIOUS
    <3> HIDE DEF upto, past
    <3>2. QED
      BY <2>3, <3>1, FS_Subset, FS_CardinalityType
  <2>5. ASSUME NEW r \in past, NEW q \in past, q.key <= r.key, r \in page
        PROVE  q \in page
    <3>1. upto(q) \in SUBSET upto(r)
      BY <2>2, <2>5
    <3>2. Cardinality(upto(q)) <= Cardinality(upto(r))
      <4> HIDE DEF upto, past
      <4> QED BY <2>4, <2>5, <3>1, FS_Subset
    <3>3. Cardinality(upto(r)) <= PageSize /\ Cardinality(upto(q)) \in Nat /\ Cardinality(upto(r)) \in Nat
      BY <2>1, <2>4, <2>5
    <3>4. Cardinality(upto(q)) <= PageSize
      <4> HIDE DEF upto, past
      <4> QED BY <3>2, <3>3, SizesAssumption
    <3>5. QED
      BY <2>1, <3>4
  <2>6. CASE \E r \in rows \ page : r.key > after
    <3>1. PICK r0 \in rows \ page : r0.key > after
      BY <2>6
    <3>2. PICK r1 \in past : \A q \in past : r1.key <= q.key
      <4>1. past \in SUBSET Rows /\ past # {}
        BY <3>1
      <4> HIDE DEF past
      <4>2. QED
        BY <2>3, <4>1, LowestRow
    <3>3. upto(r1) = {r1}
      BY <2>2, <3>2 DEF KeysUnique
    <3>4. Cardinality(upto(r1)) = 1
      BY <3>3, FS_Singleton
    <3>5. r1 \in page
      <4>1. 1 <= PageSize
        BY SizesAssumption
      <4>2. Cardinality(upto(r1)) <= PageSize
        BY <3>4, <4>1
      <4>3. QED
        BY <2>1, <4>2
    <3>6. PICK last \in page : \A q \in page : q.key <= last.key
      <4>1. page \in SUBSET past
        BY <2>1
      <4>2. page \in SUBSET Rows /\ page # {}
        BY <2>1, <3>5
      <4> HIDE DEF past, page
      <4>3. IsFiniteSet(page)
        BY <2>3, <4>1, FS_Subset
      <4>4. QED
        BY <4>2, <4>3, HighestRow
    <3> DEFINE top == CHOOSE r \in page : \A q \in page : q.key <= r.key
    <3>7. top \in page /\ \A q \in page : q.key <= top.key
      BY <3>6
    <3>8. NextAfter(after) = top.key
      BY <2>6 DEF NextAfter
    <3>9. top \in past /\ top.key \in Nat /\ top.key > after
      BY <2>1, <2>2, <3>7
    <3>10. ASSUME NEW r \in rows \ page, r.key > after
           PROVE  r.key > top.key
      <4>1. r \in past
        BY <3>10
      <4>2. ~ (r.key <= top.key)
        BY <2>5, <3>7, <3>9, <3>10, <4>1
      <4>3. QED
        BY <2>2, <3>9, <4>2
    <3> HIDE DEF top
    <3>11. QED
      BY <1>2, <2>1, <3>8, <3>9, <3>10
  <2>7. CASE ~ \E r \in rows \ page : r.key > after
    <3>1. NextAfter(after) = 0
      BY <2>7 DEF NextAfter
    <3>2. QED
      BY <1>2, <2>1, <2>7, <3>1
  <2>8. QED
    BY <2>6, <2>7
<1>3. QED
  BY <1>1, <1>2

-----------------------------------------------------------------------------
(* A call acts                                                             *)

\* One more act of a call that knows nothing of itself, and had not acted
\* unless it reads pages.
Acting(id, op, arg, after) ==
    /\ id \in CallIds /\ op \in Ops /\ arg \in Args(op) /\ after \in Nat
    /\ Effect(op, id, arg, after)
    /\ Acts' = Acts \cup {[id |-> id, op |-> op, after |-> after, answer |-> AnswerOf(op, after)]}
    /\ op # "collect" => id \notin Acted
    /\ \A e \in Acts : ~(e.id = id /\ e.after = after)
    /\ \A v \in Views' :
         /\ v.id \in CallIds /\ v.op \in Ops /\ v.arg \in Args(v.op)
         /\ v \in Views \/ (v.id = id /\ id \notin Acted)
         /\ v.id = id => v.op = op /\ v.arg = arg
         /\ \A b \in v.before : b \in Acted

LEMMA ActedGrows ==
  ASSUME NEW id, NEW op, NEW arg, NEW after, Acting(id, op, arg, after)
  PROVE  /\ Acted' = Acted \cup {id}
         /\ op # "pop" => Popped' = Popped
         /\ op = "pop" => Popped' = Popped \cup {Oldest}
<1> DEFINE act == [id |-> id, op |-> op, after |-> after, answer |-> AnswerOf(op, after)]
<1>1. Acts' = Acts \cup {act} /\ act.id = id /\ act.op = op
  BY DEF Acting
<1>2. op = "pop" => act.answer.item = Oldest
  BY AnswerShape
<1> HIDE DEF act
<1>3. Acted' = Acted \cup {id}
  BY <1>1 DEF Acted
<1>4. op # "pop" => Popped' = Popped
  BY <1>1 DEF Popped
<1>5. op = "pop" => Popped' = Popped \cup {Oldest}
  BY <1>1, <1>2 DEF Popped
<1>6. QED
  BY <1>3, <1>4, <1>5

\* What each operation leaves alone.
LEMMA EffectShape ==
  ASSUME NEW id, NEW op, NEW arg, NEW after, Effect(op, id, arg, after)
  PROVE  /\ op \notin {"push", "pop", "clear"} => queue' = queue
         /\ op \notin {"put", "collect"} => rows' = rows
         /\ op # "append" => log' = log
         /\ op = "push" => Push(id, arg)
         /\ op = "pop" => Pop
         /\ op = "clear" => Clear
         /\ op = "put" => Put(id, arg[1])
         /\ op = "collect" => Drain(after)
         /\ op = "append" => Extend(id)
BY DEF Effect, Push, Pop, Clear, Put, Drain, Extend

LEMMA QueuePushed ==
  ASSUME queue \in Seq(Items), NEW s \in Seq(Items), queue' = queue \o s
  PROVE  /\ queue' \in Seq(Items)
         /\ \A i \in DOMAIN queue : i \in DOMAIN queue' /\ queue'[i] = queue[i]
         /\ \A k \in DOMAIN s : Len(queue) + k \in DOMAIN queue' /\ queue'[Len(queue) + k] = s[k]
         /\ \A i \in DOMAIN queue' :
              \/ i \in DOMAIN queue
              \/ \E k \in DOMAIN s : i = Len(queue) + k
<1>1. /\ queue' \in Seq(Items) /\ Len(queue') = Len(queue) + Len(s)
      /\ \A i \in 1..(Len(queue) + Len(s)) :
            queue'[i] = IF i <= Len(queue) THEN queue[i] ELSE s[i - Len(queue)]
  BY ConcatProperties
<1>2. /\ DOMAIN queue = 1..Len(queue) /\ DOMAIN s = 1..Len(s) /\ DOMAIN queue' = 1..Len(queue')
      /\ Len(queue) \in Nat /\ Len(s) \in Nat
  BY <1>1, LenProperties
<1>3. \A i \in DOMAIN queue : i \in DOMAIN queue' /\ queue'[i] = queue[i]
  BY <1>1, <1>2
<1>4. \A k \in DOMAIN s : Len(queue) + k \in DOMAIN queue' /\ queue'[Len(queue) + k] = s[k]
  BY <1>1, <1>2
<1>5. ASSUME NEW i \in DOMAIN queue', i \notin DOMAIN queue
      PROVE  \E k \in DOMAIN s : i = Len(queue) + k
  <2>1. i - Len(queue) \in DOMAIN s /\ i = Len(queue) + (i - Len(queue))
    BY <1>1, <1>2, <1>5
  <2>2. QED
    BY <2>1
<1>6. QED
  BY <1>1, <1>3, <1>4, <1>5

LEMMA QueuePopped ==
  ASSUME queue \in Seq(Items), queue # <<>>, queue' = Tail(queue)
  PROVE  /\ queue' \in Seq(Items)
         /\ 1 \in DOMAIN queue /\ Oldest = queue[1] /\ Oldest \in Items
         /\ \A i \in DOMAIN queue' : i + 1 \in DOMAIN queue /\ i + 1 # 1 /\ queue'[i] = queue[i + 1]
         /\ \A i \in DOMAIN queue : i # 1 => i - 1 \in DOMAIN queue' /\ queue'[i - 1] = queue[i]
<1>1. DOMAIN queue = 1..Len(queue) /\ Len(queue) \in Nat \ {0}
  BY EmptySeq, LenProperties
<1>2. queue' \in Seq(Items) /\ Len(queue') = Len(queue) - 1 /\ DOMAIN queue' = 1..Len(queue')
      /\ \A i \in 1..(Len(queue) - 1) : queue'[i] = queue[i + 1]
  <2>1. queue' \in Seq(Items)
    BY HeadTailProperties
  <2>2. Len(queue') = Len(queue) - 1 /\ \A i \in 1..(Len(queue) - 1) : queue'[i] = queue[i + 1]
    BY <1>1
  <2>3. DOMAIN queue' = 1..Len(queue')
    BY <2>1, LenProperties
  <2>4. QED
    BY <2>1, <2>2, <2>3
<1>3. 1 \in DOMAIN queue /\ Oldest = queue[1]
  BY <1>1 DEF Oldest
<1>4. Oldest \in Items
  BY <1>1, <1>3, ElementOfSeq
<1>5. \A i \in DOMAIN queue' : i + 1 \in DOMAIN queue /\ i + 1 # 1 /\ queue'[i] = queue[i + 1]
  BY <1>1, <1>2
<1>6. \A i \in DOMAIN queue : i # 1 => i - 1 \in DOMAIN queue' /\ queue'[i - 1] = queue[i]
  BY <1>1, <1>2
<1>7. QED
  BY <1>2, <1>3, <1>4, <1>5, <1>6

LEMMA QueueActs ==
  ASSUME queue \in Seq(Items), QueueStand,
         NEW id, NEW op, NEW arg, NEW after, Acting(id, op, arg, after)
  PROVE  QueueStand'
<1> DEFINE act == [id |-> id, op |-> op, after |-> after, answer |-> AnswerOf(op, after)]
<1>1. /\ id \in CallIds /\ op \in Ops /\ arg \in Args(op)
      /\ Effect(op, id, arg, after)
      /\ Acts' = Acts \cup {act} /\ act.id = id /\ act.op = op
  BY DEF Acting
<1>2. Acted \subseteq Acted'
  BY ActedGrows
<1>3. op \in {"push", "pop", "clear", "put", "collect", "append"}
  BY <1>1, OpsNamed
<1>4. /\ \A e \in Acts :
           e.op = "pop" /\ e.answer.item # NoItem => e.answer.item.call \in Acted
      /\ \A e, f \in Acts :
           /\ e.op = "pop" /\ e.answer.item # NoItem
           /\ f.op = "pop" /\ f.answer.item = e.answer.item
           => e = f
  BY DEF QueueStand
<1>5. CASE op # "pop"
  <2>1. Popped' = Popped
    BY <1>5, ActedGrows
  <2>2. \A e \in Acts' : e.op = "pop" => e \in Acts
    BY <1>1, <1>5
  <2>3. \A e, f \in Acts' :
           /\ e.op = "pop" /\ e.answer.item # NoItem
           => /\ e.answer.item.call \in Acted'
              /\ f.op = "pop" /\ f.answer.item = e.answer.item => e = f
    BY <1>2, <1>4, <2>2
  <2>4. CASE op = "push"
    <3> DEFINE s == ItemsOf(id, arg)
    <3>1. arg \in Pushes
      BY <1>1, <2>4, ArgShape
    <3>2. /\ s \in Seq(Items) /\ DOMAIN s = DOMAIN arg
          /\ \A k \in DOMAIN s :
               k \in Nat /\ s[k] \in Items /\ s[k] = [call |-> id, nth |-> k, body |-> arg[k]]
      BY <1>1, <3>1, ItemsShape
    <3>3. queue' = queue \o s
      BY <1>1, <2>4, EffectShape DEF Push
    <3>4. id \notin Acted
      BY <2>4 DEF Acting
    <3> HIDE DEF s
    <3>5. /\ \A i \in DOMAIN queue : queue'[i] = queue[i]
          /\ \A k \in DOMAIN s : queue'[Len(queue) + k] = s[k]
          /\ \A i \in DOMAIN queue' : i \in DOMAIN queue \/ \E k \in DOMAIN s : i = Len(queue) + k
      BY <3>2, <3>3, QueuePushed
    <3>6. \A k \in DOMAIN s : s[k].call = id /\ s[k].nth = k
      BY <3>2
    <3>7. \A k \in DOMAIN s : s[k] \notin Popped
      <4> SUFFICES ASSUME NEW k \in DOMAIN s, NEW e \in Acts, e.op = "pop", e.answer.item = s[k]
                   PROVE  FALSE
        BY DEF Popped
      <4>1. e.answer.item # NoItem
        BY <3>2, NoItemAssumption
      <4>2. s[k].call \in Acted
        BY <1>4, <4>1
      <4>3. QED
        BY <3>4, <3>6, <4>2
    <3>8. \A i \in DOMAIN queue : queue[i].call \in Acted /\ queue[i] \notin Popped
      BY DEF QueueStand
    <3>9. id \in Acted'
      BY ActedGrows
    <3>10. \A i \in DOMAIN queue' : queue'[i].call \in Acted' /\ queue'[i] \notin Popped
      BY <1>2, <3>5, <3>6, <3>7, <3>8, <3>9
    <3>11. ASSUME NEW i \in DOMAIN queue', NEW j \in DOMAIN queue', queue'[i] = queue'[j]
           PROVE  i = j
      <4>1. CASE i \in DOMAIN queue /\ j \in DOMAIN queue
        BY <3>5, <3>11, <4>1 DEF QueueStand
      <4>2. CASE i \in DOMAIN queue /\ j \notin DOMAIN queue
        BY <3>4, <3>5, <3>6, <3>8, <3>11, <4>2
      <4>3. CASE i \notin DOMAIN queue /\ j \in DOMAIN queue
        BY <3>4, <3>5, <3>6, <3>8, <3>11, <4>3
      <4>4. CASE i \notin DOMAIN queue /\ j \notin DOMAIN queue
        BY <3>5, <3>6, <3>11, <4>4
      <4>5. QED
        BY <4>1, <4>2, <4>3, <4>4
    <3>12. \A i \in DOMAIN queue' : queue'[i] \notin Popped'
      BY <2>1, <3>10
    <3>13. QED
      BY <2>3, <3>10, <3>11, <3>12 DEF QueueStand
  <2>5. CASE op = "clear"
    <3>1. queue' = <<>>
      BY <1>1, <2>5, EffectShape DEF Clear
    <3>2. DOMAIN queue' = {}
      BY <3>1
    <3>3. QED
      BY <2>3, <3>2 DEF QueueStand
  <2>6. CASE op \notin {"push", "clear"}
    <3>1. queue' = queue
      BY <1>1, <1>5, <2>6, EffectShape
    <3>2. \A i \in DOMAIN queue' : queue'[i].call \in Acted' /\ queue'[i] \notin Popped'
      BY <1>2, <2>1, <3>1 DEF QueueStand
    <3>3. QED
      BY <2>3, <3>1, <3>2 DEF QueueStand
  <2>7. QED
    BY <2>4, <2>5, <2>6
<1>6. CASE op = "pop"
  <2>1. act.answer.item = Oldest
    BY <1>6, AnswerShape
  <2>2. Popped' = Popped \cup {Oldest}
    BY <1>6, ActedGrows
  <2>3. queue' = IF queue = <<>> THEN queue ELSE Tail(queue)
    BY <1>1, <1>6, EffectShape DEF Pop
  <2> HIDE DEF act
  <2>4. CASE queue = <<>>
    <3>1. Oldest = NoItem
      BY <2>4 DEF Oldest
    <3>2. DOMAIN queue' = {}
      BY <2>3, <2>4
    <3>3. \A e, f \in Acts' :
           /\ e.op = "pop" /\ e.answer.item # NoItem
           => /\ e.answer.item.call \in Acted'
              /\ f.op = "pop" /\ f.answer.item = e.answer.item => e = f
      BY <1>1, <1>2, <1>4, <2>1, <3>1
    <3>4. QED
      BY <3>2, <3>3 DEF QueueStand
  <2>5. CASE queue # <<>>
    <3>1. queue' = Tail(queue)
      BY <2>3, <2>5
    <3>2. /\ 1 \in DOMAIN queue /\ Oldest = queue[1]
          /\ \A i \in DOMAIN queue' : i + 1 \in DOMAIN queue /\ i + 1 # 1 /\ queue'[i] = queue[i + 1]
          /\ queue' \in Seq(Items)
      BY <2>5, <3>1, QueuePopped
    <3>3. Oldest.call \in Acted /\ Oldest \notin Popped
      BY <3>2 DEF QueueStand
    <3>4. \A i \in DOMAIN queue' : queue'[i].call \in Acted' /\ queue'[i] \notin Popped'
      BY <1>2, <2>2, <3>2 DEF QueueStand
    <3>5. ASSUME NEW i \in DOMAIN queue', NEW j \in DOMAIN queue', queue'[i] = queue'[j]
          PROVE  i = j
      <4>1. i + 1 = j + 1
        BY <3>2, <3>5 DEF QueueStand
      <4>2. i \in Nat /\ j \in Nat
        BY <3>2, LenProperties
      <4>3. QED
        BY <4>1, <4>2
    <3>6. \A e \in Acts : e.op = "pop" => e.answer.item # Oldest
      BY <3>3 DEF Popped
    <3>7. \A e, f \in Acts' :
           /\ e.op = "pop" /\ e.answer.item # NoItem
           => /\ e.answer.item.call \in Acted'
              /\ f.op = "pop" /\ f.answer.item = e.answer.item => e = f
      BY <1>1, <1>2, <1>4, <2>1, <3>3, <3>6
    <3>8. QED
      BY <3>4, <3>5, <3>7 DEF QueueStand
  <2>6. QED
    BY <2>4, <2>5
<1>7. QED
  BY <1>5, <1>6

LEMMA PushesActs ==
  ASSUME queue \in Seq(Items), PushesStand,
         NEW id, NEW op, NEW arg, NEW after, Acting(id, op, arg, after)
  PROVE  PushesStand'
<1>1. /\ id \in CallIds /\ op \in Ops /\ arg \in Args(op)
      /\ Effect(op, id, arg, after)
  BY DEF Acting
<1>2. \A e \in Acts : e \in Acts'
  BY DEF Acting
<1>3. Popped \subseteq Popped'
  BY ActedGrows
<1> SUFFICES ASSUME NEW v \in Views', v.op = "push", v.id \in Acted', NEW i \in DOMAIN v.arg
             PROVE  LET item == ItemsOf(v.id, v.arg)[i] IN
                    \/ item \in InQueue'
                    \/ item \in Popped'
                    \/ \E e \in Acts' : e.op = "clear" /\ e.id \notin v.before
  BY DEF PushesStand
<1> DEFINE item == ItemsOf(v.id, v.arg)[i]
<1>4. CASE v.id = id
  <2>1. op = "push" /\ v.arg = arg
    BY <1>4 DEF Acting
  <2>2. arg \in Pushes
    BY <1>1, <2>1, ArgShape
  <2>3. ItemsOf(id, arg) \in Seq(Items) /\ DOMAIN ItemsOf(id, arg) = DOMAIN arg
    BY <1>1, <2>2, ItemsShape
  <2>4. queue' = queue \o ItemsOf(id, arg)
    BY <1>1, <2>1, EffectShape DEF Push
  <2>5. Len(queue) + i \in DOMAIN queue' /\ queue'[Len(queue) + i] = item
    BY <1>4, <2>1, <2>3, <2>4, QueuePushed
  <2>6. item \in InQueue'
    BY <2>5 DEF InQueue
  <2>7. QED
    BY <2>6
<1>5. CASE v.id # id
  <2>1. v \in Views /\ v.id \in Acted
    BY <1>5, ActedGrows DEF Acting
  <2>2. \/ item \in InQueue
        \/ item \in Popped
        \/ \E e \in Acts : e.op = "clear" /\ e.id \notin v.before
    BY <2>1 DEF PushesStand
  <2>3. CASE item \in InQueue
    <3>1. PICK j \in DOMAIN queue : queue[j] = item
      BY <2>3 DEF InQueue
    <3>2. CASE op = "push"
      <4>1. arg \in Pushes
        BY <1>1, <3>2, ArgShape
      <4>2. ItemsOf(id, arg) \in Seq(Items)
        BY <1>1, <4>1, ItemsShape
      <4>3. queue' = queue \o ItemsOf(id, arg)
        BY <1>1, <3>2, EffectShape DEF Push
      <4>4. j \in DOMAIN queue' /\ queue'[j] = item
        BY <3>1, <4>2, <4>3, QueuePushed
      <4>5. QED
        BY <4>4 DEF InQueue
    <3>3. CASE op = "pop"
      <4>1. queue # <<>>
        BY <3>1
      <4>2. queue' = Tail(queue)
        BY <1>1, <3>3, <4>1, EffectShape DEF Pop
      <4>3. CASE j = 1
        <5>1. item = Oldest
          BY <3>1, <4>1, <4>2, <4>3, QueuePopped
        <5>2. QED
          BY <3>3, <5>1, ActedGrows
      <4>4. CASE j # 1
        <5>1. j - 1 \in DOMAIN queue' /\ queue'[j - 1] = item
          BY <3>1, <4>1, <4>2, <4>4, QueuePopped
        <5>2. QED
          BY <5>1 DEF InQueue
      <4>5. QED
        BY <4>3, <4>4
    <3>4. CASE op = "clear"
      <4> DEFINE act == [id |-> id, op |-> op, after |-> after, answer |-> AnswerOf(op, after)]
      <4>1. act \in Acts' /\ act.op = "clear" /\ act.id = id
        BY <3>4 DEF Acting
      <4>2. id \notin Acted /\ \A b \in v.before : b \in Acted
        BY <3>4 DEF Acting
      <4> HIDE DEF act
      <4>3. QED
        BY <4>1, <4>2
    <3>5. CASE op \notin {"push", "pop", "clear"}
      <4>1. queue' = queue
        BY <1>1, <3>5, EffectShape
      <4>2. QED
        BY <3>1, <4>1 DEF InQueue
    <3>6. QED
      BY <3>2, <3>3, <3>4, <3>5
  <2>4. QED
    BY <1>2, <1>3, <2>2, <2>3
<1>6. QED
  BY <1>4, <1>5

LEMMA LogActs ==
  ASSUME log \in Seq(CallIds), LogStand,
         NEW id, NEW op, NEW arg, NEW after, Acting(id, op, arg, after)
  PROVE  LogStand'
<1> DEFINE act == [id |-> id, op |-> op, after |-> after, answer |-> AnswerOf(op, after)]
<1>1. /\ id \in CallIds
      /\ Effect(op, id, arg, after)
      /\ Acts' = Acts \cup {act} /\ act.id = id /\ act.op = op
  BY DEF Acting
<1>2. Acted' = Acted \cup {id}
  BY ActedGrows
<1>3. \A v \in Views' : (v \in Views \/ (v.id = id /\ id \notin Acted)) /\ \A b \in v.before : b \in Acted
  BY DEF Acting
<1>4. CASE op # "append"
  <2>1. log' = log
    BY <1>1, <1>4, EffectShape
  <2>2. \A e \in Acts' : e.op = "append" => e \in Acts
    BY <1>1, <1>4
  <2>3. \A i \in DOMAIN log' : log'[i] \in Acted'
    BY <1>2, <2>1 DEF LogStand
  <2>4. \A e \in Acts' :
          e.op = "append" => e.answer.ordinal \in DOMAIN log' /\ log'[e.answer.ordinal] = e.id
    BY <2>1, <2>2 DEF LogStand
  <2>5. \A v \in Views' : \A i, j \in DOMAIN log' : v.id = log'[j] /\ log'[i] \in v.before => i < j
    <3> SUFFICES ASSUME NEW v \in Views', NEW i \in DOMAIN log, NEW j \in DOMAIN log,
                        v.id = log[j], log[i] \in v.before
                 PROVE  i < j
      BY <2>1
    <3>1. v.id \in Acted
      BY DEF LogStand
    <3>2. v \in Views
      BY <1>3, <3>1
    <3>3. QED
      BY <3>2 DEF LogStand
  <2>6. QED
    BY <2>1, <2>3, <2>4, <2>5 DEF LogStand
<1>5. CASE op = "append"
  <2>1. id \notin Acted
    BY <1>5 DEF Acting
  <2>2. log' = Append(log, id)
    BY <1>1, <1>5, EffectShape DEF Extend
  <2>3. act.answer.ordinal = Len(log) + 1
    BY <1>5, AnswerShape
  <2> HIDE DEF act
  <2>4. /\ Len(log) \in Nat /\ DOMAIN log = 1..Len(log) /\ DOMAIN log' = 1..(Len(log) + 1)
        /\ \A i \in DOMAIN log : log'[i] = log[i]
        /\ log'[Len(log) + 1] = id
    <3>1. Len(log) \in Nat /\ DOMAIN log = 1..Len(log)
      BY LenProperties
    <3>2. log' \in Seq(CallIds) /\ Len(log') = Len(log) + 1
      BY <1>1, <2>2, AppendProperties
    <3>3. DOMAIN log' = 1..(Len(log) + 1)
      BY <3>2, LenProperties
    <3>4. \A i \in 1..Len(log) : log'[i] = log[i]
      BY <1>1, <2>2, <3>1
    <3>5. log'[Len(log) + 1] = id
      BY <1>1, <2>2, <3>1
    <3>6. QED
      BY <3>1, <3>3, <3>4, <3>5
  <2>5. \A i \in DOMAIN log : log[i] \in Acted /\ log[i] # id
    BY <2>1 DEF LogStand
  <2>6. \A i \in DOMAIN log' : i \in DOMAIN log \/ i = Len(log) + 1
    BY <2>4
  <2>7. \A i \in DOMAIN log' : log'[i] \in Acted'
    BY <1>2, <2>4, <2>5, <2>6
  <2>8. \A i, j \in DOMAIN log' : log'[i] = log'[j] => i = j
    BY <2>4, <2>5, <2>6 DEF LogStand
  <2>9. \A e \in Acts' :
          e.op = "append" => e.answer.ordinal \in DOMAIN log' /\ log'[e.answer.ordinal] = e.id
    <3> SUFFICES ASSUME NEW e \in Acts', e.op = "append"
                 PROVE  e.answer.ordinal \in DOMAIN log' /\ log'[e.answer.ordinal] = e.id
      OBVIOUS
    <3>1. CASE e = act
      BY <1>1, <2>3, <2>4, <3>1
    <3>2. CASE e \in Acts
      <4>1. e.answer.ordinal \in DOMAIN log /\ log[e.answer.ordinal] = e.id
        BY <3>2 DEF LogStand
      <4>2. QED
        BY <2>4, <4>1
    <3>3. QED
      BY <1>1, <3>1, <3>2
  <2>10. \A v \in Views' : \A i, j \in DOMAIN log' : v.id = log'[j] /\ log'[i] \in v.before => i < j
    <3> SUFFICES ASSUME NEW v \in Views', NEW i \in DOMAIN log', NEW j \in DOMAIN log',
                        v.id = log'[j], log'[i] \in v.before
                 PROVE  i < j
      OBVIOUS
    <3>1. log'[i] # id
      BY <1>3, <2>1
    <3>2. i \in DOMAIN log /\ log'[i] = log[i]
      BY <2>4, <2>6, <3>1
    <3>3. CASE j = Len(log) + 1
      BY <2>4, <3>2, <3>3
    <3>4. CASE j \in DOMAIN log
      <4>1. v.id = log[j]
        BY <2>4, <3>4
      <4>2. v \in Views
        BY <1>3, <2>5, <3>4, <4>1
      <4>3. QED
        BY <3>2, <3>4, <4>1, <4>2 DEF LogStand
    <3>5. QED
      BY <2>6, <3>3, <3>4
  <2>11. QED
    BY <2>7, <2>8, <2>9, <2>10 DEF LogStand
<1>6. QED
  BY <1>4, <1>5

LEMMA RowsActs ==
  ASSUME rows \subseteq Rows, RowsStand,
         NEW id, NEW op, NEW arg, NEW after, Acting(id, op, arg, after)
  PROVE  /\ RowsStand'
         /\ \A r \in rows' : r \in rows \/ (op = "put" /\ r.call = id)
<1>1. /\ id \in CallIds /\ op \in Ops /\ arg \in Args(op)
      /\ Effect(op, id, arg, after)
  BY DEF Acting
<1>2. Acted' = Acted \cup {id}
  BY ActedGrows
<1>3. CASE op # "put"
  <2>1. rows' \subseteq rows
    <3>1. CASE op = "collect"
      BY <1>1, <3>1, EffectShape DEF Drain
    <3>2. CASE op # "collect"
      BY <1>1, <1>3, <3>2, EffectShape
    <3>3. QED
      BY <3>1, <3>2
  <2>2. \A v \in Views', r \in rows' :
          v.op = "put" /\ v.id \in Acted' /\ v.arg[1] = r.key => r.call \notin v.before
    <3> SUFFICES ASSUME NEW v \in Views', NEW r \in rows, v.op = "put", v.id \in Acted',
                        v.arg[1] = r.key
                 PROVE  r.call \notin v.before
      BY <2>1
    <3>1. v.id # id
      BY <1>3 DEF Acting
    <3>2. v \in Views /\ v.id \in Acted
      BY <1>2, <3>1 DEF Acting
    <3>3. QED
      BY <3>2 DEF RowsStand
  <2>3. (\A r \in rows' : r.call \in Acted') /\ \A r, q \in rows' : r.key = q.key => r = q
    BY <1>2, <2>1 DEF RowsStand
  <2>4. QED
    BY <2>1, <2>2, <2>3 DEF RowsStand
<1>4. CASE op = "put"
  <2> DEFINE new == [key |-> arg[1], call |-> id]
  <2>1. id \notin Acted
    BY <1>4 DEF Acting
  <2>2. rows' = {r \in rows : r.key # arg[1]} \cup {new}
    BY <1>1, <1>4, EffectShape DEF Put
  <2>3. \A r \in rows' : (r \in rows /\ r.key # arg[1]) \/ r = new
    BY <2>2
  <2>4. new.key = arg[1] /\ new.call = id
    OBVIOUS
  <2> HIDE DEF new
  <2>5. \A v \in Views', r \in rows' :
          v.op = "put" /\ v.id \in Acted' /\ v.arg[1] = r.key => r.call \notin v.before
    <3> SUFFICES ASSUME NEW v \in Views', NEW r \in rows', v.op = "put", v.id \in Acted',
                        v.arg[1] = r.key, r.call \in v.before
                 PROVE  FALSE
      OBVIOUS
    <3>1. r.call \in Acted
      BY DEF Acting
    <3>2. r \in rows /\ r.key # arg[1]
      BY <2>1, <2>3, <2>4, <3>1
    <3>3. v.id # id
      BY <3>2 DEF Acting
    <3>4. v \in Views /\ v.id \in Acted
      BY <1>2, <3>3 DEF Acting
    <3>5. QED
      BY <3>2, <3>4 DEF RowsStand
  <2>6. \A r \in rows' : r.call \in Acted'
    BY <1>2, <2>3, <2>4 DEF RowsStand
  <2>7. \A r, q \in rows' : r.key = q.key => r = q
    BY <2>3, <2>4 DEF RowsStand
  <2>8. QED
    BY <1>4, <2>3, <2>4, <2>5, <2>6, <2>7 DEF RowsStand
<1>5. QED
  BY <1>3, <1>4

-----------------------------------------------------------------------------
(* Calls and their requests                                                *)

LEMMA RequestShape ==
  ASSUME NEW c, NEW s
  PROVE  /\ Request(c, s).attempt = <<<<c, s.no>>, 1>> /\ Request(c, s).id = <<c, s.no>>
         /\ Request(c, s).op = s.op /\ Request(c, s).arg = s.arg
         /\ Request(c, s).after = s.after /\ Request(c, s).try = s.try
BY DEF Request, AttemptId, Id

LEMMA PendingShape ==
  /\ \A c \in Clients : Pending(c) = <<c, call[c].no>> /\ Pending(c)[1] = c
  /\ \A c, d \in Clients : Pending(c) = Pending(d) => c = d
BY DEF Pending, Id

LEMMA BetweenType ==
  ASSUME NEW no \in 0..MaxCalls, NEW pc \in {"idle", "wait", "failed"}
  PROVE  Between(no, pc) \in ClientState
<1>1. <<>> \in (UNION {Args(op) : op \in Ops}) \cup {<<>>}
  OBVIOUS
<1>2. "none" \in Ops \cup {"none"}
  OBVIOUS
<1>3. QED
  BY <1>1, <1>2 DEF Between, ClientState

\* What is known of a call that returned or is under way.
LEMMA ViewShape ==
  ASSUME TypeOK, ReturnedStand, WaitStand, ViewsStand
  PROVE  /\ \A v \in Views : v.id \in Started /\ Fits(v.op, v.arg) /\ v.before \subseteq Acted
         /\ ReturnedIds \subseteq Acted /\ ReturnedIds \subseteq CallIds
         /\ \A c \in Waiting : \E v \in Views :
              /\ v.id = Pending(c) /\ v.op = call[c].op
              /\ v.arg = call[c].arg /\ v.before = call[c].before
<1>1. ReturnedIds \subseteq Acted
  BY DEF ReturnedIds, ReturnedStand
<1>2. \A v \in Views : v.id \in Started /\ Fits(v.op, v.arg)
  BY DEF Views, ReturnedStand, WaitStand
<1>3. \A v \in Views : v.before \subseteq Acted
  BY <1>1 DEF ViewsStand
<1>4. ReturnedIds \subseteq CallIds
  BY DEF ReturnedIds, TypeOK
<1>5. ASSUME NEW c \in Waiting
      PROVE  \E v \in Views :
               /\ v.id = Pending(c) /\ v.op = call[c].op
               /\ v.arg = call[c].arg /\ v.before = call[c].before
  <2> DEFINE v == [id |-> Pending(c), op |-> call[c].op, arg |-> call[c].arg, before |-> call[c].before]
  <2>1. v \in Views
    BY DEF Views
  <2>2. QED
    BY <2>1
<1>6. QED
  BY <1>1, <1>2, <1>3, <1>4, <1>5

\* A call that begins is new to everything.
LEMMA BeginsNew ==
  ASSUME TypeOK, CallsStand, NetStand, NEW c \in Clients, CanBegin(c)
  PROVE  LET id == <<c, call[c].no + 1>> IN
         /\ call[c].no + 1 \in 1..MaxCalls /\ id \in CallIds /\ c \notin Waiting
         /\ id \notin Acted /\ id \notin ReturnedIds
         /\ \A v \in Views : v.id # id
         /\ \A q \in net : q.id # id
<1> DEFINE id == <<c, call[c].no + 1>>
<1>1. call[c].no \in Nat /\ call[c].no < MaxCalls /\ call[c].pc = "idle"
  BY SizesAssumption DEF TypeOK, ClientState, CanBegin
<1>2. call[c].no + 1 \in 1..MaxCalls /\ id \in CallIds /\ c \notin Waiting
  BY <1>1, SizesAssumption DEF CallIds, Waiting
<1>3. id \notin Started
  BY <1>1 DEF Started
<1>4. id \notin Acted
  BY <1>3 DEF Acted, CallsStand, ActsStand
<1>5. id \notin ReturnedIds
  BY <1>4, ViewShape DEF CallsStand
<1>6. \A v \in Views : v.id # id
  BY <1>3, ViewShape DEF CallsStand
<1>7. \A q \in net : q.id # id
  BY <1>3 DEF NetStand, RequestStands
<1>8. QED
  BY <1>2, <1>4, <1>5, <1>6, <1>7

\* A call that has not acted owes nothing to the storage.
LEMMA StoreStill ==
  ASSUME QueueStand, PushesStand, LogStand, RowsStand,
         UNCHANGED store, Acts' = Acts,
         \A v \in Views' : v \in Views \/ v.id \notin Acted
  PROVE  QueueStand' /\ PushesStand' /\ LogStand' /\ RowsStand'
<1>1. Acted' = Acted /\ Popped' = Popped /\ queue' = queue /\ rows' = rows /\ log' = log
      /\ InQueue' = InQueue
  BY DEF Acted, Popped, store, InQueue
<1>2. QueueStand'
  BY <1>1 DEF QueueStand
<1>3. PushesStand'
  BY <1>1 DEF PushesStand
<1>4. LogStand'
  BY <1>1 DEF LogStand
<1>5. RowsStand'
  BY <1>1 DEF RowsStand
<1>6. QED
  BY <1>2, <1>3, <1>4, <1>5

\* A step of the client's side: the Durable Object does nothing.
ClientSide ==
    /\ remote /\ UNCHANGED <<remote, ops, store, memo>>
    /\ \A c \in Clients : call'[c].no \in Nat /\ call[c].no <= call'[c].no
    /\ ReturnedIds \subseteq ReturnedIds'
    /\ Unreturned \subseteq Unreturned' \cup ReturnedIds'
    /\ \A v \in Views' : v \in Views \/ v.id \notin Acted

LEMMA ClientSideActs ==
  ASSUME TypeOK, CallsStand, StoreStand, ClientSide
  PROVE  /\ Acts' = Acts /\ Acted' = Acted
         /\ Started \subseteq Started'
         /\ LocalStand' /\ ActsStand' /\ MemoStand'
         /\ QueueStand' /\ PushesStand' /\ LogStand' /\ RowsStand'
<1>1. remote /\ remote' = remote /\ memo' = memo /\ UNCHANGED store
  BY DEF ClientSide
<1>2. Acts' = Acts
  BY <1>1 DEF Acts
<1>3. Acted' = Acted
  BY <1>2 DEF Acted
<1>4. \A id \in CallIds : id[1] \in Clients /\ id[2] \in Nat
  BY DEF CallIds
<1>5. \A id \in CallIds : id[2] <= call[id[1]].no => id[2] <= call'[id[1]].no
  BY <1>4 DEF ClientSide, TypeOK, ClientState
<1>6. Started \subseteq Started'
  BY <1>5 DEF Started
<1>7. LocalStand'
  BY <1>1 DEF LocalStand
<1>8. MemoStand'
  BY <1>1 DEF MemoStand, CallsStand
<1>9. ActsStand'
  <2>1. ASSUME NEW e \in Acts
        PROVE  /\ e.id \in Started'
               /\ e.op \in Ops /\ e.after \in Nat /\ e.answer \in Answer
               /\ e.op # "collect" => e.after = 0 /\ e.answer.next = 0
               /\ e.answer.next # 0 => e.answer.next > e.after
               /\ e.id \in ReturnedIds' \cup Unreturned'
    BY <1>6 DEF CallsStand, ActsStand, ClientSide, Started
  <2>2. \A e \in Acts, v \in Views' : e.id = v.id => e.op = v.op
    BY DEF CallsStand, ActsStand, ClientSide, Acted
  <2>3. QED
    BY <1>2, <2>1, <2>2 DEF CallsStand, ActsStand
<1>10. QueueStand' /\ PushesStand' /\ LogStand' /\ RowsStand'
  BY <1>1, <1>2, StoreStill DEF StoreStand, ClientSide
<1>11. QED
  BY <1>2, <1>3, <1>6, <1>7, <1>8, <1>9, <1>10

LEMMA ReturnedStill ==
  ASSUME ReturnedStand, UNCHANGED <<remote, returned>>, Acts \subseteq Acts', Started \subseteq Started'
  PROVE  ReturnedStand'
<1>1. returned' = returned /\ remote' = remote /\ Acted \subseteq Acted'
  BY DEF Acted
<1>2. ASSUME NEW r \in returned
      PROVE  /\ r.id \in Started' /\ Fits(r.op, r.arg) /\ r.before \subseteq CallIds
             /\ r.id \in Acted'
             /\ r.op # "collect" => \E e \in Acts' : e.id = r.id /\ e.op = r.op /\ Tells(r, e)'
  BY <1>1 DEF ReturnedStand, Tells
<1>3. \A r, p \in returned : r.id = p.id => r = p
  BY DEF ReturnedStand
<1>4. QED
  BY <1>1, <1>2, <1>3 DEF ReturnedStand

LEMMA RequestsStill ==
  ASSUME TypeOK, CallsStand, StoreStand, ClientSide,
         NEW q, RequestStands(q),
         \A v \in Views' : v.id = q.id => v \in Views,
         \A c \in Waiting' : Pending(c)' = q.id => q.after <= call'[c].after
  PROVE  RequestStands(q)'
<1>1. Acts' = Acts /\ Started \subseteq Started'
  BY ClientSideActs
<1>2. ReturnedIds \cup Unreturned \subseteq ReturnedIds' \cup Unreturned'
  BY DEF ClientSide
<1>3. QED
  BY <1>1, <1>2 DEF RequestStands

-----------------------------------------------------------------------------
(* Steps of the clients                                                    *)

LEMMA CallStep ==
  ASSUME IInv, NEW c \in Clients, NEW op \in ops, NEW arg \in Args(op), Call(c, op, arg)
  PROVE  IInv'
<1> DEFINE s == Begun(c, op, arg)
           id == <<c, call[c].no + 1>>
           q == Request(c, s)
           new == [id |-> id, op |-> op, arg |-> arg, before |-> ReturnedIds]
<1> USE DEF IInv
<1>1. /\ remote /\ CanBegin(c)
      /\ call' = [call EXCEPT ![c] = s]
      /\ net' = net \cup {q}
      /\ UNCHANGED <<remote, ops, store, memo, answers, returned>>
  BY DEF Call
<1>2. /\ call[c].no + 1 \in 1..MaxCalls /\ id \in CallIds /\ c \notin Waiting
      /\ id \notin Acted /\ id \notin ReturnedIds
      /\ \A v \in Views : v.id # id
      /\ \A p \in net : p.id # id
  BY <1>1, BeginsNew DEF WireStand
<1>3. /\ s.no = call[c].no + 1 /\ s.pc = "wait" /\ s.op = op /\ s.arg = arg /\ s.try = 1
      /\ s.after = 0 /\ s.rows = {} /\ s.before = ReturnedIds
  BY DEF Begun, ReturnedIds
<1>4. op \in Ops
  BY DEF TypeOK, Ops
<1>5. s \in ClientState
  <2>1. arg \in (UNION {Args(o) : o \in Ops}) \cup {<<>>}
    BY <1>4
  <2>2. ReturnedIds \subseteq CallIds
    BY DEF TypeOK, ReturnedIds
  <2>3. s = [no |-> call[c].no + 1, pc |-> "wait", op |-> op, arg |-> arg, try |-> 1, after |-> 0,
             rows |-> {}, before |-> ReturnedIds]
    BY DEF Begun, ReturnedIds
  <2> HIDE DEF s
  <2>4. QED
    BY <1>2, <1>4, <2>1, <2>2, <2>3 DEF ClientState
<1> HIDE DEF s
<1>6. call \in [Clients -> ClientState]
  BY DEF TypeOK
<1>7. call'[c] = s /\ \A d \in Clients : d # c => call'[d] = call[d]
  BY <1>1, <1>6
<1>8. TypeOK'
  BY <1>1, <1>5, <1>6 DEF TypeOK, store
<1>9. Waiting' = Waiting \cup {c} /\ ReturnedIds' = ReturnedIds
  BY <1>1, <1>3, <1>7 DEF Waiting, ReturnedIds
<1>10. Pending(c)' = id /\ \A d \in Waiting : Pending(d)' = Pending(d) /\ d \in Clients /\ d # c
  BY <1>2, <1>3, <1>7 DEF Pending, Id, Waiting
<1>11. Views' \subseteq Views \cup {new}
  <2>1. \A r \in returned' : [id |-> r.id, op |-> r.op, arg |-> r.arg, before |-> r.before] \in Views
    BY <1>1 DEF Views
  <2>2. \A d \in Waiting : [id |-> Pending(d), op |-> call[d].op, arg |-> call[d].arg,
                            before |-> call[d].before] \in Views
    BY DEF Views
  <2>3. \A d \in Waiting' :
          [id |-> Pending(d), op |-> call[d].op, arg |-> call[d].arg, before |-> call[d].before]'
          \in Views \cup {new}
    <3> SUFFICES ASSUME NEW d \in Waiting'
                 PROVE  [id |-> Pending(d)', op |-> call'[d].op, arg |-> call'[d].arg,
                         before |-> call'[d].before] \in Views \cup {new}
      OBVIOUS
    <3>1. CASE d = c
      BY <1>3, <1>7, <1>10, <3>1
    <3>2. CASE d \in Waiting
      BY <1>7, <1>10, <2>2, <3>2
    <3>3. QED
      BY <1>9, <3>1, <3>2
  <2>4. QED
    BY <2>1, <2>3 DEF Views
<1>12. ClientSide
  <2>1. \A d \in Clients : call'[d].no \in Nat /\ call[d].no <= call'[d].no
    BY <1>3, <1>6, <1>7, SizesAssumption DEF ClientState
  <2>2. Unreturned \subseteq Unreturned'
    <3> SUFFICES ASSUME NEW d \in Clients, call[d].pc # "idle"
                 PROVE  Pending(d) \in Unreturned'
      BY DEF Unreturned
    <3>1. d # c /\ call'[d] = call[d]
      BY <1>1, <1>7 DEF CanBegin
    <3>2. Pending(d)' = Pending(d)
      BY <3>1 DEF Pending, Id
    <3>3. QED
      BY <3>1, <3>2 DEF Unreturned
  <2>3. \A v \in Views' : v \in Views \/ v.id \notin Acted
    BY <1>2, <1>11
  <2>4. QED
    BY <1>1, <1>9, <2>1, <2>2, <2>3 DEF ClientSide
<1>13. /\ Acts' = Acts /\ Acted' = Acted
       /\ Started \subseteq Started'
       /\ LocalStand' /\ ActsStand' /\ MemoStand'
       /\ QueueStand' /\ PushesStand' /\ LogStand' /\ RowsStand'
  BY <1>12, ClientSideActs
<1>14. id \in Started' /\ Fits(op, arg)
  BY <1>2, <1>3, <1>4, <1>7 DEF Started, CallIds, Fits
<1>15. WaitStand'
  <2>1. ASSUME NEW d \in Waiting
        PROVE  /\ Pending(d)' \in Started' /\ Fits(call'[d].op, call'[d].arg)
               /\ Pending(d)' \notin ReturnedIds'
               /\ call'[d].op # "collect" => call'[d].after = 0
               /\ \A e \in Acts' : e.id = Pending(d)' => e.after <= call'[d].after
    BY <1>7, <1>9, <1>10, <1>13 DEF CallsStand, WaitStand
  <2>2. /\ Pending(c)' \in Started' /\ Fits(call'[c].op, call'[c].arg)
        /\ Pending(c)' \notin ReturnedIds'
        /\ call'[c].op # "collect" => call'[c].after = 0
        /\ \A e \in Acts' : e.id = Pending(c)' => e.after <= call'[c].after
    BY <1>2, <1>3, <1>7, <1>9, <1>10, <1>13, <1>14 DEF Acted
  <2>3. QED
    BY <1>9, <2>1, <2>2 DEF WaitStand
<1>16. NetStand'
  <2>1. q.id = id /\ q.op = op /\ q.arg = arg /\ q.after = 0 /\ q.attempt = <<id, 1>>
    BY <1>3, RequestShape
  <2> HIDE DEF q
  <2>2. ASSUME NEW p \in net
        PROVE  RequestStands(p)'
    <3>1. \A v \in Views' : v.id = p.id => v \in Views
      BY <1>2, <1>11
    <3>2. \A d \in Waiting' : Pending(d)' = p.id => p.after <= call'[d].after
      BY <1>2, <1>7, <1>9, <1>10 DEF WireStand, NetStand, RequestStands
    <3>3. RequestStands(p)
      BY DEF WireStand, NetStand
    <3>4. QED
      BY <1>12, <3>1, <3>2, <3>3, RequestsStill
  <2>3. ASSUME NEW p, p = q
        PROVE  RequestStands(p)'
    <3>1. \A v \in Views' : v.id = p.id => v = new
      BY <1>2, <1>11, <2>1, <2>3
    <3>2. p.id \in Unreturned'
      BY <1>3, <1>7, <1>10, <2>1, <2>3 DEF Unreturned
    <3>3. \A d \in Waiting' : call'[d].after \in Nat
      BY <1>8 DEF TypeOK, ClientState, Waiting
    <3>4. \A e \in Acts' : e.id # p.id
      BY <1>2, <1>13, <2>1, <2>3 DEF Acted
    <3>5. QED
      BY <1>14, <2>1, <2>3, <3>1, <3>2, <3>3, <3>4 DEF RequestStands
  <2>4. \A p, r \in net' : p.id = r.id => p.op = r.op /\ p.arg = r.arg
    BY <1>1, <1>2, <2>1 DEF WireStand, NetStand
  <2>5. \A p \in net' : RequestStands(p)'
    BY <1>1, <2>2, <2>3
  <2>6. QED
    BY <2>4, <2>5 DEF NetStand
<1>17. AnswersStand'
  <2>1. answers' = answers
    BY <1>1
  <2>2. ASSUME NEW a \in answers
        PROVE  /\ a.request.id[1] \in Waiting'
               /\ a.request = Request(a.request.id[1], call'[a.request.id[1]])
               /\ \E e \in Acts' :
                    /\ e.id = a.request.id /\ e.after = a.request.after
                    /\ e.op = a.request.op /\ e.answer = a.answer
    <3>1. a.request.id[1] \in Waiting
      BY DEF WireStand, AnswersStand
    <3>2. call'[a.request.id[1]] = call[a.request.id[1]]
      BY <1>7, <1>10, <3>1
    <3>3. QED
      BY <1>9, <1>13, <3>1, <3>2 DEF WireStand, AnswersStand
  <2>3. \A a \in answers : Request(a.request.id[1], call[a.request.id[1]])'
                           = Request(a.request.id[1], call'[a.request.id[1]])
    BY DEF Request, AttemptId, Id
  <2>4. answers \subseteq [request : {a.request : a \in answers}, answer : Answer]
    BY DEF WireStand, AnswersStand
  <2>5. QED
    BY <2>1, <2>2, <2>3, <2>4 DEF AnswersStand
<1>18. ReturnedStand'
  BY <1>1, <1>13, ReturnedStill DEF CallsStand
<1>19. ViewsStand'
  BY <1>9, <1>11 DEF CallsStand, ViewsStand
<1>20. CollectStand'
  <2>1. rows' = rows /\ returned' = returned
    BY <1>1 DEF store
  <2>2. CollectTakesAll'
    BY <2>1 DEF StoreStand, CollectStand, CollectTakesAll, Returned
  <2>3. \A r \in rows : r.key \in Nat /\ r.key > 0
    BY SizesAssumption DEF TypeOK, Rows
  <2>4. \A d \in Waiting : \A r : Owes(d, r)' <=> Owes(d, r)
    BY <1>7, <1>10 DEF Owes
  <2>5. \A d \in Waiting', r \in rows' : Owes(d, r)' => r.key > call'[d].after
    BY <1>3, <1>7, <1>9, <1>10, <2>1, <2>3, <2>4 DEF StoreStand, CollectStand
  <2>6. \A d \in Waiting', r \in rows', e \in Acts' :
          Owes(d, r)' /\ e.id = Pending(d)' /\ e.after = call'[d].after
          => e.answer.next # 0 /\ r.key > e.answer.next
    <3>1. \A e \in Acts : e.id # id
      BY <1>2 DEF Acted
    <3>2. QED
      BY <1>7, <1>9, <1>10, <1>13, <2>1, <2>4, <3>1 DEF StoreStand, CollectStand
  <2>7. QED
    BY <2>2, <2>5, <2>6 DEF CollectStand
<1>21. QED
  BY <1>8, <1>13, <1>15, <1>16, <1>17, <1>18, <1>19, <1>20 DEF CallsStand, WireStand, StoreStand

-----------------------------------------------------------------------------
(* Steps of the storage                                                    *)

\* Only a client of the Durable Object waits.
LEMMA RemoteOnly ==
  ASSUME LocalStand
  PROVE  /\ net # {} => remote
         /\ answers # {} => remote
         /\ Waiting # {} => remote
BY DEF LocalStand

LEMMA ReplyStands ==
  ASSUME AnswersStand, UNCHANGED call, Acts \subseteq Acts',
         NEW q, NEW answer \in Answer, Reply(q, answer), q.id[1] \in Clients,
         \E e \in Acts' :
            e.id = q.id /\ e.after = q.after /\ e.op = q.op /\ e.answer = answer
  PROVE  AnswersStand'
<1> DEFINE new == [request |-> q, answer |-> answer]
<1>1. Waiting' = Waiting
  BY DEF Waiting
<1>2. ASSUME NEW a \in answers
      PROVE  /\ a.request.id[1] \in Waiting
             /\ a.request = Request(a.request.id[1], call[a.request.id[1]])
             /\ \E e \in Acts' :
                  /\ e.id = a.request.id /\ e.after = a.request.after
                  /\ e.op = a.request.op /\ e.answer = a.answer
  BY DEF AnswersStand
<1>3. CASE Awaited(q)
  <2>1. answers' = answers \cup {new}
    BY <1>3 DEF Reply
  <2>2. new.request = q /\ new.answer = answer
    OBVIOUS
  <2>3. q.id[1] \in Waiting /\ q = Request(q.id[1], call[q.id[1]])
    BY <1>3 DEF Awaited, Waiting
  <2>4. answers' \subseteq [request : {a.request : a \in answers'}, answer : Answer]
    BY <2>1 DEF AnswersStand
  <2> HIDE DEF new
  <2>5. \A a \in answers' : a.request = Request(a.request.id[1], call[a.request.id[1]])
    BY <1>2, <2>1, <2>2, <2>3
  <2>6. \A a \in answers' : Request(a.request.id[1], call[a.request.id[1]])'
                         = Request(a.request.id[1], call[a.request.id[1]])
    BY DEF Request, AttemptId, Id
  <2>7. QED
    BY <1>1, <1>2, <2>1, <2>2, <2>3, <2>4, <2>5, <2>6 DEF AnswersStand
<1>4. CASE ~Awaited(q)
  <2>1. answers' = answers
    BY <1>4 DEF Reply
  <2>2. \A a \in answers : Request(a.request.id[1], call[a.request.id[1]])'
                         = Request(a.request.id[1], call[a.request.id[1]])
    BY DEF Request, AttemptId, Id
  <2>3. answers \subseteq [request : {a.request : a \in answers}, answer : Answer]
    BY DEF AnswersStand
  <2>4. QED
    BY <1>1, <1>2, <2>1, <2>2, <2>3 DEF AnswersStand
<1>5. QED
  BY <1>3, <1>4

LEMMA RepeatStep ==
  ASSUME IInv, NEW q \in net, Repeat(q)
  PROVE  IInv'
<1> USE DEF IInv
<1>1. /\ net' = net \ {q}
      /\ UNCHANGED <<remote, ops, store, memo, call, returned>>
  BY DEF Repeat
<1>2. PICK m \in memo : m.attempt = q.attempt /\ m.after = q.after /\ Reply(q, m.answer)
  BY DEF Repeat, Known
<1>3. remote
  BY RemoteOnly DEF CallsStand
<1>4. TypeOK'
  BY <1>1 DEF TypeOK, store
<1>5. /\ Acts' = Acts /\ Views' = Views /\ Waiting' = Waiting /\ ReturnedIds' = ReturnedIds
      /\ Started' = Started /\ Unreturned' = Unreturned
      /\ \A c : Pending(c)' = Pending(c)
  BY <1>1 DEF Acts, Views, Waiting, ReturnedIds, Started, Unreturned, Pending, Id
<1>6. Acted' = Acted
  BY <1>5 DEF Acted
<1>7. CallsStand'
  <2>1. LocalStand'
    BY <1>1, <1>3 DEF LocalStand
  <2>2. ActsStand'
    BY <1>5 DEF CallsStand, ActsStand
  <2>3. MemoStand'
    BY <1>1 DEF CallsStand, MemoStand
  <2>4. WaitStand'
    BY <1>1, <1>5 DEF CallsStand, WaitStand
  <2>5. ReturnedStand'
    BY <1>1, <1>5, ReturnedStill DEF CallsStand
  <2>6. ViewsStand'
    BY <1>5 DEF CallsStand, ViewsStand
  <2>7. QED
    BY <2>1, <2>2, <2>3, <2>4, <2>5, <2>6 DEF CallsStand
<1>8. NetStand'
  <2>1. \A p \in net : RequestStands(p)'
    BY <1>1, <1>5 DEF WireStand, NetStand, RequestStands
  <2>2. QED
    BY <1>1, <2>1 DEF WireStand, NetStand
<1>9. AnswersStand'
  <2> DEFINE e == [id |-> m.attempt[1], op |-> m.op, after |-> m.after, answer |-> m.answer]
  <2>1. e \in Acts /\ e.after = q.after /\ e.answer = m.answer
    BY <1>2, <1>3 DEF Acts
  <2>2. e.id = q.id /\ q.id \in CallIds
    BY <1>2 DEF WireStand, NetStand, RequestStands, Started
  <2> HIDE DEF e
  <2>3. e.op = q.op
    BY <2>1, <2>2 DEF WireStand, NetStand, RequestStands
  <2>4. m.answer \in Answer /\ q.id[1] \in Clients
    BY <2>2 DEF TypeOK, CallIds
  <2>5. \E f \in Acts' : f.id = q.id /\ f.after = q.after /\ f.op = q.op /\ f.answer = m.answer
    BY <1>5, <2>1, <2>2, <2>3
  <2>6. call' = call
    BY <1>1
  <2>7. QED
    BY <1>2, <1>5, <2>4, <2>5, <2>6, ReplyStands DEF WireStand
<1>10. QueueStand' /\ PushesStand' /\ LogStand' /\ RowsStand'
  BY <1>1, <1>5, StoreStill DEF StoreStand
<1>11. CollectStand'
  <2>1. rows' = rows /\ returned' = returned /\ call' = call
    BY <1>1 DEF store
  <2>2. CollectTakesAll'
    BY <2>1 DEF StoreStand, CollectStand, CollectTakesAll, Returned
  <2>3. \A c, r : Owes(c, r)' <=> Owes(c, r)
    BY <2>1 DEF Owes
  <2>4. QED
    BY <1>5, <2>1, <2>2, <2>3 DEF StoreStand, CollectStand
<1>12. QED
  BY <1>4, <1>7, <1>8, <1>9, <1>10, <1>11 DEF WireStand, StoreStand

\* What an act leaves and answers has its type, and names a later page.
LEMMA EffectTypes ==
  ASSUME queue \in Seq(Items), rows \subseteq Rows, log \in Seq(CallIds), KeysUnique,
         NEW id \in CallIds, NEW op \in Ops, NEW arg \in Args(op), NEW after \in Nat,
         Effect(op, id, arg, after)
  PROVE  /\ queue' \in Seq(Items) /\ rows' \subseteq Rows /\ log' \in Seq(CallIds)
         /\ AnswerOf(op, after) \in Answer
         /\ op # "collect" => AnswerOf(op, after).next = 0
         /\ AnswerOf(op, after).next # 0 => AnswerOf(op, after).next > after
<1>1. op \in {"push", "pop", "clear", "put", "collect", "append"}
  BY OpsNamed
<1>2. queue' \in Seq(Items)
  <2>1. CASE op = "push"
    <3>1. arg \in Pushes
      BY <2>1, ArgShape
    <3>2. ItemsOf(id, arg) \in Seq(Items)
      BY <3>1, ItemsShape
    <3>3. QED
      BY <2>1, <3>2, EffectShape, QueuePushed DEF Push
  <2>2. CASE op = "pop"
    <3>1. CASE queue = <<>>
      BY <2>2, <3>1, EffectShape DEF Pop
    <3>2. CASE queue # <<>>
      BY <2>2, <3>2, EffectShape, QueuePopped DEF Pop
    <3>3. QED
      BY <3>1, <3>2
  <2>3. CASE op = "clear"
    <3>1. queue' = <<>>
      BY <2>3, EffectShape DEF Clear
    <3>2. QED
      BY <3>1, EmptySeq
  <2>4. CASE op \notin {"push", "pop", "clear"}
    BY <2>4, EffectShape
  <2>5. QED
    BY <2>1, <2>2, <2>3, <2>4
<1>3. rows' \subseteq Rows
  <2>1. CASE op = "put"
    <3>1. arg[1] \in 1..MaxKey
      BY <2>1, ArgShape
    <3>2. [key |-> arg[1], call |-> id] \in Rows
      BY <3>1 DEF Rows
    <3>3. QED
      BY <2>1, <3>2, EffectShape DEF Put
  <2>2. CASE op = "collect"
    BY <2>2, EffectShape DEF Drain
  <2>3. CASE op \notin {"put", "collect"}
    BY <2>3, EffectShape
  <2>4. QED
    BY <2>1, <2>2, <2>3
<1>4. log' \in Seq(CallIds)
  <2>1. CASE op = "append"
    BY <2>1, EffectShape, AppendProperties DEF Extend
  <2>2. CASE op # "append"
    BY <2>2, EffectShape
  <2>3. QED
    BY <2>1, <2>2
<1>5. /\ AnswerOf(op, after) \in Answer
      /\ op # "collect" => AnswerOf(op, after).next = 0
      /\ AnswerOf(op, after).next # 0 => AnswerOf(op, after).next > after
  <2>1. CASE op = "pop"
    <3>1. Oldest \in Items \cup {NoItem}
      BY HeadTailProperties DEF Oldest
    <3>2. AnswerOf(op, after) = [item |-> Oldest, rows |-> {}, next |-> 0, ordinal |-> 0]
      BY <2>1, AnswerShape
    <3>3. QED
      BY <3>1, <3>2 DEF Answer
  <2>2. CASE op = "collect"
    <3>1. /\ Drained(after) \subseteq rows /\ NextAfter(after) \in Nat
          /\ NextAfter(after) # 0 => NextAfter(after) > after
      BY PageStands
    <3>2. AnswerOf(op, after) =
            [item |-> NoItem, rows |-> Drained(after), next |-> NextAfter(after), ordinal |-> 0]
      BY <2>2, AnswerShape
    <3>3. QED
      BY <2>2, <3>1, <3>2 DEF Answer
  <2>3. CASE op = "append"
    <3>1. Len(log) + 1 \in Nat
      BY LenProperties
    <3>2. AnswerOf(op, after) = [item |-> NoItem, rows |-> {}, next |-> 0, ordinal |-> Len(log) + 1]
      BY <2>3, AnswerShape
    <3>3. QED
      BY <3>1, <3>2 DEF Answer
  <2>4. CASE op \in {"push", "clear", "put"}
    <3>1. AnswerOf(op, after) = Done
      BY <2>4, AnswerShape
    <3>2. QED
      BY <3>1 DEF Answer, Done
  <2>5. QED
    BY <1>1, <2>1, <2>2, <2>3, <2>4
<1>6. QED
  BY <1>2, <1>3, <1>4, <1>5

LEMMA ExecuteStep ==
  ASSUME IInv, NEW q \in net, Execute(q)
  PROVE  IInv'
<1> DEFINE answer == AnswerOf(q.op, q.after)
           new == [id |-> q.id, op |-> q.op, after |-> q.after, answer |-> answer]
           told == [attempt |-> q.attempt, after |-> q.after, op |-> q.op, answer |-> answer]
<1> USE DEF IInv
<1>1. /\ Known(q) = {}
      /\ Effect(q.op, q.id, q.arg, q.after)
      /\ memo' = memo \cup {told}
      /\ Reply(q, answer)
      /\ net' = net \ {q}
      /\ UNCHANGED <<remote, ops, call, returned>>
  BY DEF Execute
<1>2. remote
  BY RemoteOnly DEF CallsStand
<1>3. /\ q.attempt = <<q.id, 1>> /\ q.id \in Started /\ q.id \in CallIds /\ q.id[1] \in Clients
      /\ q.op \in Ops /\ q.arg \in Args(q.op) /\ q.after \in Nat
      /\ q.op # "collect" => q.after = 0
      /\ \A v \in Views : v.id = q.id => v.op = q.op /\ v.arg = q.arg
      /\ q.id \in ReturnedIds \cup Unreturned
      /\ \A c \in Waiting : Pending(c) = q.id => q.after <= call[c].after
      /\ \A e \in Acts : e.id = q.id => e.op = q.op
  BY DEF WireStand, NetStand, RequestStands, Fits, Started, CallIds
<1>4. /\ Views' = Views /\ Waiting' = Waiting /\ ReturnedIds' = ReturnedIds
      /\ Started' = Started /\ Unreturned' = Unreturned
      /\ \A c : Pending(c)' = Pending(c)
  BY <1>1 DEF Views, Waiting, ReturnedIds, Started, Unreturned, Pending, Id
<1>5. new.id = q.id /\ new.op = q.op /\ new.after = q.after /\ new.answer = answer
  OBVIOUS
<1>6. Acts' = Acts \cup {new}
  <2>1. /\ told.attempt[1] = q.id /\ told.op = q.op /\ told.after = q.after /\ told.answer = answer
    BY <1>3
  <2> HIDE DEF told, answer
  <2>2. QED
    BY <1>1, <1>2, <2>1 DEF Acts
<1>7. \A e \in Acts : ~(e.id = q.id /\ e.after = q.after)
  <2> SUFFICES ASSUME NEW m \in memo, m.attempt[1] = q.id, m.after = q.after
               PROVE  FALSE
    BY <1>2 DEF Acts
  <2>1. m.attempt = q.attempt
    BY <1>3 DEF CallsStand, MemoStand
  <2>2. m \in Known(q)
    BY <2>1 DEF Known
  <2>3. QED
    BY <1>1, <2>2
<1>8. q.op # "collect" => q.id \notin Acted
  BY <1>3, <1>7 DEF CallsStand, ActsStand, Acted
<1>9. /\ \A v \in Views : v.id \in CallIds /\ v.op \in Ops /\ v.arg \in Args(v.op)
      /\ \A v \in Views : v.before \subseteq Acted
  BY ViewShape DEF CallsStand, Started, Fits
<1>10. Acting(q.id, q.op, q.arg, q.after)
  BY <1>1, <1>3, <1>4, <1>6, <1>7, <1>8, <1>9 DEF Acting
<1>11. KeysUnique
  BY DEF KeysUnique, StoreStand, RowsStand
<1>12. /\ queue' \in Seq(Items) /\ rows' \subseteq Rows /\ log' \in Seq(CallIds)
       /\ answer \in Answer
       /\ q.op # "collect" => answer.next = 0
       /\ answer.next # 0 => answer.next > q.after
  BY <1>1, <1>3, <1>11, EffectTypes DEF TypeOK
<1>13. Acted' = Acted \cup {q.id}
  BY <1>10, ActedGrows
<1>14. told.answer = answer /\ told.attempt = q.attempt
  OBVIOUS
<1> HIDE DEF answer, new, told
<1>15. TypeOK'
  BY <1>1, <1>12, <1>14 DEF TypeOK
<1>16. LocalStand'
  BY <1>1, <1>2 DEF LocalStand
<1>17. MemoStand'
  BY <1>1, <1>3, <1>14 DEF CallsStand, MemoStand
<1>18. ActsStand'
  <2>1. ASSUME NEW e \in Acts'
        PROVE  /\ e.id \in Started
               /\ e.op \in Ops /\ e.after \in Nat /\ e.answer \in Answer
               /\ e.op # "collect" => e.after = 0 /\ e.answer.next = 0
               /\ e.answer.next # 0 => e.answer.next > e.after
               /\ e.id \in ReturnedIds \cup Unreturned
    <3>1. CASE e \in Acts
      BY <3>1 DEF CallsStand, ActsStand
    <3>2. CASE e = new
      BY <1>3, <1>5, <1>12, <3>2
    <3>3. QED
      BY <1>6, <3>1, <3>2
  <2>2. \A e, f \in Acts' : e.id = f.id /\ e.after = f.after => e = f
    BY <1>5, <1>6, <1>7 DEF CallsStand, ActsStand
  <2>3. \A e \in Acts', v \in Views : e.id = v.id => e.op = v.op
    BY <1>3, <1>5, <1>6 DEF CallsStand, ActsStand
  <2>4. QED
    BY <1>4, <2>1, <2>2, <2>3 DEF ActsStand
<1>19. WaitStand'
  <2>1. \A c \in Waiting, e \in Acts' : e.id = Pending(c) => e.after <= call[c].after
    BY <1>3, <1>5, <1>6 DEF CallsStand, WaitStand
  <2>2. QED
    BY <1>1, <1>4, <2>1 DEF CallsStand, WaitStand
<1>20. ReturnedStand'
  BY <1>1, <1>4, <1>6, ReturnedStill DEF CallsStand
<1>21. ViewsStand'
  BY <1>4 DEF CallsStand, ViewsStand
<1>22. NetStand'
  <2>1. ASSUME NEW p \in net
        PROVE  RequestStands(p)'
    <3>1. \A e \in Acts' : e.id = p.id => e.op = p.op
      BY <1>5, <1>6 DEF WireStand, NetStand, RequestStands
    <3>2. QED
      BY <1>1, <1>4, <3>1 DEF WireStand, NetStand, RequestStands
  <2>2. QED
    BY <1>1, <2>1 DEF WireStand, NetStand
<1>23. AnswersStand'
  <2>1. \E e \in Acts' : e.id = q.id /\ e.after = q.after /\ e.op = q.op /\ e.answer = answer
    BY <1>5, <1>6
  <2>2. call' = call /\ Acts \subseteq Acts'
    BY <1>1, <1>6
  <2>3. QED
    BY <1>1, <1>3, <1>12, <2>1, <2>2, ReplyStands DEF WireStand
<1>24. QueueStand' /\ PushesStand' /\ LogStand'
  BY <1>10, QueueActs, PushesActs, LogActs DEF TypeOK, StoreStand
<1>25. RowsStand' /\ \A r \in rows' : r \in rows \/ (q.op = "put" /\ r.call = q.id)
  BY <1>10, RowsActs DEF TypeOK, StoreStand
<1>26. CollectStand'
  <2>1. \A r \in rows' : r.call \in Acted => r \in rows
    BY <1>8, <1>25
  <2>2. \A k \in returned : k.before \subseteq Acted
    <3>1. \A k \in returned : \E v \in Views : v.before = k.before
      <4> SUFFICES ASSUME NEW k \in returned
                   PROVE  \E v \in Views : v.before = k.before
        OBVIOUS
      <4> DEFINE v == [id |-> k.id, op |-> k.op, arg |-> k.arg, before |-> k.before]
      <4>1. v \in Views
        BY DEF Views
      <4>2. QED
        BY <4>1
    <3>2. QED
      BY <1>9, <3>1
  <2>3. CollectTakesAll'
    BY <1>1, <2>1, <2>2 DEF StoreStand, CollectStand, CollectTakesAll, Returned
  <2>4. ASSUME NEW c \in Waiting, NEW r \in rows', Owes(c, r)
        PROVE  r \in rows /\ r.key > call[c].after /\ call[c].op = "collect"
    <3>1. PICK v \in Views : v.before = call[c].before
      BY ViewShape DEF CallsStand
    <3>2. r \in rows
      BY <1>9, <2>1, <2>4, <3>1 DEF Owes
    <3>3. QED
      BY <2>4, <3>2 DEF StoreStand, CollectStand, Owes
  <2>5. ASSUME NEW c \in Waiting, NEW r \in rows', Owes(c, r),
               q.id = Pending(c), q.after = call[c].after
        PROVE  answer.next # 0 /\ r.key > answer.next
    <3>1. r \in rows /\ r.key > q.after
      BY <2>4, <2>5
    <3>2. q.op = "collect"
      <4>1. PICK v \in Views : v.id = Pending(c) /\ v.op = call[c].op
        BY ViewShape DEF CallsStand
      <4>2. QED
        BY <1>3, <2>4, <2>5, <4>1
    <3>3. rows' = rows \ Drained(q.after)
      BY <1>1, <3>2, EffectShape DEF Drain
    <3>4. answer.next = NextAfter(q.after)
      BY <3>2, AnswerShape DEF answer
    <3>5. rows \subseteq Rows /\ q.after \in Nat
      BY <1>3 DEF TypeOK
    <3>6. \A p \in rows \ Drained(q.after) :
            p.key > q.after => NextAfter(q.after) # 0 /\ p.key > NextAfter(q.after)
      BY <1>11, <3>5, PageStands
    <3>7. QED
      BY <3>1, <3>3, <3>4, <3>6
  <2>6. \A c, r : Owes(c, r)' <=> Owes(c, r)
    BY <1>1 DEF Owes
  <2>7. \A c \in Waiting, r \in rows' : Owes(c, r) => r.key > call[c].after
    BY <2>4
  <2>8. \A c \in Waiting, r \in rows', e \in Acts' :
          Owes(c, r) /\ e.id = Pending(c) /\ e.after = call[c].after
          => e.answer.next # 0 /\ r.key > e.answer.next
    <3> SUFFICES ASSUME NEW c \in Waiting, NEW r \in rows', NEW e \in Acts',
                        Owes(c, r), e.id = Pending(c), e.after = call[c].after
                 PROVE  e.answer.next # 0 /\ r.key > e.answer.next
      OBVIOUS
    <3>1. CASE e = new
      BY <1>5, <2>5, <3>1
    <3>2. CASE e \in Acts
      BY <2>4, <3>2 DEF StoreStand, CollectStand
    <3>3. QED
      BY <1>6, <3>1, <3>2
  <2>9. QED
    BY <1>1, <1>4, <2>3, <2>6, <2>7, <2>8 DEF CollectStand
<1>27. QED
  BY <1>15, <1>16, <1>17, <1>18, <1>19, <1>20, <1>21, <1>22, <1>23, <1>24, <1>25, <1>26
     DEF CallsStand, WireStand, StoreStand

LEMMA CallLocalStep ==
  ASSUME IInv, NEW c \in Clients, NEW op \in ops, NEW arg \in Args(op), CallLocal(c, op, arg)
  PROVE  IInv'
<1> DEFINE id == <<c, call[c].no + 1>>
           answer == AnswerOf(op, 0)
           new == [id |-> id, op |-> op, after |-> 0, answer |-> answer]
           ret == [id |-> id, op |-> op, arg |-> arg, before |-> ReturnedIds, answer |-> answer,
                   unread |-> FALSE]
           view == [id |-> id, op |-> op, arg |-> arg, before |-> ReturnedIds]
<1> USE DEF IInv
<1>1. /\ ~remote /\ CanBegin(c)
      /\ call' = [call EXCEPT ![c] = Between(call[c].no + 1, "idle")]
      /\ Effect(op, id, arg, 0)
      /\ returned' = returned \cup {ret}
      /\ UNCHANGED <<remote, ops, memo, net, answers>>
  BY DEF CallLocal, Begun, Id, Return, ReturnedIds
<1>2. /\ call[c].no + 1 \in 1..MaxCalls /\ id \in CallIds /\ c \notin Waiting
      /\ id \notin Acted /\ id \notin ReturnedIds
      /\ \A v \in Views : v.id # id
  BY <1>1, BeginsNew DEF WireStand
<1>3. memo = {} /\ net = {} /\ answers = {} /\ Waiting = {}
  BY <1>1 DEF CallsStand, LocalStand
<1>4. op \in Ops
  BY DEF TypeOK, Ops
<1>5. call \in [Clients -> ClientState]
  BY DEF TypeOK
<1>6. /\ call'[c].no = call[c].no + 1 /\ call'[c].pc = "idle"
      /\ \A d \in Clients : d # c => call'[d] = call[d]
  BY <1>1, <1>5 DEF Between
<1>7. call' \in [Clients -> ClientState]
  <2>1. Between(call[c].no + 1, "idle") \in ClientState
    BY <1>2, BetweenType, SizesAssumption
  <2>2. QED
    BY <1>1, <1>5, <2>1
<1>8. Waiting' = {}
  BY <1>3, <1>6 DEF Waiting
<1>9. /\ new.id = id /\ new.op = op /\ new.after = 0 /\ new.answer = answer
      /\ ret.id = id /\ ret.op = op /\ ret.arg = arg /\ ret.before = ReturnedIds /\ ret.answer = answer
      /\ view.id = id /\ view.op = op /\ view.arg = arg /\ view.before = ReturnedIds
  OBVIOUS
<1>10. Acts' = Acts \cup {new}
  <2>1. [id |-> ret.id, op |-> ret.op, after |-> 0, answer |-> ret.answer] = new
    OBVIOUS
  <2> HIDE DEF ret, new
  <2>2. QED
    BY <1>1, <2>1 DEF Acts
<1>11. Views' = Views \cup {view}
  <2>1. [id |-> ret.id, op |-> ret.op, arg |-> ret.arg, before |-> ret.before] = view
    OBVIOUS
  <2> HIDE DEF ret, view
  <2>2. QED
    BY <1>1, <1>3, <1>8, <2>1 DEF Views
<1>12. ReturnedIds' = ReturnedIds \cup {id}
  <2> HIDE DEF ret
  <2>1. QED
    BY <1>1, <1>9 DEF ReturnedIds
<1>13. KeysUnique
  BY DEF KeysUnique, StoreStand, RowsStand
<1>14. /\ queue' \in Seq(Items) /\ rows' \subseteq Rows /\ log' \in Seq(CallIds)
       /\ answer \in Answer
       /\ op # "collect" => answer.next = 0
       /\ answer.next # 0 => answer.next > 0
  <2>1. 0 \in Nat
    OBVIOUS
  <2>2. QED
    BY <1>1, <1>2, <1>4, <1>13, <2>1, EffectTypes DEF TypeOK
<1>15. /\ \A v \in Views : v.id \in CallIds /\ v.op \in Ops /\ v.arg \in Args(v.op)
       /\ \A v \in Views : v.before \subseteq Acted
       /\ ReturnedIds \subseteq Acted /\ ReturnedIds \subseteq CallIds
  BY ViewShape DEF CallsStand, Started, Fits
<1>16. \A e \in Acts : e.id # id
  BY <1>2 DEF Acted
<1> HIDE DEF new, ret, view, answer
<1>17. Acting(id, op, arg, 0)
  <2>1. \A v \in Views' :
          /\ v.id \in CallIds /\ v.op \in Ops /\ v.arg \in Args(v.op)
          /\ v \in Views \/ (v.id = id /\ id \notin Acted)
          /\ v.id = id => v.op = op /\ v.arg = arg
          /\ \A b \in v.before : b \in Acted
    BY <1>2, <1>4, <1>9, <1>11, <1>15
  <2>2. Acts' = Acts \cup {[id |-> id, op |-> op, after |-> 0, answer |-> AnswerOf(op, 0)]}
    BY <1>10 DEF new, answer
  <2>3. QED
    BY <1>1, <1>2, <1>4, <1>16, <2>1, <2>2 DEF Acting
<1>18. Acted' = Acted \cup {id}
  BY <1>17, ActedGrows
<1>19. TypeOK'
  <2>1. \A r \in returned' : r.id \in CallIds /\ r.answer \in Answer
    BY <1>1, <1>2, <1>9, <1>14 DEF TypeOK
  <2>2. QED
    BY <1>1, <1>3, <1>7, <1>14, <2>1 DEF TypeOK
<1>20. Started \subseteq Started' /\ id \in Started'
  <2>1. \A d \in Clients : call[d].no \in Nat /\ call'[d].no \in Nat /\ call[d].no <= call'[d].no
    BY <1>2, <1>5, <1>6, SizesAssumption DEF ClientState
  <2>2. id \in Started'
    BY <1>2, <1>6 DEF Started, CallIds
  <2>3. ASSUME NEW x \in Started
        PROVE  x \in Started'
    <3>1. x[1] \in Clients /\ x[2] \in Nat /\ x[2] <= call[x[1]].no /\ x \in CallIds
      BY DEF Started, CallIds
    <3>2. x[2] <= call'[x[1]].no
      BY <2>1, <3>1
    <3>3. QED
      BY <3>1, <3>2 DEF Started
  <2>4. QED
    BY <2>2, <2>3
<1>21. Unreturned \subseteq Unreturned'
  <2> SUFFICES ASSUME NEW d \in Clients, call[d].pc # "idle"
               PROVE  Pending(d) \in Unreturned'
    BY DEF Unreturned
  <2>1. d # c /\ call'[d] = call[d]
    BY <1>1, <1>6 DEF CanBegin
  <2>2. Pending(d)' = Pending(d)
    BY <2>1 DEF Pending, Id
  <2>3. QED
    BY <2>1, <2>2 DEF Unreturned
<1>22. LocalStand' /\ MemoStand' /\ WaitStand'
  BY <1>1, <1>3, <1>8 DEF LocalStand, MemoStand, WaitStand
<1>23. ActsStand'
  <2>1. ASSUME NEW e \in Acts'
        PROVE  /\ e.id \in Started'
               /\ e.op \in Ops /\ e.after \in Nat /\ e.answer \in Answer
               /\ e.op # "collect" => e.after = 0 /\ e.answer.next = 0
               /\ e.answer.next # 0 => e.answer.next > e.after
               /\ e.id \in ReturnedIds' \cup Unreturned'
    <3>1. CASE e \in Acts
      BY <1>12, <1>20, <1>21, <3>1 DEF CallsStand, ActsStand
    <3>2. CASE e = new
      <4>1. e.id = id /\ e.op = op /\ e.after = 0 /\ e.answer = answer
        BY <1>9, <3>2
      <4>2. id \in ReturnedIds' \cup Unreturned'
        BY <1>12
      <4> HIDE DEF id
      <4>3. QED
        BY <1>4, <1>14, <1>20, <4>1, <4>2
    <3>3. QED
      BY <1>10, <3>1, <3>2
  <2>2. \A e, f \in Acts' : e.id = f.id /\ e.after = f.after => e = f
    BY <1>9, <1>10, <1>16 DEF CallsStand, ActsStand
  <2>3. \A e \in Acts', v \in Views' : e.id = v.id => e.op = v.op
    BY <1>2, <1>9, <1>10, <1>11, <1>16 DEF CallsStand, ActsStand
  <2>4. QED
    BY <2>1, <2>2, <2>3 DEF ActsStand
<1>24. ReturnedStand'
  <2>1. ASSUME NEW r \in returned'
        PROVE  /\ r.id \in Started' /\ Fits(r.op, r.arg) /\ r.before \subseteq CallIds
               /\ r.id \in Acted'
               /\ r.op # "collect" => \E e \in Acts' : e.id = r.id /\ e.op = r.op /\ Tells(r, e)'
    <3>1. CASE r \in returned
      <4>1. remote' = remote /\ Acts \subseteq Acts' /\ Acted \subseteq Acted'
        BY <1>1, <1>10, <1>18
      <4>2. /\ r.id \in Started /\ Fits(r.op, r.arg) /\ r.before \subseteq CallIds /\ r.id \in Acted
            /\ r.op # "collect" => \E e \in Acts : e.id = r.id /\ e.op = r.op /\ Tells(r, e)
        BY <3>1 DEF CallsStand, ReturnedStand
      <4>3. ASSUME NEW e \in Acts, Tells(r, e)
            PROVE  Tells(r, e)'
        BY <4>1, <4>3 DEF Tells
      <4>4. QED
        BY <1>20, <4>1, <4>2, <4>3
    <3>2. CASE r = ret
      <4>1. PICK e \in Acts' : e = new
        BY <1>10
      <4>2. e.id = r.id /\ e.op = r.op /\ r.answer = e.answer
        BY <1>9, <3>2, <4>1
      <4>3. Tells(r, e)'
        BY <4>2 DEF Tells
      <4>4. QED
        BY <1>4, <1>9, <1>15, <1>18, <1>20, <3>2, <4>2, <4>3 DEF Fits
    <3>3. QED
      BY <1>1, <3>1, <3>2
  <2>2. \A r \in returned : r.id # id
    BY <1>2 DEF ReturnedIds
  <2>3. \A r, p \in returned' : r.id = p.id => r = p
    BY <1>1, <1>9, <2>2 DEF CallsStand, ReturnedStand
  <2>4. QED
    BY <2>1, <2>3 DEF ReturnedStand
<1>25. ViewsStand'
  BY <1>9, <1>11, <1>12 DEF CallsStand, ViewsStand
<1>26. NetStand' /\ AnswersStand'
  BY <1>1, <1>3 DEF NetStand, AnswersStand
<1>27. QueueStand' /\ PushesStand' /\ LogStand'
  BY <1>17, QueueActs, PushesActs, LogActs DEF TypeOK, StoreStand
<1>28. RowsStand' /\ \A r \in rows' : r \in rows \/ (op = "put" /\ r.call = id)
  BY <1>17, RowsActs DEF TypeOK, StoreStand
<1>29. CollectStand'
  <2>1. \A r \in rows' : r.call \in Acted => r \in rows
    BY <1>2, <1>28
  <2>2. ASSUME NEW k \in returned', k.op = "collect", ~k.unread, NEW r \in rows', r.call \in k.before
        PROVE  FALSE
    <3>1. CASE k \in returned
      <4> DEFINE v == [id |-> k.id, op |-> k.op, arg |-> k.arg, before |-> k.before]
      <4>1. v \in Views
        BY <3>1 DEF Views
      <4>2. r \in rows
        BY <1>15, <2>1, <2>2, <4>1
      <4>3. QED
        BY <2>2, <3>1, <4>2 DEF StoreStand, CollectStand, CollectTakesAll, Returned
    <3>2. CASE k = ret
      <4>1. op = "collect"
        BY <1>9, <2>2, <3>2
      <4>2. rows' = rows \ Drained(0)
        BY <1>1, <4>1, EffectShape DEF Drain
      <4>3. QED
        BY <1>1, <2>2, <4>2 DEF Drained
    <3>3. QED
      BY <1>1, <3>1, <3>2
  <2>3. QED
    BY <1>8, <2>2 DEF CollectStand, CollectTakesAll, Returned
<1>30. QED
  BY <1>19, <1>22, <1>23, <1>24, <1>25, <1>26, <1>27, <1>28, <1>29
     DEF CallsStand, WireStand, StoreStand

-----------------------------------------------------------------------------
(* Steps of a client that waits                                            *)

\* A view of a pending call is that of its client.
LEMMA PendingView ==
  ASSUME TypeOK, WaitStand, NEW c \in Waiting, NEW v \in Views, v.id = Pending(c)
  PROVE  v.op = call[c].op /\ v.arg = call[c].arg /\ v.before = call[c].before
<1>1. \A r \in returned : r.id # Pending(c)
  BY DEF WaitStand, ReturnedIds
<1>2. \A d \in Waiting : Pending(d) = Pending(c) => d = c
  BY PendingShape DEF Waiting
<1>3. QED
  BY <1>1, <1>2 DEF Views

\* A client's next request.
LEMMA RequestMade ==
  ASSUME TypeOK, CallsStand, NetStand, StoreStand, ClientSide,
         Views' = Views, Waiting' = Waiting, \A d \in Waiting : Pending(d)' = Pending(d),
         \A d \in Waiting : call[d].after <= call'[d].after /\ call'[d].after \in Nat,
         NEW c \in Waiting, NEW q,
         q.attempt = <<Pending(c), 1>>, q.id = Pending(c),
         q.op = call[c].op, q.arg = call[c].arg, q.after = call'[c].after,
         q.op # "collect" => q.after = 0,
         net' = net \cup {q}
  PROVE  NetStand'
<1>1. Acts' = Acts /\ Started \subseteq Started'
  BY ClientSideActs
<1>2. ASSUME NEW p \in net
      PROVE  RequestStands(p)'
  <2>1. RequestStands(p)
    BY DEF NetStand
  <2>2. \A d \in Waiting' : Pending(d)' = p.id => p.after <= call'[d].after
    <3>1. \A d \in Waiting : call[d].after \in Nat
      BY DEF TypeOK, ClientState, Waiting
    <3>2. QED
      BY <2>1, <3>1 DEF RequestStands
  <2>3. QED
    BY <2>1, <2>2, RequestsStill
<1>3. \A v \in Views : v.id = q.id => v.op = q.op /\ v.arg = q.arg
  BY PendingView DEF CallsStand
<1>4. \E v \in Views : v.id = q.id /\ v.op = q.op /\ v.arg = q.arg
  BY ViewShape DEF CallsStand
<1>5. \A p \in net : p.id = q.id => p.op = q.op /\ p.arg = q.arg
  BY <1>4 DEF NetStand, RequestStands
<1>6. \A e \in Acts : e.id = q.id => e.op = q.op
  BY <1>4 DEF CallsStand, ActsStand
<1>7. q.id \in Unreturned
  BY DEF Unreturned, Waiting
<1>8. q.id \in ReturnedIds' \cup Unreturned'
  BY <1>7 DEF ClientSide
<1>9. \A d \in Waiting' : Pending(d)' = q.id => q.after <= call'[d].after
  <2>1. \A d \in Waiting : Pending(d) = Pending(c) => d = c
    BY PendingShape DEF Waiting
  <2>2. QED
    BY <2>1
<1>10. q.id \in Started' /\ Fits(q.op, q.arg)
  BY <1>1 DEF CallsStand, WaitStand
<1>11. RequestStands(q)'
  BY <1>1, <1>3, <1>6, <1>8, <1>9, <1>10 DEF RequestStands
<1>12. QED
  BY <1>2, <1>5, <1>11 DEF NetStand

\* Answers of clients the step leaves alone.
LEMMA AnswersStill ==
  ASSUME AnswersStand, Acts' = Acts, answers' \subseteq answers,
         \A a \in answers' :
            /\ a.request.id[1] \in Waiting'
            /\ call'[a.request.id[1]] = call[a.request.id[1]]
  PROVE  AnswersStand'
<1>1. \A a \in answers' :
        /\ a.request = Request(a.request.id[1], call[a.request.id[1]])
        /\ \E e \in Acts' :
             /\ e.id = a.request.id /\ e.after = a.request.after
             /\ e.op = a.request.op /\ e.answer = a.answer
  BY DEF AnswersStand
<1>2. \A a \in answers' : Request(a.request.id[1], call[a.request.id[1]])'
                        = Request(a.request.id[1], call[a.request.id[1]])
  BY DEF Request, AttemptId, Id
<1>3. answers' \subseteq [request : {a.request : a \in answers'}, answer : Answer]
  BY DEF AnswersStand
<1>4. QED
  BY <1>1, <1>2, <1>3 DEF AnswersStand

\* A step that changes only how far a client's call is.
LEMMA SameViews ==
  ASSUME TypeOK, NEW c \in Waiting, NEW s,
         call' = [call EXCEPT ![c] = s], UNCHANGED returned,
         s.no = call[c].no, s.pc = "wait", s.op = call[c].op, s.arg = call[c].arg,
         s.before = call[c].before
  PROVE  /\ Views' = Views /\ Waiting' = Waiting /\ ReturnedIds' = ReturnedIds
         /\ Started' = Started /\ Unreturned' = Unreturned
         /\ \A d \in Clients : Pending(d)' = Pending(d)
         /\ call'[c] = s /\ \A d \in Clients : d # c => call'[d] = call[d]
         /\ \A d \in Waiting : \A r : Owes(d, r)' <=> Owes(d, r)
<1>1. c \in Clients /\ call[c].pc = "wait" /\ call \in [Clients -> ClientState]
  BY DEF Waiting, TypeOK
<1>2. call'[c] = s /\ \A d \in Clients : d # c => call'[d] = call[d]
  BY <1>1
<1>3. \A d \in Clients :
        /\ call'[d].no = call[d].no /\ call'[d].pc = call[d].pc /\ call'[d].op = call[d].op
        /\ call'[d].arg = call[d].arg /\ call'[d].before = call[d].before
  BY <1>1, <1>2
<1>4. \A d \in Clients : Pending(d)' = Pending(d)
  BY <1>3 DEF Pending, Id
<1>5. Waiting' = Waiting /\ Waiting \subseteq Clients
  BY <1>3 DEF Waiting
<1>6. ReturnedIds' = ReturnedIds
  BY DEF ReturnedIds
<1>7. Views' = Views
  <2> DEFINE mine(d) == [id |-> Pending(d), op |-> call[d].op, arg |-> call[d].arg,
                         before |-> call[d].before]
             theirs == {[id |-> r.id, op |-> r.op, arg |-> r.arg, before |-> r.before] : r \in returned}
  <2>1. \A d \in Waiting : mine(d)' = mine(d)
    BY <1>3, <1>4, <1>5
  <2>2. Views = theirs \cup {mine(d) : d \in Waiting}
    BY DEF Views
  <2>3. Views' = theirs' \cup {mine(d)' : d \in Waiting'}
    BY DEF Views
  <2>4. theirs' = theirs
    OBVIOUS
  <2>5. {mine(d)' : d \in Waiting'} = {mine(d) : d \in Waiting}
    <3> HIDE DEF mine
    <3>1. QED
      BY <1>5, <2>1
  <2> HIDE DEF mine, theirs
  <2>6. QED
    BY <2>2, <2>3, <2>4, <2>5
<1>8. Started' = Started
  BY <1>3 DEF Started, CallIds
<1>9. Unreturned' = Unreturned
  BY <1>3, <1>4 DEF Unreturned
<1>10. \A d \in Waiting : \A r : Owes(d, r)' <=> Owes(d, r)
  BY <1>3, <1>5 DEF Owes
<1>11. QED
  BY <1>2, <1>4, <1>5, <1>6, <1>7, <1>8, <1>9, <1>10

\* What a client's request answered is unlike any other answer under way.
LEMMA AnswerUnique ==
  ASSUME TypeOK, ActsStand, AnswersStand, NEW a \in answers
  PROVE  LET c == a.request.id[1] IN
         /\ c \in Waiting
         /\ a.answer \in Answer
         /\ \E e \in Acts :
              /\ e.id = Pending(c) /\ e.after = call[c].after
              /\ e.op = call[c].op /\ e.answer = a.answer
         /\ \A b \in answers : b # a => b.request.id[1] # c
<1> DEFINE c == a.request.id[1]
<1>1. c \in Waiting /\ a.request = Request(c, call[c])
  BY DEF AnswersStand
<1>2. a.request.id = Pending(c) /\ a.request.op = call[c].op /\ a.request.after = call[c].after
  BY <1>1, RequestShape DEF Pending, Id
<1>3. PICK e \in Acts : /\ e.id = a.request.id /\ e.after = a.request.after
                        /\ e.op = a.request.op /\ e.answer = a.answer
  BY DEF AnswersStand
<1>4. ASSUME NEW b \in answers, b.request.id[1] = c
      PROVE  b = a
  <2>1. b.request = a.request
    BY <1>1, <1>4 DEF AnswersStand
  <2>2. PICK f \in Acts : /\ f.id = b.request.id /\ f.after = b.request.after
                          /\ f.answer = b.answer
    BY DEF AnswersStand
  <2>3. f = e
    BY <1>3, <2>1, <2>2 DEF ActsStand
  <2>4. b.answer = a.answer
    BY <1>3, <2>2, <2>3
  <2>5. a = [request |-> a.request, answer |-> a.answer] /\ b = [request |-> b.request, answer |-> b.answer]
    BY DEF AnswersStand
  <2>6. QED
    BY <2>1, <2>4, <2>5
<1>5. a.answer \in Answer
  BY DEF AnswersStand
<1>6. QED
  BY <1>1, <1>2, <1>3, <1>4, <1>5

LEMMA RetryStep ==
  ASSUME IInv, NEW c \in Clients, Retry(c)
  PROVE  IInv'
<1> DEFINE s == [call[c] EXCEPT !.try = 2]
           q == Request(c, s)
<1> USE DEF IInv
<1>1. /\ call[c].pc = "wait"
      /\ call' = [call EXCEPT ![c].try = 2]
      /\ net' = net \cup {q}
      /\ answers' = {a \in answers : a.request.id[1] # c}
      /\ UNCHANGED <<remote, ops, store, memo, returned>>
  BY DEF Retry, Unanswered
<1>2. c \in Waiting /\ remote
  BY <1>1, RemoteOnly DEF Waiting, CallsStand
<1>3. call \in [Clients -> ClientState] /\ call[c] \in ClientState
  BY DEF TypeOK
<1>4. call' = [call EXCEPT ![c] = s]
  BY <1>1
<1>5. /\ s \in ClientState
      /\ s.no = call[c].no /\ s.pc = "wait" /\ s.op = call[c].op /\ s.arg = call[c].arg
      /\ s.before = call[c].before /\ s.after = call[c].after
  BY <1>1, <1>3 DEF ClientState
<1>6. q.id = Pending(c) /\ q.attempt = <<Pending(c), 1>> /\ q.op = call[c].op /\ q.arg = call[c].arg
      /\ q.after = call[c].after
  <2> HIDE DEF s
  <2>1. /\ q.id = <<c, s.no>> /\ q.attempt = <<<<c, s.no>>, 1>>
        /\ q.op = s.op /\ q.arg = s.arg /\ q.after = s.after
    BY RequestShape
  <2> HIDE DEF q
  <2>2. QED
    BY <1>5, <2>1 DEF Pending, Id
<1> HIDE DEF s, q
<1>7. /\ Views' = Views /\ Waiting' = Waiting /\ ReturnedIds' = ReturnedIds
      /\ Started' = Started /\ Unreturned' = Unreturned
      /\ \A d \in Clients : Pending(d)' = Pending(d)
      /\ call'[c] = s /\ \A d \in Clients : d # c => call'[d] = call[d]
      /\ \A d \in Waiting : \A r : Owes(d, r)' <=> Owes(d, r)
  BY <1>1, <1>2, <1>4, <1>5, SameViews
<1>8. \A d \in Clients :
        /\ call'[d].no = call[d].no /\ call'[d].after = call[d].after
        /\ call'[d].op = call[d].op /\ call'[d].arg = call[d].arg
        /\ call[d].no \in Nat /\ call[d].after \in Nat
  BY <1>3, <1>5, <1>7, SizesAssumption DEF ClientState
<1>9. Waiting \subseteq Clients
  BY DEF Waiting
<1>10. TypeOK'
  BY <1>1, <1>3, <1>4, <1>5 DEF TypeOK, store
<1>11. ClientSide
  BY <1>1, <1>2, <1>7, <1>8 DEF ClientSide
<1>12. /\ Acts' = Acts /\ Acted' = Acted /\ Started \subseteq Started'
       /\ LocalStand' /\ ActsStand' /\ MemoStand'
       /\ QueueStand' /\ PushesStand' /\ LogStand' /\ RowsStand'
  BY <1>11, ClientSideActs
<1>13. WaitStand'
  BY <1>7, <1>8, <1>9, <1>12 DEF CallsStand, WaitStand
<1>14. NetStand'
  <2>1. \A d \in Waiting : call[d].after <= call'[d].after /\ call'[d].after \in Nat
    BY <1>8, <1>9
  <2>2. q.op # "collect" => q.after = 0
    BY <1>2, <1>6 DEF CallsStand, WaitStand
  <2>3. q.after = call'[c].after
    BY <1>6, <1>8
  <2>4. \A d \in Waiting : Pending(d)' = Pending(d)
    BY <1>7, <1>9
  <2>5. QED
    BY <1>1, <1>2, <1>6, <1>7, <1>11, <2>1, <2>2, <2>3, <2>4, RequestMade DEF WireStand
<1>15. AnswersStand'
  <2>1. \A a \in answers' :
          /\ a.request.id[1] \in Waiting'
          /\ call'[a.request.id[1]] = call[a.request.id[1]]
    BY <1>1, <1>7, <1>9 DEF WireStand, AnswersStand
  <2>2. QED
    BY <1>1, <1>12, <2>1, AnswersStill DEF WireStand
<1>16. ReturnedStand'
  BY <1>1, <1>12, ReturnedStill DEF CallsStand
<1>17. ViewsStand'
  BY <1>7 DEF CallsStand, ViewsStand
<1>18. CollectStand'
  <2>1. rows' = rows /\ returned' = returned
    BY <1>1 DEF store
  <2>2. CollectTakesAll'
    BY <2>1 DEF StoreStand, CollectStand, CollectTakesAll, Returned
  <2>3. QED
    BY <1>7, <1>8, <1>9, <1>12, <2>1, <2>2 DEF StoreStand, CollectStand
<1>19. QED
  BY <1>10, <1>12, <1>13, <1>14, <1>15, <1>16, <1>17, <1>18 DEF CallsStand, WireStand, StoreStand

LEMMA GiveUpStep ==
  ASSUME IInv, NEW c \in Clients, GiveUp(c)
  PROVE  IInv'
<1> USE DEF IInv
<1>1. /\ call[c].pc = "wait"
      /\ call' = [call EXCEPT ![c] = Between(call[c].no, "failed")]
      /\ answers' = {a \in answers : a.request.id[1] # c}
      /\ UNCHANGED <<remote, ops, store, memo, net, returned>>
  BY DEF GiveUp, Unanswered
<1>2. c \in Waiting /\ remote
  BY <1>1, RemoteOnly DEF Waiting, CallsStand
<1>3. call \in [Clients -> ClientState] /\ call[c] \in ClientState
  BY DEF TypeOK
<1>4. /\ call'[c] = Between(call[c].no, "failed") /\ call'[c].no = call[c].no /\ call'[c].pc = "failed"
      /\ \A d \in Clients : d # c => call'[d] = call[d]
  BY <1>1, <1>3 DEF Between
<1>5. Between(call[c].no, "failed") \in ClientState
  BY <1>3, BetweenType DEF ClientState
<1>6. TypeOK'
  BY <1>1, <1>3, <1>5 DEF TypeOK, store
<1>7. \A d \in Clients : call'[d].no = call[d].no /\ call[d].no \in Nat /\ Pending(d)' = Pending(d)
  BY <1>3, <1>4, SizesAssumption DEF ClientState, Pending, Id
<1>8. /\ Waiting \subseteq Clients /\ Waiting' = Waiting \ {c} /\ ReturnedIds' = ReturnedIds
      /\ Unreturned' = Unreturned /\ \A d \in Waiting' : call'[d] = call[d]
  BY <1>1, <1>4, <1>7 DEF Waiting, ReturnedIds, Unreturned
<1>9. Views' \subseteq Views
  <2>1. \A r \in returned' : [id |-> r.id, op |-> r.op, arg |-> r.arg, before |-> r.before] \in Views
    BY <1>1 DEF Views
  <2>2. \A d \in Waiting' : [id |-> Pending(d)', op |-> call'[d].op, arg |-> call'[d].arg,
                             before |-> call'[d].before] \in Views
    BY <1>7, <1>8 DEF Views
  <2>3. QED
    BY <2>1, <2>2 DEF Views
<1>10. ClientSide
  BY <1>1, <1>2, <1>7, <1>8, <1>9 DEF ClientSide
<1>11. /\ Acts' = Acts /\ Acted' = Acted /\ Started \subseteq Started'
       /\ LocalStand' /\ ActsStand' /\ MemoStand'
       /\ QueueStand' /\ PushesStand' /\ LogStand' /\ RowsStand'
  BY <1>10, ClientSideActs
<1>12. WaitStand'
  BY <1>7, <1>8, <1>11 DEF CallsStand, WaitStand
<1>13. NetStand'
  <2>1. ASSUME NEW q \in net
        PROVE  RequestStands(q)'
    <3>1. RequestStands(q)
      BY DEF WireStand, NetStand
    <3>2. \A d \in Waiting' : Pending(d)' = q.id => q.after <= call'[d].after
      BY <1>7, <1>8, <3>1 DEF RequestStands
    <3>3. QED
      BY <1>9, <1>10, <3>1, <3>2, RequestsStill
  <2>2. QED
    BY <1>1, <2>1 DEF WireStand, NetStand
<1>14. AnswersStand'
  <2>1. \A a \in answers' :
          /\ a.request.id[1] \in Waiting'
          /\ call'[a.request.id[1]] = call[a.request.id[1]]
    BY <1>1, <1>8 DEF WireStand, AnswersStand
  <2>2. QED
    BY <1>1, <1>11, <2>1, AnswersStill DEF WireStand
<1>15. ReturnedStand'
  BY <1>1, <1>11, ReturnedStill DEF CallsStand
<1>16. ViewsStand'
  BY <1>8, <1>9 DEF CallsStand, ViewsStand
<1>17. CollectStand'
  <2>1. rows' = rows /\ returned' = returned
    BY <1>1 DEF store
  <2>2. CollectTakesAll'
    BY <2>1 DEF StoreStand, CollectStand, CollectTakesAll, Returned
  <2>3. \A d \in Waiting' : \A r : Owes(d, r)' <=> Owes(d, r)
    BY <1>8 DEF Owes
  <2>4. QED
    BY <1>7, <1>8, <1>11, <2>1, <2>2, <2>3 DEF StoreStand, CollectStand
<1>18. QED
  BY <1>6, <1>11, <1>12, <1>13, <1>14, <1>15, <1>16, <1>17 DEF CallsStand, WireStand, StoreStand

\* The next page is asked for.
LEMMA NextPageStep ==
  ASSUME IInv, NEW a \in answers, Receive(a), MorePages(a.answer)
  PROVE  IInv'
<1> DEFINE c == a.request.id[1]
           s == [call[c] EXCEPT !.after = a.answer.next, !.try = 1, !.rows = @ \cup a.answer.rows]
           q == Request(c, s)
<1> USE DEF IInv
<1>1. /\ answers' = answers \ {a}
      /\ call' = [call EXCEPT ![c] = s]
      /\ net' = net \cup {q}
      /\ UNCHANGED <<remote, ops, store, memo, returned>>
  BY DEF Receive, GoOn
<1>2. /\ c \in Waiting /\ a.answer \in Answer
      /\ \A b \in answers : b # a => b.request.id[1] # c
  BY AnswerUnique DEF CallsStand, WireStand
<1>3. PICK e \in Acts : /\ e.id = Pending(c) /\ e.after = call[c].after
                        /\ e.op = call[c].op /\ e.answer = a.answer
  BY AnswerUnique DEF CallsStand, WireStand
<1>4. remote
  BY RemoteOnly DEF CallsStand
<1>5. call \in [Clients -> ClientState] /\ c \in Clients /\ call[c] \in ClientState /\ call[c].pc = "wait"
  BY <1>2 DEF TypeOK, Waiting
<1>6. a.answer.next \in Nat /\ a.answer.rows \subseteq Rows /\ a.answer.next # 0
  BY <1>2 DEF Answer, MorePages
<1>7. /\ s \in ClientState
      /\ s.no = call[c].no /\ s.pc = "wait" /\ s.op = call[c].op /\ s.arg = call[c].arg
      /\ s.before = call[c].before /\ s.after = a.answer.next
  BY <1>5, <1>6 DEF ClientState
<1>8. /\ a.answer.next > call[c].after /\ call[c].op = "collect"
  BY <1>3, <1>6 DEF CallsStand, ActsStand
<1>9. q.id = Pending(c) /\ q.attempt = <<Pending(c), 1>> /\ q.op = call[c].op /\ q.arg = call[c].arg
      /\ q.after = a.answer.next
  <2> HIDE DEF s
  <2>1. /\ q.id = <<c, s.no>> /\ q.attempt = <<<<c, s.no>>, 1>>
        /\ q.op = s.op /\ q.arg = s.arg /\ q.after = s.after
    BY RequestShape
  <2> HIDE DEF q
  <2>2. QED
    BY <1>7, <2>1 DEF Pending, Id
<1> HIDE DEF s, q, c
<1>10. /\ Views' = Views /\ Waiting' = Waiting /\ ReturnedIds' = ReturnedIds
       /\ Started' = Started /\ Unreturned' = Unreturned
       /\ \A d \in Clients : Pending(d)' = Pending(d)
       /\ call'[c] = s /\ \A d \in Clients : d # c => call'[d] = call[d]
       /\ \A d \in Waiting : \A r : Owes(d, r)' <=> Owes(d, r)
  <2>1. UNCHANGED returned
    BY <1>1
  <2>2. QED
    BY <1>1, <1>2, <1>7, <2>1, SameViews
<1>11. \A d \in Clients :
        /\ call'[d].no = call[d].no /\ call[d].after <= call'[d].after
        /\ call'[d].op = call[d].op /\ call'[d].arg = call[d].arg
        /\ call[d].no \in Nat /\ call[d].after \in Nat /\ call'[d].after \in Nat
  BY <1>5, <1>6, <1>7, <1>8, <1>10, SizesAssumption DEF ClientState
<1>12. Waiting \subseteq Clients
  BY DEF Waiting
<1>13. TypeOK'
  BY <1>1, <1>5, <1>7 DEF TypeOK, store
<1>14. ClientSide
  BY <1>1, <1>4, <1>10, <1>11 DEF ClientSide
<1>15. /\ Acts' = Acts /\ Acted' = Acted /\ Started \subseteq Started'
       /\ LocalStand' /\ ActsStand' /\ MemoStand'
       /\ QueueStand' /\ PushesStand' /\ LogStand' /\ RowsStand'
  BY <1>14, ClientSideActs
<1>16. \A d \in Waiting, f \in Acts : f.id = Pending(d) => f.after <= call[d].after /\ f.after \in Nat
  BY DEF CallsStand, WaitStand, ActsStand
<1>17. WaitStand'
  <2>1. ASSUME NEW d \in Waiting
        PROVE  /\ Pending(d) \in Started /\ Fits(call'[d].op, call'[d].arg)
               /\ Pending(d) \notin ReturnedIds
               /\ call'[d].op # "collect" => call'[d].after = 0
    BY <1>8, <1>10, <1>11, <1>12 DEF CallsStand, WaitStand
  <2>2. \A d \in Waiting, f \in Acts : f.id = Pending(d) => f.after <= call'[d].after
    BY <1>11, <1>12, <1>16
  <2>3. QED
    BY <1>10, <1>12, <1>15, <2>1, <2>2 DEF WaitStand
<1>18. NetStand'
  <2>1. \A d \in Waiting : call[d].after <= call'[d].after /\ call'[d].after \in Nat
    BY <1>11, <1>12
  <2>2. q.op # "collect" => q.after = 0
    BY <1>8, <1>9
  <2>3. q.after = call'[c].after
    BY <1>7, <1>9, <1>10
  <2>4. \A d \in Waiting : Pending(d)' = Pending(d)
    BY <1>10, <1>12
  <2>5. QED
    BY <1>1, <1>2, <1>9, <1>10, <1>14, <2>1, <2>2, <2>3, <2>4, RequestMade DEF WireStand
<1>19. AnswersStand'
  <2>1. \A b \in answers' :
          /\ b.request.id[1] \in Waiting'
          /\ call'[b.request.id[1]] = call[b.request.id[1]]
    BY <1>1, <1>2, <1>10, <1>12 DEF WireStand, AnswersStand
  <2>2. QED
    BY <1>1, <1>15, <2>1, AnswersStill DEF WireStand
<1>20. ReturnedStand'
  BY <1>1, <1>15, ReturnedStill DEF CallsStand
<1>21. ViewsStand'
  BY <1>10 DEF CallsStand, ViewsStand
<1>22. CollectStand'
  <2>1. rows' = rows /\ returned' = returned
    BY <1>1 DEF store
  <2>2. CollectTakesAll'
    BY <2>1 DEF StoreStand, CollectStand, CollectTakesAll, Returned
  <2>3. \A r \in rows : Owes(c, r) => r.key > a.answer.next
    BY <1>2, <1>3 DEF StoreStand, CollectStand
  <2>4. \A f \in Acts : ~(f.id = Pending(c) /\ f.after = a.answer.next)
    BY <1>2, <1>5, <1>6, <1>8, <1>11, <1>16
  <2>5. \A d \in Waiting, r \in rows : Owes(d, r) => r.key > call'[d].after
    BY <1>7, <1>10, <1>12, <2>3 DEF StoreStand, CollectStand
  <2>6. \A d \in Waiting, r \in rows, f \in Acts :
          Owes(d, r) /\ f.id = Pending(d) /\ f.after = call'[d].after
          => f.answer.next # 0 /\ r.key > f.answer.next
    BY <1>7, <1>10, <1>12, <2>4 DEF StoreStand, CollectStand
  <2>7. QED
    BY <1>10, <1>12, <1>15, <2>1, <2>2, <2>5, <2>6 DEF CollectStand
<1>23. QED
  BY <1>13, <1>15, <1>17, <1>18, <1>19, <1>20, <1>21, <1>22 DEF CallsStand, WireStand, StoreStand

\* The call returns what its request answered, or what it makes of an answer
\* it could not read.
LEMMA ReturnStep ==
  ASSUME IInv, NEW a \in answers, NEW heard, NEW unread \in BOOLEAN,
         GoOn(a, heard, unread), ~MorePages(heard),
         \/ heard = a.answer
         \/ heard = Done /\ unread
  PROVE  IInv'
<1> DEFINE c == a.request.id[1]
           answer == [Decoded(heard) EXCEPT !.rows = @ \cup call[c].rows]
           ret == [id |-> Pending(c), op |-> call[c].op, arg |-> call[c].arg,
                   before |-> call[c].before, answer |-> answer, unread |-> unread]
           view == [id |-> Pending(c), op |-> call[c].op, arg |-> call[c].arg, before |-> call[c].before]
<1> USE DEF IInv
<1>1. /\ answers' = answers \ {a}
      /\ call' = [call EXCEPT ![c] = Between(call[c].no, "idle")]
      /\ returned' = returned \cup {ret}
      /\ UNCHANGED <<remote, ops, store, memo, net>>
  BY DEF GoOn, Return, Pending
<1>2. /\ c \in Waiting /\ a.answer \in Answer
      /\ \A b \in answers : b # a => b.request.id[1] # c
  BY AnswerUnique DEF CallsStand, WireStand
<1>3. PICK e \in Acts : /\ e.id = Pending(c) /\ e.after = call[c].after
                        /\ e.op = call[c].op /\ e.answer = a.answer
  BY AnswerUnique DEF CallsStand, WireStand
<1>4. remote
  BY RemoteOnly DEF CallsStand
<1>5. call \in [Clients -> ClientState] /\ c \in Clients /\ call[c] \in ClientState /\ call[c].pc = "wait"
  BY <1>2 DEF TypeOK, Waiting
<1>6. /\ ret.id = Pending(c) /\ ret.op = call[c].op /\ ret.arg = call[c].arg
      /\ ret.before = call[c].before /\ ret.answer = answer /\ ret.unread = unread
      /\ view = [id |-> ret.id, op |-> ret.op, arg |-> ret.arg, before |-> ret.before]
  OBVIOUS
<1>7. /\ answer \in Answer
      /\ \/ /\ answer.ordinal = a.answer.ordinal
            /\ \/ answer.item = a.answer.item
               \/ answer.item = NoItem /\ a.answer.item.body = Empty
         \/ unread /\ answer.item = NoItem
  <2> DEFINE d == Decoded(heard)
  <2>1. Done \in Answer /\ Done.item = NoItem
    BY DEF Done, Answer
  <2>2. heard \in Answer
    BY <1>2, <2>1
  <2>3. /\ d \in Answer /\ d.ordinal = heard.ordinal
        /\ \/ d.item = heard.item
           \/ d.item = NoItem /\ heard.item # NoItem /\ heard.item.body = Empty
    <3>1. CASE heard.item # NoItem /\ heard.item.body = Empty
      <4>1. d = [heard EXCEPT !.item = NoItem]
        BY <3>1 DEF Decoded
      <4>2. QED
        BY <2>2, <3>1, <4>1 DEF Answer
    <3>2. CASE ~(heard.item # NoItem /\ heard.item.body = Empty)
      <4>1. d = heard
        BY <3>2 DEF Decoded
      <4>2. QED
        BY <2>2, <4>1
    <3>3. QED
      BY <3>1, <3>2
  <2> HIDE DEF d
  <2>4. call[c].rows \subseteq Rows
    BY <1>5 DEF ClientState
  <2>5. answer = [d EXCEPT !.rows = d.rows \cup call[c].rows]
    BY <2>3 DEF d, Answer
  <2> HIDE DEF answer
  <2>6. answer \in Answer /\ answer.ordinal = heard.ordinal /\ answer.item = d.item
    BY <2>3, <2>4, <2>5 DEF Answer
  <2>7. QED
    BY <2>1, <2>3, <2>6
<1> HIDE DEF answer, ret, view, c
<1>8. /\ call'[c] = Between(call[c].no, "idle") /\ call'[c].no = call[c].no /\ call'[c].pc = "idle"
      /\ \A d \in Clients : d # c => call'[d] = call[d]
  BY <1>1, <1>5 DEF Between
<1>9. Between(call[c].no, "idle") \in ClientState
  BY <1>5, BetweenType DEF ClientState
<1>10. /\ Pending(c) \in Started /\ Pending(c) \in CallIds /\ Fits(call[c].op, call[c].arg)
       /\ Pending(c) \notin ReturnedIds /\ call[c].before \subseteq CallIds
       /\ call[c].op # "collect" => call[c].after = 0
  BY <1>2, <1>5 DEF CallsStand, WaitStand, Started, ClientState
<1>11. TypeOK'
  <2>1. \A r \in returned' : r.id \in CallIds /\ r.answer \in Answer
    BY <1>1, <1>6, <1>7, <1>10 DEF TypeOK
  <2>2. call' \in [Clients -> ClientState]
    BY <1>1, <1>5, <1>9
  <2>3. QED
    BY <1>1, <2>1, <2>2 DEF TypeOK, store
<1>12. \A d \in Clients : call'[d].no = call[d].no /\ call[d].no \in Nat /\ Pending(d)' = Pending(d)
  BY <1>5, <1>8, SizesAssumption DEF ClientState, Pending, Id
<1>13. /\ Waiting \subseteq Clients /\ Waiting' = Waiting \ {c}
       /\ ReturnedIds' = ReturnedIds \cup {Pending(c)}
       /\ \A d \in Waiting' : call'[d] = call[d]
  <2>1. ReturnedIds' = ReturnedIds \cup {Pending(c)}
    BY <1>1, <1>6 DEF ReturnedIds
  <2>2. QED
    BY <1>5, <1>8, <2>1 DEF Waiting
<1>14. Unreturned \subseteq Unreturned' \cup ReturnedIds'
  <2> SUFFICES ASSUME NEW d \in Clients, call[d].pc # "idle"
               PROVE  Pending(d) \in Unreturned' \cup ReturnedIds'
    BY DEF Unreturned
  <2>1. CASE d = c
    BY <1>13, <2>1
  <2>2. CASE d # c
    <3>1. call'[d].pc # "idle" /\ Pending(d)' = Pending(d)
      BY <1>8, <1>12, <2>2
    <3>2. QED
      BY <3>1 DEF Unreturned
  <2>3. QED
    BY <2>1, <2>2
<1>15. view \in Views
  BY <1>2 DEF Views, view
<1>16. Views' \subseteq Views
  <2>1. \A r \in returned : [id |-> r.id, op |-> r.op, arg |-> r.arg, before |-> r.before] \in Views
    BY DEF Views
  <2>2. \A r \in returned' : [id |-> r.id, op |-> r.op, arg |-> r.arg, before |-> r.before] \in Views
    BY <1>1, <1>6, <1>15, <2>1
  <2>3. \A d \in Waiting' : [id |-> Pending(d)', op |-> call'[d].op, arg |-> call'[d].arg,
                             before |-> call'[d].before] \in Views
    BY <1>12, <1>13 DEF Views
  <2>4. QED
    BY <2>2, <2>3 DEF Views
<1>17. ClientSide
  BY <1>1, <1>4, <1>12, <1>13, <1>14, <1>16 DEF ClientSide
<1>18. /\ Acts' = Acts /\ Acted' = Acted /\ Started \subseteq Started'
       /\ LocalStand' /\ ActsStand' /\ MemoStand'
       /\ QueueStand' /\ PushesStand' /\ LogStand' /\ RowsStand'
  BY <1>17, ClientSideActs
<1>19. WaitStand'
  <2>1. \A d \in Waiting' : Pending(d)' = Pending(d) /\ Pending(d) # Pending(c)
    BY <1>5, <1>12, <1>13, PendingShape
  <2>2. QED
    BY <1>13, <1>18, <2>1 DEF CallsStand, WaitStand
<1>20. NetStand'
  <2>1. ASSUME NEW q \in net
        PROVE  RequestStands(q)'
    <3>1. RequestStands(q)
      BY DEF WireStand, NetStand
    <3>2. \A d \in Waiting' : Pending(d)' = q.id => q.after <= call'[d].after
      BY <1>12, <1>13, <3>1 DEF RequestStands
    <3>3. QED
      BY <1>16, <1>17, <3>1, <3>2, RequestsStill
  <2>2. QED
    BY <1>1, <2>1 DEF WireStand, NetStand
<1>21. AnswersStand'
  <2>1. \A b \in answers' :
          /\ b.request.id[1] \in Waiting'
          /\ call'[b.request.id[1]] = call[b.request.id[1]]
    BY <1>1, <1>2, <1>13 DEF WireStand, AnswersStand
  <2>2. QED
    BY <1>1, <1>18, <2>1, AnswersStill DEF WireStand
<1>22. ReturnedStand'
  <2>1. ASSUME NEW r \in returned'
        PROVE  /\ r.id \in Started' /\ Fits(r.op, r.arg) /\ r.before \subseteq CallIds
               /\ r.id \in Acted'
               /\ r.op # "collect" => \E f \in Acts' : f.id = r.id /\ f.op = r.op /\ Tells(r, f)'
    <3>1. CASE r \in returned
      BY <1>1, <1>18, <3>1 DEF CallsStand, ReturnedStand, Tells
    <3>2. CASE r = ret
      <4>1. r.id \in Acted
        BY <1>3, <1>6, <3>2 DEF Acted
      <4>2. e \in Acts' /\ e.id = r.id /\ e.op = r.op /\ Tells(r, e)'
        BY <1>1, <1>3, <1>4, <1>6, <1>7, <1>18, <3>2 DEF Tells
      <4>3. QED
        BY <1>6, <1>10, <1>18, <3>2, <4>1, <4>2
    <3>3. QED
      BY <1>1, <3>1, <3>2
  <2>2. \A r \in returned : r.id # Pending(c)
    BY <1>10 DEF ReturnedIds
  <2>3. \A r, p \in returned' : r.id = p.id => r = p
    BY <1>1, <1>6, <2>2 DEF CallsStand, ReturnedStand
  <2>4. QED
    BY <2>1, <2>3 DEF ReturnedStand
<1>23. ViewsStand'
  BY <1>13, <1>16 DEF CallsStand, ViewsStand
<1>24. CollectStand'
  <2>1. rows' = rows
    BY <1>1 DEF store
  <2>2. ~unread => \A r \in rows : ~Owes(c, r)
    BY <1>2, <1>3 DEF StoreStand, CollectStand, MorePages
  <2>3. CollectTakesAll'
    <3> SUFFICES ASSUME NEW k \in returned', k.op = "collect", ~k.unread,
                        NEW r \in rows, r.call \in k.before
                 PROVE  FALSE
      BY <2>1 DEF CollectTakesAll, Returned
    <3>1. CASE k \in returned
      BY <3>1 DEF StoreStand, CollectStand, CollectTakesAll, Returned
    <3>2. CASE k = ret
      BY <1>6, <2>2, <3>2 DEF Owes
    <3>3. QED
      BY <1>1, <3>1, <3>2
  <2>4. \A d \in Waiting' : \A r : Owes(d, r)' <=> Owes(d, r)
    BY <1>13 DEF Owes
  <2>5. QED
    BY <1>12, <1>13, <1>18, <2>1, <2>3, <2>4 DEF StoreStand, CollectStand
<1>25. QED
  BY <1>11, <1>18, <1>19, <1>20, <1>21, <1>22, <1>23, <1>24 DEF CallsStand, WireStand, StoreStand

-----------------------------------------------------------------------------
(* The theorems                                                            *)

LEMMA InitInv == Init => IInv
<1> SUFFICES ASSUME Init
             PROVE  IInv
  OBVIOUS
<1>1. /\ queue = <<>> /\ rows = {} /\ log = <<>> /\ memo = {} /\ net = {} /\ answers = {}
      /\ returned = {} /\ call = [c \in Clients |-> Between(0, "idle")]
      /\ remote \in BOOLEAN /\ ops \in Workloads
  BY DEF Init
<1>2. Between(0, "idle") \in ClientState
  BY BetweenType, SizesAssumption
<1>3. TypeOK
  <2>1. queue \in Seq(Items) /\ log \in Seq(CallIds)
    BY <1>1, EmptySeq
  <2>2. call \in [Clients -> ClientState]
    BY <1>1, <1>2
  <2>3. QED
    BY <1>1, <2>1, <2>2 DEF TypeOK
<1>4. \A c \in Clients : call[c].pc = "idle"
  BY <1>1 DEF Between
<1>5. Waiting = {} /\ Acts = {} /\ Views = {}
  <2>1. Waiting = {}
    BY <1>4 DEF Waiting
  <2>2. QED
    BY <1>1, <2>1 DEF Acts, Views
<1>6. CallsStand
  BY <1>1, <1>5 DEF CallsStand, LocalStand, MemoStand, ActsStand, WaitStand, ReturnedStand, ViewsStand
<1>7. WireStand
  BY <1>1 DEF WireStand, NetStand, AnswersStand
<1>8. StoreStand
  <2>1. DOMAIN queue = {} /\ DOMAIN log = {}
    BY <1>1
  <2>2. QED
    BY <1>1, <1>5, <2>1 DEF StoreStand, QueueStand, PushesStand, LogStand, RowsStand, CollectStand,
                            CollectTakesAll, Returned
<1>9. QED
  BY <1>3, <1>6, <1>7, <1>8 DEF IInv

LEMMA NextInv == IInv /\ [Next]_vars => IInv'
<1> SUFFICES ASSUME IInv, [Next]_vars
             PROVE  IInv'
  OBVIOUS
<1>1. ASSUME NEW c \in Clients, NEW op \in ops, NEW arg \in Args(op), Call(c, op, arg)
      PROVE  IInv'
  BY <1>1, CallStep
<1>2. ASSUME NEW c \in Clients, NEW op \in ops, NEW arg \in Args(op), CallLocal(c, op, arg)
      PROVE  IInv'
  BY <1>2, CallLocalStep
<1>3. ASSUME NEW q \in net, Execute(q)
      PROVE  IInv'
  BY <1>3, ExecuteStep
<1>4. ASSUME NEW q \in net, Repeat(q)
      PROVE  IInv'
  BY <1>4, RepeatStep
<1>5. ASSUME NEW a \in answers, Receive(a)
      PROVE  IInv'
  <2>1. GoOn(a, a.answer, FALSE)
    BY <1>5 DEF Receive
  <2>2. QED
    BY <1>5, <2>1, NextPageStep, ReturnStep
<1>6. ASSUME NEW a \in answers, Misread(a)
      PROVE  IInv'
  <2>1. GoOn(a, Done, TRUE) /\ ~MorePages(Done)
    BY <1>6 DEF Misread, MorePages, Done
  <2>2. QED
    BY <2>1, ReturnStep
<1>7. ASSUME NEW c \in Clients, Retry(c)
      PROVE  IInv'
  BY <1>7, RetryStep
<1>8. ASSUME NEW c \in Clients, GiveUp(c)
      PROVE  IInv'
  BY <1>8, GiveUpStep
<1>9. CASE UNCHANGED vars
  <2>1. /\ remote' = remote /\ ops' = ops /\ queue' = queue /\ rows' = rows /\ log' = log
        /\ memo' = memo /\ net' = net /\ answers' = answers /\ call' = call /\ returned' = returned
    BY <1>9 DEF vars, store
  <2>2. /\ Acts' = Acts /\ Views' = Views /\ Waiting' = Waiting /\ ReturnedIds' = ReturnedIds
        /\ Started' = Started /\ Unreturned' = Unreturned /\ \A c : Pending(c)' = Pending(c)
    BY <2>1 DEF Acts, Views, Waiting, ReturnedIds, Started, Unreturned, Pending, Id
  <2>3. Acted' = Acted /\ Popped' = Popped /\ InQueue' = InQueue
    BY <2>1, <2>2 DEF Acted, Popped, InQueue
  <2>4. TypeOK'
    BY <2>1 DEF IInv, TypeOK
  <2>5. CallsStand'
    BY <2>1, <2>2, <2>3 DEF IInv, CallsStand, LocalStand, MemoStand, ActsStand, WaitStand,
                            ReturnedStand, Tells, ViewsStand
  <2>6. NetStand'
    BY <2>1, <2>2 DEF IInv, WireStand, NetStand, RequestStands
  <2>7. AnswersStand'
    BY <2>1, <2>2, AnswersStill DEF IInv, WireStand, AnswersStand
  <2>8. QueueStand' /\ PushesStand' /\ LogStand' /\ RowsStand'
    BY <2>1, <2>2, StoreStill DEF IInv, StoreStand, store
  <2>9. CollectStand'
    <3>1. \A c, r : Owes(c, r)' <=> Owes(c, r)
      BY <2>1 DEF Owes
    <3>2. QED
      BY <2>1, <2>2, <3>1 DEF IInv, StoreStand, CollectStand, CollectTakesAll, Returned
  <2>10. QED
    BY <2>4, <2>5, <2>6, <2>7, <2>8, <2>9 DEF IInv, WireStand, StoreStand
<1>10. QED
  BY <1>1, <1>2, <1>3, <1>4, <1>5, <1>6, <1>7, <1>8, <1>9 DEF Next

\* What the calls did to the storage is as the calls were made, in every state.
LEMMA IInvAlways == Spec => []IInv
<1>1. Init => IInv
  BY InitInv
<1>2. IInv /\ [Next]_vars => IInv'
  BY NextInv
<1>3. QED
  BY <1>1, <1>2, PTL DEF Spec

\* What a returned call without pages answered is what it did.
LEMMA ReturnedActed ==
  ASSUME IInv, NEW r \in returned, r.op # "collect"
  PROVE  \E e \in Acts : e.id = r.id /\ e.op = r.op /\ e.after = 0 /\ Tells(r, e)
BY DEF IInv, CallsStand, ReturnedStand, ActsStand

LEMMA ReturnedView ==
  ASSUME IInv, NEW r \in returned
  PROVE  /\ r.id \in Acted
         /\ \E v \in Views : v.id = r.id /\ v.op = r.op /\ v.arg = r.arg /\ v.before = r.before
<1> DEFINE v == [id |-> r.id, op |-> r.op, arg |-> r.arg, before |-> r.before]
<1>1. v \in Views
  BY DEF Views
<1>2. r.id \in Acted
  BY DEF IInv, CallsStand, ReturnedStand
<1>3. QED
  BY <1>1, <1>2

LEMMA InvHandedOut == IInv => WorkHandedOutOnce
<1> SUFFICES ASSUME IInv
             PROVE  WorkHandedOutOnce
  OBVIOUS
<1>1. QueueStand
  BY DEF IInv, StoreStand
<1>2. \A i, j \in DOMAIN queue : queue[i] = queue[j] => i = j
  BY <1>1 DEF QueueStand
<1>3. ASSUME NEW p \in Returned("pop"), p.answer.item # NoItem
      PROVE  /\ p.answer.item \notin InQueue
             /\ \A r \in Returned("pop") : r.answer.item = p.answer.item => r = p
  <2>1. \A r \in Returned("pop") : r \in returned /\ r.op = "pop"
    BY DEF Returned
  <2>2. PICK e \in Acts : e.id = p.id /\ e.op = "pop" /\ e.answer.item = p.answer.item
    BY <1>3, <2>1, ReturnedActed DEF Tells
  <2>3. p.answer.item \in Popped
    BY <2>2 DEF Popped
  <2>4. p.answer.item \notin InQueue
    BY <1>1, <2>3 DEF QueueStand, InQueue
  <2>5. ASSUME NEW r \in Returned("pop"), r.answer.item = p.answer.item
        PROVE  r = p
    <3>1. PICK f \in Acts : f.id = r.id /\ f.op = "pop" /\ f.answer.item = r.answer.item
      BY <1>3, <2>1, <2>5, ReturnedActed DEF Tells
    <3>2. e = f
      BY <1>1, <1>3, <2>2, <2>5, <3>1 DEF QueueStand
    <3>3. QED
      BY <2>1, <2>2, <3>1, <3>2 DEF IInv, CallsStand, ReturnedStand
  <2>6. QED
    BY <2>4, <2>5
<1>4. QED
  BY <1>2, <1>3 DEF WorkHandedOutOnce

LEMMA InvConserved == IInv => WorkConserved
<1> SUFFICES ASSUME IInv, Quiet, NEW p \in Returned("push"), NEW i \in DOMAIN p.arg
             PROVE  LET item == ItemsOf(p.id, p.arg)[i] IN
                    \/ item \in InQueue
                    \/ \E r \in Returned("pop") : r.answer.item = item
                    \/ \E r \in Returned("pop") : r.unread /\ item \in Taken(r.id)
                    \/ \E k \in Returned("clear") : k.id \notin p.before
                    \/ remote /\ item.body = Empty
  BY DEF WorkConserved
<1> DEFINE item == ItemsOf(p.id, p.arg)[i]
<1>1. p \in returned /\ p.op = "push"
  BY DEF Returned
<1>2. PICK v \in Views : v.id = p.id /\ v.op = "push" /\ v.arg = p.arg /\ v.before = p.before
  BY <1>1, ReturnedView
<1>3. p.id \in Acted
  BY <1>1, ReturnedView
<1>4. \/ item \in InQueue
      \/ item \in Popped
      \/ \E e \in Acts : e.op = "clear" /\ e.id \notin p.before
  BY <1>2, <1>3 DEF IInv, StoreStand, PushesStand
<1>5. \A e \in Acts : \E r \in returned : r.id = e.id /\ r.op = e.op
  <2> SUFFICES ASSUME NEW e \in Acts
               PROVE  \E r \in returned : r.id = e.id /\ r.op = e.op
    OBVIOUS
  <2>1. e.id \in ReturnedIds
    BY DEF IInv, CallsStand, ActsStand, Quiet, Unreturned
  <2>2. PICK r \in returned : r.id = e.id
    BY <2>1 DEF ReturnedIds
  <2>3. r.op = e.op
    BY <2>2, ReturnedView DEF IInv, CallsStand, ActsStand
  <2>4. QED
    BY <2>2, <2>3
<1>6. CASE item \in Popped
  <2>1. PICK e \in Acts : e.op = "pop" /\ e.answer.item = item
    BY <1>6 DEF Popped
  <2>2. PICK r \in returned : r.id = e.id /\ r.op = "pop"
    BY <1>5, <2>1
  <2>3. PICK f \in Acts : /\ f.id = r.id /\ f.op = "pop" /\ f.after = 0
                          /\ \/ r.answer.item = f.answer.item
                             \/ remote /\ f.answer.item.body = Empty
                             \/ remote /\ r.unread
    BY <2>2, ReturnedActed DEF Tells
  <2>4. f = e
    BY <2>1, <2>2, <2>3 DEF IInv, CallsStand, ActsStand
  <2>5. r \in Returned("pop")
    BY <2>2 DEF Returned
  <2>6. ASSUME remote
        PROVE  item \in Taken(r.id)
    <3>1. PICK m \in memo : m.attempt[1] = e.id /\ m.op = e.op /\ m.answer = e.answer
      BY <2>6 DEF Acts
    <3>2. QED
      BY <2>1, <2>2, <3>1 DEF Taken
  <2>7. QED
    BY <2>1, <2>3, <2>4, <2>5, <2>6
<1>7. CASE \E e \in Acts : e.op = "clear" /\ e.id \notin p.before
  <2>1. PICK e \in Acts : e.op = "clear" /\ e.id \notin p.before
    BY <1>7
  <2>2. PICK k \in returned : k.id = e.id /\ k.op = "clear"
    BY <1>5, <2>1
  <2>3. k \in Returned("clear") /\ k.id \notin p.before
    BY <2>1, <2>2 DEF Returned
  <2>4. QED
    BY <2>3
<1>8. QED
  BY <1>4, <1>6, <1>7

LEMMA InvAppended == IInv => AppendedOnce
<1> SUFFICES ASSUME IInv
             PROVE  AppendedOnce
  OBVIOUS
<1>1. LogStand
  BY DEF IInv, StoreStand
<1>2. \A i, j \in DOMAIN log : log[i] = log[j] => i = j
  BY <1>1 DEF LogStand
<1>3. \A a \in Returned("append") : a \in returned /\ a.op = "append"
  BY DEF Returned
<1>4. ASSUME NEW a \in Returned("append")
      PROVE  /\ \E i \in DOMAIN log : log[i] = a.id
             /\ ~a.unread => a.answer.ordinal \in DOMAIN log /\ log[a.answer.ordinal] = a.id
  <2>1. PICK e \in Acts : e.id = a.id /\ e.op = "append" /\ Tells(a, e)
    BY <1>3, ReturnedActed
  <2>2. e.answer.ordinal \in DOMAIN log /\ log[e.answer.ordinal] = a.id
    BY <1>1, <2>1 DEF LogStand
  <2>3. QED
    BY <2>1, <2>2 DEF Tells
<1>5. ASSUME NEW a \in Returned("append"), NEW b \in Returned("append"),
             NEW i \in DOMAIN log, NEW j \in DOMAIN log,
             log[i] = a.id, log[j] = b.id, a.id \in b.before
      PROVE  i < j
  <2>1. PICK v \in Views : v.id = b.id /\ v.before = b.before
    BY <1>3, ReturnedView
  <2>2. QED
    BY <1>1, <1>5, <2>1 DEF LogStand
<1>6. QED
  BY <1>2, <1>4, <1>5 DEF AppendedOnce

\* However often a request is sent and however late it arrives, its call acts
\* once: no item is handed out twice, appends are in the log once, in the order
\* of the calls, and no item is lost but by a pop whose answer arrived and could
\* not be read, or was an item of no bytes (storage-cf-do.ts:7-10, 112, 219-249).
THEOREM ActsOnceAlways == Spec => []ActsOnce
<1>1. IInv => ActsOnce
  BY InvHandedOut, InvConserved, InvAppended DEF IInv, ActsOnce
<1>2. QED
  BY <1>1, IInvAlways, PTL

\* A collect, of any number of pages, leaves no worker state behind that was
\* put before it began, unless a page arrived that it could not read, at which
\* it stops (_statePaged, storage-cf-do.ts:188-216, 245).
THEOREM CollectTakesAllAlways == Spec => []CollectTakesAll
<1>1. IInv => CollectTakesAll
  BY DEF IInv, StoreStand, CollectStand
<1>2. QED
  BY <1>1, IInvAlways, PTL

\* A worker state that was put is not undone by an earlier put that arrives
\* late (_statePutMany and its attempt_id).
THEOREM LaterPutStaysAlways == Spec => []LaterPutStays
<1>1. IInv => LaterPutStays
  <2> SUFFICES ASSUME IInv, NEW r \in rows, NEW p \in Returned("put"), p.arg[1] = r.key
               PROVE  r.call \notin p.before
    BY DEF LaterPutStays
  <2>1. p \in returned /\ p.op = "put"
    BY DEF Returned
  <2>2. PICK v \in Views : v.id = p.id /\ v.op = "put" /\ v.arg = p.arg /\ v.before = p.before
    BY <2>1, ReturnedView
  <2>3. p.id \in Acted
    BY <2>1, ReturnedView
  <2>4. QED
    BY <2>2, <2>3 DEF IInv, StoreStand, RowsStand
<1>2. QED
  BY <1>1, IInvAlways, PTL
=============================================================================
