------------------------ MODULE AggregateStateProofs ------------------------
(***************************************************************************)
(* What TLC checks of AggregateState on two threads and two processes,     *)
(* for any number of threads, keys, batches and processes.                 *)
(*                                                                         *)
(* A destroyed group stays destroyed (IInv).  Its file could come back if  *)
(* a process still held the group's state and wrote it.  It cannot: a      *)
(* process writes only groups of the call it serves; no two calls in       *)
(* flight name one group; and a group is dropped only when no later call   *)
(* will name it.  For the groups of the result that is so because Main     *)
(* asks for them after every thread has merged its own, or drops them      *)
(* after a failure has stopped the merges.                                 *)
(*                                                                         *)
(* The calls act at once on one table of groups (Loads).  What a process   *)
(* has read for a call stands in the files until the call runs, so the     *)
(* call acts on the groups the engine sees and on them only; its memory    *)
(* may hold old states of all other groups, which its effect neither       *)
(* reads nor writes.                                                       *)
(*                                                                         *)
(* The answer has every row once (EInv).  Until a call fails, each row     *)
(* absorbed is in exactly one group: a thread's own, or once the thread    *)
(* has merged, one of the result.  When the result is asked for nothing    *)
(* can fail any more but that call itself.                                 *)
(***************************************************************************)
EXTENDS AggregateState, FiniteSetTheorems, NaturalsInduction, WellFoundedInduction, TLAPS

\* f is a function on S.
On(f, S) == f = [x \in S |-> f[x]]

\* Induction, for a set instead of a predicate.
LEMMA Climbs ==
  ASSUME NEW k \in Nat, NEW A, 0 \in A, \A n \in 1..k : n - 1 \in A => n \in A
  PROVE  0..k \subseteq A
<1> DEFINE R == {ss \in Nat \X Nat : ss[1] < ss[2]}
           S == {n \in 0..k : n \notin A}
<1> SUFFICES ASSUME S # {} PROVE FALSE
  OBVIOUS
<1>1. IsWellFoundedOn(R, Nat)
  BY NatLessThanWellFounded DEF OpToRel
<1>2. PICK x \in S : \A y \in S : ~ (<<y, x>> \in R)
  <2> HIDE DEF R
  <2>1. S \subseteq Nat
    OBVIOUS
  <2> QED
    BY <1>1, <2>1, WFMin
<1>3. x \in 1..k /\ x - 1 \in 0..k /\ x - 1 < x
  BY <1>2
<1>4. x - 1 \notin S
  <2>1. x \in Nat /\ x - 1 \in Nat
    BY <1>3
  <2>2. <<x - 1, x>> \in R
    BY <1>3, <2>1
  <2> HIDE DEF R, S
  <2> QED
    BY <1>2, <2>2
<1> QED
  BY <1>2, <1>3, <1>4

-----------------------------------------------------------------------------
(* Merge batches                                                           *)

FirstFew(f, groups, merges, n) ==
    f = [i \in 0..n |-> IF i = 0 THEN groups ELSE MergePair(f[i - 1], merges[i])]

LEMMA FirstFewExist ==
  ASSUME NEW groups, NEW merges, NEW k \in Nat
  PROVE  \E f : FirstFew(f, groups, merges, k)
<1> DEFINE A == {n \in Nat : \E f : FirstFew(f, groups, merges, n)}
<1>1. 0 \in A
  <2> DEFINE f == [i \in 0..0 |-> groups]
  <2>1. FirstFew(f, groups, merges, 0)
    BY DEF FirstFew
  <2> QED
    BY <2>1
<1>2. ASSUME NEW n \in 1..k, n - 1 \in A PROVE n \in A
  <2>1. PICK e : FirstFew(e, groups, merges, n - 1)
    BY <1>2
  <2> DEFINE f == [i \in 0..n |-> IF i = n THEN MergePair(e[n - 1], merges[n]) ELSE e[i]]
  <2>2. \A i \in 0..n : f[i] = IF i = 0 THEN groups ELSE MergePair(f[i - 1], merges[i])
    <3>1. \A i \in 0..(n - 1) : e[i] = IF i = 0 THEN groups ELSE MergePair(e[i - 1], merges[i])
      BY <2>1 DEF FirstFew
    <3>2. \A i \in 0..(n - 1) : f[i] = e[i] /\ (i # 0 => f[i - 1] = e[i - 1])
      OBVIOUS
    <3>3. f[n] = MergePair(e[n - 1], merges[n]) /\ f[n - 1] = e[n - 1] /\ n # 0
      OBVIOUS
    <3> HIDE DEF f
    <3> QED
      BY <3>1, <3>2, <3>3
  <2>3. f = [i \in 0..n |-> f[i]]
    OBVIOUS
  <2> HIDE DEF f
  <2>4. FirstFew(f, groups, merges, n)
    BY <2>2, <2>3 DEF FirstFew
  <2> QED
    BY <2>4
<1> HIDE DEF A
<1>3. 0..k \subseteq A
  BY <1>1, <1>2, Climbs
<1> QED
  BY <1>3 DEF A

LEMMA AfterIs ==
  ASSUME NEW groups, NEW merges, Len(merges) \in Nat
  PROVE  /\ After(groups, merges)[0] = groups
         /\ \A n \in 1..Len(merges) :
               After(groups, merges)[n] = MergePair(After(groups, merges)[n - 1], merges[n])
<1>1. PICK f : FirstFew(f, groups, merges, Len(merges))
  BY FirstFewExist
<1> DEFINE a == CHOOSE e : e = [n \in 0..Len(merges) |->
                                  IF n = 0 THEN groups ELSE MergePair(e[n - 1], merges[n])]
<1>2. a = [n \in 0..Len(merges) |-> IF n = 0 THEN groups ELSE MergePair(a[n - 1], merges[n])]
  BY <1>1 DEF FirstFew
<1>3. After(groups, merges) = a
  BY DEF After
<1> HIDE DEF a
<1> QED
  BY <1>2, <1>3

\* The table keeps its groups.
LEMMA AfterOn ==
  ASSUME NEW groups, NEW merges, NEW G, Len(merges) \in Nat, On(groups, G)
  PROVE  \A n \in 0..Len(merges) : On(After(groups, merges)[n], G)
<1> DEFINE a == After(groups, merges)
           A == {n \in 0..Len(merges) : On(a[n], G)}
<1>1. 0 \in A
  BY AfterIs
<1>2. ASSUME NEW n \in 1..Len(merges), n - 1 \in A PROVE n \in A
  <2>1. a[n] = MergePair(a[n - 1], merges[n])
    BY AfterIs
  <2>2. On(a[n - 1], G)
    BY <1>2
  <2> HIDE DEF a
  <2>3. On(a[n], G)
    BY <2>1, <2>2 DEF MergePair, On
  <2> QED
    BY <2>3
<1> HIDE DEF A
<1>3. 0..Len(merges) \subseteq A
  BY <1>1, <1>2, Climbs
<1> QED
  BY <1>3 DEF A

Alike(m1, m2, S) == \A g \in S : m1[g] = m2[g]

\* A pair looks at its own groups only.
LEMMA MergePairAlike ==
  ASSUME NEW G, NEW m1, NEW m2, On(m1, G), On(m2, G), NEW S \in SUBSET G, Alike(m1, m2, S),
         NEW p, p.from \in S, p.to \in S
  PROVE  /\ Alike(MergePair(m1, p), MergePair(m2, p), S)
         /\ \A g \in G : g # p.to => MergePair(m1, p)[g] = m1[g]
         /\ m1[p.from] = NoState /\ m1[p.to] = NoState => MergePair(m1, p) = m1
<1>1. m1[p.from] = m2[p.from] /\ m1[p.to] = m2[p.to]
  BY DEF Alike
<1>2. \A g \in G : g # p.to => MergePair(m1, p)[g] = m1[g] /\ MergePair(m2, p)[g] = m2[g]
  BY DEF MergePair, On
<1>3. MergePair(m1, p)[p.to] = MergePair(m2, p)[p.to]
  BY <1>1 DEF MergePair, On
<1> QED
  BY <1>2, <1>3 DEF Alike, MergePair

\* A batch of merges acts on the groups it names by what they hold, and on
\* those it touches only.
LEMMA CombinedAlike ==
  ASSUME NEW G, NEW m1, NEW m2, On(m1, G), On(m2, G), NEW S \in SUBSET G, Alike(m1, m2, S),
         NEW merges, Len(merges) \in Nat, DOMAIN merges = 1..Len(merges),
         \A i \in DOMAIN merges : merges[i].from \in S /\ merges[i].to \in S
  PROVE  /\ Alike(Combined(m1, merges), Combined(m2, merges), S)
         /\ \A g \in G \ Touched(m1, merges) : Combined(m1, merges)[g] = m1[g]
<1> DEFINE a1 == After(m1, merges)
           a2 == After(m2, merges)
           Kept(n) == \A g \in G \ Touched(m1, merges) : a1[n][g] = m1[g]
           A == {n \in 0..Len(merges) : Alike(a1[n], a2[n], S) /\ Kept(n)}
<1>1. 0 \in A
  BY AfterIs
<1>2. ASSUME NEW n \in 1..Len(merges), n - 1 \in A PROVE n \in A
  <2>1. a1[n] = MergePair(a1[n - 1], merges[n]) /\ a2[n] = MergePair(a2[n - 1], merges[n])
    BY AfterIs
  <2>2. On(a1[n - 1], G) /\ On(a2[n - 1], G)
    BY AfterOn
  <2>3. merges[n].from \in S /\ merges[n].to \in S /\ n \in DOMAIN merges
    OBVIOUS
  <2>4. Alike(a1[n - 1], a2[n - 1], S) /\ Kept(n - 1)
    BY <1>2
  <2>5. a1[n - 1][merges[n].from] # NoState \/ a1[n - 1][merges[n].to] # NoState
          => merges[n].to \in Touched(m1, merges)
    BY <2>3 DEF Touched
  <2> HIDE DEF a1, a2
  <2>6. /\ Alike(a1[n], a2[n], S)
        /\ \A g \in G : g # merges[n].to => a1[n][g] = a1[n - 1][g]
        /\ a1[n - 1][merges[n].from] = NoState /\ a1[n - 1][merges[n].to] = NoState => a1[n] = a1[n - 1]
    BY <2>1, <2>2, <2>3, <2>4, MergePairAlike
  <2>7. Kept(n)
    BY <2>4, <2>5, <2>6
  <2> QED
    BY <2>6, <2>7
<1> HIDE DEF A
<1>3. 0..Len(merges) \subseteq A
  BY <1>1, <1>2, Climbs
<1>4. Len(merges) \in A
  BY <1>3
<1> QED
  BY <1>4 DEF A, Combined
-----------------------------------------------------------------------------
(* Calls                                                                   *)

\* The groups a call names, by the kind of call.
LEMMA CallShape ==
  ASSUME NEW c \in Calls
  PROVE  \/ /\ c.op = "update" /\ c.actor \in Threads
            /\ GidsOf(c) \subseteq GidsOfActor(c.actor)
         \/ /\ c.op = "combine" /\ c.actor \in Threads
            /\ GidsOf(c) \subseteq GidsOfActor(c.actor) \cup GidsOfActor(Main)
         \/ /\ c.op = "finalize" /\ c.actor = Main
            /\ GidsOf(c) = GidsOfActor(Main)
         \/ /\ c.op = "destroy" /\ c.actor \in Actors
            /\ GidsOf(c) = GidsOfActor(c.actor) /\ c.gids = GidsOf(c)
<1>1. CASE c \in UpdateCalls
  <2>1. PICK t \in Threads, n \in 1..MaxBatches, s \in Shapes : c = UpdateCall(t, n, s)
    BY <1>1 DEF UpdateCalls
  <2>2. c.op = "update" /\ c.actor = t
    BY <2>1 DEF UpdateCall
  <2>3. DOMAIN c.rows = DOMAIN s /\ \A i \in DOMAIN s : c.rows[i].group = <<t, s[i].key>>
    BY <2>1 DEF UpdateCall
  <2>4. \A i \in DOMAIN s : s[i].key \in Keys
    BY ShapesAssumption
  <2>5. GidsOf(c) = {c.rows[i].group : i \in DOMAIN c.rows}
    BY <2>2 DEF GidsOf
  <2>6. GidsOf(c) = {<<t, s[i].key>> : i \in DOMAIN s}
    BY <2>3, <2>5
  <2>7. GidsOf(c) \subseteq GidsOfActor(t)
    BY <2>4, <2>6 DEF GidsOfActor
  <2>8. QED
    BY <2>2, <2>7
<1>2. CASE c \in CombineCalls
  <2>1. PICK t \in Threads, o \in SetToSeqs(Keys) : c = CombineCall(t, o)
    BY <1>2 DEF CombineCalls
  <2>2. c.op = "combine" /\ c.actor = t
    BY <2>1 DEF CombineCall
  <2>3. /\ DOMAIN c.merges = DOMAIN o
        /\ \A i \in DOMAIN o : c.merges[i].from = <<t, o[i]>> /\ c.merges[i].to = <<Main, o[i]>>
    BY <2>1 DEF CombineCall
  <2>4. \A i \in DOMAIN o : o[i] \in Keys
    BY DEF SetToSeqs
  <2>5. GidsOf(c) = {c.merges[i].from : i \in DOMAIN c.merges} \cup {c.merges[i].to : i \in DOMAIN c.merges}
    BY <2>2 DEF GidsOf
  <2>6. GidsOf(c) = {<<t, o[i]>> : i \in DOMAIN o} \cup {<<Main, o[i]>> : i \in DOMAIN o}
    BY <2>3, <2>5
  <2>7. GidsOf(c) \subseteq GidsOfActor(t) \cup GidsOfActor(Main)
    BY <2>4, <2>6 DEF GidsOfActor
  <2>8. QED
    BY <2>2, <2>7
<1>3. CASE c = FinalizeCall
  BY <1>3 DEF FinalizeCall, GidsOf
<1>4. CASE c \in {DestroyCall(a) : a \in Actors}
  BY <1>4 DEF DestroyCall, GidsOf
<1>5. QED
  BY <1>1, <1>2, <1>3, <1>4 DEF Calls

\* A process never writes a group its call does not name.
LEMMA PersistedNamed ==
  ASSUME NEW c \in Calls, NEW m
  PROVE  Persisted(m, c) \subseteq GidsOf(c)
<1>1. CASE c.op = "update"
  BY <1>1 DEF Persisted
<1>2. CASE c.op = "combine"
  BY <1>2 DEF Persisted, GidsOf, Touched
<1>3. CASE c.op = "finalize"
  BY <1>3 DEF Persisted
<1>4. CASE c.op = "destroy"
  BY <1>4 DEF Persisted, GidsOf
<1>5. QED
  BY <1>1, <1>2, <1>3, <1>4, CallShape

\* A thread's groups are merged each into its own of the result.
LEMMA MergesShape ==
  ASSUME NEW t \in Threads, NEW o \in SetToSeqs(Keys)
  PROVE  LET ms == CombineCall(t, o).merges IN
         /\ Len(ms) = Cardinality(Keys) /\ Len(ms) \in Nat /\ DOMAIN ms = 1..Len(ms)
         /\ \A i \in DOMAIN ms : ms[i].from = <<t, o[i]>> /\ ms[i].to = <<Main, o[i]>> /\ o[i] \in Keys
<1> DEFINE n == Cardinality(Keys)
           ms == CombineCall(t, o).merges
<1>1. n \in Nat
  BY KeysAssumption, FS_CardinalityType
<1>2. o \in [1..n -> Keys]
  BY DEF SetToSeqs
<1>3. ms = [i \in DOMAIN o |-> [from |-> <<t, o[i]>>, to |-> <<Main, o[i]>>]]
  BY DEF CombineCall
<1> HIDE DEF n, ms
<1>4. DOMAIN ms = 1..n /\ Len(ms) = n
  BY <1>1, <1>2, <1>3
<1>5. QED
  BY <1>1, <1>2, <1>3, <1>4 DEF n, ms

LEMMA CombineMerges ==
  ASSUME NEW c \in Calls, c.op = "combine"
  PROVE  \E t \in Threads, o \in SetToSeqs(Keys) : c = CombineCall(t, o)
<1>1. c \notin UpdateCalls
  BY DEF UpdateCalls, UpdateCall
<1>2. c # FinalizeCall /\ c \notin {DestroyCall(a) : a \in Actors}
  BY DEF FinalizeCall, DestroyCall
<1>3. QED
  BY <1>1, <1>2 DEF Calls, CombineCalls

LEMMA EffectOn ==
  ASSUME NEW c \in Calls, NEW m, On(m, Gids)
  PROVE  /\ On(Effect(m, c), Gids)
         /\ c.op = "destroy" => \A g \in c.gids : Effect(m, c)[g] = NoState
<1>1. DOMAIN m = Gids
  BY DEF On
<1>2. CASE c.op = "update"
  BY <1>1, <1>2 DEF Effect, Updated, On
<1>3. CASE c.op = "combine"
  <2>1. PICK t \in Threads, o \in SetToSeqs(Keys) : c = CombineCall(t, o)
    BY <1>3, CombineMerges
  <2>2. Len(c.merges) \in Nat
    BY <2>1, MergesShape
  <2>3. On(After(m, c.merges)[Len(c.merges)], Gids)
    BY <2>2, AfterOn
  <2> QED
    BY <1>3, <2>3 DEF Effect, Combined
<1>4. CASE c.op = "finalize"
  BY <1>4 DEF Effect
<1>5. CASE c.op = "destroy"
  <2>1. c.gids \subseteq Gids
    BY <1>5, CallShape DEF GidsOfActor, Gids
  <2>2. QED
    BY <1>1, <1>5, <2>1 DEF Effect, Without, On
<1>6. QED
  BY <1>2, <1>3, <1>4, <1>5, CallShape

LEMMA NamesGids ==
  ASSUME NEW c \in Calls
  PROVE  GidsOf(c) \subseteq Gids /\ c.actor \in Actors
BY CallShape DEF GidsOfActor, Gids, Actors

\* A call changes the groups it writes and no others.
LEMMA EffectElsewhere ==
  ASSUME NEW c \in Calls, NEW m, On(m, Gids)
  PROVE  \A g \in Gids \ Persisted(m, c) : Effect(m, c)[g] = m[g]
<1>0. GidsOf(c) \subseteq Gids
  BY NamesGids
<1>1. CASE c.op = "update"
  <2>1. \A g \in Gids \ GidsOf(c) : RowsFor(c.rows, g) = {}
    BY <1>1 DEF GidsOf, RowsFor
  <2> QED
    BY <1>1, <2>1 DEF Persisted, Effect, Updated, On
<1>2. CASE c.op = "combine"
  <2>1. PICK t \in Threads, o \in SetToSeqs(Keys) : c = CombineCall(t, o)
    BY <1>2, CombineMerges
  <2>2. Len(c.merges) \in Nat /\ DOMAIN c.merges = 1..Len(c.merges)
    BY <2>1, MergesShape
  <2>3. \A i \in DOMAIN c.merges : c.merges[i].from \in GidsOf(c) /\ c.merges[i].to \in GidsOf(c)
    BY <1>2 DEF GidsOf
  <2>4. Alike(m, m, GidsOf(c))
    BY DEF Alike
  <2>5. \A g \in Gids \ Touched(m, c.merges) : Combined(m, c.merges)[g] = m[g]
    BY <1>0, <2>2, <2>3, <2>4, CombinedAlike
  <2> QED
    BY <1>2, <2>5 DEF Persisted, Effect
<1>3. CASE c.op = "finalize"
  BY <1>3 DEF Effect
<1>4. CASE c.op = "destroy"
  BY <1>4 DEF Effect, Without, Persisted, On
<1>5. QED
  BY <1>1, <1>2, <1>3, <1>4, CallShape

\* What a call makes of its groups depends on them only; of those a
\* destructor drops it does not depend at all.
LEMMA EffectAlike ==
  ASSUME NEW c \in Calls, NEW m1, NEW m2, On(m1, Gids), On(m2, Gids),
         c.op # "destroy" => Alike(m1, m2, GidsOf(c))
  PROVE  Alike(Effect(m1, c), Effect(m2, c), GidsOf(c))
<1>0. GidsOf(c) \subseteq Gids
  BY NamesGids
<1>1. CASE c.op = "update"
  BY <1>0, <1>1 DEF Effect, Updated, Alike, On
<1>2. CASE c.op = "combine"
  <2>1. PICK t \in Threads, o \in SetToSeqs(Keys) : c = CombineCall(t, o)
    BY <1>2, CombineMerges
  <2>2. Len(c.merges) \in Nat /\ DOMAIN c.merges = 1..Len(c.merges)
    BY <2>1, MergesShape
  <2>3. \A i \in DOMAIN c.merges : c.merges[i].from \in GidsOf(c) /\ c.merges[i].to \in GidsOf(c)
    BY <1>2 DEF GidsOf
  <2>4. Alike(Combined(m1, c.merges), Combined(m2, c.merges), GidsOf(c))
    BY <1>0, <1>2, <2>2, <2>3, CombinedAlike
  <2> QED
    BY <1>2, <2>4 DEF Effect
<1>3. CASE c.op = "finalize"
  BY <1>3 DEF Effect
<1>4. CASE c.op = "destroy"
  <2>1. c.gids = GidsOf(c)
    BY <1>4, CallShape
  <2> QED
    BY <1>0, <1>4, <2>1 DEF Effect, Without, Alike, On
<1>5. QED
  BY <1>1, <1>2, <1>3, <1>4, CallShape

LEMMA MadeCalls ==
  /\ \A t \in Threads, n \in 1..MaxBatches, s \in Shapes :
        /\ UpdateCall(t, n, s) \in Calls
        /\ UpdateCall(t, n, s).op = "update" /\ UpdateCall(t, n, s).actor = t
  /\ \A t \in Threads, o \in SetToSeqs(Keys) :
        /\ CombineCall(t, o) \in Calls
        /\ CombineCall(t, o).op = "combine" /\ CombineCall(t, o).actor = t
  /\ FinalizeCall \in Calls /\ FinalizeCall.op = "finalize" /\ FinalizeCall.actor = Main
  /\ \A a \in Actors :
        /\ DestroyCall(a) \in Calls
        /\ DestroyCall(a).op = "destroy" /\ DestroyCall(a).actor = a
<1>1. \A t \in Threads, n \in 1..MaxBatches, s \in Shapes :
        /\ UpdateCall(t, n, s) \in Calls
        /\ UpdateCall(t, n, s).op = "update" /\ UpdateCall(t, n, s).actor = t
  <2>1. \A t \in Threads, n \in 1..MaxBatches, s \in Shapes : UpdateCall(t, n, s) \in Calls
    BY DEF Calls, UpdateCalls
  <2>2. QED
    BY <2>1 DEF UpdateCall
<1>2. \A t \in Threads, o \in SetToSeqs(Keys) :
        /\ CombineCall(t, o) \in Calls
        /\ CombineCall(t, o).op = "combine" /\ CombineCall(t, o).actor = t
  <2>1. \A t \in Threads, o \in SetToSeqs(Keys) : CombineCall(t, o) \in Calls
    BY DEF Calls, CombineCalls
  <2>2. QED
    BY <2>1 DEF CombineCall
<1>3. FinalizeCall \in Calls /\ FinalizeCall.op = "finalize" /\ FinalizeCall.actor = Main
  BY DEF Calls, FinalizeCall
<1>4. \A a \in Actors :
        /\ DestroyCall(a) \in Calls
        /\ DestroyCall(a).op = "destroy" /\ DestroyCall(a).actor = a
  BY DEF Calls, DestroyCall
<1>5. QED
  BY <1>1, <1>2, <1>3, <1>4

-----------------------------------------------------------------------------
(* The inductive invariant                                                 *)

Shape ==
    /\ On(file, Gids)
    /\ On(mem, Workers) /\ \A w \in Workers : On(mem[w], Gids)
    /\ job \in [Workers -> Jobs \cup {NoJob}]
    /\ stage \in [Actors -> {"sink", "merged", "done"}]
    /\ sent \in [Threads -> 0..MaxBatches]
    /\ failed \in BOOLEAN
    /\ dropped \subseteq Gids

\* Where the actor of a call in flight stands.
Standing(c) ==
    /\ c.op = "destroy" => stage[c.actor] = "merged" \/ (failed /\ stage[c.actor] # "done")
    /\ c.op # "destroy" => stage[c.actor] = "sink"
    /\ c.op = "finalize" => \A t \in Threads : stage[t] # "sink"

CallsStand ==
    \A w \in Serving : job[w].todo \subseteq GidsOf(job[w].call) /\ Standing(job[w].call)

\* No two calls in flight name one group.
Exclusive ==
    \A v, w \in Serving : v # w =>
        /\ GidsOf(job[v].call) \cap GidsOf(job[w].call) = {}
        /\ job[v].call.actor # job[w].call.actor

\* Unless a call failed, Main waits for the threads.
MainLast ==
    stage[Main] # "sink" => failed \/ \A t \in Threads : stage[t] # "sink"

\* A destructor has the groups out of memory before it unlinks their files.
Destroying ==
    \A w \in Serving :
        job[w].call.op = "destroy" /\ job[w].step = "persist" =>
            \A g \in job[w].call.gids :
                mem[w][g] = NoState /\ (g \notin job[w].todo => file[g] = NoState)

\* A dropped group has no file, and no call names it again.
DroppedOver ==
    \A g \in dropped : file[g] = NoState /\ stage[g[1]] = "done" /\ g \notin Named

IInv == Shape /\ CallsStand /\ Exclusive /\ MainLast /\ Destroying /\ DroppedOver

LEMMA ServingJobs ==
  ASSUME Shape, NEW w \in Serving
  PROVE  /\ w \in Workers /\ job[w] \in Jobs
         /\ job[w].call \in Calls /\ job[w].call.actor \in Actors
         /\ GidsOf(job[w].call) \subseteq Gids
<1>1. w \in Workers /\ job[w] \in Jobs
  BY DEF Shape, Serving
<1>2. job[w].call \in Calls
  BY <1>1 DEF Jobs
<1>3. QED
  BY <1>1, <1>2, NamesGids

LEMMA InitIInv == Init => IInv
<1> SUFFICES ASSUME Init PROVE IInv
  OBVIOUS
<1>1. Serving = {}
  BY DEF Init, Serving
<1>2. Shape
  <2>1. sent \in [Threads -> 0..MaxBatches]
    BY BoundAssumption DEF Init
  <2>2. QED
    BY <2>1 DEF Init, Shape, On, NoGroups
<1>3. CallsStand /\ Exclusive /\ Destroying
  BY <1>1 DEF CallsStand, Exclusive, Destroying
<1>4. MainLast /\ DroppedOver
  BY DEF Init, MainLast, DroppedOver, Actors
<1>5. QED
  BY <1>2, <1>3, <1>4 DEF IInv

\* A call is taken whose actor stands right and which names no dropped group.
LEMMA SendStep ==
  ASSUME IInv, NEW c \in Calls, Send(c), Standing(c), GidsOf(c) \cap dropped = {},
         sent' \in [Threads -> 0..MaxBatches]
  PROVE  IInv'
<1>1. PICK w \in Workers \ Serving :
        job' = [job EXCEPT ![w] = [call |-> c, step |-> "load", todo |-> Requested(c)]]
  BY DEF Send
<1>2. UNCHANGED <<file, mem, stage, failed, dropped>>
  BY DEF Send
<1> DEFINE j == [call |-> c, step |-> "load", todo |-> Requested(c)]
<1>3. Requested(c) \subseteq GidsOf(c)
  BY DEF Requested
<1>4. j \in Jobs /\ j # NoJob
  BY <1>3, NamesGids, JobAssumption DEF Jobs
<1>5. job \in [Workers -> Jobs \cup {NoJob}]
  BY DEF IInv, Shape
<1>6. job'[w] = j /\ \A v \in Workers : v # w => job'[v] = job[v]
  BY <1>1, <1>5
<1>7. Serving' = Serving \cup {w} /\ w \notin Serving
  BY <1>1, <1>4, <1>6 DEF Serving
<1>8. \A v \in Serving : v \in Workers /\ v # w /\ job'[v] = job[v]
  BY <1>6, <1>7 DEF Serving
<1> HIDE DEF j
<1>9. j.call = c /\ j.step = "load" /\ j.todo = Requested(c)
  BY DEF j
<1>10. Shape'
  BY <1>1, <1>2, <1>4, <1>5 DEF IInv, Shape, j
<1>11. CallsStand'
  <2>1. ASSUME NEW v \in Serving' PROVE (job[v].todo \subseteq GidsOf(job[v].call) /\ Standing(job[v].call))'
    <3>1. CASE v = w
      BY <3>1, <1>2, <1>3, <1>6, <1>9 DEF Standing
    <3>2. CASE v \in Serving
      BY <3>2, <1>2, <1>8 DEF IInv, CallsStand, Standing
    <3>3. QED
      BY <3>1, <3>2, <1>7
  <2>2. QED
    BY <2>1 DEF CallsStand
<1>12. Exclusive'
  <2>1. \A v \in Serving : job[v].call.actor # c.actor
    BY DEF Send, InFlight
  <2>2. \A v \in Serving : GidsOf(job[v].call) \cap GidsOf(c) = {}
    BY DEF Send, Named
  <2>3. QED
    BY <2>1, <2>2, <1>6, <1>7, <1>8, <1>9 DEF IInv, Exclusive
<1>13. MainLast'
  BY <1>2 DEF IInv, MainLast
<1>14. Destroying'
  BY <1>2, <1>6, <1>7, <1>8, <1>9 DEF IInv, Destroying
<1>15. DroppedOver'
  <2>1. Named' = Named \cup GidsOf(c)
    BY <1>6, <1>7, <1>8, <1>9 DEF Named
  <2>2. QED
    BY <2>1, <1>2 DEF IInv, DroppedOver
<1>16. QED
  BY <1>10, <1>11, <1>12, <1>13, <1>14, <1>15 DEF IInv

LEMMA EngineStep ==
  ASSUME IInv,
         \/ \E t \in Threads : Update(t) \/ Combine(t)
         \/ Finalize
         \/ \E a \in Actors : Destroy(a)
  PROVE  IInv'
<1>0. \A g \in dropped : g \in Gids /\ stage[g[1]] = "done"
  BY DEF IInv, Shape, DroppedOver
<1>a. \A a \in Actors : stage[a] # "done" => GidsOfActor(a) \cap dropped = {}
  BY <1>0 DEF GidsOfActor
<1>1. ASSUME NEW t \in Threads, Update(t) PROVE IInv'
  <2>1. PICK s \in Shapes : Send(UpdateCall(t, sent[t] + 1, s))
    BY <1>1 DEF Update
  <2>2. stage[t] = "sink" /\ sent[t] + 1 \in 1..MaxBatches
        /\ sent' \in [Threads -> 0..MaxBatches]
    BY <1>1, BoundAssumption DEF Update, IInv, Shape
  <2> DEFINE c == UpdateCall(t, sent[t] + 1, s)
  <2>3. c \in Calls /\ c.op = "update" /\ c.actor = t
    BY <2>1, <2>2, MadeCalls
  <2> HIDE DEF c
  <2>4. GidsOf(c) \subseteq GidsOfActor(t)
    BY <2>3, CallShape
  <2>5. Standing(c) /\ GidsOf(c) \cap dropped = {}
    BY <1>a, <2>2, <2>3, <2>4 DEF Standing, Actors
  <2>6. QED
    BY <2>1, <2>2, <2>3, <2>5, SendStep DEF c
<1>2. ASSUME NEW t \in Threads, Combine(t) PROVE IInv'
  <2>1. PICK o \in SetToSeqs(Keys) : Send(CombineCall(t, o))
    BY <1>2 DEF Combine
  <2>2. stage[t] = "sink" /\ stage[Main] = "sink" /\ sent' \in [Threads -> 0..MaxBatches]
    BY <1>2 DEF Combine, IInv, Shape, MainLast
  <2> DEFINE c == CombineCall(t, o)
  <2>3. c \in Calls /\ c.op = "combine" /\ c.actor = t
    BY MadeCalls
  <2> HIDE DEF c
  <2>4. GidsOf(c) \subseteq GidsOfActor(t) \cup GidsOfActor(Main)
    BY <2>3, CallShape
  <2>5. Standing(c) /\ GidsOf(c) \cap dropped = {}
    BY <1>a, <2>2, <2>3, <2>4 DEF Standing, Actors
  <2>6. QED
    BY <2>1, <2>2, <2>3, <2>5, SendStep DEF c
<1>3. ASSUME Finalize PROVE IInv'
  <2>1. FinalizeCall \in Calls /\ FinalizeCall.op = "finalize" /\ FinalizeCall.actor = Main
    BY MadeCalls
  <2>2. GidsOf(FinalizeCall) = GidsOfActor(Main)
    BY <2>1, CallShape
  <2>3. Standing(FinalizeCall) /\ GidsOf(FinalizeCall) \cap dropped = {}
    BY <1>3, <1>a, <2>1, <2>2 DEF Finalize, Standing, Actors
  <2>4. QED
    BY <1>3, <2>1, <2>3, SendStep DEF Finalize, IInv, Shape
<1>4. ASSUME NEW a \in Actors, Destroy(a) PROVE IInv'
  <2>1. DestroyCall(a) \in Calls /\ DestroyCall(a).op = "destroy" /\ DestroyCall(a).actor = a
    BY MadeCalls
  <2>2. GidsOf(DestroyCall(a)) = GidsOfActor(a)
    BY <2>1, CallShape
  <2>3. Standing(DestroyCall(a)) /\ GidsOf(DestroyCall(a)) \cap dropped = {}
    BY <1>4, <1>a, <2>1, <2>2 DEF Destroy, Standing
  <2>4. QED
    BY <1>4, <2>1, <2>3, SendStep DEF Destroy, IInv, Shape
<1>5. QED
  BY <1>1, <1>2, <1>3, <1>4

LEMMA LoadStep ==
  ASSUME IInv, NEW w \in Workers, Load(w)
  PROVE  IInv'
<1>1. w \in Serving /\ job[w].step = "load"
  BY DEF Load, Serving
<1>2. job[w] \in Jobs /\ job \in [Workers -> Jobs \cup {NoJob}]
  BY <1>1, ServingJobs DEF IInv, Shape
<1>3. PICK g \in job[w].todo :
        /\ mem' = [mem EXCEPT ![w][g] = file[g]]
        /\ job' = [job EXCEPT ![w].todo = @ \ {g}]
  BY DEF Load
<1>4. UNCHANGED <<file, stage, sent, failed, dropped>>
  BY DEF Load, client
<1> DEFINE j == [job[w] EXCEPT !.todo = @ \ {g}]
<1>5. j \in Jobs /\ j.call = job[w].call /\ j.step = "load" /\ j.todo \subseteq job[w].todo
  BY <1>1, <1>2 DEF Jobs
<1>6. job' = [job EXCEPT ![w] = j]
  BY <1>3
<1> HIDE DEF j
<1>7. job'[w] = j /\ \A v \in Workers : v # w => job'[v] = job[v]
  BY <1>2, <1>6
<1>8. Serving' = Serving
  BY <1>1, <1>5, <1>7, JobAssumption DEF Serving
<1>9. \A v \in Serving : v \in Workers /\ job'[v].call = job[v].call
         /\ job'[v].todo \subseteq job[v].todo
  BY <1>5, <1>7 DEF Serving
<1>10. g \in Gids
  BY <1>2 DEF Jobs
<1>11. /\ \A v \in Workers : v # w => mem'[v] = mem[v]
       /\ On(mem, Workers)' /\ \A v \in Workers : On(mem[v], Gids)'
  BY <1>3, <1>10 DEF IInv, Shape, On
<1>12. Shape'
  BY <1>2, <1>4, <1>5, <1>6, <1>11 DEF IInv, Shape
<1>13. CallsStand' /\ Exclusive' /\ MainLast'
  BY <1>4, <1>8, <1>9 DEF IInv, CallsStand, Standing, Exclusive, MainLast
<1>14. Destroying'
  BY <1>4, <1>5, <1>7, <1>8, <1>9, <1>11 DEF IInv, Destroying
<1>15. DroppedOver'
  BY <1>4, <1>8, <1>9 DEF IInv, DroppedOver, Named
<1>16. QED
  BY <1>12, <1>13, <1>14, <1>15 DEF IInv

\* The call's memory is the handler's, and it has its groups still to write.
LEMMA RunStep ==
  ASSUME IInv, NEW w \in Workers, Run(w)
  PROVE  IInv'
<1>1. w \in Serving /\ job[w] \in Jobs /\ job[w].call \in Calls
  BY ServingJobs DEF Run, Loaded, Serving, IInv
<1> DEFINE c == job[w].call
           j == [call |-> c, step |-> "persist", todo |-> Persisted(mem[w], c)]
<1>2. job' = [job EXCEPT ![w] = j] /\ mem' = [mem EXCEPT ![w] = Effect(mem[w], c)]
  BY DEF Run
<1>3. UNCHANGED <<file, stage, sent, failed, dropped>>
  BY DEF Run
<1>4. Persisted(mem[w], c) \subseteq GidsOf(c) /\ GidsOf(c) \subseteq Gids
  BY <1>1, PersistedNamed, NamesGids
<1>5. j \in Jobs /\ j.call = c /\ j.step = "persist" /\ j.todo = Persisted(mem[w], c)
  BY <1>1, <1>4 DEF Jobs
<1>6. /\ On(Effect(mem[w], c), Gids)
      /\ c.op = "destroy" => \A g \in c.gids : Effect(mem[w], c)[g] = NoState
  BY <1>1, EffectOn DEF IInv, Shape
<1>7. c.op = "destroy" => Persisted(mem[w], c) = c.gids
  BY DEF Persisted
<1> HIDE DEF c, j
<1>8. job'[w] = j /\ \A v \in Workers : v # w => job'[v] = job[v]
  BY <1>2 DEF IInv, Shape
<1>9. mem'[w] = Effect(mem[w], c) /\ \A v \in Workers : v # w => mem'[v] = mem[v]
  BY <1>2 DEF IInv, Shape, On
<1>10. Serving' = Serving
  BY <1>1, <1>5, <1>8, JobAssumption DEF Serving
<1>11. \A v \in Serving : v \in Workers /\ job'[v].call = job[v].call
  BY <1>5, <1>8 DEF Serving, c
<1>12. Shape'
  <2>1. On(mem, Workers)'
    BY <1>2 DEF IInv, Shape, On
  <2>2. \A v \in Workers : On(mem[v], Gids)'
    BY <1>6, <1>9 DEF IInv, Shape, On
  <2>3. QED
    BY <1>2, <1>3, <1>5, <2>1, <2>2 DEF IInv, Shape
<1>13. CallsStand'
  BY <1>3, <1>4, <1>5, <1>8, <1>10, <1>11 DEF IInv, CallsStand, Standing, c, Serving
<1>14. Exclusive' /\ MainLast'
  BY <1>3, <1>10, <1>11 DEF IInv, Exclusive, MainLast
<1>15. Destroying'
  BY <1>3, <1>5, <1>6, <1>7, <1>8, <1>9, <1>10, <1>11 DEF IInv, Destroying
<1>16. DroppedOver'
  BY <1>3, <1>10, <1>11 DEF IInv, DroppedOver, Named
<1>17. QED
  BY <1>12, <1>13, <1>14, <1>15, <1>16 DEF IInv

\* A process writes only groups its call names, which no other call does and
\* which are not dropped.
LEMMA StoreStep ==
  ASSUME IInv, NEW w \in Workers, Store(w)
  PROVE  IInv'
<1>1. w \in Serving /\ job[w].step = "persist" /\ job[w] \in Jobs
  BY ServingJobs DEF Store, Serving, IInv
<1>2. PICK g \in job[w].todo :
        /\ file' = [file EXCEPT ![g] = mem[w][g]]
        /\ job' = [job EXCEPT ![w].todo = @ \ {g}]
  BY DEF Store
<1>3. UNCHANGED <<mem, stage, sent, failed, dropped>>
  BY DEF Store, client
<1> DEFINE j == [job[w] EXCEPT !.todo = @ \ {g}]
<1>4. j \in Jobs /\ j.call = job[w].call /\ j.step = "persist" /\ j.todo = job[w].todo \ {g}
  BY <1>1 DEF Jobs
<1>5. job' = [job EXCEPT ![w] = j]
  BY <1>2
<1> HIDE DEF j
<1>6. job'[w] = j /\ \A v \in Workers : v # w => job'[v] = job[v]
  BY <1>5 DEF IInv, Shape
<1>7. Serving' = Serving
  BY <1>1, <1>4, <1>6, JobAssumption DEF Serving
<1>8. \A v \in Serving : /\ v \in Workers /\ job'[v].call = job[v].call /\ job'[v].step = job[v].step
                          /\ job'[v].todo \subseteq job[v].todo
  BY <1>1, <1>4, <1>6 DEF Serving
<1>9. g \in Gids /\ g \in GidsOf(job[w].call)
  BY <1>1 DEF IInv, CallsStand, Jobs
<1>10. file'[g] = mem[w][g] /\ \A h \in Gids : h # g => file'[h] = file[h]
  BY <1>2, <1>9 DEF IInv, Shape, On
<1>11. Shape'
  <2>1. On(file, Gids)'
    BY <1>2, <1>9 DEF IInv, Shape, On
  <2>2. QED
    BY <1>3, <1>4, <1>5, <2>1 DEF IInv, Shape
<1>12. CallsStand' /\ Exclusive' /\ MainLast'
  BY <1>3, <1>7, <1>8 DEF IInv, CallsStand, Standing, Exclusive, MainLast
<1>13. Destroying'
  <2>1. ASSUME NEW v \in Serving, job[v].call.op = "destroy", job[v].step = "persist",
               NEW h \in job[v].call.gids
        PROVE  mem[v][h] = NoState /\ (h \notin job'[v].todo => file'[h] = NoState)
    <3>1. job[v].call \in Calls /\ job[v].call.gids = GidsOf(job[v].call) /\ h \in Gids
      BY <2>1, ServingJobs, CallShape DEF IInv
    <3>2. mem[v][h] = NoState /\ (h \notin job[v].todo => file[h] = NoState)
      BY <2>1 DEF IInv, Destroying
    <3>3. CASE v = w
      BY <3>1, <3>2, <3>3, <1>4, <1>6, <1>10
    <3>4. CASE v # w
      <4>1. h # g
        BY <3>1, <3>4, <1>1, <1>9 DEF IInv, Exclusive
      <4>2. QED
        BY <3>1, <3>2, <3>4, <4>1, <1>6, <1>10 DEF Serving
    <3>5. QED
      BY <3>3, <3>4
  <2>2. QED
    BY <2>1, <1>3, <1>7, <1>8 DEF Destroying
<1>14. DroppedOver'
  <2>1. g \in Named
    BY <1>1, <1>9 DEF Named
  <2>2. Named' = Named
    BY <1>7, <1>8 DEF Named
  <2>3. QED
    BY <2>1, <2>2, <1>3, <1>10 DEF IInv, Shape, DroppedOver
<1>15. QED
  BY <1>11, <1>12, <1>13, <1>14 DEF IInv

\* A call ends: its process is free, and at most its actor's stage changes.
LEMMA EndStep ==
  ASSUME IInv, NEW w \in Serving,
         job' = [job EXCEPT ![w] = NoJob],
         UNCHANGED <<file, sent>>,
         On(mem, Workers)', \A v \in Workers : On(mem[v], Gids)',
         \A v \in Workers : v # w => mem'[v] = mem[v],
         stage' \in [Actors -> {"sink", "merged", "done"}],
         \A a \in Actors : a # job[w].call.actor => stage'[a] = stage[a],
         stage'[job[w].call.actor] \in {stage[job[w].call.actor], StageAfter(job[w].call)},
         failed' \in BOOLEAN, failed => failed',
         dropped' = dropped \/ /\ job[w].call.op = "destroy"
                               /\ dropped' = dropped \cup job[w].call.gids
                               /\ job[w].step = "persist" /\ job[w].todo = {}
                               /\ stage'[job[w].call.actor] = "done"
  PROVE  IInv'
<1> DEFINE c == job[w].call
<1>1. /\ w \in Workers /\ job[w] \in Jobs /\ c \in Calls /\ c.actor \in Actors
      /\ GidsOf(c) \subseteq Gids
  BY ServingJobs DEF IInv
<1>2. Standing(c)
  BY DEF IInv, CallsStand
<1>3. job'[w] = NoJob /\ \A v \in Workers : v # w => job'[v] = job[v]
  BY <1>1 DEF IInv, Shape
<1>4. Serving' = Serving \ {w}
  BY <1>3 DEF Serving
<1>5. \A v \in Serving' : v \in Serving /\ v \in Workers /\ v # w /\ job'[v] = job[v] /\ mem'[v] = mem[v]
  BY <1>3, <1>4 DEF Serving
<1>6. stage[c.actor] # "done"
  BY <1>2, <1>1, CallShape DEF Standing
<1>7. stage[c.actor] # "sink" => stage'[c.actor] # "sink"
  BY <1>1, <1>2, CallShape DEF Standing, StageAfter
<1>8. \A a \in Actors : stage[a] # "sink" => stage'[a] # "sink"
  BY <1>7
<1>9. \A a \in Actors : stage[a] = "done" => stage'[a] = "done"
  BY <1>6
<1>10. Shape'
  <2>1. dropped' \subseteq Gids
    BY <1>1, CallShape DEF IInv, Shape
  <2>2. QED
    BY <2>1, <1>1 DEF IInv, Shape
<1>11. CallsStand'
  <2>1. ASSUME NEW v \in Serving' PROVE (job[v].todo \subseteq GidsOf(job[v].call) /\ Standing(job[v].call))'
    <3>1. v \in Serving /\ job'[v] = job[v] /\ v # w
      BY <1>5
    <3>2. job[v].call.actor \in Actors /\ job[v].call.actor # c.actor
      BY <3>1, ServingJobs DEF IInv, Exclusive
    <3>3. stage'[job[v].call.actor] = stage[job[v].call.actor]
      BY <3>2
    <3>4. job[v].todo \subseteq GidsOf(job[v].call) /\ Standing(job[v].call)
      BY <3>1 DEF IInv, CallsStand
    <3>5. QED
      BY <3>1, <3>3, <3>4, <1>8 DEF Standing, Actors
  <2>2. QED
    BY <2>1 DEF CallsStand
<1>12. Exclusive'
  BY <1>5 DEF IInv, Exclusive
<1>13. MainLast'
  <2>1. CASE failed'
    BY <2>1 DEF MainLast
  <2>2. CASE ~failed' /\ stage[Main] # "sink"
    BY <2>2, <1>8 DEF IInv, MainLast, Actors
  <2>3. CASE ~failed' /\ stage[Main] = "sink" /\ stage'[Main] # "sink"
    <3>1. c.actor = Main
      BY <2>3 DEF Actors
    <3>2. c.op # "update" /\ c.op # "combine"
      BY <1>1, <3>1, CallShape, ActorsAssumption
    <3>3. c.op # "destroy"
      BY <1>2, <2>3, <3>1 DEF Standing
    <3>4. c.op = "finalize"
      BY <1>1, <3>2, <3>3, CallShape
    <3>5. QED
      BY <1>2, <1>8, <3>4 DEF Standing, MainLast, Actors
  <2>4. QED
    BY <2>1, <2>2, <2>3 DEF MainLast
<1>14. Destroying'
  BY <1>5 DEF IInv, Destroying
<1>15. DroppedOver'
  <2>1. Named' \subseteq Named
    BY <1>5 DEF Named
  <2>2. \A g \in dropped : file'[g] = NoState /\ stage'[g[1]] = "done" /\ g \notin Named'
    BY <2>1, <1>9 DEF IInv, Shape, DroppedOver, Gids
  <2>3. CASE dropped' = dropped
    BY <2>2, <2>3 DEF DroppedOver
  <2>4. CASE dropped' # dropped
    <3>1. /\ c.op = "destroy" /\ dropped' = dropped \cup c.gids /\ job[w].step = "persist"
          /\ job[w].todo = {} /\ stage'[c.actor] = "done"
      BY <2>4
    <3>2. c.gids = GidsOf(c) /\ c.gids = GidsOfActor(c.actor)
      BY <1>1, <3>1, CallShape
    <3>3. \A g \in c.gids : file[g] = NoState
      BY <3>1 DEF IInv, Destroying
    <3>4. \A g \in c.gids : g[1] = c.actor
      BY <3>2 DEF GidsOfActor
    <3>5. c.gids \cap Named' = {}
      <4>1. Exclusive
        BY DEF IInv
      <4>2. \A v \in Serving' : GidsOf(c) \cap GidsOf(job[v].call) = {}
        BY <4>1, <1>5 DEF Exclusive
      <4>3. \A v \in Serving' : GidsOf(c) \cap GidsOf(job'[v].call) = {}
        BY <4>2, <1>5
      <4>4. QED
        BY <4>3, <3>2 DEF Named
    <3>6. QED
      BY <2>2, <3>1, <3>3, <3>4, <3>5 DEF DroppedOver
  <2>5. QED
    BY <2>3, <2>4
<1>16. QED
  BY <1>10, <1>11, <1>12, <1>13, <1>14, <1>15 DEF IInv

LEMMA ReplyStep ==
  ASSUME IInv, NEW w \in Workers, Reply(w)
  PROVE  IInv'
<1>1. w \in Serving
  BY DEF Reply, Serving
<1> DEFINE c == job[w].call
<1>2. /\ c \in Calls /\ c.actor \in Actors
      /\ StageAfter(c) \in {"sink", "merged", "done"}
      /\ c.op = "destroy" => StageAfter(c) = "done"
  BY <1>1, ServingJobs DEF IInv, StageAfter
<1>3. /\ job' = [job EXCEPT ![w] = NoJob]
      /\ stage' = [stage EXCEPT ![c.actor] = StageAfter(c)]
      /\ dropped' = IF c.op = "destroy" THEN dropped \cup c.gids ELSE dropped
      /\ job[w].step = "persist" /\ job[w].todo = {}
      /\ UNCHANGED <<file, mem, sent, failed>>
  BY DEF Reply
<1> HIDE DEF c
<1>4. /\ stage' \in [Actors -> {"sink", "merged", "done"}]
      /\ \A a \in Actors : a # c.actor => stage'[a] = stage[a]
      /\ stage'[c.actor] = StageAfter(c)
  BY <1>2, <1>3 DEF IInv, Shape
<1>5. On(mem, Workers)' /\ \A v \in Workers : On(mem[v], Gids)' /\ mem' = mem
  BY <1>3 DEF IInv, Shape
<1>6. failed' \in BOOLEAN /\ (failed => failed')
  BY <1>3 DEF IInv, Shape
<1>7. QED
  BY <1>1, <1>2, <1>3, <1>4, <1>5, <1>6, EndStep DEF c

LEMMA ThrowStep ==
  ASSUME IInv, NEW w \in Workers, Throw(w)
  PROVE  IInv'
<1>1. w \in Serving
  BY DEF Throw, Loaded, Serving
<1>2. /\ job' = [job EXCEPT ![w] = NoJob]
      /\ failed' = TRUE
      /\ UNCHANGED <<file, stage, sent, dropped>>
  BY DEF Throw
<1> DEFINE c == job[w].call
<1>3. c \in Calls /\ c.actor \in Actors
  BY <1>1, ServingJobs DEF IInv
<1>4. PICK m : mem' = [mem EXCEPT ![w] = m] /\ On(m, Gids)
  <2>1. PICK done \in {FALSE, TRUE} :
          mem' = [mem EXCEPT ![w] = IF done THEN Effect(mem[w], c) ELSE
                   IF c.op = "update" THEN Updated(mem[w], <<c.rows[1]>>)
                                      ELSE Combined(mem[w], <<c.merges[1]>>)]
    BY DEF Throw
  <2>2. On(mem[w], Gids)
    BY DEF IInv, Shape
  <2>3. On(Effect(mem[w], c), Gids)
    BY <1>3, <2>2, EffectOn
  <2>4. On(Updated(mem[w], <<c.rows[1]>>), Gids)
    BY <2>2 DEF Updated, On
  <2>5. On(Combined(mem[w], <<c.merges[1]>>), Gids)
    <3> DEFINE ms == <<c.merges[1]>>
    <3>1. Len(ms) \in Nat /\ Len(ms) \in 0..Len(ms)
      OBVIOUS
    <3> HIDE DEF ms
    <3>2. On(After(mem[w], ms)[Len(ms)], Gids)
      BY <2>2, <3>1, AfterOn
    <3> QED
      BY <3>2 DEF Combined, ms
  <2>6. QED
    BY <2>1, <2>3, <2>4, <2>5
<1> HIDE DEF c
<1>5. /\ On(mem, Workers)' /\ \A v \in Workers : On(mem[v], Gids)'
      /\ \A v \in Workers : v # w => mem'[v] = mem[v]
  BY <1>4 DEF IInv, Shape, On
<1>6. stage' \in [Actors -> {"sink", "merged", "done"}]
  BY <1>2 DEF IInv, Shape
<1>7. QED
  BY <1>1, <1>2, <1>3, <1>5, <1>6, EndStep DEF c

LEMMA CrashStep ==
  ASSUME IInv, NEW w \in Workers, Crash(w)
  PROVE  IInv'
<1>1. mem' = [mem EXCEPT ![w] = NoGroups] /\ UNCHANGED <<file, sent, dropped>>
  BY DEF Crash
<1>2. /\ On(mem, Workers)' /\ \A v \in Workers : On(mem[v], Gids)'
      /\ \A v \in Workers : v # w => mem'[v] = mem[v]
  BY <1>1 DEF IInv, Shape, On, NoGroups
<1>3. CASE job[w] = NoJob
  <2>1. UNCHANGED <<job, stage, failed>> /\ w \notin Serving
    BY <1>3 DEF Crash, Serving
  <2>2. Serving' = Serving /\ Named' = Named
    BY <2>1 DEF Serving, Named
  <2>3. Shape'
    BY <1>1, <1>2, <2>1 DEF IInv, Shape
  <2>4. CallsStand' /\ Exclusive' /\ MainLast'
    BY <2>1, <2>2 DEF IInv, CallsStand, Standing, Exclusive, MainLast
  <2>5. Destroying'
    BY <1>1, <1>2, <2>1, <2>2 DEF IInv, Destroying, Serving
  <2>6. DroppedOver'
    BY <1>1, <2>1, <2>2 DEF IInv, DroppedOver
  <2>7. QED
    BY <2>3, <2>4, <2>5, <2>6 DEF IInv
<1>4. CASE job[w] # NoJob
  <2> DEFINE c == job[w].call
  <2>1. w \in Serving
    BY <1>4 DEF Serving
  <2>2. c \in Calls /\ c.actor \in Actors
    BY <2>1, ServingJobs DEF IInv
  <2>3. /\ job' = [job EXCEPT ![w] = NoJob]
        /\ stage' = IF c.op = "destroy" THEN [stage EXCEPT ![c.actor] = "done"] ELSE stage
        /\ failed' = (failed \/ c.op # "destroy")
    BY <1>4 DEF Crash
  <2>4. c.op = "destroy" => StageAfter(c) = "done"
    BY DEF StageAfter
  <2> HIDE DEF c
  <2>5. /\ stage' \in [Actors -> {"sink", "merged", "done"}]
        /\ \A a \in Actors : a # c.actor => stage'[a] = stage[a]
        /\ stage'[c.actor] \in {stage[c.actor], StageAfter(c)}
    BY <2>2, <2>3, <2>4 DEF IInv, Shape
  <2>6. failed' \in BOOLEAN /\ (failed => failed')
    BY <2>3 DEF IInv, Shape
  <2>7. QED
    BY <1>1, <1>2, <2>1, <2>2, <2>3, <2>5, <2>6, EndStep DEF c
<1>5. QED
  BY <1>3, <1>4

LEMMA IInvStep == IInv /\ [Next]_vars => IInv'
<1> SUFFICES ASSUME IInv, [Next]_vars PROVE IInv'
  OBVIOUS
<1>1. CASE UNCHANGED vars
  <2>1. UNCHANGED <<file, mem, job, stage, sent, failed, dropped>>
    BY <1>1 DEF vars, client
  <2>2. Serving' = Serving /\ Named' = Named
    BY <2>1 DEF Serving, Named
  <2>3. Shape'
    BY <2>1 DEF IInv, Shape, On
  <2>4. CallsStand' /\ Exclusive' /\ MainLast'
    BY <2>1, <2>2 DEF IInv, CallsStand, Standing, Exclusive, MainLast
  <2>5. Destroying' /\ DroppedOver'
    BY <2>1, <2>2 DEF IInv, Destroying, DroppedOver
  <2>6. QED
    BY <2>3, <2>4, <2>5 DEF IInv
<1>2. CASE \/ \E t \in Threads : Update(t) \/ Combine(t)
           \/ Finalize
           \/ \E a \in Actors : Destroy(a)
  BY <1>2, EngineStep
<1>3. CASE \E w \in Workers : Load(w) \/ Run(w) \/ Throw(w) \/ Store(w) \/ Reply(w) \/ Crash(w)
  BY <1>3, LoadStep, RunStep, ThrowStep, StoreStep, ReplyStep, CrashStep
<1>4. QED
  BY <1>1, <1>2, <1>3 DEF Next

-----------------------------------------------------------------------------
(* The groups as the engine sees them                                      *)

\* Process w has yet to write group g.
Writing(w, g) == w \in Serving /\ job[w].step = "persist" /\ g \in job[w].todo

LEMMA OneWriter == IInv => \A g \in Gids, v, w \in Workers : Writing(v, g) /\ Writing(w, g) => v = w
BY DEF IInv, CallsStand, Exclusive, Writing

LEMMA SeenAt ==
  IInv => /\ On(GroupsSeen, Gids)
          /\ \A g \in Gids :
                /\ \A w \in Workers : Writing(w, g) => GroupsSeen[g] = mem[w][g]
                /\ (\A w \in Workers : ~Writing(w, g)) => GroupsSeen[g] = file[g]
<1> SUFFICES ASSUME IInv
             PROVE  /\ On(GroupsSeen, Gids)
                    /\ \A g \in Gids :
                          /\ \A w \in Workers : Writing(w, g) => GroupsSeen[g] = mem[w][g]
                          /\ (\A w \in Workers : ~Writing(w, g)) => GroupsSeen[g] = file[g]
  OBVIOUS
<1>1. On(GroupsSeen, Gids)
  BY DEF On, GroupsSeen
<1>2. ASSUME NEW g \in Gids, NEW w \in Workers, Writing(w, g) PROVE GroupsSeen[g] = mem[w][g]
  <2>1. \A v \in Serving : job[v].step = "persist" /\ g \in job[v].todo => v = w
    BY <1>2, OneWriter DEF Writing, Serving
  <2>2. w \in Serving /\ job[w].step = "persist" /\ g \in job[w].todo
    BY <1>2 DEF Writing
  <2>3. (CHOOSE v \in Serving : job[v].step = "persist" /\ g \in job[v].todo) = w
    BY <2>1, <2>2
  <2> QED
    BY <2>2, <2>3 DEF GroupsSeen
<1>3. ASSUME NEW g \in Gids, \A w \in Workers : ~Writing(w, g) PROVE GroupsSeen[g] = file[g]
  BY <1>3 DEF GroupsSeen, Writing, Serving
<1> QED
  BY <1>1, <1>2, <1>3

LEMMA SeenNext ==
  ASSUME IInv'
  PROVE  /\ On(GroupsSeen', Gids)
         /\ \A g \in Gids :
               /\ \A w \in Workers : Writing(w, g)' => GroupsSeen'[g] = mem'[w][g]
               /\ (\A w \in Workers : ~Writing(w, g)') => GroupsSeen'[g] = file'[g]
<1>1. (IInv => /\ On(GroupsSeen, Gids)
               /\ \A g \in Gids :
                     /\ \A w \in Workers : Writing(w, g) => GroupsSeen[g] = mem[w][g]
                     /\ (\A w \in Workers : ~Writing(w, g)) => GroupsSeen[g] = file[g])'
  BY SeenAt, PTL
<1> QED
  BY <1>1 DEF On

\* A group no write of which begins or ends is seen as before.
LEMMA SeenKept ==
  ASSUME IInv, IInv', NEW g \in Gids,
         \A v \in Workers : Writing(v, g)' <=> Writing(v, g),
         \A v \in Workers : Writing(v, g) => mem'[v][g] = mem[v][g],
         file'[g] = file[g]
  PROVE  GroupsSeen'[g] = GroupsSeen[g]
<1>1. CASE \E v \in Workers : Writing(v, g)
  <2>1. PICK v \in Workers : Writing(v, g)
    BY <1>1
  <2>2. Writing(v, g)'
    BY <2>1
  <2> QED
    BY <2>1, <2>2, SeenAt, SeenNext
<1>2. CASE \A v \in Workers : ~Writing(v, g)
  BY <1>2, SeenAt, SeenNext
<1> QED
  BY <1>1, <1>2

\* What a process has loaded is in the files, until it acts on it.
Loads ==
    \A w \in Serving : job[w].step = "load" /\ job[w].call.op # "destroy" =>
        \A g \in GidsOf(job[w].call) \ job[w].todo : mem[w][g] = file[g]

SeenAlike == \A g \in Gids : GroupsSeen'[g] = GroupsSeen[g]

LEMMA InitLoads == Init => Loads
BY DEF Init, Loads, Serving

LEMMA SendSeen ==
  ASSUME IInv, IInv', Loads, NEW c \in Calls, Send(c)
  PROVE  Loads' /\ SeenAlike
<1>1. PICK w \in Workers \ Serving :
        job' = [job EXCEPT ![w] = [call |-> c, step |-> "load", todo |-> Requested(c)]]
  BY DEF Send
<1>2. UNCHANGED <<file, mem>>
  BY DEF Send
<1> DEFINE j == [call |-> c, step |-> "load", todo |-> Requested(c)]
<1>3. job'[w] = j /\ \A v \in Workers : v # w => job'[v] = job[v]
  BY <1>1 DEF IInv, Shape
<1>4. j.call = c /\ j.step = "load" /\ j.todo = Requested(c)
  OBVIOUS
<1> HIDE DEF j
<1>5. \A v \in Serving' : v = w \/ (v \in Serving /\ job'[v] = job[v])
  BY <1>3 DEF Serving
<1>6. \A v \in Serving : v \in Serving' /\ v # w /\ job'[v] = job[v]
  BY <1>3 DEF Serving
<1>7. Loads'
  BY <1>2, <1>3, <1>4, <1>5 DEF Loads, Requested
<1>8. SeenAlike
  <2>1. ASSUME NEW g \in Gids, NEW v \in Workers PROVE Writing(v, g)' <=> Writing(v, g)
    <3>1. CASE v = w
      BY <3>1, <1>3, <1>4 DEF Writing
    <3>2. CASE v # w
      BY <3>2, <1>5, <1>6 DEF Writing
    <3> QED
      BY <3>1, <3>2
  <2> QED
    BY <2>1, <1>2, SeenKept DEF SeenAlike
<1> QED
  BY <1>7, <1>8

LEMMA LoadSeen ==
  ASSUME IInv, IInv', Loads, NEW w \in Workers, Load(w)
  PROVE  Loads' /\ SeenAlike
<1>1. w \in Serving /\ job[w].step = "load" /\ job[w] \in Jobs
  BY ServingJobs DEF Load, Serving, IInv
<1>2. PICK g \in job[w].todo :
        /\ mem' = [mem EXCEPT ![w][g] = file[g]]
        /\ job' = [job EXCEPT ![w].todo = @ \ {g}]
  BY DEF Load
<1>3. file' = file /\ g \in Gids
  BY <1>1 DEF Load, Jobs
<1>4. /\ job'[w].call = job[w].call /\ job'[w].step = "load" /\ job'[w].todo = job[w].todo \ {g}
      /\ \A v \in Workers : v # w => job'[v] = job[v]
  BY <1>1, <1>2 DEF IInv, Shape, Jobs
<1>5. /\ mem'[w][g] = file[g] /\ \A h \in Gids : h # g => mem'[w][h] = mem[w][h]
      /\ \A v \in Workers : v # w => mem'[v] = mem[v]
  BY <1>2, <1>3 DEF IInv, Shape, On
<1>6. \A v \in Serving' : v = w \/ (v \in Serving /\ job'[v] = job[v] /\ mem'[v] = mem[v])
  BY <1>4, <1>5 DEF Serving
<1>7. Loads'
  <2>1. ASSUME NEW v \in Serving', (job[v].step = "load" /\ job[v].call.op # "destroy")',
               NEW h \in (GidsOf(job[v].call) \ job[v].todo)'
        PROVE  mem'[v][h] = file'[h]
    <3>1. CASE v = w
      <4>1. h \in Gids
        BY <1>1, <1>4, <3>1, ServingJobs DEF IInv
      <4>2. CASE h = g
        BY <3>1, <4>2, <1>3, <1>5
      <4>3. CASE h # g
        <5>1. h \in GidsOf(job[w].call) \ job[w].todo
          BY <1>4, <2>1, <3>1, <4>3
        <5>2. mem[w][h] = file[h]
          BY <1>1, <1>4, <2>1, <3>1, <5>1 DEF Loads
        <5> QED
          BY <3>1, <4>1, <4>3, <5>2, <1>3, <1>5
      <4> QED
        BY <4>2, <4>3
    <3>2. CASE v # w
      BY <2>1, <3>2, <1>3, <1>6 DEF Loads
    <3> QED
      BY <3>1, <3>2
  <2> QED
    BY <2>1 DEF Loads
<1>8. SeenAlike
  <2>1. ASSUME NEW h \in Gids, NEW v \in Workers PROVE Writing(v, h)' <=> Writing(v, h)
    <3>1. CASE v = w
      BY <3>1, <1>1, <1>4 DEF Writing
    <3>2. CASE v # w
      BY <3>2, <1>4 DEF Writing, Serving
    <3> QED
      BY <3>1, <3>2
  <2>2. \A h \in Gids, v \in Workers : Writing(v, h) => mem'[v][h] = mem[v][h]
    BY <1>1, <1>5 DEF Writing
  <2> QED
    BY <2>1, <2>2, <1>3, SeenKept DEF SeenAlike
<1> QED
  BY <1>7, <1>8

LEMMA StoreSeen ==
  ASSUME IInv, IInv', Loads, NEW w \in Workers, Store(w)
  PROVE  Loads' /\ SeenAlike
<1>1. w \in Serving /\ job[w].step = "persist" /\ job[w] \in Jobs
  BY ServingJobs DEF Store, Serving, IInv
<1>2. PICK g \in job[w].todo :
        /\ file' = [file EXCEPT ![g] = mem[w][g]]
        /\ job' = [job EXCEPT ![w].todo = @ \ {g}]
  BY DEF Store
<1>3. mem' = mem /\ g \in Gids
  BY <1>1 DEF Store, Jobs
<1>4. /\ job'[w].call = job[w].call /\ job'[w].step = "persist" /\ job'[w].todo = job[w].todo \ {g}
      /\ \A v \in Workers : v # w => job'[v] = job[v]
  BY <1>1, <1>2 DEF IInv, Shape, Jobs
<1>5. file'[g] = mem[w][g] /\ \A h \in Gids : h # g => file'[h] = file[h]
  BY <1>2, <1>3 DEF IInv, Shape, On
<1>6. \A v \in Serving' : v = w \/ (v \in Serving /\ job'[v] = job[v])
  BY <1>4 DEF Serving
<1>7. Writing(w, g)
  BY <1>1, <1>2 DEF Writing
<1>8. Loads'
  <2>1. ASSUME NEW v \in Serving', (job[v].step = "load" /\ job[v].call.op # "destroy")',
               NEW h \in (GidsOf(job[v].call) \ job[v].todo)'
        PROVE  mem'[v][h] = file'[h]
    <3>1. v # w /\ v \in Serving /\ job'[v] = job[v]
      BY <1>4, <1>6, <2>1
    <3>2. mem[v][h] = file[h]
      BY <2>1, <3>1 DEF Loads
    <3>3. h \in Gids
      BY <2>1, <3>1, ServingJobs DEF IInv
    <3>4. g \in GidsOf(job[w].call) /\ GidsOf(job[v].call) \cap GidsOf(job[w].call) = {}
      BY <1>1, <3>1 DEF IInv, CallsStand, Exclusive
    <3>5. h # g
      BY <2>1, <3>1, <3>4
    <3> QED
      BY <1>3, <1>5, <3>2, <3>3, <3>5
  <2> QED
    BY <2>1 DEF Loads
<1>9. SeenAlike
  <2>1. ASSUME NEW h \in Gids, h # g PROVE GroupsSeen'[h] = GroupsSeen[h]
    <3>1. ASSUME NEW v \in Workers PROVE Writing(v, h)' <=> Writing(v, h)
      <4>1. CASE v = w
        <5>1. w \in Serving'
          <6>1. [job[w] EXCEPT !.todo = @ \ {g}] \in Jobs
            BY <1>1 DEF Jobs
          <6>2. job'[w] = [job[w] EXCEPT !.todo = @ \ {g}]
            BY <1>2 DEF IInv, Shape
          <6> QED
            BY <6>1, <6>2, JobAssumption DEF Serving
        <5> QED
          BY <4>1, <5>1, <2>1, <1>1, <1>4 DEF Writing
      <4>2. CASE v # w
        BY <4>2, <1>4 DEF Writing, Serving
      <4> QED
        BY <4>1, <4>2
    <3> QED
      BY <2>1, <3>1, <1>3, <1>5, SeenKept
  <2>2. GroupsSeen'[g] = GroupsSeen[g]
    <3>1. GroupsSeen[g] = mem[w][g]
      BY <1>3, <1>7, SeenAt
    <3>2. \A v \in Workers : ~Writing(v, g)'
      <4>1. ASSUME NEW v \in Workers, Writing(v, g)' PROVE FALSE
        <5>1. v # w
          BY <1>4, <4>1 DEF Writing
        <5>2. Writing(v, g)
          BY <1>4, <4>1, <5>1 DEF Writing, Serving
        <5> QED
          BY <1>3, <1>7, <5>1, <5>2, OneWriter
      <4> QED
        BY <4>1
    <3>3. GroupsSeen'[g] = file'[g]
      BY <1>3, <3>2, SeenNext
    <3> QED
      BY <1>5, <3>1, <3>3
  <2> QED
    BY <2>1, <2>2 DEF SeenAlike
<1> QED
  BY <1>8, <1>9

\* A call acts at once on the groups as they are seen.
LEMMA RunSeen ==
  ASSUME IInv, IInv', Loads, NEW w \in Workers, Run(w)
  PROVE  /\ Loads'
         /\ \A g \in Gids : GroupsSeen'[g] = Effect(GroupsSeen, job[w].call)[g]
         /\ job[w].call.op # "destroy" => Alike(mem[w], GroupsSeen, GidsOf(job[w].call))
<1>1. /\ w \in Serving /\ job[w].step = "load" /\ job[w].todo = {}
      /\ job[w] \in Jobs /\ job[w].call \in Calls
  BY ServingJobs DEF Run, Loaded, Serving, IInv
<1> DEFINE c == job[w].call
           j == [call |-> c, step |-> "persist", todo |-> Persisted(mem[w], c)]
<1>2. /\ job' = [job EXCEPT ![w] = j] /\ mem' = [mem EXCEPT ![w] = Effect(mem[w], c)]
      /\ file' = file
  BY DEF Run
<1>3. j.call = c /\ j.step = "persist" /\ j.todo = Persisted(mem[w], c)
  OBVIOUS
<1>4. job'[w] = j /\ \A v \in Workers : v # w => job'[v] = job[v]
  BY <1>2 DEF IInv, Shape
<1>5. j # NoJob
  <2>1. Persisted(mem[w], c) \subseteq Gids
    BY <1>1, PersistedNamed, NamesGids
  <2>2. j \in Jobs
    BY <1>1, <2>1 DEF Jobs
  <2> QED
    BY <2>2, JobAssumption
<1> HIDE DEF j
<1>6. /\ mem'[w] = Effect(mem[w], c) /\ \A v \in Workers : v # w => mem'[v] = mem[v]
      /\ On(mem[w], Gids) /\ On(GroupsSeen, Gids)
  BY <1>2, SeenAt DEF IInv, Shape, On
<1>7. GidsOf(c) \subseteq Gids /\ Persisted(mem[w], c) \subseteq GidsOf(c)
  BY <1>1, PersistedNamed, NamesGids
<1>8. \A v \in Workers : v # w => \A g \in Gids : Writing(v, g)' <=> Writing(v, g)
  BY <1>4 DEF Writing, Serving
<1>9. \A g \in Gids : ~Writing(w, g) /\ (Writing(w, g)' <=> g \in Persisted(mem[w], c))
  BY <1>1, <1>3, <1>4, <1>5 DEF Writing, Serving
<1>10. \A v \in Workers : v # w => \A g \in GidsOf(c) : ~Writing(v, g)
  BY <1>1 DEF IInv, CallsStand, Exclusive, Writing
<1>11. \A g \in GidsOf(c) : GroupsSeen[g] = file[g]
  BY <1>7, <1>9, <1>10, SeenAt
<1>12. c.op # "destroy" => Alike(mem[w], GroupsSeen, GidsOf(c))
  BY <1>1, <1>11 DEF Loads, Alike
<1>13. Loads'
  <2>1. \A v \in Serving' : v = w \/ (v # w /\ v \in Serving /\ job'[v] = job[v] /\ mem'[v] = mem[v])
    BY <1>4, <1>6 DEF Serving
  <2> QED
    BY <1>2, <1>3, <1>4, <2>1 DEF Loads
<1> HIDE DEF c
<1>14. Alike(Effect(mem[w], c), Effect(GroupsSeen, c), GidsOf(c))
  BY <1>1, <1>6, <1>12, EffectAlike DEF c
<1>15. ASSUME NEW g \in Gids PROVE GroupsSeen'[g] = Effect(GroupsSeen, c)[g]
  <2>1. CASE g \in Persisted(mem[w], c)
    <3>1. GroupsSeen'[g] = mem'[w][g]
      BY <2>1, <1>9, SeenNext
    <3> QED
      BY <2>1, <3>1, <1>6, <1>7, <1>14 DEF Alike
  <2>2. CASE g \in GidsOf(c) \ Persisted(mem[w], c)
    <3>1. \A v \in Workers : ~Writing(v, g)'
      BY <2>2, <1>7, <1>8, <1>9, <1>10
    <3>2. GroupsSeen'[g] = file[g]
      BY <1>2, <3>1, SeenNext
    <3>3. Effect(mem[w], c)[g] = mem[w][g]
      BY <2>2, <1>1, <1>6, EffectElsewhere DEF c
    <3>4. c.op # "destroy"
      BY <2>2, <1>1, CallShape DEF c, Persisted
    <3>5. mem[w][g] = file[g]
      BY <2>2, <3>4, <1>11, <1>12 DEF Alike
    <3>6. Effect(mem[w], c)[g] = Effect(GroupsSeen, c)[g]
      BY <2>2, <1>14 DEF Alike
    <3> QED
      BY <3>2, <3>3, <3>5, <3>6
  <2>3. CASE g \notin GidsOf(c)
    <3>1. GroupsSeen'[g] = GroupsSeen[g]
      <4>1. \A v \in Workers : Writing(v, g)' <=> Writing(v, g)
        BY <2>3, <1>7, <1>8, <1>9
      <4>2. \A v \in Workers : Writing(v, g) => mem'[v][g] = mem[v][g]
        BY <1>6, <1>9
      <4> QED
        BY <4>1, <4>2, <1>2, SeenKept
    <3>2. Effect(GroupsSeen, c)[g] = GroupsSeen[g]
      <4>1. g \notin Persisted(GroupsSeen, c)
        BY <2>3, <1>1, PersistedNamed DEF c
      <4> QED
        BY <4>1, <1>1, <1>6, EffectElsewhere DEF c
    <3> QED
      BY <3>1, <3>2
  <2> QED
    BY <2>1, <2>2, <2>3
<1> QED
  BY <1>12, <1>13, <1>15 DEF c

\* A call that ends leaves the groups it was not writing.
LEMMA EndSeen ==
  ASSUME IInv, IInv', Loads, NEW w \in Serving,
         job' = [job EXCEPT ![w] = NoJob], file' = file,
         \A v \in Workers : v # w => mem'[v] = mem[v]
  PROVE  /\ Loads'
         /\ \A g \in Gids : ~Writing(w, g) => GroupsSeen'[g] = GroupsSeen[g]
<1>1. w \in Workers /\ job'[w] = NoJob /\ \A v \in Workers : v # w => job'[v] = job[v]
  BY DEF IInv, Shape, Serving
<1>2. \A v \in Serving' : v # w /\ v \in Serving /\ job'[v] = job[v] /\ mem'[v] = mem[v]
  BY <1>1 DEF Serving
<1>3. Loads'
  BY <1>2 DEF Loads
<1>4. ASSUME NEW g \in Gids, ~Writing(w, g) PROVE GroupsSeen'[g] = GroupsSeen[g]
  <2>1. \A v \in Workers : Writing(v, g)' <=> Writing(v, g)
    BY <1>1, <1>4 DEF Writing, Serving
  <2>2. \A v \in Workers : Writing(v, g) => mem'[v][g] = mem[v][g]
    BY <1>4
  <2> QED
    BY <2>1, <2>2, SeenKept
<1> QED
  BY <1>3, <1>4

LEMMA ThrowSeen ==
  ASSUME IInv, IInv', Loads, NEW w \in Workers, Throw(w)
  PROVE  Loads' /\ SeenAlike
<1>1. w \in Serving /\ job[w].step = "load" /\ job' = [job EXCEPT ![w] = NoJob] /\ file' = file
  BY DEF Throw, Loaded, Serving
<1>2. \E m : mem' = [mem EXCEPT ![w] = m]
  BY DEF Throw
<1>3. \A v \in Workers : v # w => mem'[v] = mem[v]
  BY <1>2 DEF IInv, Shape, On
<1>4. \A g \in Gids : ~Writing(w, g)
  BY <1>1 DEF Writing
<1> QED
  BY <1>1, <1>3, <1>4, EndSeen DEF SeenAlike

LEMMA ReplySeen ==
  ASSUME IInv, IInv', Loads, NEW w \in Workers, Reply(w)
  PROVE  Loads' /\ SeenAlike
<1>1. w \in Serving /\ job[w].todo = {} /\ job' = [job EXCEPT ![w] = NoJob] /\ file' = file /\ mem' = mem
  BY DEF Reply, Serving
<1>2. \A g \in Gids : ~Writing(w, g)
  BY <1>1 DEF Writing
<1> QED
  BY <1>1, <1>2, EndSeen DEF SeenAlike

\* A dying process takes with it what its call had yet to write.
LEMMA CrashSeen ==
  ASSUME IInv, IInv', Loads, NEW w \in Workers, Crash(w)
  PROVE  /\ Loads'
         /\ \A g \in Gids : (w \in Serving => g \notin GidsOf(job[w].call)) => GroupsSeen'[g] = GroupsSeen[g]
<1>1. mem' = [mem EXCEPT ![w] = NoGroups] /\ file' = file
  BY DEF Crash
<1>2. \A v \in Workers : v # w => mem'[v] = mem[v]
  BY <1>1 DEF IInv, Shape, On
<1>3. CASE w \notin Serving
  <2>1. job' = job /\ Serving' = Serving
    BY <1>3 DEF Crash, Serving
  <2>2. Loads'
    BY <1>1, <1>2, <1>3, <2>1 DEF Loads, Serving
  <2>3. ASSUME NEW g \in Gids PROVE GroupsSeen'[g] = GroupsSeen[g]
    <3>1. \A v \in Workers : Writing(v, g)' <=> Writing(v, g)
      BY <2>1 DEF Writing
    <3>2. \A v \in Workers : Writing(v, g) => mem'[v][g] = mem[v][g]
      BY <1>2, <1>3 DEF Writing
    <3> QED
      BY <1>1, <3>1, <3>2, SeenKept
  <2> QED
    BY <2>2, <2>3
<1>4. CASE w \in Serving
  <2>1. job' = [job EXCEPT ![w] = NoJob]
    BY <1>4 DEF Crash, Serving
  <2>2. \A g \in Gids : g \notin GidsOf(job[w].call) => ~Writing(w, g)
    BY <1>4 DEF IInv, CallsStand, Writing
  <2> QED
    BY <1>1, <1>2, <1>4, <2>1, <2>2, EndSeen
<1> QED
  BY <1>3, <1>4

LEMMA StutterSeen ==
  ASSUME IInv, IInv', Loads, UNCHANGED vars
  PROVE  Loads' /\ SeenAlike
<1>1. UNCHANGED <<file, mem, job>>
  BY DEF vars
<1>2. Serving' = Serving
  BY <1>1 DEF Serving
<1>3. \A g \in Gids : \A v \in Workers : Writing(v, g)' <=> Writing(v, g)
  BY <1>1, <1>2 DEF Writing
<1> QED
  BY <1>1, <1>2, <1>3, SeenKept DEF Loads, SeenAlike

-----------------------------------------------------------------------------
(* The refinement                                                          *)

\* AggregateGroups has the operators of AggregateFold as its own.
LEMMA SameMergePair ==
  ASSUME NEW m, NEW p
  PROVE  Groups!MergePair(m, p) = MergePair(m, p)
<1>1. ASSUME NEW a, NEW b PROVE Groups!(+)(a, b) = a (+) b
  BY DEF Groups!(+), (+)
<1>2. ASSUME NEW a PROVE Groups!OrInitial(a) = OrInitial(a)
  BY DEF Groups!OrInitial, OrInitial, Groups!EmptyBag, EmptyBag, Groups!SetToBag, SetToBag
<1> QED
  BY <1>1, <1>2 DEF Groups!MergePair, MergePair

LEMMA SameCombined ==
  ASSUME NEW m, NEW merges
  PROVE  Groups!Combined(m, merges) = Combined(m, merges)
<1>1. Groups!After(m, merges) = After(m, merges)
  BY SameMergePair, Zenon DEF Groups!After, After
<1> QED
  BY <1>1 DEF Groups!Combined, Combined

LEMMA SameUpdated ==
  ASSUME NEW m, NEW rows
  PROVE  Groups!Updated(m, rows) = Updated(m, rows)
<1>1. ASSUME NEW a, NEW b PROVE Groups!(+)(a, b) = a (+) b
  BY DEF Groups!(+), (+)
<1>2. ASSUME NEW a PROVE Groups!OrInitial(a) = OrInitial(a)
  BY DEF Groups!OrInitial, OrInitial, Groups!EmptyBag, EmptyBag, Groups!SetToBag, SetToBag
<1>3. ASSUME NEW a PROVE Groups!SetToBag(a) = SetToBag(a)
  BY DEF Groups!SetToBag, SetToBag
<1>4. ASSUME NEW g PROVE Groups!RowsFor(rows, g) = RowsFor(rows, g)
  BY DEF Groups!RowsFor, RowsFor
<1> QED
  BY <1>1, <1>2, <1>3, <1>4 DEF Groups!Updated, Updated

LEMMA SameEffect ==
  ASSUME NEW m, NEW c
  PROVE  Groups!Effect(m, c) = Effect(m, c) /\ Groups!GidsOf(c) = GidsOf(c)
<1>1. Groups!Effect(m, c) = Effect(m, c)
  BY SameCombined, SameUpdated DEF Groups!Effect, Effect, Groups!Without, Without
<1>2. Groups!GidsOf(c) = GidsOf(c)
  BY DEF Groups!GidsOf, GidsOf
<1> QED
  BY <1>1, <1>2

LEMMA SeenSame ==
  ASSUME IInv, IInv', SeenAlike
  PROVE  GroupsSeen' = GroupsSeen
BY SeenAt, SeenNext DEF SeenAlike, On

\* Nothing can fail any more when the result is asked for.
AskedClean == \A w \in Serving : job[w].call.op = "finalize" => ~failed

LEMMA InitRefines == Init => Groups!Init
BY DEF Init, Groups!Init, Groups!NoGroups, GroupsSeen, Acted, NoGroups, Serving

\* A process that acts on a call is the only one that has its groups, and the
\* only one that serves it.
LEMMA ServesAlone ==
  ASSUME IInv, NEW w \in Serving
  PROVE  /\ Groups!Alone(job[w].call)
         /\ \A v \in Serving : v # w => job[v].call # job[w].call
<1>1. \A v \in Serving : v # w =>
        GidsOf(job[v].call) \cap GidsOf(job[w].call) = {} /\ job[v].call # job[w].call
  BY DEF IInv, Exclusive
<1>2. \A d \in Acted : \E v \in Serving : d = job[v].call
  BY DEF Acted
<1>3. \A c : Groups!GidsOf(c) = GidsOf(c)
  BY SameEffect
<1> QED
  BY <1>1, <1>2, <1>3 DEF Groups!Alone

\* The calls that have acted change only as the one call does.
LEMMA ActedOf ==
  ASSUME IInv, NEW w \in Workers, \A v \in Workers : v # w => job'[v] = job[v]
  PROVE  /\ (w \in Serving' /\ job'[w].step = "persist")
            => Acted' = (Acted \ {x \in {job[w].call} : w \in Serving}) \cup {job'[w].call}
         /\ ~(w \in Serving' /\ job'[w].step = "persist")
            => Acted' = Acted \ {x \in {job[w].call} : w \in Serving}
<1>1. \A v \in Workers : v # w => (v \in Serving' <=> v \in Serving)
  BY DEF Serving
<1>2. Serving \subseteq Workers /\ Serving' \subseteq Workers
  BY DEF Serving
<1>3. w \in Serving => \A v \in Serving : v # w => job[v].call # job[w].call
  BY ServesAlone
<1> QED
  BY <1>1, <1>2, <1>3 DEF Acted

\* The memory and the calls that have acted stay as they are.
LEMMA QuietRefines ==
  ASSUME IInv, IInv', SeenAlike, Acted' = Acted, UNCHANGED <<file, failed, answer>>
  PROVE  UNCHANGED Groups!vars
<1>1. GroupsSeen' = GroupsSeen
  BY SeenSame
<1> QED
  BY <1>1 DEF Groups!vars

LEMMA SendRefines ==
  ASSUME IInv, IInv', Loads, NEW c \in Calls, Send(c)
  PROVE  UNCHANGED Groups!vars
<1>1. PICK w \in Workers \ Serving :
        job' = [job EXCEPT ![w] = [call |-> c, step |-> "load", todo |-> Requested(c)]]
  BY DEF Send
<1>2. job'[w].step = "load" /\ \A v \in Workers : v # w => job'[v] = job[v]
  BY <1>1 DEF IInv, Shape
<1>3. Acted' = Acted
  BY <1>2, ActedOf
<1>4. SeenAlike
  BY SendSeen
<1> QED
  BY <1>3, <1>4, QuietRefines DEF Send

LEMMA LoadRefines ==
  ASSUME IInv, IInv', Loads, NEW w \in Workers, Load(w)
  PROVE  UNCHANGED Groups!vars
<1>1. w \in Serving /\ job[w].step = "load" /\ job[w] \in Jobs
  BY ServingJobs DEF Load, Serving, IInv
<1>2. /\ job'[w].step = "load"
      /\ \A v \in Workers : v # w => job'[v] = job[v]
  BY <1>1 DEF Load, IInv, Shape, Jobs
<1>3. \A v \in Serving : v # w => job[v].call # job[w].call
  BY <1>1, ServesAlone
<1>4. Acted' = Acted
  BY <1>1, <1>2, <1>3, ActedOf DEF Acted
<1>5. SeenAlike
  BY LoadSeen
<1> QED
  BY <1>4, <1>5, QuietRefines DEF Load, client

\* A call acts when its process runs it.
LEMMA RunRefines ==
  ASSUME IInv, IInv', Loads, AskedClean, NEW w \in Workers, Run(w)
  PROVE  Groups!Next
<1> DEFINE c == job[w].call
           j == [call |-> c, step |-> "persist", todo |-> Persisted(mem[w], c)]
<1>1. /\ c \in Calls /\ w \in Serving /\ job[w].step = "load"
      /\ Persisted(mem[w], c) \subseteq Gids
  BY ServingJobs, PersistedNamed DEF Run, Loaded, Serving, IInv
<1>2. /\ answer' = IF c.op = "finalize" THEN {[g \in c.gids |-> mem[w][g]]} ELSE answer
      /\ job' = [job EXCEPT ![w] = j] /\ UNCHANGED <<file, failed>>
  BY DEF Run
<1>3. /\ \A g \in Gids : GroupsSeen'[g] = Effect(GroupsSeen, c)[g]
      /\ c.op # "destroy" => Alike(mem[w], GroupsSeen, GidsOf(c))
  BY RunSeen
<1>4. j.call = c /\ j.step = "persist" /\ j \in Jobs
  BY <1>1 DEF Jobs
<1>5. /\ job'[w] = j /\ w \in Serving'
      /\ \A v \in Workers : v # w => job'[v] = job[v]
  BY <1>2, <1>4, JobAssumption DEF IInv, Shape, Serving
<1>6. Groups!Alone(c) /\ \A v \in Serving : v # w => job[v].call # c
  BY <1>1, ServesAlone
<1>7. (c.op = "finalize" => ~failed) /\ c \notin Acted
  BY <1>1, <1>6 DEF AskedClean, Acted
<1> HIDE DEF c, j
<1>8. Acted' = Acted \cup {c}
  BY <1>1, <1>4, <1>5, <1>6, ActedOf DEF Acted, c
<1>9. On(GroupsSeen, Gids) /\ On(GroupsSeen', Gids) /\ On(Effect(GroupsSeen, c), Gids)
  BY <1>1, SeenAt, SeenNext, EffectOn
<1>10. GroupsSeen' = Groups!Effect(GroupsSeen, c)
  BY <1>3, <1>9, SameEffect DEF On
<1>11. answer' = IF c.op = "finalize" THEN {[g \in GidsOfActor(Main) |-> GroupsSeen[g]]} ELSE answer
  <2>1. CASE c.op = "finalize"
    <3>1. c.gids = GidsOfActor(Main) /\ GidsOf(c) = c.gids
      BY <1>1, <2>1, CallShape DEF GidsOf
    <3> QED
      BY <1>2, <1>3, <2>1, <3>1 DEF Alike
  <2> QED
    BY <1>2, <2>1
<1>12. Groups!Call(c)
  BY <1>2, <1>6, <1>7, <1>8, <1>10, <1>11 DEF Groups!Call
<1> QED
  BY <1>1, <1>12 DEF Groups!Next

\* A file that is written keeps what its call made of the group.
LEMMA StoreRefines ==
  ASSUME IInv, IInv', Loads, NEW w \in Workers, Store(w)
  PROVE  Groups!Next
<1> DEFINE c == job[w].call
<1>1. /\ w \in Serving /\ job[w].step = "persist" /\ job[w] \in Jobs /\ c \in Calls
      /\ job[w].todo \subseteq GidsOf(c) /\ GidsOf(c) \subseteq Gids
  BY ServingJobs DEF Store, Serving, IInv, CallsStand
<1>2. PICK g \in job[w].todo :
        /\ file' = [file EXCEPT ![g] = mem[w][g]]
        /\ job' = [job EXCEPT ![w].todo = @ \ {g}]
  BY DEF Store
<1>3. /\ job'[w] = [job[w] EXCEPT !.todo = @ \ {g}] /\ job'[w] \in Jobs
      /\ job'[w].call = c /\ job'[w].step = "persist"
      /\ \A v \in Workers : v # w => job'[v] = job[v]
  BY <1>1, <1>2 DEF IInv, Shape, Jobs
<1>4. w \in Serving'
  BY <1>3, JobAssumption DEF Serving
<1>5. \A v \in Serving : v # w => job[v].call # c
  BY <1>1, ServesAlone
<1>6. c \in Acted
  BY <1>1 DEF Acted
<1>7. GroupsSeen[g] = mem[w][g]
  BY <1>1, SeenAt DEF Writing
<1>8. SeenAlike
  BY StoreSeen
<1>9. GroupsSeen' = GroupsSeen
  BY <1>8, SeenSame
<1> HIDE DEF c
<1>10. Acted' = Acted
  <2>1. Acted' = (Acted \ {x \in {c} : w \in Serving}) \cup {c}
    <3>1. job'[w].call = c /\ job[w].call = c
      BY <1>3 DEF c
    <3>2. Acted' = (Acted \ {x \in {job[w].call} : w \in Serving}) \cup {job'[w].call}
      BY <1>3, <1>4, ActedOf
    <3> QED
      BY <3>1, <3>2
  <2> QED
    BY <1>6, <2>1
<1>11. UNCHANGED <<failed, answer>>
  BY DEF Store, client
<1>12. Groups!GidsOf(c) = GidsOf(c)
  BY SameEffect
<1>13. Groups!Keep(c)
  BY <1>1, <1>2, <1>6, <1>7, <1>9, <1>10, <1>11, <1>12 DEF Groups!Keep
<1> QED
  BY <1>1, <1>13 DEF Groups!Next

\* A process that has ended its call is not writing its groups, and no other is.
LEMMA EndedSeen ==
  ASSUME IInv, IInv', NEW w \in Serving, job'[w] = NoJob, \A v \in Workers : v # w => job'[v] = job[v]
  PROVE  \A g \in GidsOf(job[w].call) : GroupsSeen'[g] = file'[g]
<1>1. GidsOf(job[w].call) \subseteq Gids /\ w \in Workers
  BY ServingJobs DEF IInv
<1>2. ASSUME NEW g \in GidsOf(job[w].call), NEW v \in Workers, Writing(v, g)'
      PROVE  FALSE
  <2>1. v # w
    BY <1>2 DEF Writing, Serving
  <2>2. v \in Serving /\ g \in job[v].todo
    BY <1>2, <2>1 DEF Writing, Serving
  <2>3. g \in GidsOf(job[v].call)
    BY <2>2 DEF IInv, CallsStand
  <2> QED
    BY <2>1, <2>2, <2>3 DEF IInv, Exclusive
<1> QED
  BY <1>1, <1>2, SeenNext

\* Then the call has not acted, or has acted and is over.
LEMMA EndedActed ==
  ASSUME IInv, NEW w \in Serving, job'[w] = NoJob, \A v \in Workers : v # w => job'[v] = job[v]
  PROVE  Acted' = Acted \ {job[w].call}
<1>1. w \in Workers /\ w \notin Serving'
  BY DEF Serving
<1>2. {x \in {job[w].call} : w \in Serving} = {job[w].call}
  OBVIOUS
<1> QED
  BY <1>1, <1>2, ActedOf

\* A call is answered when its files are written.
LEMMA ReplyRefines ==
  ASSUME IInv, IInv', Loads, NEW w \in Workers, Reply(w)
  PROVE  Groups!Next
<1> DEFINE c == job[w].call
<1>1. /\ w \in Serving /\ job[w].step = "persist" /\ job[w].todo = {} /\ c \in Calls
      /\ GidsOf(c) \subseteq Gids
  BY ServingJobs DEF Reply, Serving, IInv
<1>2. job'[w] = NoJob /\ \A v \in Workers : v # w => job'[v] = job[v]
  BY DEF Reply, IInv, Shape
<1>3. UNCHANGED <<file, failed, answer>>
  BY DEF Reply
<1>4. GroupsSeen' = GroupsSeen
  BY ReplySeen, SeenSame
<1>5. \A g \in GidsOf(c) : file[g] = GroupsSeen[g]
  BY <1>1, <1>2, <1>3, <1>4, EndedSeen
<1>6. c \in Acted
  BY <1>1 DEF Acted
<1>7. Acted' = Acted \ {c}
  BY <1>1, <1>2, EndedActed
<1>8. Groups!GidsOf(c) = GidsOf(c)
  BY SameEffect
<1> HIDE DEF c
<1>9. Groups!Reply(c)
  BY <1>3, <1>4, <1>5, <1>6, <1>7, <1>8 DEF Groups!Reply
<1> QED
  BY <1>1, <1>9 DEF Groups!Next

\* A call that fails leaves of each group what the files have of it.
LEMMA FailRefines ==
  ASSUME IInv, IInv', NEW w \in Serving, job'[w] = NoJob, \A v \in Workers : v # w => job'[v] = job[v],
         UNCHANGED <<file, answer>>, failed' = (failed \/ job[w].call.op # "destroy"),
         \A g \in Gids : g \notin GidsOf(job[w].call) => GroupsSeen'[g] = GroupsSeen[g]
  PROVE  Groups!Next
<1> DEFINE c == job[w].call
<1>1. c \in Calls
  BY ServingJobs DEF IInv
<1>2. Groups!Alone(c)
  BY ServesAlone
<1>3. Acted' = Acted \ {c}
  BY EndedActed
<1>4. \A g \in GidsOf(c) : GroupsSeen'[g] = file[g]
  BY EndedSeen
<1>5. On(GroupsSeen', Gids)
  BY SeenNext
<1>6. GroupsSeen' = [g \in Gids |-> IF g \in GidsOf(c) THEN file[g] ELSE GroupsSeen[g]]
  BY <1>4, <1>5 DEF On
<1>7. Groups!GidsOf(c) = GidsOf(c)
  BY SameEffect
<1> HIDE DEF c
<1>8. failed' = (failed \/ c.op # "destroy")
  BY DEF c
<1>9. Groups!Fail(c)
  BY <1>2, <1>3, <1>6, <1>7, <1>8 DEF Groups!Fail
<1> QED
  BY <1>1, <1>9 DEF Groups!Next

LEMMA ThrowRefines ==
  ASSUME IInv, IInv', Loads, NEW w \in Workers, Throw(w)
  PROVE  Groups!Next
<1>1. w \in Serving /\ job[w].call.op # "destroy"
  BY DEF Throw, Loaded, Serving
<1>2. job'[w] = NoJob /\ \A v \in Workers : v # w => job'[v] = job[v]
  BY DEF Throw, IInv, Shape
<1>3. UNCHANGED <<file, answer>> /\ failed' = (failed \/ job[w].call.op # "destroy")
  BY <1>1 DEF Throw
<1>4. SeenAlike
  BY ThrowSeen
<1> QED
  BY <1>1, <1>2, <1>3, <1>4, FailRefines DEF SeenAlike

LEMMA CrashRefines ==
  ASSUME IInv, IInv', Loads, NEW w \in Workers, Crash(w)
  PROVE  [Groups!Next]_(Groups!vars)
<1>1. UNCHANGED <<file, answer>>
  BY DEF Crash
<1>2. \A g \in Gids : (w \in Serving => g \notin GidsOf(job[w].call)) => GroupsSeen'[g] = GroupsSeen[g]
  BY CrashSeen
<1>3. CASE w \in Serving
  <2>1. job[w] # NoJob
    BY <1>3 DEF Serving
  <2>2. job'[w] = NoJob /\ \A v \in Workers : v # w => job'[v] = job[v]
    BY <2>1 DEF Crash, IInv, Shape
  <2>3. failed' = (failed \/ job[w].call.op # "destroy")
    BY <2>1 DEF Crash
  <2> QED
    BY <1>1, <1>2, <1>3, <2>2, <2>3, FailRefines
<1>4. CASE w \notin Serving
  <2>1. UNCHANGED <<job, failed>>
    BY <1>4 DEF Crash, Serving
  <2>2. Acted' = Acted
    BY <2>1 DEF Acted, Serving
  <2> QED
    BY <1>1, <1>2, <1>4, <2>1, <2>2, QuietRefines DEF SeenAlike
<1> QED
  BY <1>3, <1>4

LEMMA StepRefines ==
  IInv /\ IInv' /\ Loads /\ AskedClean /\ [Next]_vars => Loads' /\ [Groups!Next]_(Groups!vars)
<1> SUFFICES ASSUME IInv, IInv', Loads, AskedClean, [Next]_vars
             PROVE  Loads' /\ [Groups!Next]_(Groups!vars)
  OBVIOUS
<1>1. CASE UNCHANGED vars
  <2>1. UNCHANGED <<file, job, failed, answer>>
    BY <1>1 DEF vars, client
  <2>2. Acted' = Acted
    BY <2>1 DEF Acted, Serving
  <2> QED
    BY <1>1, <2>1, <2>2, StutterSeen, QuietRefines
<1>2. ASSUME NEW c \in Calls, Send(c) PROVE Loads' /\ [Groups!Next]_(Groups!vars)
  BY <1>2, SendSeen, SendRefines
<1>3. ASSUME NEW t \in Threads, Update(t) \/ Combine(t)
      PROVE  Loads' /\ [Groups!Next]_(Groups!vars)
  <2>1. CASE Update(t)
    <3>1. sent[t] + 1 \in 1..MaxBatches
      BY <2>1, BoundAssumption DEF Update, IInv, Shape
    <3>2. PICK s \in Shapes : Send(UpdateCall(t, sent[t] + 1, s))
      BY <2>1 DEF Update
    <3> QED
      BY <1>2, <3>1, <3>2, MadeCalls
  <2>2. CASE Combine(t)
    BY <1>2, <2>2, MadeCalls DEF Combine
  <2> QED
    BY <1>3, <2>1, <2>2
<1>4. CASE Finalize
  BY <1>2, <1>4, MadeCalls DEF Finalize
<1>5. ASSUME NEW a \in Actors, Destroy(a) PROVE Loads' /\ [Groups!Next]_(Groups!vars)
  BY <1>2, <1>5, MadeCalls DEF Destroy
<1>6. ASSUME NEW w \in Workers, Load(w) \/ Run(w) \/ Throw(w) \/ Store(w) \/ Reply(w) \/ Crash(w)
      PROVE  Loads' /\ [Groups!Next]_(Groups!vars)
  <2>1. CASE Load(w)
    BY <2>1, LoadSeen, LoadRefines
  <2>2. CASE Run(w)
    BY <2>2, RunSeen, RunRefines
  <2>3. CASE Throw(w)
    BY <2>3, ThrowSeen, ThrowRefines
  <2>4. CASE Store(w)
    BY <2>4, StoreSeen, StoreRefines
  <2>5. CASE Reply(w)
    BY <2>5, ReplySeen, ReplyRefines
  <2>6. CASE Crash(w)
    BY <2>6, CrashSeen, CrashRefines
  <2> QED
    BY <1>6, <2>1, <2>2, <2>3, <2>4, <2>5, <2>6
<1>7. QED
  BY <1>1, <1>3, <1>4, <1>5, <1>6 DEF Next

-----------------------------------------------------------------------------
(* The answer                                                              *)

RowIdsOf(c) == {c.rows[i].id : i \in {j \in DOMAIN c.rows : ~c.rows[j].skipped}}

\* The rows of the updates that have run, answered or not.
Absorbed ==
    fed \cup {id \in RowIds : \E w \in Serving :
        job[w].step = "persist" /\ job[w].call.op = "update" /\ id \in RowIdsOf(job[w].call)}

\* The threads whose groups are merged into those of the result.
Merged ==
    {t \in Threads : \/ stage[t] # "sink"
                     \/ \E w \in Serving : /\ job[w].step = "persist" /\ job[w].call.op = "combine"
                                           /\ job[w].call.actor = t}

StateOf(R) == IF R = {} THEN NoState ELSE SetToBag(R)
Taken(t, k) == {id \in Absorbed : id[1] = t /\ id[3] = k}
Gathered(k) == {id \in Absorbed : id[1] \in Merged /\ id[3] = k}

\* No batch is absorbed twice: a thread's next has ids of its own.
IdsStand ==
    /\ \A id \in fed : id \in RowIds /\ id[2] <= sent[id[1]]
    /\ \A w \in Serving : job[w].call.op = "update" =>
          /\ \A id \in RowIdsOf(job[w].call) : id[2] = sent[job[w].call.actor]
          /\ \A id \in fed : id[1] = job[w].call.actor => id[2] < sent[job[w].call.actor]

\* Until a call fails every row is in one group: a thread's own, or after the
\* merge one of the result.
Exact ==
    ~failed =>
        /\ \A t \in Threads \ Merged, k \in Keys : GroupsSeen[<<t, k>>] = StateOf(Taken(t, k))
        /\ stage[Main] = "sink" => \A k \in Keys : GroupsSeen[<<Main, k>>] = StateOf(Gathered(k))

Answered == answer # {} => \A t \in Threads : stage[t] # "sink"

EInv == IdsStand /\ AskedClean /\ Exact /\ Answered /\ AnswerIsExact

LEMMA BagsJoin ==
  ASSUME NEW R, NEW S, R \cap S = {}
  PROVE  SetToBag(R) (+) SetToBag(S) = SetToBag(R \cup S)
<1>1. DOMAIN SetToBag(R) = R /\ DOMAIN SetToBag(S) = S
  BY DEF SetToBag
<1>2. \A e \in R \cup S : (IF e \in R THEN SetToBag(R)[e] ELSE 0) + (IF e \in S THEN SetToBag(S)[e] ELSE 0) = 1
  BY DEF SetToBag
<1>3. SetToBag(R) (+) SetToBag(S)
        = [e \in R \cup S |-> (IF e \in R THEN SetToBag(R)[e] ELSE 0) + (IF e \in S THEN SetToBag(S)[e] ELSE 0)]
  BY <1>1 DEF (+)
<1>4. SetToBag(R \cup S) = [e \in R \cup S |-> 1]
  BY DEF SetToBag
<1> QED
  BY <1>2, <1>3, <1>4

\* States are bags of distinct rows, and disjoint ones add up.
LEMMA StatesJoin ==
  ASSUME NEW R \in SUBSET RowIds, NEW S \in SUBSET RowIds, R \cap S = {}
  PROVE  /\ StateOf(R) = NoState <=> R = {}
         /\ S # {} => OrInitial(StateOf(R)) (+) SetToBag(S) = StateOf(R \cup S)
         /\ R # {} \/ S # {} => OrInitial(StateOf(R)) (+) OrInitial(StateOf(S)) = StateOf(R \cup S)
<1>1. ASSUME NEW T \in SUBSET RowIds
      PROVE  OrInitial(StateOf(T)) = SetToBag(T) /\ (StateOf(T) = NoState <=> T = {})
  <2>1. SetToBag(T) # NoState
    BY NoStateAssumption
  <2> QED
    BY <2>1 DEF StateOf, OrInitial, EmptyBag
<1>2. SetToBag(R) (+) SetToBag(S) = SetToBag(R \cup S)
  BY BagsJoin
<1> QED
  BY <1>1, <1>2 DEF StateOf

\* The state a pair of a merge batch leaves of two.
Joined(a, b) == IF a = NoState /\ b = NoState THEN b ELSE OrInitial(a) (+) OrInitial(b)

\* A thread's merge batch joins each of its groups to the result's once.
LEMMA CombinedIs ==
  ASSUME NEW t \in Threads, NEW o \in SetToSeqs(Keys), NEW m, On(m, Gids)
  PROVE  LET e == Combined(m, CombineCall(t, o).merges) IN
         /\ \A k \in Keys : e[<<Main, k>>] = Joined(m[<<t, k>>], m[<<Main, k>>])
         /\ \A a \in Actors \ {Main}, k \in Keys : e[<<a, k>>] = m[<<a, k>>]
<1> DEFINE ms == CombineCall(t, o).merges
           a == After(m, ms)
           Done(n) == {<<Main, o[i]>> : i \in 1..n}
           A == {n \in 0..Len(ms) :
                    \A g \in Gids : a[n][g] = IF g \in Done(n) THEN Joined(m[<<t, g[2]>>], m[g]) ELSE m[g]}
<1>1. /\ Len(ms) = Cardinality(Keys) /\ Len(ms) \in Nat /\ DOMAIN ms = 1..Len(ms)
      /\ \A i \in DOMAIN ms : ms[i].from = <<t, o[i]>> /\ ms[i].to = <<Main, o[i]>> /\ o[i] \in Keys
  BY MergesShape
<1>2. /\ o \in [1..Len(ms) -> Keys]
      /\ \A i, j \in 1..Len(ms) : i # j => o[i] # o[j]
  BY <1>1 DEF SetToSeqs
<1>3. \A k \in Keys : \E i \in 1..Len(ms) : o[i] = k
  <2>1. o \in Injection(1..Len(ms), Keys)
    BY <1>2 DEF Injection, IsInjective
  <2>2. Cardinality(1..Len(ms)) = Len(ms)
    BY <1>1, FS_Interval
  <2>3. o \in Surjection(1..Len(ms), Keys)
    BY <1>1, <2>1, <2>2, KeysAssumption, FS_Injection
  <2> QED
    BY <2>3 DEF Surjection
<1> HIDE DEF ms
<1>4. a[0] = m /\ \A n \in 1..Len(ms) : a[n] = MergePair(a[n - 1], ms[n]) /\ On(a[n - 1], Gids)
  BY <1>1, AfterIs, AfterOn
<1>5. 0 \in A
  BY <1>1, <1>4
<1> HIDE DEF a
<1>6. ASSUME NEW n \in 1..Len(ms), n - 1 \in A PROVE n \in A
  <2> DEFINE b == a[n - 1]
             from == <<t, o[n]>>
             to == <<Main, o[n]>>
  <2>0. n \in DOMAIN ms /\ n \in Nat /\ o[n] \in Keys
    BY <1>1
  <2>1. /\ On(b, Gids) /\ a[n] = MergePair(b, ms[n]) /\ ms[n].from = from /\ ms[n].to = to
        /\ from \in Gids /\ to \in Gids /\ n \in Nat
    <3>1. ms[n].from = from /\ ms[n].to = to
      BY <1>1, <2>0
    <3>2. from \in Gids /\ to \in Gids
      BY <2>0 DEF Gids, Actors
    <3> QED
      BY <1>4, <2>0, <3>1, <3>2
  <2>2. \A g \in Gids : b[g] = IF g \in Done(n - 1) THEN Joined(m[<<t, g[2]>>], m[g]) ELSE m[g]
    BY <1>6
  <2>3. from \notin Done(n - 1)
    BY ActorsAssumption
  <2>4. to \notin Done(n - 1)
    <3>1. \A i \in 1..(n - 1) : i \in 1..Len(ms) /\ i # n
      BY <1>1
    <3> QED
      BY <1>2, <3>1
  <2>5. Done(n) = Done(n - 1) \cup {to}
    <3>1. 1..n = 1..(n - 1) \cup {n}
      BY <2>1
    <3> QED
      BY <3>1
  <2>6. b[from] = m[from] /\ b[to] = m[to]
    BY <2>1, <2>2, <2>3, <2>4
  <2> HIDE DEF b, from, Done
  <2>7. \A g \in Gids : a[n][g] = IF g = to THEN Joined(b[from], b[to]) ELSE b[g]
    BY <2>1 DEF MergePair, On, Joined
  <2>8. from = <<t, to[2]>>
    BY DEF from
  <2>9. ASSUME NEW g \in Gids
        PROVE  a[n][g] = IF g \in Done(n) THEN Joined(m[<<t, g[2]>>], m[g]) ELSE m[g]
    <3>1. CASE g = to
      BY <2>5, <2>6, <2>7, <2>8, <3>1
    <3>2. CASE g # to
      BY <2>2, <2>5, <2>7, <3>2
    <3> QED
      BY <3>1, <3>2
  <2> QED
    BY <2>9, <1>1
<1>7. Len(ms) \in A
  <2> HIDE DEF A
  <2>1. 0..Len(ms) \subseteq A
    BY <1>1, <1>5, <1>6, Climbs
  <2> QED
    BY <2>1, <1>1
<1>8. Combined(m, ms) = a[Len(ms)]
  BY DEF Combined, a
<1>9. ASSUME NEW k \in Keys PROVE Combined(m, ms)[<<Main, k>>] = Joined(m[<<t, k>>], m[<<Main, k>>])
  <2>1. <<Main, k>> \in Gids /\ <<Main, k>>[2] = k
    BY DEF Gids, Actors
  <2>2. <<Main, k>> \in Done(Len(ms))
    BY <1>3
  <2> HIDE DEF Done
  <2> QED
    BY <1>7, <1>8, <2>1, <2>2
<1>10. ASSUME NEW b \in Actors \ {Main}, NEW k \in Keys PROVE Combined(m, ms)[<<b, k>>] = m[<<b, k>>]
  <2>1. <<b, k>> \in Gids /\ <<b, k>> \notin Done(Len(ms))
    BY DEF Gids
  <2> HIDE DEF Done
  <2> QED
    BY <1>7, <1>8, <2>1
<1> QED
  BY <1>9, <1>10 DEF ms

\* The ids of a batch are its own.
LEMMA UpdateIds ==
  ASSUME NEW t \in Threads, NEW n \in 1..MaxBatches, NEW s \in Shapes
  PROVE  /\ RowIdsOf(UpdateCall(t, n, s)) \subseteq {id \in RowIds : id[1] = t /\ id[2] = n}
         /\ \A a \in Actors, k \in Keys :
               RowsFor(UpdateCall(t, n, s).rows, <<a, k>>)
                 = {id \in RowIdsOf(UpdateCall(t, n, s)) : a = t /\ id[3] = k}
<1> DEFINE rs == UpdateCall(t, n, s).rows
<1>1. /\ DOMAIN rs = DOMAIN s
      /\ \A i \in DOMAIN s : /\ rs[i].group = <<t, s[i].key>> /\ rs[i].id = <<t, n, s[i].key>>
                             /\ s[i].key \in Keys
  BY ShapesAssumption DEF UpdateCall
<1>2. RowIdsOf(UpdateCall(t, n, s)) = {rs[i].id : i \in {j \in DOMAIN rs : ~rs[j].skipped}}
  BY DEF RowIdsOf
<1>3. \A k \in Keys : <<t, n, k>> \in RowIds
  BY DEF RowIds
<1> HIDE DEF rs
<1>4. RowIdsOf(UpdateCall(t, n, s)) \subseteq {id \in RowIds : id[1] = t /\ id[2] = n}
  BY <1>1, <1>2, <1>3
<1>5. ASSUME NEW a \in Actors, NEW k \in Keys
      PROVE  RowsFor(rs, <<a, k>>) = {id \in RowIdsOf(UpdateCall(t, n, s)) : a = t /\ id[3] = k}
  <2>1. \A i \in DOMAIN rs : rs[i].group = <<a, k>> <=> a = t /\ rs[i].id[3] = k
    BY <1>1
  <2>2. RowsFor(rs, <<a, k>>)
          = {rs[i].id : i \in {j \in DOMAIN rs : rs[j].group = <<a, k>> /\ ~rs[j].skipped}}
    BY DEF RowsFor
  <2> DEFINE R == RowsFor(rs, <<a, k>>)
             I == RowIdsOf(UpdateCall(t, n, s))
  <2>3. ASSUME NEW id \in R PROVE id \in I /\ a = t /\ id[3] = k
    <3>1. PICK i \in DOMAIN rs : rs[i].group = <<a, k>> /\ ~rs[i].skipped /\ id = rs[i].id
      BY <2>2
    <3> QED
      BY <1>2, <2>1, <3>1
  <2>4. ASSUME NEW id \in I, a = t, id[3] = k PROVE id \in R
    <3>1. PICK i \in DOMAIN rs : ~rs[i].skipped /\ id = rs[i].id
      BY <1>2
    <3> QED
      BY <2>1, <2>2, <2>4, <3>1
  <2> HIDE DEF R, I
  <2>5. R = {id \in I : a = t /\ id[3] = k}
    BY <2>3, <2>4
  <2> QED
    BY <2>5 DEF R, I
<1> QED
  BY <1>4, <1>5 DEF rs

LEMMA UpdateMade ==
  ASSUME NEW c \in Calls, c.op = "update"
  PROVE  \E t \in Threads, n \in 1..MaxBatches, s \in Shapes : c = UpdateCall(t, n, s)
<1>1. c \notin CombineCalls
  BY DEF CombineCalls, CombineCall
<1>2. c # FinalizeCall /\ c \notin {DestroyCall(a) : a \in Actors}
  BY DEF FinalizeCall, DestroyCall
<1>3. QED
  BY <1>1, <1>2 DEF Calls, UpdateCalls

LEMMA UpdateRows ==
  ASSUME NEW c \in Calls, c.op = "update"
  PROVE  /\ c.actor \in Threads
         /\ RowIdsOf(c) \subseteq {id \in RowIds : id[1] = c.actor}
         /\ \A a \in Actors, k \in Keys :
               RowsFor(c.rows, <<a, k>>) = {id \in RowIdsOf(c) : a = c.actor /\ id[3] = k}
<1>1. PICK t \in Threads, n \in 1..MaxBatches, s \in Shapes : c = UpdateCall(t, n, s)
  BY UpdateMade
<1>2. c.actor = t
  BY <1>1, MadeCalls
<1>3. /\ RowIdsOf(c) \subseteq {id \in RowIds : id[1] = t /\ id[2] = n}
      /\ \A a \in Actors, k \in Keys :
            RowsFor(c.rows, <<a, k>>) = {id \in RowIdsOf(c) : a = t /\ id[3] = k}
  BY <1>1, UpdateIds
<1> QED
  BY <1>2, <1>3

-----------------------------------------------------------------------------
(* The answer's steps                                                      *)

LEMMA InitEInv == Init => EInv
<1> SUFFICES ASSUME Init PROVE EInv
  OBVIOUS
<1>1. Serving = {} /\ fed = {} /\ answer = {} /\ \A a \in Actors : stage[a] = "sink"
  BY DEF Init, Serving
<1>2. Absorbed = {} /\ Merged = {}
  BY <1>1 DEF Absorbed, Merged, Actors
<1>3. \A g \in Gids : GroupsSeen[g] = NoState
  BY <1>1 DEF GroupsSeen, Init, NoGroups
<1>4. Exact
  BY <1>2, <1>3 DEF Exact, Taken, Gathered, StateOf, Gids, Actors
<1> QED
  BY <1>1, <1>4 DEF EInv, IdsStand, AskedClean, Answered, AnswerIsExact

\* Rows and groups stay as they are.
LEMMA ExactKept ==
  ASSUME Exact, failed => failed', Absorbed' = Absorbed, Merged' = Merged,
         stage'[Main] = "sink" => stage[Main] = "sink",
         ~failed' => /\ \A t \in Threads \ Merged, k \in Keys : GroupsSeen'[<<t, k>>] = GroupsSeen[<<t, k>>]
                     /\ stage'[Main] = "sink" =>
                           \A k \in Keys : GroupsSeen'[<<Main, k>>] = GroupsSeen[<<Main, k>>]
  PROVE  Exact'
<1>1. \A t, k : Taken(t, k)' = Taken(t, k)
  BY DEF Taken
<1>2. \A k : Gathered(k)' = Gathered(k)
  BY DEF Gathered
<1> QED
  BY <1>1, <1>2 DEF Exact, StateOf

LEMMA QuietExact ==
  ASSUME EInv, Serving' = Serving, UNCHANGED client, SeenAlike,
         \A v \in Serving : job'[v].call = job[v].call /\ job'[v].step = job[v].step
  PROVE  EInv'
<1>1. UNCHANGED <<stage, sent, failed, answer, fed>>
  BY DEF client
<1>2. Absorbed' = Absorbed /\ Merged' = Merged
  BY <1>1 DEF Absorbed, Merged
<1>3. Exact'
  <2>1. \A t \in Actors, k \in Keys : GroupsSeen'[<<t, k>>] = GroupsSeen[<<t, k>>]
    BY DEF SeenAlike, Gids
  <2> QED
    BY <1>1, <1>2, <2>1, ExactKept DEF EInv, Actors
<1>4. IdsStand' /\ AskedClean'
  BY <1>1 DEF EInv, IdsStand, AskedClean
<1>5. Answered' /\ AnswerIsExact'
  BY <1>1 DEF EInv, Answered, AnswerIsExact
<1> QED
  BY <1>3, <1>4, <1>5 DEF EInv

LEMMA SendExact ==
  ASSUME IInv, EInv, NEW c \in Calls, Send(c), SeenAlike,
         sent' \in [Threads -> 0..MaxBatches],
         \A t \in Threads : sent[t] <= sent'[t] /\ (t # c.actor => sent'[t] = sent[t]),
         c.op = "update" => /\ sent[c.actor] < sent'[c.actor]
                            /\ \A id \in RowIdsOf(c) : id[2] = sent'[c.actor],
         c.op = "finalize" => ~failed
  PROVE  EInv'
<1>1. PICK w \in Workers \ Serving :
        job' = [job EXCEPT ![w] = [call |-> c, step |-> "load", todo |-> Requested(c)]]
  BY DEF Send
<1>2. UNCHANGED <<stage, failed, answer, fed>>
  BY DEF Send
<1> DEFINE j == [call |-> c, step |-> "load", todo |-> Requested(c)]
<1>3. job'[w] = j /\ \A v \in Workers : v # w => job'[v] = job[v]
  BY <1>1 DEF IInv, Shape
<1>4. j.call = c /\ j.step = "load"
  OBVIOUS
<1> HIDE DEF j
<1>5. \A v \in Serving' : v = w \/ (v \in Serving /\ job'[v] = job[v])
  BY <1>3 DEF Serving
<1>6. \A v \in Serving : v \in Serving' /\ v # w /\ job'[v] = job[v]
  BY <1>3 DEF Serving
<1>7. Absorbed' = Absorbed
  BY <1>2, <1>3, <1>4, <1>5, <1>6 DEF Absorbed
<1>8. Merged' = Merged
  BY <1>2, <1>3, <1>4, <1>5, <1>6 DEF Merged
<1>9. Exact'
  <2>1. \A t \in Actors, k \in Keys : GroupsSeen'[<<t, k>>] = GroupsSeen[<<t, k>>]
    BY DEF SeenAlike, Gids
  <2> QED
    BY <1>2, <1>7, <1>8, <2>1, ExactKept DEF EInv, Actors
<1>10. IdsStand'
  <2>0. \A t \in Threads : sent[t] \in Nat /\ sent'[t] \in Nat
    BY DEF IInv, Shape
  <2>1. ASSUME NEW id \in fed PROVE id \in RowIds /\ id[1] \in Threads /\ id[2] \in Nat /\ id[2] <= sent[id[1]]
    BY DEF EInv, IdsStand, RowIds
  <2>2. \A id \in fed' : id \in RowIds /\ id[2] <= sent'[id[1]]
    BY <1>2, <2>0, <2>1
  <2>3. ASSUME NEW v \in Serving', job'[v].call.op = "update"
        PROVE  /\ \A id \in RowIdsOf(job'[v].call) : id[2] = sent'[job'[v].call.actor]
               /\ \A id \in fed' : id[1] = job'[v].call.actor => id[2] < sent'[job'[v].call.actor]
    <3>1. CASE v = w
      <4>1. job'[v].call = c
        BY <3>1, <1>3, <1>4
      <4>2. \A id \in fed : id[1] = c.actor => id[2] < sent'[c.actor]
        BY <2>0, <2>1, <2>3, <4>1
      <4> QED
        BY <2>3, <4>1, <4>2, <1>2
    <3>2. CASE v \in Serving /\ job'[v] = job[v]
      <4>1. job[v].call \in Calls /\ job[v].call.actor # c.actor
        BY <3>2, ServingJobs DEF IInv, Send, InFlight
      <4>2. job[v].call.actor \in Threads
        BY <2>3, <3>2, <4>1, UpdateRows
      <4> QED
        BY <1>2, <2>3, <3>2, <4>1, <4>2 DEF EInv, IdsStand
    <3> QED
      BY <3>1, <3>2, <1>5
  <2> QED
    BY <2>2, <2>3 DEF IdsStand
<1>11. AskedClean'
  BY <1>2, <1>3, <1>4, <1>5 DEF EInv, AskedClean
<1> QED
  BY <1>2, <1>9, <1>10, <1>11 DEF EInv, Answered, AnswerIsExact

\* What a running call does to the jobs.
RunsTo(w, c) ==
    /\ w \in Serving /\ w \in Serving' /\ job[w].step = "load"
    /\ job[w].call = c /\ job'[w].call = c /\ job'[w].step = "persist"
    /\ Serving' = Serving /\ \A v \in Serving : v # w => job'[v] = job[v]

LEMMA RunMoves ==
  ASSUME IInv, NEW w \in Workers, Run(w)
  PROVE  RunsTo(w, job[w].call) /\ job[w].call \in Calls
<1>1. w \in Serving /\ job[w].step = "load" /\ job[w] \in Jobs /\ job[w].call \in Calls
  BY ServingJobs DEF Run, Loaded, Serving, IInv
<1> DEFINE c == job[w].call
           j == [call |-> c, step |-> "persist", todo |-> Persisted(mem[w], c)]
<1>2. job'[w] = j /\ \A v \in Workers : v # w => job'[v] = job[v]
  BY DEF Run, IInv, Shape
<1>3. Persisted(mem[w], c) \subseteq Gids
  BY <1>1, PersistedNamed, NamesGids
<1>4. j \in Jobs /\ j.call = c /\ j.step = "persist"
  BY <1>1, <1>3 DEF Jobs
<1> HIDE DEF j
<1>5. Serving' = Serving
  BY <1>1, <1>2, <1>4, JobAssumption DEF Serving
<1> QED
  BY <1>1, <1>2, <1>4, <1>5 DEF RunsTo, Serving

\* What the properties other than Exact need of a running call.
LEMMA RunRest ==
  ASSUME IInv, EInv, NEW w \in Workers, Run(w)
  PROVE  IdsStand' /\ AskedClean' /\ Answered'
<1>1. UNCHANGED <<stage, sent, failed, fed>> /\ RunsTo(w, job[w].call)
  BY RunMoves DEF Run
<1>2. \A v \in Serving : job'[v].call = job[v].call
  BY <1>1 DEF RunsTo
<1>3. IdsStand' /\ AskedClean'
  BY <1>1, <1>2 DEF EInv, IdsStand, AskedClean, RunsTo
<1>4. Answered'
  <2>1. CASE job[w].call.op = "finalize"
    <3>1. \A t \in Threads : stage[t] # "sink"
      BY <1>1, <2>1 DEF RunsTo, IInv, CallsStand, Standing
    <3> QED
      BY <1>1, <3>1 DEF Answered
  <2>2. CASE job[w].call.op # "finalize"
    BY <1>1, <2>2 DEF Run, EInv, Answered
  <2> QED
    BY <2>1, <2>2
<1> QED
  BY <1>3, <1>4

\* A batch is absorbed into its thread's groups.
LEMMA RunUpdate ==
  ASSUME IInv, IInv', Loads, EInv, NEW w \in Workers, Run(w), job[w].call.op = "update"
  PROVE  Exact'
<1> DEFINE c == job[w].call
           t == c.actor
           R == RowIdsOf(c)
<1>1. c \in Calls /\ RunsTo(w, c) /\ UNCHANGED <<stage, sent, failed, fed>>
  BY RunMoves DEF Run
<1>2. \A g \in Gids : GroupsSeen'[g] = Effect(GroupsSeen, c)[g]
  BY RunSeen
<1>3. c.op = "update"
  OBVIOUS
<1>4. stage[t] = "sink"
  BY <1>1, <1>3 DEF RunsTo, IInv, CallsStand, Standing
<1>5. /\ \A id \in R : id[2] = sent[t]
      /\ \A id \in fed : id[1] = t => id[2] < sent[t]
  BY <1>1, <1>3 DEF RunsTo, EInv, IdsStand
<1>6. \A v \in Serving : v # w => job[v].call.actor # t
  BY <1>1 DEF RunsTo, IInv, Exclusive
<1> HIDE DEF c
<1>7. /\ t \in Threads /\ R \subseteq {id \in RowIds : id[1] = t}
      /\ \A a \in Actors, k \in Keys : RowsFor(c.rows, <<a, k>>) = {id \in R : a = t /\ id[3] = k}
  BY <1>1, <1>3, UpdateRows
<1>8. \A a \in Actors, k \in Keys :
        GroupsSeen'[<<a, k>>] = IF {id \in R : a = t /\ id[3] = k} = {} THEN GroupsSeen[<<a, k>>]
             ELSE OrInitial(GroupsSeen[<<a, k>>]) (+) SetToBag({id \in R : a = t /\ id[3] = k})
  <2>1. On(GroupsSeen, Gids)
    BY SeenAt
  <2> QED
    BY <1>2, <1>3, <1>7, <2>1 DEF Effect, Updated, On, Gids
<1>9. \A id \in Absorbed : id \in RowIds /\ (id[1] = t => id \in fed)
  <2>1. \A id \in fed : id \in RowIds
    BY DEF EInv, IdsStand
  <2>2. ASSUME NEW v \in Serving, job[v].step = "persist", job[v].call.op = "update",
               NEW id \in RowIdsOf(job[v].call)
        PROVE  id[1] # t
    <3>1. v # w /\ job[v].call \in Calls
      BY <1>1, <2>2, ServingJobs DEF RunsTo, IInv
    <3> QED
      BY <1>6, <2>2, <3>1, UpdateRows
  <2> QED
    BY <2>1, <2>2 DEF Absorbed
<1>10. Absorbed \cap R = {}
  <2>1. \A id \in R : id[1] = t /\ id[2] = sent[t] /\ ~(sent[t] < sent[t])
    BY <1>5, <1>7 DEF IInv, Shape
  <2> QED
    BY <1>5, <1>9, <2>1
<1>11. Absorbed' = Absorbed \cup R
  <2>1. \A v \in Serving : v # w => job'[v] = job[v]
    BY <1>1 DEF RunsTo
  <2>2. Serving' = Serving /\ w \in Serving /\ job[w].step = "load" /\ job'[w].step = "persist" /\ job'[w].call = c
    BY <1>1 DEF RunsTo
  <2> QED
    BY <1>1, <1>3, <1>7, <2>1, <2>2 DEF Absorbed
<1>12. Merged' = Merged
  <2>1. \A v \in Serving : v # w => job'[v] = job[v]
    BY <1>1 DEF RunsTo
  <2>2. Serving' = Serving /\ job[w].step = "load" /\ job'[w].call.op = "update"
    BY <1>1, <1>3 DEF RunsTo
  <2> QED
    BY <1>1, <2>1, <2>2 DEF Merged
<1>13. t \notin Merged
  BY <1>1, <1>3, <1>4, <1>6 DEF Merged, RunsTo
<1> HIDE DEF R, t
<1>14. ASSUME ~failed', NEW a \in Threads \ Merged', NEW k \in Keys
       PROVE  GroupsSeen'[<<a, k>>] = StateOf(Taken(a, k)')
  <2> DEFINE S == {id \in R : a = t /\ id[3] = k}
  <2>1. GroupsSeen[<<a, k>>] = StateOf(Taken(a, k))
    BY <1>1, <1>12, <1>14 DEF EInv, Exact
  <2>2. Taken(a, k)' = Taken(a, k) \cup S
    BY <1>7, <1>11 DEF Taken
  <2>3. Taken(a, k) \in SUBSET RowIds /\ S \in SUBSET RowIds /\ Taken(a, k) \cap S = {}
    BY <1>7, <1>9, <1>10 DEF Taken
  <2>4. GroupsSeen'[<<a, k>>] = IF S = {} THEN GroupsSeen[<<a, k>>]
                                ELSE OrInitial(GroupsSeen[<<a, k>>]) (+) SetToBag(S)
    BY <1>8 DEF Actors
  <2> HIDE DEF S
  <2>5. CASE S = {}
    BY <2>1, <2>2, <2>4, <2>5
  <2>6. CASE S # {}
    BY <2>1, <2>2, <2>3, <2>4, <2>6, StatesJoin
  <2> QED
    BY <2>5, <2>6
<1>15. ASSUME ~failed', stage'[Main] = "sink", NEW k \in Keys
       PROVE  GroupsSeen'[<<Main, k>>] = StateOf(Gathered(k)')
  <2>1. Main # t /\ Main \in Actors
    BY <1>7, ActorsAssumption DEF Actors
  <2>2. GroupsSeen'[<<Main, k>>] = GroupsSeen[<<Main, k>>]
    BY <1>8, <2>1
  <2>3. Gathered(k)' = Gathered(k)
    BY <1>7, <1>11, <1>12, <1>13 DEF Gathered
  <2> QED
    BY <1>1, <1>15, <2>2, <2>3 DEF EInv, Exact
<1> QED
  BY <1>14, <1>15 DEF Exact

\* A call that is no update absorbs nothing.
LEMMA RunAbsorbs ==
  ASSUME IInv, NEW w \in Workers, Run(w), job[w].call.op # "update"
  PROVE  Absorbed' = Absorbed
<1>1. RunsTo(w, job[w].call) /\ fed' = fed
  BY RunMoves DEF Run
<1> QED
  BY <1>1 DEF Absorbed, RunsTo

LEMMA RunMerges ==
  ASSUME IInv, NEW w \in Workers, Run(w), job[w].call.op # "combine"
  PROVE  Merged' = Merged
<1>1. RunsTo(w, job[w].call) /\ stage' = stage
  BY RunMoves DEF Run
<1> QED
  BY <1>1 DEF Merged, RunsTo

\* A thread's groups are merged into those of the result.
LEMMA RunCombine ==
  ASSUME IInv, IInv', Loads, EInv, NEW w \in Workers, Run(w), job[w].call.op = "combine"
  PROVE  Exact'
<1> DEFINE c == job[w].call
           t == c.actor
<1>1. c \in Calls /\ RunsTo(w, c) /\ UNCHANGED <<stage, sent, failed, fed>>
  BY RunMoves DEF Run
<1>2. \A g \in Gids : GroupsSeen'[g] = Effect(GroupsSeen, c)[g]
  BY RunSeen
<1>3. c.op = "combine" /\ Absorbed' = Absorbed
  BY RunAbsorbs
<1>4. stage[t] = "sink"
  BY <1>1, <1>3 DEF RunsTo, IInv, CallsStand, Standing
<1>5. \A v \in Serving : v # w => job[v].call.actor # t
  BY <1>1 DEF RunsTo, IInv, Exclusive
<1> HIDE DEF c
<1>6. t \in Threads
  BY <1>1, <1>3, CallShape
<1>7. t \notin Merged
  BY <1>1, <1>4, <1>5 DEF Merged, RunsTo
<1>8. Merged' = Merged \cup {t}
  <2>1. \A v \in Serving : v # w => job'[v] = job[v]
    BY <1>1 DEF RunsTo
  <2>2. Serving' = Serving /\ w \in Serving /\ job[w].step = "load" /\ job'[w].step = "persist" /\ job'[w].call = c
    BY <1>1 DEF RunsTo
  <2> QED
    BY <1>1, <1>3, <1>6, <2>1, <2>2 DEF Merged
<1>9. /\ \A k \in Keys : GroupsSeen'[<<Main, k>>] = Joined(GroupsSeen[<<t, k>>], GroupsSeen[<<Main, k>>])
      /\ \A a \in Threads, k \in Keys : GroupsSeen'[<<a, k>>] = GroupsSeen[<<a, k>>]
  <2>1. PICK u \in Threads, o \in SetToSeqs(Keys) : c = CombineCall(u, o)
    BY <1>1, <1>3, CombineMerges
  <2>2. u = t
    BY <2>1, MadeCalls
  <2>3. Effect(GroupsSeen, c) = Combined(GroupsSeen, CombineCall(t, o).merges)
    BY <1>3, <2>1, <2>2 DEF Effect
  <2> DEFINE e == Combined(GroupsSeen, CombineCall(t, o).merges)
  <2>4. On(GroupsSeen, Gids)
    BY SeenAt
  <2>5. /\ \A k \in Keys : e[<<Main, k>>] = Joined(GroupsSeen[<<t, k>>], GroupsSeen[<<Main, k>>])
        /\ \A a \in Actors \ {Main}, k \in Keys : e[<<a, k>>] = GroupsSeen[<<a, k>>]
    BY <1>6, <2>4, CombinedIs
  <2>6. \A a \in Actors, k \in Keys : GroupsSeen'[<<a, k>>] = e[<<a, k>>]
    BY <1>2, <2>3 DEF Gids
  <2> HIDE DEF e
  <2> QED
    BY <2>5, <2>6, ActorsAssumption DEF Actors
<1>10. \A a, k : Taken(a, k)' = Taken(a, k)
  BY <1>3 DEF Taken
<1> HIDE DEF t
<1>11. ASSUME ~failed', stage'[Main] = "sink", NEW k \in Keys
       PROVE  GroupsSeen'[<<Main, k>>] = StateOf(Gathered(k)')
  <2>1. GroupsSeen[<<t, k>>] = StateOf(Taken(t, k)) /\ GroupsSeen[<<Main, k>>] = StateOf(Gathered(k))
    BY <1>1, <1>6, <1>7, <1>11 DEF EInv, Exact
  <2>2. Gathered(k)' = Taken(t, k) \cup Gathered(k)
    BY <1>3, <1>8 DEF Gathered, Taken
  <2>3. Absorbed \subseteq RowIds
    BY DEF EInv, IdsStand, Absorbed
  <2>4. /\ Taken(t, k) \in SUBSET RowIds /\ Gathered(k) \in SUBSET RowIds
        /\ Taken(t, k) \cap Gathered(k) = {}
    BY <1>7, <2>3 DEF Gathered, Taken
  <2>5. /\ StateOf(Taken(t, k)) = NoState <=> Taken(t, k) = {}
        /\ Taken(t, k) # {} \/ Gathered(k) # {} =>
              OrInitial(StateOf(Taken(t, k))) (+) OrInitial(StateOf(Gathered(k)))
                = StateOf(Taken(t, k) \cup Gathered(k))
    BY <2>4, StatesJoin
  <2>6. StateOf(Gathered(k)) = NoState <=> Gathered(k) = {}
    BY <2>4, StatesJoin
  <2>7. Joined(StateOf(Taken(t, k)), StateOf(Gathered(k))) = StateOf(Taken(t, k) \cup Gathered(k))
    <3>1. CASE Taken(t, k) = {} /\ Gathered(k) = {}
      BY <3>1 DEF Joined, StateOf
    <3>2. CASE Taken(t, k) # {} \/ Gathered(k) # {}
      BY <2>5, <2>6, <3>2 DEF Joined
    <3> QED
      BY <3>1, <3>2
  <2> QED
    BY <1>9, <1>11, <2>1, <2>2, <2>7
<1>12. ASSUME ~failed', NEW a \in Threads \ Merged', NEW k \in Keys
       PROVE  GroupsSeen'[<<a, k>>] = StateOf(Taken(a, k)')
  BY <1>1, <1>8, <1>9, <1>10, <1>12 DEF EInv, Exact
<1> QED
  BY <1>11, <1>12 DEF Exact

\* The result is asked for when every thread has merged its rows.
LEMMA RunFinalize ==
  ASSUME IInv, IInv', Loads, EInv, NEW w \in Workers, Run(w), job[w].call.op = "finalize"
  PROVE  Exact' /\ AnswerIsExact'
<1> DEFINE c == job[w].call
<1>1. c \in Calls /\ RunsTo(w, c) /\ UNCHANGED <<stage, sent, failed, fed>>
  BY RunMoves DEF Run
<1>2. \A g \in Gids : GroupsSeen'[g] = GroupsSeen[g]
  BY RunSeen DEF Effect
<1>3. Absorbed' = Absorbed /\ Merged' = Merged
  BY RunAbsorbs, RunMerges
<1>4. Exact'
  BY <1>1, <1>2, <1>3, ExactKept DEF EInv, Gids, Actors
<1>5. /\ c.actor = Main /\ GidsOf(c) = GidsOfActor(Main) /\ c.gids = GidsOf(c)
  BY <1>1, CallShape DEF GidsOf
<1>6. stage[Main] = "sink" /\ (\A t \in Threads : stage[t] # "sink") /\ ~failed
  BY <1>1, <1>5 DEF RunsTo, IInv, CallsStand, Standing, EInv, AskedClean
<1>7. Absorbed = fed
  <2>1. ASSUME NEW v \in Serving, job[v].call.op = "update" PROVE FALSE
    <3>1. job[v].call \in Calls
      BY ServingJobs DEF IInv
    <3>2. job[v].call.actor \in Threads /\ stage[job[v].call.actor] = "sink"
      BY <2>1, <3>1, CallShape DEF IInv, CallsStand, Standing
    <3> QED
      BY <1>6, <3>2
  <2> QED
    BY <2>1 DEF Absorbed
<1>8. Merged = Threads
  BY <1>6 DEF Merged
<1>9. \A id \in fed : id[1] \in Threads
  BY DEF EInv, IdsStand, RowIds
<1>10. ASSUME NEW k \in Keys
       PROVE  mem[w][<<Main, k>>] = StateOf({id \in fed : id[3] = k})
  <2>1. Gathered(k) = {id \in fed : id[3] = k}
    BY <1>7, <1>8, <1>9 DEF Gathered
  <2>2. GroupsSeen[<<Main, k>>] = StateOf(Gathered(k))
    BY <1>6 DEF EInv, Exact
  <2>3. Alike(mem[w], GroupsSeen, GidsOf(c))
    BY RunSeen
  <2>4. <<Main, k>> \in GidsOf(c)
    BY <1>5 DEF GidsOfActor
  <2> QED
    BY <2>1, <2>2, <2>3, <2>4 DEF Alike
<1>11. answer' = {[g \in GidsOfActor(Main) |-> mem[w][g]]}
  BY <1>5 DEF Run
<1>12. AnswerIsExact'
  BY <1>1, <1>10, <1>11 DEF AnswerIsExact, StateOf, GidsOfActor
<1> QED
  BY <1>4, <1>12

\* What a destructor drops is merged, or was in the answer.
LEMMA RunDestroy ==
  ASSUME IInv, IInv', Loads, EInv, NEW w \in Workers, Run(w), job[w].call.op = "destroy"
  PROVE  Exact'
<1> DEFINE c == job[w].call
<1>1. c \in Calls /\ RunsTo(w, c) /\ UNCHANGED <<stage, sent, failed, fed>>
  BY RunMoves DEF Run
<1>2. \A g \in Gids \ GidsOf(c) : GroupsSeen'[g] = GroupsSeen[g]
  <2>1. On(GroupsSeen, Gids)
    BY SeenAt
  <2>2. \A g \in Gids \ Persisted(GroupsSeen, c) : Effect(GroupsSeen, c)[g] = GroupsSeen[g]
    BY <1>1, <2>1, EffectElsewhere
  <2> QED
    BY <1>1, <2>2, RunSeen, PersistedNamed
<1>3. Absorbed' = Absorbed /\ Merged' = Merged
  BY RunAbsorbs, RunMerges
<1>4. GidsOf(c) = GidsOfActor(c.actor) /\ c.actor \in Actors
  BY <1>1, CallShape
<1>5. ~failed => stage[c.actor] = "merged"
  BY <1>1 DEF RunsTo, IInv, CallsStand, Standing
<1> HIDE DEF c
<1>6. ASSUME ~failed, NEW t \in Threads \ Merged, NEW k \in Keys
      PROVE  GroupsSeen'[<<t, k>>] = GroupsSeen[<<t, k>>]
  <2>1. t # c.actor
    BY <1>4, <1>5, <1>6 DEF Merged
  <2> QED
    BY <1>2, <1>4, <2>1 DEF Gids, Actors, GidsOfActor
<1>7. ASSUME ~failed, stage[Main] = "sink", NEW k \in Keys
      PROVE  GroupsSeen'[<<Main, k>>] = GroupsSeen[<<Main, k>>]
  <2>1. Main # c.actor
    BY <1>5, <1>7
  <2> QED
    BY <1>2, <1>4, <2>1 DEF Gids, Actors, GidsOfActor
<1> QED
  BY <1>1, <1>3, <1>6, <1>7, ExactKept DEF EInv

LEMMA RunExact ==
  ASSUME IInv, IInv', Loads, EInv, NEW w \in Workers, Run(w)
  PROVE  EInv'
<1>1. IdsStand' /\ AskedClean' /\ Answered'
  BY RunRest
<1>2. job[w].call \in Calls
  BY RunMoves
<1>3. job[w].call.op # "finalize" => AnswerIsExact'
  BY DEF Run, EInv, AnswerIsExact
<1> QED
  BY <1>1, <1>2, <1>3, CallShape, RunUpdate, RunCombine, RunFinalize, RunDestroy DEF EInv

\* What is left when a call ends that no row was added for.
LEMMA EndRest ==
  ASSUME IInv, EInv, NEW w \in Serving, job' = [job EXCEPT ![w] = NoJob],
         sent' = sent, fed' = fed, answer' = answer,
         \A a \in Actors : stage[a] # "sink" => stage'[a] # "sink"
  PROVE  IdsStand' /\ Answered' /\ AnswerIsExact'
<1>1. w \in Workers /\ job'[w] = NoJob /\ \A v \in Workers : v # w => job'[v] = job[v]
  BY DEF IInv, Shape, Serving
<1>2. \A v \in Serving' : v # w /\ v \in Serving /\ job'[v] = job[v]
  BY <1>1 DEF Serving
<1>3. IdsStand'
  BY <1>2 DEF EInv, IdsStand
<1>4. Answered' /\ AnswerIsExact'
  BY DEF EInv, Answered, AnswerIsExact, Actors
<1> QED
  BY <1>3, <1>4

LEMMA ThrowExact ==
  ASSUME IInv, EInv, NEW w \in Workers, Throw(w)
  PROVE  EInv'
<1>1. /\ w \in Serving /\ job' = [job EXCEPT ![w] = NoJob] /\ failed' = TRUE
      /\ UNCHANGED <<stage, sent, answer, fed>> /\ job[w].call.op \in {"update", "combine"}
  BY DEF Throw, Loaded, Serving
<1>2. IdsStand' /\ Answered' /\ AnswerIsExact'
  BY <1>1, EndRest
<1>3. Exact'
  BY <1>1 DEF Exact
<1>4. AskedClean'
  <2>1. job[w].call.actor \in Threads /\ stage[job[w].call.actor] = "sink"
    BY <1>1, ServingJobs, CallShape DEF IInv, CallsStand, Standing
  <2>2. \A v \in Serving : job[v].call.op # "finalize"
    BY <2>1 DEF IInv, CallsStand, Standing
  <2>3. \A v \in Serving' : v \in Serving /\ job'[v] = job[v]
    BY <1>1 DEF IInv, Shape, Serving
  <2> QED
    BY <2>2, <2>3 DEF AskedClean
<1> QED
  BY <1>2, <1>3, <1>4 DEF EInv

LEMMA ReplyExact ==
  ASSUME IInv, EInv, NEW w \in Workers, Reply(w), SeenAlike
  PROVE  EInv'
<1> DEFINE c == job[w].call
           t == c.actor
<1>1. /\ w \in Serving /\ job[w].step = "persist" /\ job' = [job EXCEPT ![w] = NoJob]
      /\ UNCHANGED <<sent, failed, answer>>
      /\ stage' = [stage EXCEPT ![t] = StageAfter(c)]
      /\ fed' = IF c.op = "update" THEN fed \cup RowIdsOf(c) ELSE fed
  BY DEF Reply, Serving, RowIdsOf
<1>2. c \in Calls /\ t \in Actors
  BY <1>1, ServingJobs DEF IInv
<1>3. \A v \in Serving : v # w => job[v].call.actor # t
  BY <1>1 DEF IInv, Exclusive
<1>4. /\ \A v \in Serving' : v # w /\ v \in Serving /\ job'[v] = job[v]
      /\ \A v \in Serving : v # w => v \in Serving' /\ job'[v] = job[v]
  BY <1>1 DEF IInv, Shape, Serving
<1>5. Standing(c)
  BY <1>1 DEF IInv, CallsStand
<1>6. c.op = "update" => /\ t \in Threads /\ RowIdsOf(c) \subseteq {id \in RowIds : id[1] = t}
                         /\ \A id \in RowIdsOf(c) : id[2] = sent[t]
  BY <1>1, <1>2, UpdateRows DEF EInv, IdsStand
<1>7. /\ stage'[t] = StageAfter(c) /\ \A a \in Actors : a # t => stage'[a] = stage[a]
  BY <1>1, <1>2 DEF IInv, Shape
<1> HIDE DEF c
<1>8. Absorbed' = Absorbed
  <2>1. CASE c.op = "update"
    <3>1. fed' = fed \cup RowIdsOf(c) /\ RowIdsOf(c) \subseteq RowIds
      BY <1>1, <1>6, <2>1
    <3>2. RowIdsOf(c) \subseteq Absorbed
      BY <1>1, <2>1, <3>1 DEF Absorbed, c
    <3>3. Absorbed' \subseteq Absorbed
      BY <1>4, <3>1, <3>2 DEF Absorbed
    <3>4. ASSUME NEW v \in Serving, NEW id \in RowIds,
                 job[v].step = "persist", job[v].call.op = "update", id \in RowIdsOf(job[v].call)
          PROVE  id \in Absorbed'
      <4>1. CASE v = w
        BY <3>1, <3>4, <4>1 DEF Absorbed, c
      <4>2. CASE v # w
        BY <1>4, <3>4, <4>2 DEF Absorbed
      <4> QED
        BY <4>1, <4>2
    <3>5. fed \subseteq Absorbed'
      BY <3>1 DEF Absorbed
    <3>6. Absorbed \subseteq Absorbed'
      BY <3>4, <3>5 DEF Absorbed
    <3> QED
      BY <3>3, <3>6
  <2>2. CASE c.op # "update"
    BY <1>1, <1>4, <2>2 DEF Absorbed, c
  <2> QED
    BY <2>1, <2>2
<1>9. ASSUME ~failed PROVE Merged' = Merged
  <2>1. \A a \in Threads \ {t} : a \in Merged' <=> a \in Merged
    BY <1>1, <1>4, <1>7 DEF Merged, Actors, c
  <2>2. ASSUME t \in Threads PROVE t \in Merged' <=> t \in Merged
    <3>1. CASE c.op = "update"
      <4>1. stage[t] = "sink" /\ stage'[t] = "sink"
        BY <1>5, <1>7, <3>1 DEF Standing, StageAfter
      <4>2. ~\E v \in Serving : job[v].call.op = "combine" /\ job[v].call.actor = t
        BY <1>3, <3>1 DEF c
      <4> QED
        BY <1>4, <2>2, <4>1, <4>2 DEF Merged
    <3>2. CASE c.op = "combine"
      <4>1. stage'[t] = "merged"
        BY <1>7, <3>2 DEF StageAfter
      <4> QED
        BY <1>1, <2>2, <3>2, <4>1 DEF Merged, c
    <3>3. CASE c.op = "finalize"
      BY <1>2, <2>2, <3>3, CallShape, ActorsAssumption
    <3>4. CASE c.op = "destroy"
      <4>1. stage[t] = "merged" /\ stage'[t] = "done"
        BY <1>5, <1>7, <1>9, <3>4 DEF Standing, StageAfter
      <4> QED
        BY <2>2, <4>1 DEF Merged
    <3> QED
      BY <1>2, <3>1, <3>2, <3>3, <3>4, CallShape
  <2>3. Merged \subseteq Threads /\ Merged' \subseteq Threads
    BY DEF Merged
  <2> QED
    BY <2>1, <2>2, <2>3
<1>10. \A a \in Actors : stage[a] # "sink" => stage'[a] # "sink"
  <2>1. stage[t] # "sink" => c.op = "destroy"
    BY <1>5 DEF Standing
  <2> QED
    BY <1>7, <2>1 DEF StageAfter
<1>11. Exact'
  <2>1. CASE failed
    BY <1>1, <2>1 DEF Exact
  <2>2. CASE ~failed
    <3>1. \A a \in Actors, k \in Keys : GroupsSeen'[<<a, k>>] = GroupsSeen[<<a, k>>]
      BY DEF SeenAlike, Gids
    <3>2. stage'[Main] = "sink" => stage[Main] = "sink"
      BY <1>10 DEF Actors
    <3> QED
      BY <1>1, <1>8, <1>9, <2>2, <3>1, <3>2, ExactKept DEF EInv, Actors
  <2> QED
    BY <2>1, <2>2
<1>12. AskedClean'
  BY <1>1, <1>4 DEF EInv, AskedClean
<1>13. CASE c.op # "update"
  BY <1>1, <1>10, <1>11, <1>12, <1>13, EndRest DEF EInv
<1>14. CASE c.op = "update"
  <2>1. stage[t] = "sink" /\ t \in Threads
    BY <1>5, <1>6, <1>14 DEF Standing
  <2>2. answer' = {}
    BY <1>1, <2>1 DEF EInv, Answered
  <2>3. \A v \in Serving' : job'[v].call.op = "update" =>
           /\ \A id \in RowIdsOf(job'[v].call) : id[2] = sent[job'[v].call.actor]
           /\ \A id \in fed' : id[1] = job'[v].call.actor => id[2] < sent[job'[v].call.actor]
    <3>1. \A id \in fed' : id \in fed \/ id[1] = t
      BY <1>1, <1>6, <1>14
    <3> QED
      BY <1>3, <1>4, <3>1 DEF EInv, IdsStand
  <2>4. \A id \in fed' : id \in RowIds /\ id[2] <= sent[id[1]]
    <3>1. ASSUME NEW id \in RowIdsOf(c) PROVE id \in RowIds /\ id[2] <= sent[id[1]]
      <4>1. sent[t] \in Nat
        BY <2>1 DEF IInv, Shape
      <4> QED
        BY <1>6, <1>14, <4>1
    <3> QED
      BY <1>1, <1>14, <3>1 DEF EInv, IdsStand
  <2>5. IdsStand'
    BY <1>1, <2>3, <2>4 DEF IdsStand
  <2> QED
    BY <2>2, <2>5, <1>11, <1>12 DEF EInv, Answered, AnswerIsExact
<1> QED
  BY <1>13, <1>14

LEMMA CrashExact ==
  ASSUME IInv, IInv', Loads, EInv, NEW w \in Workers, Crash(w)
  PROVE  EInv'
<1>1. UNCHANGED <<file, sent, answer, fed>>
  BY DEF Crash
<1>2. \A g \in Gids : (w \in Serving => g \notin GidsOf(job[w].call)) => GroupsSeen'[g] = GroupsSeen[g]
  BY CrashSeen
<1>3. CASE w \notin Serving
  <2>1. job' = job /\ stage' = stage /\ failed' = failed /\ Serving' = Serving
    BY <1>3 DEF Crash, Serving
  <2>2. SeenAlike
    BY <1>2, <1>3 DEF SeenAlike
  <2>3. Absorbed' = Absorbed /\ Merged' = Merged
    BY <1>1, <2>1 DEF Absorbed, Merged
  <2>4. Exact'
    BY <2>1, <2>2, <2>3, ExactKept DEF EInv, SeenAlike, Gids, Actors
  <2>5. IdsStand' /\ AskedClean'
    BY <1>1, <2>1 DEF EInv, IdsStand, AskedClean
  <2> QED
    BY <1>1, <2>1, <2>4, <2>5 DEF EInv, Answered, AnswerIsExact
<1>4. CASE w \in Serving
  <2> DEFINE c == job[w].call
             t == c.actor
  <2>1. c \in Calls /\ t \in Actors /\ Standing(c)
    BY <1>4, ServingJobs DEF IInv, CallsStand
  <2>2. /\ job' = [job EXCEPT ![w] = NoJob]
        /\ stage' = IF c.op = "destroy" THEN [stage EXCEPT ![t] = "done"] ELSE stage
        /\ failed' = (failed \/ c.op # "destroy")
    BY <1>4 DEF Crash, Serving
  <2>3. \A v \in Serving : v # w => job[v].call.actor # t
    BY <1>4 DEF IInv, Exclusive
  <2>4. /\ \A v \in Serving' : v # w /\ v \in Serving /\ job'[v] = job[v]
        /\ \A v \in Serving : v # w => v \in Serving' /\ job'[v] = job[v]
    BY <2>2 DEF IInv, Shape, Serving
  <2> HIDE DEF c
  <2>5. \A a \in Actors : stage[a] # "sink" => stage'[a] # "sink"
    BY <2>1, <2>2 DEF IInv, Shape
  <2>6. IdsStand' /\ Answered' /\ AnswerIsExact'
    BY <1>1, <1>4, <2>2, <2>5, EndRest
  <2>7. AskedClean'
    <3>1. ASSUME NEW v \in Serving', job'[v].call.op = "finalize" PROVE ~failed'
      <4>1. v \in Serving /\ v # w /\ job[v].call.op = "finalize" /\ job[v].call \in Calls
        BY <2>4, <3>1, ServingJobs DEF IInv
      <4>2. ~failed /\ (\A a \in Threads : stage[a] # "sink") /\ job[v].call.actor = Main
        BY <4>1, CallShape DEF EInv, AskedClean, IInv, CallsStand, Standing
      <4>3. t # Main
        BY <2>3, <4>1, <4>2
      <4>4. c.op = "destroy"
        BY <2>1, <4>2, <4>3, CallShape DEF Standing
      <4> QED
        BY <2>2, <4>2, <4>4
    <3> QED
      BY <3>1 DEF AskedClean
  <2>8. Exact'
    <3>1. CASE failed'
      BY <3>1 DEF Exact
    <3>2. CASE ~failed'
      <4>1. ~failed /\ c.op = "destroy" /\ GidsOf(c) = GidsOfActor(t)
        BY <2>1, <2>2, <3>2, CallShape
      <4>2. stage[t] = "merged"
        BY <2>1, <4>1 DEF Standing
      <4>3. stage'[t] = "done" /\ \A a \in Actors : a # t => stage'[a] = stage[a]
        BY <2>1, <2>2, <4>1 DEF IInv, Shape
      <4>4. Absorbed' = Absorbed
        BY <1>1, <2>4, <4>1 DEF Absorbed, c
      <4>5. Merged' = Merged
        <5>1. \A a \in Threads \ {t} : a \in Merged' <=> a \in Merged
          BY <2>4, <4>1, <4>3 DEF Merged, Actors, c
        <5>2. t \in Threads => t \in Merged' /\ t \in Merged
          BY <4>2, <4>3 DEF Merged
        <5>3. Merged \subseteq Threads /\ Merged' \subseteq Threads
          BY DEF Merged
        <5> QED
          BY <5>1, <5>2, <5>3
      <4>6. \A a \in Actors, k \in Keys : a # t => GroupsSeen'[<<a, k>>] = GroupsSeen[<<a, k>>]
        BY <1>2, <4>1 DEF Gids, GidsOfActor, c
      <4>7. \A a \in Threads \ Merged : a # t /\ a \in Actors
        BY <4>2 DEF Merged, Actors
      <4>8. stage'[Main] = "sink" => stage[Main] = "sink" /\ Main # t /\ Main \in Actors
        BY <4>3, <2>5 DEF Actors
      <4> QED
        BY <4>1, <4>4, <4>5, <4>6, <4>7, <4>8, ExactKept DEF EInv
    <3> QED
      BY <3>1, <3>2
  <2> QED
    BY <2>6, <2>7, <2>8 DEF EInv
<1> QED
  BY <1>3, <1>4

LEMMA EngineExact ==
  ASSUME IInv, IInv', Loads, EInv,
         \/ \E t \in Threads : Update(t) \/ Combine(t)
         \/ Finalize
         \/ \E a \in Actors : Destroy(a)
  PROVE  EInv'
<1>0. sent \in [Threads -> 0..MaxBatches] /\ MaxBatches \in Nat /\ \A t \in Threads : sent[t] <= sent[t]
  BY BoundAssumption DEF IInv, Shape
<1>1. ASSUME NEW t \in Threads, Update(t) PROVE EInv'
  <2>1. PICK s \in Shapes : Send(UpdateCall(t, sent[t] + 1, s))
    BY <1>1 DEF Update
  <2>2. /\ sent[t] + 1 \in 1..MaxBatches /\ sent' = [sent EXCEPT ![t] = sent[t] + 1]
        /\ sent' \in [Threads -> 0..MaxBatches]
    BY <1>0, <1>1 DEF Update
  <2> DEFINE c == UpdateCall(t, sent[t] + 1, s)
  <2>3. c \in Calls /\ c.op = "update" /\ c.actor = t
    BY <2>1, <2>2, MadeCalls
  <2>4. \A id \in RowIdsOf(c) : id[2] = sent[t] + 1
    BY <2>2, UpdateIds
  <2> HIDE DEF c
  <2>5. /\ sent[t] < sent'[t] /\ sent'[t] = sent[t] + 1
        /\ \A u \in Threads : sent[u] <= sent'[u] /\ (u # t => sent'[u] = sent[u])
    BY <1>0, <2>2
  <2>6. SeenAlike
    BY <2>1, <2>3, SendSeen DEF c
  <2>7. Send(c)
    BY <2>1 DEF c
  <2> QED
    BY <2>2, <2>3, <2>4, <2>5, <2>6, <2>7, SendExact
<1>2. ASSUME NEW t \in Threads, Combine(t) PROVE EInv'
  <2>1. PICK o \in SetToSeqs(Keys) : Send(CombineCall(t, o))
    BY <1>2 DEF Combine
  <2>2. CombineCall(t, o) \in Calls /\ CombineCall(t, o).op = "combine"
    BY MadeCalls
  <2>3. SeenAlike
    BY <2>1, <2>2, SendSeen
  <2> QED
    BY <1>0, <1>2, <2>1, <2>2, <2>3, SendExact DEF Combine
<1>3. ASSUME Finalize PROVE EInv'
  <2>1. FinalizeCall \in Calls /\ FinalizeCall.op = "finalize" /\ Send(FinalizeCall)
    BY <1>3, MadeCalls DEF Finalize
  <2>2. SeenAlike
    BY <2>1, SendSeen
  <2> QED
    BY <1>0, <1>3, <2>1, <2>2, SendExact DEF Finalize
<1>4. ASSUME NEW a \in Actors, Destroy(a) PROVE EInv'
  <2>1. DestroyCall(a) \in Calls /\ DestroyCall(a).op = "destroy" /\ Send(DestroyCall(a))
    BY <1>4, MadeCalls DEF Destroy
  <2>2. SeenAlike
    BY <2>1, SendSeen
  <2> QED
    BY <1>0, <1>4, <2>1, <2>2, SendExact DEF Destroy
<1>5. QED
  BY <1>1, <1>2, <1>3, <1>4

LEMMA EInvStep == IInv /\ IInv' /\ Loads /\ EInv /\ [Next]_vars => EInv'
<1> SUFFICES ASSUME IInv, IInv', Loads, EInv, [Next]_vars PROVE EInv'
  OBVIOUS
<1>1. CASE UNCHANGED vars
  <2>1. Serving' = Serving
    BY <1>1 DEF vars, Serving
  <2> QED
    BY <1>1, <2>1, StutterSeen, QuietExact DEF vars
<1>2. CASE \/ \E t \in Threads : Update(t) \/ Combine(t)
           \/ Finalize
           \/ \E a \in Actors : Destroy(a)
  BY <1>2, EngineExact
<1>3. ASSUME NEW w \in Workers, Load(w) \/ Store(w) PROVE EInv'
  <2>1. PICK g \in job[w].todo : job' = [job EXCEPT ![w].todo = @ \ {g}]
    BY <1>3 DEF Load, Store
  <2>2. w \in Serving /\ job[w] \in Jobs
    BY <1>3, ServingJobs DEF Load, Store, Serving, IInv
  <2>3. [job[w] EXCEPT !.todo = @ \ {g}] \in Jobs
    BY <2>2 DEF Jobs
  <2>4. job'[w] = [job[w] EXCEPT !.todo = @ \ {g}] /\ \A v \in Workers : v # w => job'[v] = job[v]
    BY <2>1 DEF IInv, Shape
  <2>5. job'[w].call = job[w].call /\ job'[w].step = job[w].step
    BY <2>2, <2>4 DEF Jobs
  <2>6. Serving' = Serving
    BY <2>2, <2>3, <2>4, JobAssumption DEF Serving
  <2>7. \A v \in Serving : job'[v].call = job[v].call /\ job'[v].step = job[v].step
    BY <2>4, <2>5 DEF Serving
  <2>8. SeenAlike /\ UNCHANGED client
    BY <1>3, LoadSeen, StoreSeen DEF Load, Store
  <2> QED
    BY <2>6, <2>7, <2>8, QuietExact
<1>4. ASSUME NEW w \in Workers, Run(w) \/ Throw(w) \/ Reply(w) \/ Crash(w) PROVE EInv'
  BY <1>4, RunExact, ThrowExact, ReplySeen, ReplyExact, CrashExact
<1>5. QED
  BY <1>1, <1>2, <1>3, <1>4 DEF Next

-----------------------------------------------------------------------------
(* Theorem                                                                 *)

\* DroppedStaysDropped: once its destructor is answered no process brings a
\* group's file back, for any number of threads, keys, batches and processes
\* (protocol/handlers/aggregate.ts:283-285).
THEOREM DroppedGroupsStayDropped == Spec => []DroppedStaysDropped
<1>1. IInv => DroppedStaysDropped
  BY DEF IInv, DroppedOver, DroppedStaysDropped
<1>2. QED
  BY InitIInv, IInvStep, <1>1, PTL DEF Spec

\* ImplementsGroups: however calls are spread over processes that keep memory
\* of their own and read and write a file per group, each acts at once on one
\* table of groups; one that is answered has what it did in the files; and one
\* that fails before that leaves each group it names as before or as after it,
\* and no others, and fails the query unless it is a destructor
\* (protocol/handlers/aggregate.ts:87-299), for any number of threads, keys,
\* batches and processes.
THEOREM ProcessesImplementGroups == Spec => ImplementsGroups
<1>1. EInv => AskedClean
  BY DEF EInv
<1>2. IInv /\ Loads /\ EInv /\ [Next]_vars
        => (IInv /\ Loads /\ EInv)' /\ [Groups!Next]_(Groups!vars)
  BY <1>1, IInvStep, StepRefines, EInvStep
<1>3. QED
  BY InitIInv, InitLoads, InitEInv, InitRefines, <1>2, PTL DEF Spec, ImplementsGroups, Groups!Spec

\* AnswerIsExact: what aggregate_finalize answers for a group of the result is
\* the rows of all answered updates of its key, each once, or no state if all of
\* them were NULL (functions/aggregate.ts:76-84, handlers/aggregate.ts:241-246),
\* for any number of threads, keys, batches and processes.
THEOREM AnswerHasEveryRowOnce == Spec => []AnswerIsExact
<1>1. IInv /\ Loads /\ EInv /\ [Next]_vars => (IInv /\ Loads /\ EInv)'
  <2>1. EInv => AskedClean
    BY DEF EInv
  <2>2. QED
    BY <2>1, IInvStep, StepRefines, EInvStep
<1>2. EInv => AnswerIsExact
  BY DEF EInv
<1>3. QED
  BY InitIInv, InitLoads, InitEInv, <1>1, <1>2, PTL DEF Spec

=============================================================================
