------------------------ MODULE CatalogContentsProofs ------------------------
(***************************************************************************)
(* Proofs about CatalogContents, for any clients, workers, kinds of        *)
(* objects, and bounds.                                                    *)
(***************************************************************************)
EXTENDS CatalogContents, FiniteSetTheorems, TLAPS

-----------------------------------------------------------------------------
(* The invariants                                                          *)

\* No worker is ahead of the catalog; a frozen one does not change.
LogStands ==
    /\ Len(log) <= MaxChanges
    /\ \A w \in Workers : seen[w] <= Len(log)
    /\ mode = "frozen" => log = <<>>

\* The lists read so far have what the catalog had at version v, which the
\* load's worker had reached before they were read.
ReadSince(load, v) ==
    \E i \in 0..seen[load.at] :
        /\ VersionAt(i) = v
        /\ load.pc \in {"read", "built"} =>
            \A k \in Kinds \ load.todo : ListsAt(i)[k] <= load.lists[k]

\* The lists read so far are no newer than what the load's worker sees.
ReadUntil(load) ==
    load.pc \in {"read", "built"} =>
        \A k \in Kinds \ load.todo : load.lists[k] <= ListsAt(seen[load.at])[k]

\* The steps a load takes in each mode.
OnPath(load) ==
    /\ load.pc = "etag" => mode \in {"reval", "hash", "unknown"}
    /\ load.pc = "wait" => mode = "frozen"
    /\ load.pc \in {"find", "commit", "serve"} => mode = "published"
    /\ load.pc = "built" => load.todo = {}

\* A load's own etag is that of a catalog at a version it has, and not the
\* one the client sent.
EtagStands(load) ==
    load.etag # NoEtag =>
        /\ load.etag.kind = "generation" /\ mode = "reval"
        /\ load.etag # load.ifNoneMatch
        /\ load.pc \in {"read", "built"}
        /\ ReadSince(load, load.etag.version)

\* The version the load was answered with.
LabelStands(load) ==
    load.pc # "version" =>
        /\ load.label = 0 <=> mode = "unknown"
        /\ load.label # 0 => ReadSince(load, load.label)
        /\ load.pc \in {"commit", "serve"} => IsVersion(load.lists, load.label)

\* A load of a client that holds h.
LoadStands(load, h) ==
    load.pc \notin {"idle", "fallback"} =>
        /\ load.at \in Workers /\ load.ifNoneMatch = Etag(h)
        /\ OnPath(load) /\ ReadUntil(load)
        /\ EtagStands(load) /\ LabelStands(load)

\* What the version and the etag of a snapshot say of it.
SnapshotStands(h) ==
    h # NoSnapshot =>
        /\ mode = "unknown" => h.version = 0
        /\ h.version # 0 => Reflects(h.lists, h.version)
        /\ h.etag.kind = "generation" => mode = "reval" /\ Reflects(h.lists, h.etag.version)
        /\ h.etag.kind = "hash" =>
            /\ mode \notin {"reval", "unknown"}
            /\ h.etag = Digest(h.version, h.lists)
        /\ h.etag.kind = "none" => h.etag = NoEtag

\* The loads and snapshots, whatever a worker's cache holds.
LoadsStand == \A c \in Clients : LoadStands(call[c], held[c]) /\ SnapshotStands(held[c])

\* A worker's first build stays its only one, and cached, unless one failed.
OneBuild ==
    \A w \in Workers : (\A b \in DOMAIN builds[w] : builds[w][b] # "failed") =>
        /\ Len(builds[w]) <= 1
        /\ Len(builds[w]) = 1 => cache[w] = 1

\* A load of a frozen catalog waits for a build there is, or makes one that no
\* other load makes.
Building(c) == mode = "frozen" /\ call[c].pc \in {"read", "built"}
BuildsOwned ==
    /\ \A c \in Clients :
        /\ mode = "frozen" /\ call[c].pc = "wait" =>
            call[c].at \in Workers /\ call[c].build \in DOMAIN builds[call[c].at]
        /\ Building(c) =>
            /\ call[c].at \in Workers /\ call[c].build \in DOMAIN builds[call[c].at]
            /\ builds[call[c].at][call[c].build] = "running"
    /\ \A c, d \in Clients :
        c # d /\ Building(c) /\ Building(d) /\ call[c].at = call[d].at =>
            call[c].build # call[d].build

BuildsStand == OneBuild /\ BuildsOwned

IInv == TypeOK /\ LogStands /\ LoadsStand /\ PublishedIsThatVersion /\ BuildsStand

-----------------------------------------------------------------------------
(* Versions and lists along the log                                        *)

LEMMA CountBound ==
    ASSUME NEW i \in Nat, NEW S \in SUBSET (1..i)
    PROVE  IsFiniteSet(S) /\ Cardinality(S) \in 0..i
<1>1. IsFiniteSet(1..i) /\ Cardinality(1..i) = i
  BY FS_Interval
<1>2. IsFiniteSet(S) /\ Cardinality(S) <= i
  BY <1>1, FS_Subset
<1> QED  BY <1>2, FS_CardinalityType

LEMMA CountMonotone ==
    ASSUME NEW i \in Nat, NEW S \in SUBSET (1..i), NEW T \in SUBSET S
    PROVE  Cardinality(T) <= Cardinality(S)
BY CountBound, FS_Subset

LEMMA VersionRange ==
    ASSUME NEW i \in Nat
    PROVE  VersionAt(i) \in 1..(i + 1)
<1>1. Cardinality({j \in 1..i : log[j] \notin Silent}) \in 0..i
  BY CountBound
<1> QED  BY <1>1 DEF VersionAt

LEMMA ListsRange ==
    ASSUME NEW i \in Nat
    PROVE  ListsAt(i) \in [Kinds -> 0..i]
<1>1. \A k \in Kinds : Cardinality({j \in 1..i : log[j] = k}) \in 0..i
  BY CountBound
<1> QED  BY <1>1 DEF ListsAt

\* Later versions have larger numbers, and their lists are no shorter.
LEMMA Monotone ==
    ASSUME NEW i \in Nat, NEW j \in Nat, i <= j
    PROVE  /\ VersionAt(i) <= VersionAt(j)
           /\ \A k \in Kinds : ListsAt(i)[k] <= ListsAt(j)[k]
<1>1. VersionAt(i) <= VersionAt(j)
  <2> DEFINE S(m) == {n \in 1..m : log[n] \notin Silent}
  <2>1. S(j) \in SUBSET (1..j) /\ S(i) \in SUBSET S(j)
    OBVIOUS
  <2>2. Cardinality(S(i)) <= Cardinality(S(j))
    BY <2>1, CountMonotone
  <2>3. Cardinality(S(i)) \in Nat /\ Cardinality(S(j)) \in Nat
    BY CountBound
  <2> QED  BY <2>2, <2>3 DEF VersionAt
<1>2. ASSUME NEW k \in Kinds PROVE ListsAt(i)[k] <= ListsAt(j)[k]
  <2> DEFINE S(m) == {n \in 1..m : log[n] = k}
  <2>1. S(j) \in SUBSET (1..j) /\ S(i) \in SUBSET S(j)
    OBVIOUS
  <2>2. Cardinality(S(i)) <= Cardinality(S(j))
    BY <2>1, CountMonotone
  <2> QED  BY <2>2 DEF ListsAt
<1> QED  BY <1>1, <1>2

\* A change does not alter what was before it.
LEMMA LogGrows ==
    ASSUME TypeOK, NEW k \in Kinds, log' = Append(log, k)
    PROVE  \A i \in 0..Len(log) : VersionAt(i)' = VersionAt(i) /\ ListsAt(i)' = ListsAt(i)
<1> SUFFICES ASSUME NEW i \in 0..Len(log)
             PROVE  VersionAt(i)' = VersionAt(i) /\ ListsAt(i)' = ListsAt(i)
  OBVIOUS
<1>1. \A j \in 1..i : log'[j] = log[j]
  BY DEF TypeOK
<1>2. {j \in 1..i : log'[j] \notin Silent} = {j \in 1..i : log[j] \notin Silent}
  BY <1>1
<1>3. \A q \in Kinds : {j \in 1..i : log'[j] = q} = {j \in 1..i : log[j] = q}
  BY <1>1
<1> QED  BY <1>2, <1>3 DEF VersionAt, ListsAt

-----------------------------------------------------------------------------
(* What the lists of an answer reflect                                     *)

LEMMA ReflectsEarlier ==
    ASSUME TypeOK, NEW lists \in Lists, NEW u, Reflects(lists, u),
           NEW i \in 0..Len(log), VersionAt(i) <= u
    PROVE  Reflects(lists, VersionAt(i))
<1>1. PICK j \in 0..Len(log) : VersionAt(j) = u /\ \A k \in Kinds : ListsAt(j)[k] <= lists[k]
  BY DEF Reflects
<1>2. i \in Nat /\ j \in Nat /\ VersionAt(i) \in Nat /\ VersionAt(j) \in Nat
  <2>1. i \in Nat /\ j \in Nat
    BY DEF TypeOK
  <2>2. VersionAt(i) \in 1..(i + 1) /\ VersionAt(j) \in 1..(j + 1)
    BY <2>1, VersionRange
  <2> QED  BY <2>1, <2>2
<1>3. CASE VersionAt(i) = u
  BY <1>1, <1>3 DEF Reflects
<1>4. CASE VersionAt(i) # u
  <2>1. i <= j
    <3>1. ~ (j <= i)
      BY <1>1, <1>2, <1>4, Monotone
    <3> QED  BY <1>2, <3>1
  <2>2. \A k \in Kinds : ListsAt(i)[k] <= ListsAt(j)[k]
    BY <1>2, <2>1, Monotone
  <2>3. ASSUME NEW k \in Kinds PROVE ListsAt(i)[k] <= lists[k]
    <3>1. ListsAt(i)[k] \in Int /\ ListsAt(j)[k] \in Int
      BY <1>2, ListsRange
    <3> QED  BY <1>1, <2>2, <3>1 DEF Lists
  <2> QED  BY <2>3 DEF Reflects
<1> QED  BY <1>3, <1>4

LEMMA IsVersionReflects ==
    ASSUME NEW lists, NEW v, IsVersion(lists, v)
    PROVE  Reflects(lists, v)
BY DEF IsVersion, Reflects

LEMMA BuiltReflects ==
    ASSUME TypeOK, LogStands, NEW load \in LoadState, load.at \in Workers,
           load.pc = "built", OnPath(load), NEW v, ReadSince(load, v)
    PROVE  Reflects(load.lists, v)
<1>1. PICK i \in 0..seen[load.at] :
        VersionAt(i) = v /\ \A k \in Kinds \ load.todo : ListsAt(i)[k] <= load.lists[k]
  BY DEF ReadSince
<1>2. i \in 0..Len(log)
  BY DEF TypeOK, LogStands
<1> QED  BY <1>1, <1>2 DEF OnPath, Reflects

-----------------------------------------------------------------------------
(* Types                                                                   *)

LEMMA SeenRange ==
    ASSUME TypeOK, NEW w \in Workers
    PROVE  /\ VersionAt(seen[w]) \in Versions /\ ListsAt(seen[w]) \in Lists
           /\ Version(w) \in Versions \cup {0}
           /\ Version(w) = 0 <=> mode = "unknown"
<1>1. seen[w] \in 0..MaxChanges /\ MaxChanges \in Nat
  BY BoundsAssumption DEF TypeOK
<1>2. VersionAt(seen[w]) \in 1..(seen[w] + 1)
  BY <1>1, VersionRange
<1>3. ListsAt(seen[w]) \in [Kinds -> 0..seen[w]]
  BY <1>1, ListsRange
<1>4. ListsAt(seen[w]) \in Lists
  BY <1>1, <1>3 DEF Lists
<1> QED  BY <1>1, <1>2, <1>4 DEF Versions, Version

LEMMA EtagTypes ==
    /\ Nothing \in Lists /\ NoEtag \in Etags
    /\ \A v \in Versions : Generation(v) \in Etags
    /\ \A v \in Versions \cup {0}, lists \in Lists : Digest(v, lists) \in Etags
<1>1. Nothing \in Lists
  BY BoundsAssumption DEF Nothing, Lists
<1> QED  BY <1>1 DEF NoEtag, Generation, Digest, Etags

LEMMA LoadTypes ==
    ASSUME TypeOK
    PROVE  /\ \A w \in Workers \cup {NoWorker}, a \in {1, 2}, e \in Etags :
                Request(w, a, e) \in LoadState
           /\ Idle \in LoadState /\ FallBack \in LoadState
           /\ \A load \in LoadState : StartReading(load) \in LoadState
           /\ \A load \in LoadState, w \in Workers, k \in Kinds :
                Read(load, w, k) \in LoadState
<1>1. \A w \in Workers \cup {NoWorker}, a \in {1, 2}, e \in Etags :
        Request(w, a, e) \in LoadState
  BY EtagTypes DEF Request, LoadState
<1>2. Idle \in LoadState
  BY <1>1, EtagTypes DEF Idle, LoadState
<1>3. FallBack \in LoadState
  BY <1>2 DEF FallBack, LoadState
<1>4. \A load \in LoadState : StartReading(load) \in LoadState
  BY EtagTypes DEF StartReading, LoadState
<1>5. ASSUME NEW load \in LoadState, NEW w \in Workers, NEW k \in Kinds
      PROVE  Read(load, w, k) \in LoadState
  <2>1. ListsAt(seen[w]) \in Lists
    BY SeenRange
  <2>2. load.lists \in Lists /\ load.todo \in SUBSET Kinds
    BY DEF LoadState
  <2>3. [load.lists EXCEPT ![k] = ListsAt(seen[w])[k]] \in Lists
    BY <2>1, <2>2 DEF Lists
  <2> QED  BY <2>2, <2>3 DEF Read, LoadState
<1> QED  BY <1>1, <1>2, <1>3, <1>4, <1>5

-----------------------------------------------------------------------------
(* The turns of a client's load                                            *)

\* The snapshot h that replaces old reaches the version old was known to have.
Kept(old, h) ==
    Known(old) # 0 /\ h.source = "catalog_contents" => Reflects(h.lists, old.version)

\* A step takes client c's load to "load" and gives it the snapshot h.
Turn(c, load, h) ==
    /\ load \in LoadState /\ h \in Snapshots \cup {NoSnapshot}
    /\ call' = [call EXCEPT ![c] = load] /\ held' = [held EXCEPT ![c] = h]
    /\ LoadStands(load, h) /\ SnapshotStands(h)
    /\ h # held[c] => h # NoSnapshot /\ Kept(held[c], h)

\* A load between or before its requests.
LEMMA RestStands ==
    ASSUME NEW load, NEW h, load.pc \in {"idle", "fallback"}
    PROVE  LoadStands(load, h)
BY DEF LoadStands

LEMMA RequestStands ==
    ASSUME NEW w \in Workers, NEW a, NEW h
    PROVE  LoadStands(Request(w, a, Etag(h)), h)
BY DEF Request, LoadStands, OnPath, ReadUntil, EtagStands, LabelStands

\* Steps that leave the client's snapshot alone.
LEMMA LoadTurn ==
    ASSUME TypeOK, LoadsStand, NEW c \in Clients, NEW load \in LoadState,
           call' = [call EXCEPT ![c] = load], UNCHANGED held, LoadStands(load, held[c])
    PROVE  Turn(c, load, held[c])
BY DEF TypeOK, LoadsStand, Turn

\* An answer whose version and etag are true of its lists.
AnswerTrue(c, v, etag, lists) ==
    /\ v \in Versions \cup {0} /\ etag \in Etags /\ lists \in Lists
    /\ v = 0 <=> mode = "unknown"
    /\ v # 0 => Reflects(lists, v)
    /\ etag.kind = "generation" =>
        mode = "reval" /\ Reflects(lists, etag.version) /\ etag # call[c].ifNoneMatch
    /\ etag.kind = "hash" => mode \notin {"reval", "unknown"} /\ etag = Digest(v, lists)
    /\ etag.kind = "none" => etag = NoEtag

LEMMA AnswerTurns ==
    ASSUME TypeOK, LoadsStand, NEW c \in Clients, call[c].pc \notin {"idle", "fallback"},
           NEW v, NEW etag, NEW lists, AnswerTrue(c, v, etag, lists),
           Answered(c, v, etag, lists)
    PROVE  \E load, h : Turn(c, load, h) /\ load.pc \in {"idle", "fallback", "version"}
<1> DEFINE old == held[c]
<1>1. /\ old \in Snapshots \cup {NoSnapshot} /\ SnapshotStands(old)
      /\ call[c] \in LoadState /\ LoadStands(call[c], old)
      /\ held = [held EXCEPT ![c] = old]
  BY DEF TypeOK, LoadsStand
<1>2. call[c].ifNoneMatch = Etag(old)
  BY <1>1 DEF LoadStands
<1>3. Idle.pc = "idle" /\ FallBack.pc = "fallback"
  BY DEF Idle, FallBack, Request
<1>4. CASE etag # NoEtag /\ etag = call[c].ifNoneMatch
  <2>1. Revalidated(c, v, etag)
    BY <1>4 DEF Answered
  <2>2. old \in Snapshots /\ etag = old.etag
    BY <1>1, <1>2, <1>4 DEF Etag
  <2>3. etag.kind = "hash"
    BY <1>4 DEF AnswerTrue, Etags
  <2>4. old.etag = Digest(old.version, old.lists) /\ etag = Digest(v, lists)
    BY <1>1, <2>2, <2>3, AbsenceAssumption DEF SnapshotStands, AnswerTrue
  <2>5. v = old.version
    BY <2>2, <2>4 DEF Digest
  <2>6. [old EXCEPT !.version = IF v # 0 THEN v ELSE @, !.etag = etag] = old
    BY <2>2, <2>5 DEF Snapshots
  <2>7. held' = [held EXCEPT ![c] = old] /\ call' = [call EXCEPT ![c] = Idle]
    BY <2>1, <2>6 DEF Revalidated, TypeOK
  <2>8. Turn(c, Idle, old)
    BY <1>1, <1>3, <2>7, RestStands, LoadTypes DEF Turn
  <2> QED  BY <1>3, <2>8
<1>5. CASE ~ (etag # NoEtag /\ etag = call[c].ifNoneMatch) /\ ~ Older(v, Known(old))
  <2> DEFINE h == [version |-> v, etag |-> etag, lists |-> lists, source |-> "catalog_contents"]
  <2>1. held' = [held EXCEPT ![c] = h] /\ call' = [call EXCEPT ![c] = Idle]
    BY <1>5 DEF Answered, Received
  <2>2. h \in Snapshots
    BY DEF AnswerTrue, Snapshots
  <2>3. SnapshotStands(h)
    BY DEF AnswerTrue, SnapshotStands
  <2>4. Kept(old, h)
    <3> SUFFICES ASSUME Known(old) # 0 PROVE Reflects(lists, old.version)
      BY DEF Kept
    <3>1. old \in Snapshots /\ Known(old) = old.version /\ old # NoSnapshot
      BY <1>1 DEF Known
    <3>2. mode # "unknown" /\ Reflects(old.lists, old.version)
      BY <1>1, <3>1 DEF SnapshotStands
    <3>3. v # 0 /\ Reflects(lists, v) /\ lists \in Lists /\ v \in Nat
      BY <3>2, BoundsAssumption DEF AnswerTrue, Versions
    <3>4. PICK i \in 0..Len(log) : VersionAt(i) = old.version
      BY <3>2 DEF Reflects
    <3>5. old.version <= v
      BY <1>5, <3>1, <3>3, BoundsAssumption DEF Older, Snapshots, Versions
    <3> QED  BY <3>3, <3>4, <3>5, ReflectsEarlier
  <2>5. h # NoSnapshot
    BY <2>2, AbsenceAssumption
  <2>6. Turn(c, Idle, h)
    BY <1>3, <2>1, <2>2, <2>3, <2>4, <2>5, RestStands, LoadTypes DEF Turn
  <2> QED  BY <1>3, <2>6
<1>6. CASE ~ (etag # NoEtag /\ etag = call[c].ifNoneMatch) /\ Older(v, Known(old))
  <2>1. UNCHANGED held
    BY <1>6 DEF Answered, Received
  <2>2. CASE MayRetry(call[c].attempt)
    <3>1. PICK w \in Workers : call' = [call EXCEPT ![c] =
                    Request(w, call[c].attempt + 1, call[c].ifNoneMatch)]
      BY <1>6, <2>2 DEF Answered, Received
    <3> DEFINE load == Request(w, call[c].attempt + 1, call[c].ifNoneMatch)
    <3>2. call[c].attempt + 1 \in {1, 2} /\ call[c].ifNoneMatch \in Etags
      BY <1>1, <2>2 DEF MayRetry, LoadState
    <3>3. load \in LoadState
      BY <3>2, LoadTypes
    <3>4. LoadStands(load, old)
      BY <1>2, RequestStands
    <3>5. Turn(c, load, old)
      BY <2>1, <3>1, <3>3, <3>4, LoadTurn
    <3>6. load.pc = "version"
      BY DEF Request
    <3> QED  BY <3>5, <3>6
  <2>3. CASE ~ MayRetry(call[c].attempt)
    <3>1. call' = [call EXCEPT ![c] = FallBack]
      BY <1>6, <2>3 DEF Answered, Received
    <3>2. FallBack \in LoadState /\ LoadStands(FallBack, old)
      BY <1>3, RestStands, LoadTypes
    <3>3. Turn(c, FallBack, old)
      BY <2>1, <3>1, <3>2, LoadTurn
    <3> QED  BY <1>3, <3>3
  <2> QED  BY <2>2, <2>3
<1> QED  BY <1>4, <1>5, <1>6

-----------------------------------------------------------------------------
(* What a load knows as it goes on                                         *)

\* A load that stands, spelt out.
LEMMA BusyLoad ==
    ASSUME TypeOK, LoadsStand, NEW c \in Clients, call[c].pc \notin {"idle", "fallback"}
    PROVE  /\ call[c] \in LoadState /\ call[c].at \in Workers
           /\ call[c].ifNoneMatch = Etag(held[c])
           /\ OnPath(call[c]) /\ ReadUntil(call[c])
           /\ EtagStands(call[c]) /\ LabelStands(call[c])
           /\ call[c].label \in Versions \cup {0}
BY DEF TypeOK, LoadsStand, LoadStands, LoadState

\* Reading starts, or starts again.
LEMMA StartStands ==
    ASSUME NEW load \in LoadState, NEW h, load.at \in Workers, load.ifNoneMatch = Etag(h),
           load.label = 0 <=> mode = "unknown",
           load.label # 0 => \E i \in 0..seen[load.at] : VersionAt(i) = load.label,
           load.etag # NoEtag =>
                /\ load.etag.kind = "generation" /\ mode = "reval"
                /\ load.etag # load.ifNoneMatch
                /\ \E i \in 0..seen[load.at] : VersionAt(i) = load.etag.version
    PROVE  LoadStands(StartReading(load), h)
<1> DEFINE l == StartReading(load)
<1>1. /\ l.at = load.at /\ l.ifNoneMatch = load.ifNoneMatch /\ l.label = load.label
      /\ l.etag = load.etag /\ l.todo = Kinds /\ l.pc = "read"
  BY DEF StartReading, LoadState
<1>2. \A v : (\E i \in 0..seen[load.at] : VersionAt(i) = v) => ReadSince(l, v)
  BY <1>1 DEF ReadSince
<1> HIDE DEF l
<1>3. OnPath(l) /\ ReadUntil(l)
  BY <1>1 DEF OnPath, ReadUntil
<1>4. EtagStands(l)
  BY <1>1, <1>2 DEF EtagStands
<1>5. LabelStands(l)
  BY <1>1, <1>2 DEF LabelStands
<1> QED  BY <1>1, <1>3, <1>4, <1>5 DEF LoadStands, l

\* The same with more fields set: LoadStands of it looks at these only.
LEMMA SameStands ==
    ASSUME NEW l, NEW m, NEW h, LoadStands(l, h),
           m.pc = l.pc, m.at = l.at, m.ifNoneMatch = l.ifNoneMatch, m.label = l.label,
           m.etag = l.etag, m.lists = l.lists, m.todo = l.todo
    PROVE  LoadStands(m, h)
BY DEF LoadStands, OnPath, ReadUntil, EtagStands, LabelStands, ReadSince, IsVersion

\* One more list is read.
LEMMA ReadStands ==
    ASSUME TypeOK, LoadsStand, NEW c \in Clients, NEW k \in call[c].todo, call[c].pc = "read",
           NEW l, l = [Read(call[c], call[c].at, k) EXCEPT
                            !.pc = IF call[c].todo = {k} THEN "built" ELSE "read"]
    PROVE  l \in LoadState /\ LoadStands(l, held[c])
<1> DEFINE load == call[c]
           n == seen[load.at]
<1>1. /\ load \in LoadState /\ load.at \in Workers /\ load.ifNoneMatch = Etag(held[c])
      /\ ReadUntil(load) /\ EtagStands(load) /\ LabelStands(load)
  BY BusyLoad
<1>2. load.todo \in SUBSET Kinds /\ k \in Kinds /\ load.lists \in Lists
  BY <1>1 DEF LoadState
<1>3. Read(load, load.at, k) \in LoadState
  BY <1>1, <1>2, LoadTypes
<1>4. l \in LoadState
  BY <1>3 DEF LoadState
<1>5. /\ l.pc \in {"read", "built"}
      /\ l.pc = "built" => l.todo = {}
      /\ l.at = load.at /\ l.ifNoneMatch = load.ifNoneMatch /\ l.label = load.label
      /\ l.etag = load.etag /\ l.todo = load.todo \ {k}
      /\ l.lists = [load.lists EXCEPT ![k] = ListsAt(n)[k]]
  BY <1>1 DEF Read, LoadState
<1>6. n \in Nat /\ ListsAt(n) \in [Kinds -> 0..n]
  BY <1>1, ListsRange DEF TypeOK
<1>7. ReadUntil(l)
  BY <1>1, <1>2, <1>5, <1>6 DEF ReadUntil, Lists
<1>8. ASSUME NEW v, ReadSince(load, v) PROVE ReadSince(l, v)
  <2>1. PICK i \in 0..n : VersionAt(i) = v
                           /\ \A q \in Kinds \ load.todo : ListsAt(i)[q] <= load.lists[q]
    BY <1>8 DEF ReadSince
  <2>2. \A q \in Kinds : ListsAt(i)[q] <= ListsAt(n)[q]
    BY <1>6, <2>1, Monotone
  <2>3. \A q \in Kinds \ l.todo : ListsAt(i)[q] <= l.lists[q]
    BY <1>2, <1>5, <2>1, <2>2 DEF Lists
  <2> QED  BY <1>5, <2>1, <2>3 DEF ReadSince
<1>9. OnPath(l)
  BY <1>5 DEF OnPath
<1>10. EtagStands(l)
  BY <1>1, <1>5, <1>8 DEF EtagStands
<1>11. LabelStands(l)
  BY <1>1, <1>5, <1>8 DEF LabelStands
<1> QED  BY <1>1, <1>4, <1>5, <1>7, <1>9, <1>10, <1>11 DEF LoadStands

-----------------------------------------------------------------------------
(* Every action of a client or its worker is such a turn                   *)

LEMMA EtagType ==
    ASSUME TypeOK, NEW c \in Clients
    PROVE  Etag(held[c]) \in Etags
BY EtagTypes DEF TypeOK, Etag, Snapshots

LEMMA LoadTurns ==
    ASSUME IInv, NEW c \in Clients, NEW w \in Workers, Load(c, w)
    PROVE  \E load, h : Turn(c, load, h)
<1> DEFINE l == Request(w, 1, Etag(held[c]))
<1>1. l \in LoadState /\ LoadStands(l, held[c])
  BY LoadTypes, EtagType, RequestStands DEF IInv
<1>2. Turn(c, l, held[c])
  <2> HIDE DEF l
  <2>1. call' = [call EXCEPT ![c] = l] /\ UNCHANGED held
    BY DEF Load, l
  <2> QED  BY <1>1, <2>1, LoadTurn DEF IInv
<1> QED  BY <1>2

LEMMA PerSchemaTurns ==
    ASSUME IInv, NEW c \in Clients,
           \/ \E w \in Workers, k \in Kinds : ReadPerSchema(c, w, k)
           \/ AdoptPerSchema(c)
    PROVE  \E load, h : Turn(c, load, h)
<1>1. CASE \E w \in Workers, k \in Kinds : ReadPerSchema(c, w, k)
  <2>1. PICK w \in Workers, k \in Kinds : ReadPerSchema(c, w, k)
    BY <1>1
  <2> DEFINE l == Read(call[c], w, k)
  <2>2. call[c] \in LoadState /\ call[c].pc = "fallback"
    BY <2>1 DEF IInv, TypeOK, ReadPerSchema
  <2>3. l \in LoadState /\ l.pc = "fallback"
    BY <2>2, LoadTypes DEF IInv, Read, LoadState
  <2>4. call' = [call EXCEPT ![c] = l] /\ UNCHANGED held
    BY <2>1 DEF ReadPerSchema
  <2> HIDE DEF l
  <2>5. LoadStands(l, held[c])
    BY <2>3, RestStands
  <2> QED  BY <2>3, <2>4, <2>5, LoadTurn DEF IInv
<1>2. CASE AdoptPerSchema(c)
  <2> DEFINE h == [version |-> 0, etag |-> NoEtag, lists |-> call[c].lists, source |-> "per_schema"]
  <2>1. h \in Snapshots /\ h # NoSnapshot
    BY EtagTypes, AbsenceAssumption DEF IInv, TypeOK, LoadState, Snapshots
  <2>2. SnapshotStands(h) /\ Kept(held[c], h)
    BY DEF SnapshotStands, Kept, NoEtag
  <2>3. call' = [call EXCEPT ![c] = Idle] /\ held' = [held EXCEPT ![c] = h]
    BY <1>2 DEF AdoptPerSchema
  <2>4. Idle \in LoadState /\ LoadStands(Idle, h)
    <3>1. Idle.pc = "idle"
      BY DEF Idle, Request
    <3> QED  BY <3>1, LoadTypes, RestStands DEF IInv
  <2> HIDE DEF h
  <2> QED  BY <2>1, <2>2, <2>3, <2>4 DEF Turn
<1> QED  BY <1>1, <1>2

LEMMA ReadVersionTurns ==
    ASSUME IInv, NEW c \in Clients, ReadVersion(c)
    PROVE  \E load, h : Turn(c, load, h)
<1> DEFINE w == call[c].at
           l == [call[c] EXCEPT !.label = Version(w)]
<1>1. /\ call[c].pc = "version" /\ call[c] \in LoadState /\ w \in Workers
      /\ call[c].ifNoneMatch = Etag(held[c]) /\ EtagStands(call[c])
  BY BusyLoad DEF IInv, ReadVersion
<1>2. Version(w) \in Versions \cup {0} /\ (Version(w) = 0 <=> mode = "unknown")
  BY <1>1, SeenRange DEF IInv
<1>3. Version(w) # 0 => \E i \in 0..seen[w] : VersionAt(i) = Version(w)
  BY <1>1 DEF IInv, TypeOK, Version
<1>4. l \in LoadState /\ l.at = w /\ l.ifNoneMatch = Etag(held[c]) /\ l.label = Version(w)
  BY <1>1, <1>2 DEF LoadState
<1>5. l.etag = NoEtag
  BY <1>1, <1>4 DEF EtagStands, LoadState
<1>6. \A pc \in {"find", "etag", "wait"}, b \in Nat :
        [l EXCEPT !.pc = pc, !.build = b] \in LoadState
  BY <1>4 DEF LoadState
<1>7. LoadStands(StartReading(l), held[c])
  BY <1>1, <1>2, <1>3, <1>4, <1>5, StartStands
<1>8. ASSUME NEW m \in LoadState, m.pc \in {"find", "etag", "wait"}, OnPath(m),
             m.at = w, m.ifNoneMatch = l.ifNoneMatch, m.label = l.label, m.etag = NoEtag
      PROVE  LoadStands(m, held[c])
  <2>1. ReadUntil(m) /\ EtagStands(m)
    BY <1>8 DEF ReadUntil, EtagStands
  <2>2. LabelStands(m)
    <3>1. m.label # 0 => ReadSince(m, m.label)
      BY <1>3, <1>4, <1>8 DEF ReadSince
    <3> QED  BY <1>2, <1>4, <1>8, <3>1 DEF LabelStands
  <2> QED  BY <1>1, <1>4, <1>8, <2>1, <2>2 DEF LoadStands
<1>9. \E m \in LoadState : call' = [call EXCEPT ![c] = m] /\ LoadStands(m, held[c])
  <2>1. CASE mode = "published"
    <3> DEFINE m == [l EXCEPT !.pc = "find"]
    <3>1. call' = [call EXCEPT ![c] = m]
      BY <2>1 DEF ReadVersion
    <3>2. m \in LoadState /\ OnPath(m)
      BY <1>4, <2>1 DEF LoadState, OnPath
    <3> QED  BY <1>4, <1>5, <1>8, <3>1, <3>2 DEF LoadState
  <2>2. CASE mode \in {"reval", "hash", "unknown"}
    <3> DEFINE m == [l EXCEPT !.pc = "etag"]
    <3>1. call' = [call EXCEPT ![c] = m]
      BY <2>2 DEF ReadVersion
    <3>2. m \in LoadState /\ OnPath(m)
      BY <1>4, <2>2 DEF LoadState, OnPath
    <3> QED  BY <1>4, <1>5, <1>8, <3>1, <3>2 DEF LoadState
  <2>3. CASE mode = "frozen" /\ Cached(w) # 0
    <3> DEFINE m == [l EXCEPT !.pc = "wait", !.build = Cached(w)]
    <3>1. call' = [call EXCEPT ![c] = m]
      BY <2>3 DEF ReadVersion
    <3>2. Cached(w) \in Nat
      <4>1. builds[w] \in Seq({"running", "ok", "failed"}) /\ cache[w] \in {0} \cup DOMAIN builds[w]
        BY <1>1 DEF IInv, TypeOK
      <4> QED  BY <4>1 DEF Cached
    <3>3. m \in LoadState /\ OnPath(m)
      BY <1>4, <2>3, <3>2 DEF LoadState, OnPath
    <3> QED  BY <1>4, <1>5, <1>8, <3>1, <3>3 DEF LoadState
  <2>4. CASE mode = "frozen" /\ Cached(w) = 0
    <3> DEFINE m == [StartReading(l) EXCEPT !.build = Len(builds[w]) + 1]
    <3>1. call' = [call EXCEPT ![c] = m]
      BY <1>4, <2>4 DEF ReadVersion, StartBuild
    <3>2. Len(builds[w]) + 1 \in Nat
      BY <1>1 DEF IInv, TypeOK
    <3>3. StartReading(l) \in LoadState
      BY <1>4, LoadTypes DEF IInv
    <3>4. m \in LoadState
      BY <3>2, <3>3 DEF LoadState
    <3>5. LoadStands(m, held[c])
      BY <1>7, <3>3, SameStands DEF LoadState
    <3> QED  BY <3>1, <3>4, <3>5
  <2> QED  BY <2>1, <2>2, <2>3, <2>4 DEF ReadVersion
<1>10. UNCHANGED held
  BY DEF ReadVersion
<1> QED  BY <1>9, <1>10, LoadTurn DEF IInv

LEMMA ReadEtagTurns ==
    ASSUME IInv, NEW c \in Clients, ReadEtag(c)
    PROVE  \E load, h : Turn(c, load, h)
<1> DEFINE load == call[c]
           old == held[c]
           n == seen[load.at]
           etag == IF mode = "reval" THEN Generation(VersionAt(n)) ELSE NoEtag
<1>1. /\ load.pc = "etag" /\ load \in LoadState /\ load.at \in Workers
      /\ load.ifNoneMatch = Etag(old) /\ LabelStands(load)
  BY BusyLoad DEF IInv, ReadEtag
<1>2. /\ load.label \in Versions \cup {0}
      /\ load.label = 0 <=> mode = "unknown"
      /\ load.label # 0 => \E i \in 0..n : VersionAt(i) = load.label
  BY <1>1 DEF LabelStands, ReadSince, LoadState
<1>3. VersionAt(n) \in Versions /\ n \in 0..Len(log)
  BY <1>1, SeenRange DEF IInv, TypeOK, LogStands
<1>4. etag \in Etags
  BY <1>3, EtagTypes
<1>5. CASE etag # NoEtag /\ etag = load.ifNoneMatch
  <2>1. Revalidated(c, load.label, etag)
    BY <1>5 DEF ReadEtag
  <2>2. mode = "reval" /\ etag = Generation(VersionAt(n)) /\ load.label # 0
    BY <1>2, <1>5
  <2>3. old \in Snapshots /\ old.etag = etag /\ old # NoSnapshot /\ SnapshotStands(old)
    BY <1>1, <1>5, AbsenceAssumption DEF IInv, TypeOK, LoadsStand, Etag
  <2>4. Reflects(old.lists, VersionAt(n)) /\ old.lists \in Lists
    BY <2>2, <2>3 DEF SnapshotStands, Generation, Snapshots
  <2>5. PICK i \in 0..n : VersionAt(i) = load.label
    BY <1>2, <2>2
  <2>6. i \in 0..Len(log) /\ VersionAt(i) <= VersionAt(n)
    BY <1>3, <2>5, Monotone DEF IInv, TypeOK
  <2>7. Reflects(old.lists, load.label)
    BY <2>4, <2>5, <2>6, ReflectsEarlier DEF IInv
  <2> DEFINE h == [old EXCEPT !.version = load.label, !.etag = etag]
  <2>8. /\ h \in Snapshots /\ h.version = load.label /\ h.etag = etag /\ h.lists = old.lists
        /\ h.source = old.source
    BY <1>2, <1>4, <2>3 DEF Snapshots
  <2>9. call' = [call EXCEPT ![c] = Idle] /\ held' = [held EXCEPT ![c] = h]
    BY <2>1, <2>2, <2>3 DEF Revalidated, IInv, TypeOK, Snapshots
  <2> HIDE DEF h
  <2>10. etag.kind = "generation" /\ etag.version = VersionAt(n)
    BY <2>2 DEF Generation
  <2>11. SnapshotStands(h)
    BY <2>2, <2>4, <2>7, <2>8, <2>10 DEF SnapshotStands
  <2>12. Kept(old, h)
    BY <2>3, <2>8 DEF Kept, Known, SnapshotStands
  <2>13. Idle \in LoadState /\ Idle.pc = "idle" /\ h # NoSnapshot
    BY <2>8, LoadTypes, AbsenceAssumption DEF IInv, Idle, Request
  <2>14. LoadStands(Idle, h)
    BY <2>13, RestStands
  <2> QED  BY <2>8, <2>9, <2>11, <2>12, <2>13, <2>14 DEF Turn
<1>6. CASE ~ (etag # NoEtag /\ etag = load.ifNoneMatch)
  <2> DEFINE start == [load EXCEPT !.etag = etag]
             l == StartReading(start)
  <2>1. call' = [call EXCEPT ![c] = l] /\ UNCHANGED held
    BY <1>6 DEF ReadEtag
  <2>2. /\ start \in LoadState /\ start.at = load.at /\ start.label = load.label
        /\ start.ifNoneMatch = load.ifNoneMatch /\ start.etag = etag
    BY <1>1, <1>4 DEF LoadState
  <2>3. etag # NoEtag =>
            /\ etag.kind = "generation" /\ mode = "reval" /\ etag # load.ifNoneMatch
            /\ \E i \in 0..n : VersionAt(i) = etag.version
    BY <1>3, <1>6 DEF Generation
  <2>4. l \in LoadState
    BY <2>2, LoadTypes DEF IInv
  <2>5. LoadStands(l, old)
    <3> HIDE DEF start, etag
    <3> QED  BY <1>1, <1>2, <2>2, <2>3, StartStands
  <2> HIDE DEF l
  <2> QED  BY <2>1, <2>4, <2>5, LoadTurn DEF IInv
<1> QED  BY <1>5, <1>6

LEMMA ReadListTurns ==
    ASSUME IInv, NEW c \in Clients, NEW k \in Kinds, ReadList(c, k)
    PROVE  \E load, h : Turn(c, load, h)
<1> DEFINE l == [Read(call[c], call[c].at, k) EXCEPT
                    !.pc = IF call[c].todo = {k} THEN "built" ELSE "read"]
<1>1. call' = [call EXCEPT ![c] = l] /\ UNCHANGED held
  BY DEF ReadList
<1>2. l \in LoadState /\ LoadStands(l, held[c])
  BY ReadStands DEF IInv, ReadList
<1> HIDE DEF l
<1> QED  BY <1>1, <1>2, LoadTurn DEF IInv

\* The answers made of what was built.
LEMMA BuiltAnswerTurns ==
    ASSUME IInv, NEW c \in Clients, AnswerBuilt(c) \/ FinishBuild(c)
    PROVE  \E load, h : Turn(c, load, h) /\ load.pc \in {"idle", "fallback", "version"}
<1> DEFINE load == call[c]
           etag == IF mode \in {"hash", "frozen"} THEN Digest(load.label, load.lists)
                                                 ELSE load.etag
<1>1. /\ load.pc = "built" /\ mode \in {"reval", "hash", "unknown", "frozen"}
      /\ Answered(c, load.label, etag, load.lists)
  BY DEF AnswerBuilt, FinishBuild
<1>2. /\ load \in LoadState /\ load.at \in Workers /\ OnPath(load)
      /\ EtagStands(load) /\ LabelStands(load)
  BY <1>1, BusyLoad DEF IInv
<1>3. load.label \in Versions \cup {0} /\ load.lists \in Lists /\ load.etag \in Etags
  BY <1>2 DEF LoadState
<1>4. etag \in Etags
  BY <1>3, EtagTypes
<1>5. (load.label = 0 <=> mode = "unknown") /\ (load.label # 0 => Reflects(load.lists, load.label))
  BY <1>1, <1>2, BuiltReflects DEF LabelStands, IInv
<1>6. load.etag # NoEtag =>
        /\ load.etag.kind = "generation" /\ mode = "reval" /\ load.etag # load.ifNoneMatch
        /\ Reflects(load.lists, load.etag.version)
  BY <1>1, <1>2, BuiltReflects DEF EtagStands, IInv
<1>7. NoEtag.kind = "none" /\ Digest(load.label, load.lists).kind = "hash"
  BY DEF NoEtag, Digest
<1>8. AnswerTrue(c, load.label, etag, load.lists)
  BY <1>1, <1>3, <1>4, <1>5, <1>6, <1>7 DEF AnswerTrue
<1> HIDE DEF etag
<1> QED  BY <1>1, <1>8, AnswerTurns DEF IInv

\* A frozen catalog has no version but its first, and no lists but empty ones.
LEMMA FrozenAnswer ==
    ASSUME IInv, mode = "frozen", NEW load \in LoadState, load.at \in Workers,
           NEW v, ReadSince(load, v)
    PROVE  Reflects(Nothing, v)
<1>1. log = <<>> /\ seen[load.at] = 0 /\ Len(log) = 0
  BY DEF IInv, TypeOK, LogStands
<1>2. VersionAt(0) = v
  BY <1>1 DEF ReadSince
<1>3. ListsAt(0) \in [Kinds -> 0..0]
  BY ListsRange
<1>4. \A k \in Kinds : ListsAt(0)[k] <= Nothing[k]
  BY <1>3 DEF Nothing
<1> QED  BY <1>1, <1>2, <1>4 DEF Reflects

LEMMA AwaitTurns ==
    ASSUME IInv, NEW c \in Clients, Await(c)
    PROVE  \E load, h : Turn(c, load, h)
<1> DEFINE load == call[c]
           w == load.at
<1>1. /\ load.pc = "wait" /\ load \in LoadState /\ w \in Workers /\ mode = "frozen"
      /\ load.ifNoneMatch = Etag(held[c]) /\ EtagStands(load) /\ LabelStands(load)
  BY BusyLoad DEF IInv, Await, OnPath
<1>2. load.label # 0 /\ ReadSince(load, load.label) /\ load.etag = NoEtag
  BY <1>1 DEF LabelStands, EtagStands
<1>3. CASE builds[w][load.build] = "ok"
  <2> DEFINE etag == Digest(load.label, Nothing)
  <2>1. Answered(c, load.label, etag, Nothing)
    BY <1>3 DEF Await
  <2>2. etag \in Etags /\ load.label \in Versions \cup {0} /\ Nothing \in Lists
    BY <1>1, EtagTypes DEF LoadState
  <2>3. Reflects(Nothing, load.label)
    BY <1>1, <1>2, FrozenAnswer
  <2>4. etag.kind = "hash"
    BY DEF Digest
  <2>5. AnswerTrue(c, load.label, etag, Nothing)
    BY <1>1, <1>2, <2>2, <2>3, <2>4 DEF AnswerTrue
  <2> HIDE DEF etag
  <2> QED  BY <1>1, <2>1, <2>5, AnswerTurns DEF IInv
<1>4. CASE builds[w][load.build] = "failed"
  <2> DEFINE l == [StartReading(load) EXCEPT !.build = Len(builds[w]) + 1]
  <2>1. call' = [call EXCEPT ![c] = l] /\ UNCHANGED held
    BY <1>4 DEF Await, StartBuild
  <2>2. StartReading(load) \in LoadState
    BY <1>1, LoadTypes DEF IInv
  <2>3. Len(builds[w]) + 1 \in Nat
    BY <1>1 DEF IInv, TypeOK
  <2>4. l \in LoadState
    BY <2>2, <2>3 DEF LoadState
  <2>5. LoadStands(StartReading(load), held[c])
    BY <1>1, <1>2, StartStands DEF ReadSince
  <2>6. LoadStands(l, held[c])
    BY <2>2, <2>5, SameStands DEF LoadState
  <2> HIDE DEF l
  <2> QED  BY <2>1, <2>4, <2>6, LoadTurn DEF IInv
<1> QED  BY <1>3, <1>4 DEF Await

LEMMA FailTurns ==
    ASSUME IInv, NEW c \in Clients, call' = [call EXCEPT ![c] = FallBack], UNCHANGED held
    PROVE  Turn(c, FallBack, held[c])
<1>1. FallBack.pc = "fallback"
  BY DEF FallBack, Idle, Request
<1>2. FallBack \in LoadState /\ LoadStands(FallBack, held[c])
  BY <1>1, RestStands, LoadTypes DEF IInv
<1> QED  BY <1>2, LoadTurn DEF IInv

\* A load of published delivery.
LEMMA PublishedLoad ==
    ASSUME IInv, mode = "published", NEW c \in Clients, call[c].pc \notin {"idle", "fallback", "version"}
    PROVE  /\ call[c] \in LoadState /\ call[c].at \in Workers
           /\ call[c].ifNoneMatch = Etag(held[c]) /\ call[c].etag = NoEtag
           /\ call[c].label \in Versions /\ call[c].label # 0
           /\ ReadSince(call[c], call[c].label)
           /\ call[c].pc \in {"commit", "serve"} => IsVersion(call[c].lists, call[c].label)
<1>1. /\ call[c] \in LoadState /\ call[c].at \in Workers
      /\ call[c].ifNoneMatch = Etag(held[c])
      /\ EtagStands(call[c]) /\ LabelStands(call[c]) /\ call[c].label \in Versions \cup {0}
  BY BusyLoad DEF IInv
<1> QED  BY <1>1 DEF EtagStands, LabelStands

LEMMA RebuildTurns ==
    ASSUME IInv, mode = "published", NEW c \in Clients, NEW b \in BOOLEAN,
           call[c].pc \notin {"idle", "fallback", "version"},
           call' = [call EXCEPT ![c] = StartReading([call[c] EXCEPT !.ordinary = b])],
           UNCHANGED held
    PROVE  \E load, h : Turn(c, load, h)
<1> DEFINE start == [call[c] EXCEPT !.ordinary = b]
<1>1. /\ call[c] \in LoadState /\ call[c].at \in Workers
      /\ call[c].ifNoneMatch = Etag(held[c]) /\ call[c].etag = NoEtag
      /\ call[c].label # 0 /\ ReadSince(call[c], call[c].label)
  BY PublishedLoad
<1>2. /\ start \in LoadState /\ start.at = call[c].at /\ start.label = call[c].label
      /\ start.ifNoneMatch = call[c].ifNoneMatch /\ start.etag = NoEtag
  BY <1>1 DEF LoadState
<1> HIDE DEF start
<1>3. \E i \in 0..seen[start.at] : VersionAt(i) = start.label
  BY <1>1, <1>2 DEF ReadSince
<1>4. LoadStands(StartReading(start), held[c])
  BY <1>1, <1>2, <1>3, StartStands
<1>5. StartReading(start) \in LoadState
  BY <1>2, LoadTypes DEF IInv
<1>6. Turn(c, StartReading(start), held[c])
  BY <1>4, <1>5, LoadTurn DEF IInv, start
<1> QED  BY <1>6

\* A load that is given the lists of a publication, or has its own checked.
LEMMA ListedStands ==
    ASSUME IInv, mode = "published", NEW c \in Clients,
           call[c].pc \notin {"idle", "fallback", "version"},
           NEW pc \in {"commit", "serve"}, NEW lists \in Lists,
           IsVersion(lists, call[c].label),
           call' = [call EXCEPT ![c] = [call[c] EXCEPT !.pc = pc, !.lists = lists]],
           UNCHANGED held
    PROVE  \E load, h : Turn(c, load, h)
<1> DEFINE l == [call[c] EXCEPT !.pc = pc, !.lists = lists]
<1>1. /\ call[c] \in LoadState /\ call[c].at \in Workers
      /\ call[c].ifNoneMatch = Etag(held[c]) /\ call[c].etag = NoEtag
      /\ call[c].label # 0 /\ ReadSince(call[c], call[c].label)
  BY PublishedLoad
<1>2. /\ l \in LoadState /\ l.pc = pc /\ l.at = call[c].at /\ l.label = call[c].label
      /\ l.ifNoneMatch = call[c].ifNoneMatch /\ l.etag = NoEtag /\ l.lists = lists
  BY <1>1 DEF LoadState
<1> HIDE DEF l
<1>3. ReadSince(l, l.label)
  BY <1>1, <1>2 DEF ReadSince
<1>4. OnPath(l) /\ ReadUntil(l) /\ EtagStands(l) /\ LabelStands(l)
  BY <1>1, <1>2, <1>3 DEF OnPath, ReadUntil, EtagStands, LabelStands
<1>5. LoadStands(l, held[c])
  BY <1>1, <1>2, <1>4 DEF LoadStands
<1>6. Turn(c, l, held[c])
  BY <1>2, <1>5, LoadTurn DEF IInv, l
<1> QED  BY <1>6

LEMMA FindTurns ==
    ASSUME IInv, NEW c \in Clients, Find(c)
    PROVE  \E load, h : Turn(c, load, h)
<1> DEFINE load == call[c]
           found == published[load.label]
<1>1. load.pc = "find" /\ mode = "published"
  BY BusyLoad DEF IInv, Find, OnPath
<1>2. load \in LoadState /\ load.label \in Versions
  BY <1>1, PublishedLoad
<1>3. CASE found # NoPublication
  <2>1. found \in Lists /\ IsVersion(found, load.label)
    BY <1>2, <1>3 DEF IInv, TypeOK, PublishedIsThatVersion
  <2>2. call' = [call EXCEPT ![c] = [load EXCEPT !.pc = "serve", !.lists = found]]
    BY <1>3 DEF Find
  <2>3. UNCHANGED held
    BY DEF Find
  <2> HIDE DEF found
  <2> QED  BY <1>1, <2>1, <2>2, <2>3, ListedStands
<1>4. CASE found = NoPublication
  <2>1. [load EXCEPT !.ordinary = load.ordinary] = load /\ load.ordinary \in BOOLEAN
    BY <1>2 DEF LoadState
  <2>2. call' = [call EXCEPT ![c] = StartReading([load EXCEPT !.ordinary = load.ordinary])]
    BY <1>4, <2>1 DEF Find
  <2>3. UNCHANGED held
    BY DEF Find
  <2> QED  BY <1>1, <2>1, <2>2, <2>3, RebuildTurns
<1> QED  BY <1>3, <1>4

\* What was built for a publication, and is still current, is that version.
LEMMA BuiltIsVersion ==
    ASSUME IInv, mode = "published", NEW c \in Clients, call[c].pc = "built", Current(call[c])
    PROVE  IsVersion(call[c].lists, call[c].label)
<1> DEFINE load == call[c]
           n == seen[load.at]
<1>1. load \in LoadState /\ load.at \in Workers /\ ReadSince(load, load.label)
  BY PublishedLoad
<1>2. OnPath(load) /\ ReadUntil(load)
  BY BusyLoad DEF IInv
<1>3. load.todo = {} /\ VersionAt(n) = load.label
  BY <1>2 DEF OnPath, Current, Version
<1>4. PICK i \in 0..n : VersionAt(i) = load.label /\ \A k \in Kinds : ListsAt(i)[k] <= load.lists[k]
  BY <1>1, <1>3 DEF ReadSince
<1>5. i \in 0..Len(log) /\ n \in 0..Len(log)
  BY <1>1 DEF IInv, TypeOK, LogStands
<1>6. \A k \in Kinds : load.lists[k] <= ListsAt(n)[k]
  BY <1>2, <1>3 DEF ReadUntil
<1> QED  BY <1>3, <1>4, <1>5, <1>6 DEF IsVersion

\* An answer of published delivery.
LEMMA PublishedAnswer ==
    ASSUME IInv, mode = "published", NEW c \in Clients,
           call[c].pc \notin {"idle", "fallback", "version"},
           IsVersion(call[c].lists, call[c].label),
           Answered(c, call[c].label, Digest(call[c].label, call[c].lists), call[c].lists)
    PROVE  \E load, h : Turn(c, load, h)
<1> DEFINE etag == Digest(call[c].label, call[c].lists)
<1>1. call[c].label \in Versions /\ call[c].label # 0 /\ call[c].lists \in Lists
  BY PublishedLoad DEF LoadState
<1>2. Reflects(call[c].lists, call[c].label)
  BY IsVersionReflects
<1>3. etag \in Etags /\ etag.kind = "hash"
  BY <1>1, EtagTypes DEF Digest
<1>4. AnswerTrue(c, call[c].label, etag, call[c].lists)
  BY <1>1, <1>2, <1>3 DEF AnswerTrue
<1> HIDE DEF etag
<1> QED  BY <1>4, AnswerTurns DEF IInv, etag

LEMMA CheckBuiltTurns ==
    ASSUME IInv, NEW c \in Clients, CheckBuilt(c)
    PROVE  \E load, h : Turn(c, load, h)
<1> DEFINE load == call[c]
<1>1. load.pc = "built" /\ mode = "published" /\ IsVersion(load.lists, load.label)
  BY BuiltIsVersion DEF CheckBuilt
<1>2. CASE load.ordinary
  BY <1>1, <1>2, PublishedAnswer DEF CheckBuilt
<1>3. CASE ~ load.ordinary
  <2>1. load \in LoadState /\ load.lists \in Lists
    BY <1>1, PublishedLoad DEF LoadState
  <2>2. [load EXCEPT !.pc = "commit"] = [load EXCEPT !.pc = "commit", !.lists = load.lists]
    BY <2>1 DEF LoadState
  <2>3. call' = [call EXCEPT ![c] = [load EXCEPT !.pc = "commit"]] /\ UNCHANGED held
    BY <1>3 DEF CheckBuilt, IInv, TypeOK
  <2>4. call' = [call EXCEPT ![c] = [load EXCEPT !.pc = "commit", !.lists = load.lists]]
    BY <2>2, <2>3
  <2> QED  BY <1>1, <2>1, <2>3, <2>4, ListedStands
<1> QED  BY <1>2, <1>3

LEMMA CommitTurns ==
    ASSUME IInv, NEW c \in Clients, Commit(c)
    PROVE  /\ \E load, h : Turn(c, load, h)
           /\ \E lists \in Lists :
                /\ IsVersion(lists, call[c].label)
                /\ published' = [published EXCEPT ![call[c].label] = lists]
<1> DEFINE load == call[c]
           winner == IF published[load.label] = NoPublication THEN load.lists
                                                             ELSE published[load.label]
<1>1. load.pc = "commit" /\ mode = "published"
  BY BusyLoad DEF IInv, Commit, OnPath
<1>2. /\ load \in LoadState /\ load.label \in Versions /\ load.lists \in Lists
      /\ IsVersion(load.lists, load.label)
  BY <1>1, PublishedLoad DEF LoadState
<1>3. winner \in Lists /\ IsVersion(winner, load.label)
  BY <1>2 DEF IInv, TypeOK, PublishedIsThatVersion
<1>4. /\ published' = [published EXCEPT ![load.label] = winner] /\ UNCHANGED held
      /\ call' = [call EXCEPT ![c] = [load EXCEPT !.pc = "serve", !.lists = winner]]
  BY DEF Commit, IInv, TypeOK
<1> HIDE DEF winner
<1>5. \E l, h : Turn(c, l, h)
  BY <1>1, <1>3, <1>4, ListedStands
<1> QED  BY <1>3, <1>4, <1>5

LEMMA ServeTurns ==
    ASSUME IInv, NEW c \in Clients, Serve(c)
    PROVE  \E load, h : Turn(c, load, h)
<1>1. call[c].pc = "serve" /\ mode = "published"
  BY BusyLoad DEF IInv, Serve, OnPath
<1> QED  BY <1>1, PublishedLoad, PublishedAnswer DEF Serve

LEMMA PublicationFailsTurns ==
    ASSUME IInv, NEW c \in Clients, PublicationFails(c)
    PROVE  \E load, h : Turn(c, load, h)
<1>1. mode = "published" /\ call[c].pc \notin {"idle", "fallback", "version"} /\ UNCHANGED held
  BY DEF PublicationFails
<1>2. \/ call' = [call EXCEPT ![c] = StartReading([call[c] EXCEPT !.ordinary = TRUE])]
      \/ call' = [call EXCEPT ![c] = FallBack]
  BY DEF PublicationFails, IInv, TypeOK
<1> QED  BY <1>1, <1>2, RebuildTurns, FailTurns

-----------------------------------------------------------------------------
(* The invariants are kept                                                 *)

\* The steps of client c and of the worker that serves it.
ClientStep(c) ==
    \/ \E w \in Workers : Load(c, w)
    \/ \E w \in Workers, k \in Kinds : ReadPerSchema(c, w, k)
    \/ \E k \in Kinds : ReadList(c, k)
    \/ AdoptPerSchema(c) \/ ReadVersion(c) \/ ReadEtag(c) \/ AnswerBuilt(c)
    \/ FinishBuild(c) \/ Await(c) \/ Fail(c)
    \/ Find(c) \/ CheckBuilt(c) \/ Commit(c) \/ Serve(c) \/ PublicationFails(c)

LEMMA ClientStepTurns ==
    ASSUME IInv, NEW c \in Clients, ClientStep(c)
    PROVE  \E load, h : Turn(c, load, h)
<1>1. ASSUME NEW w \in Workers, Load(c, w) PROVE \E load, h : Turn(c, load, h)
  BY <1>1, LoadTurns
<1>2. ASSUME NEW k \in Kinds, ReadList(c, k) PROVE \E load, h : Turn(c, load, h)
  BY <1>2, ReadListTurns
<1>3. CASE (\E w \in Workers, k \in Kinds : ReadPerSchema(c, w, k)) \/ AdoptPerSchema(c)
  BY <1>3, PerSchemaTurns
<1>4. CASE ReadVersion(c)
  BY <1>4, ReadVersionTurns
<1>5. CASE ReadEtag(c)
  BY <1>5, ReadEtagTurns
<1>6. CASE AnswerBuilt(c) \/ FinishBuild(c)
  BY <1>6, BuiltAnswerTurns
<1>7. CASE Await(c)
  BY <1>7, AwaitTurns
<1>8. CASE Fail(c)
  <2>1. call' = [call EXCEPT ![c] = FallBack] /\ UNCHANGED held
    BY <1>8 DEF Fail
  <2> QED  BY <2>1, FailTurns
<1>9. CASE Find(c)
  BY <1>9, FindTurns
<1>10. CASE CheckBuilt(c)
  BY <1>10, CheckBuiltTurns
<1>11. CASE Commit(c)
  BY <1>11, CommitTurns
<1>12. CASE Serve(c)
  BY <1>12, ServeTurns
<1>13. CASE PublicationFails(c)
  BY <1>13, PublicationFailsTurns
<1> QED  BY <1>1, <1>2, <1>3, <1>4, <1>5, <1>6, <1>7, <1>8, <1>9, <1>10, <1>11, <1>12, <1>13
         DEF ClientStep

LEMMA ClientStepBackend ==
    ASSUME NEW c \in Clients, ClientStep(c)
    PROVE  UNCHANGED backend
BY DEF ClientStep, Load, ReadPerSchema, ReadList, AdoptPerSchema, ReadVersion, ReadEtag,
       AnswerBuilt, FinishBuild, Await, Fail, Find, CheckBuilt, Commit, Serve, PublicationFails

\* While the catalog and the workers' views of it stay, so does what is said
\* of loads and snapshots.
LEMMA LogSame ==
    ASSUME UNCHANGED backend
    PROVE  /\ \A i : VersionAt(i)' = VersionAt(i) /\ ListsAt(i)' = ListsAt(i)
           /\ mode' = mode /\ seen' = seen /\ Len(log)' = Len(log)
BY DEF backend, VersionAt, ListsAt

LEMMA TurnKeeps ==
    ASSUME IInv, NEW c \in Clients, NEW load, NEW h, Turn(c, load, h), UNCHANGED backend
    PROVE  LogStands' /\ LoadsStand'
<1>1. LogStands'
  BY DEF IInv, LogStands, backend
<1>2. \A d \in Clients : LoadStands(call'[d], held'[d]) /\ SnapshotStands(held'[d])
  BY DEF IInv, TypeOK, LoadsStand, Turn
<1>3. ASSUME NEW d \in Clients PROVE LoadStands(call[d], held[d])'
  BY <1>2, LogSame DEF LoadStands, OnPath, ReadUntil, EtagStands, LabelStands, ReadSince,
                       IsVersion
<1>4. ASSUME NEW d \in Clients PROVE SnapshotStands(held[d])'
  BY <1>2, LogSame DEF SnapshotStands, Reflects
<1> QED  BY <1>1, <1>3, <1>4 DEF LoadsStand

LEMMA PublishedKept ==
    ASSUME IInv, NEW c \in Clients, ClientStep(c)
    PROVE  /\ published' \in [Versions -> Lists \cup {NoPublication}]
           /\ PublishedIsThatVersion'
<1>1. UNCHANGED backend
  BY ClientStepBackend
<1>2. ASSUME NEW v \in Versions, published'[v] # NoPublication PROVE IsVersion(published'[v], v)
  <2>1. CASE Commit(c)
    BY <1>2, <2>1, CommitTurns DEF IInv, TypeOK, PublishedIsThatVersion
  <2>2. CASE ~ Commit(c)
    <3>1. published' = published
      BY <2>2 DEF ClientStep, Load, ReadPerSchema, ReadList, AdoptPerSchema, ReadVersion,
             ReadEtag, AnswerBuilt, FinishBuild, Await, Fail, Find, CheckBuilt, Serve,
             PublicationFails
    <3> QED  BY <1>2, <3>1 DEF IInv, PublishedIsThatVersion
  <2> QED  BY <2>1, <2>2
<1>3. published' \in [Versions -> Lists \cup {NoPublication}]
  <2>1. CASE Commit(c)
    BY <2>1, CommitTurns DEF IInv, TypeOK
  <2>2. CASE ~ Commit(c)
    BY <2>2 DEF IInv, TypeOK, ClientStep, Load, ReadPerSchema, ReadList, AdoptPerSchema,
           ReadVersion, ReadEtag, AnswerBuilt, FinishBuild, Await, Fail, Find, CheckBuilt,
           Serve, PublicationFails
  <2> QED  BY <2>1, <2>2
<1>4. PublishedIsThatVersion'
  BY <1>1, <1>2, LogSame DEF PublishedIsThatVersion, IsVersion
<1> QED  BY <1>3, <1>4

\* The builds and the caches of the workers.
BuildsTyped ==
    /\ builds \in [Workers -> Seq({"running", "ok", "failed"})]
    /\ cache \in [Workers -> Nat]
    /\ \A w \in Workers : cache[w] \in {0} \cup DOMAIN builds[w]

\* A step that leaves the builds alone, and whose load is not making one or
\* keeps making its own.
LEMMA BuildsSame ==
    ASSUME IInv, NEW c \in Clients, NEW l, UNCHANGED <<backend, frozen>>,
           call' = [call EXCEPT ![c] = l],
           mode = "frozen" /\ l.pc = "wait" =>
                l.at \in Workers /\ l.build \in DOMAIN builds[l.at],
           mode = "frozen" /\ l.pc \in {"read", "built"} =>
                Building(c) /\ l.at = call[c].at /\ l.build = call[c].build
    PROVE  BuildsTyped' /\ BuildsStand'
<1>1. BuildsTyped' /\ OneBuild'
  BY DEF IInv, TypeOK, BuildsTyped, BuildsStand, OneBuild, frozen
<1>2. /\ \A d \in Clients : call'[d] = IF d = c THEN l ELSE call[d]
      /\ builds' = builds /\ mode' = mode
  BY DEF IInv, TypeOK, backend, frozen
<1>3. BuildsOwned'
  BY <1>2 DEF IInv, BuildsStand, BuildsOwned, Building
<1> QED  BY <1>1, <1>3 DEF BuildsStand

LEMMA AnsweredRests ==
    ASSUME NEW c, NEW v, NEW etag, NEW lists, Answered(c, v, etag, lists), c \in DOMAIN call
    PROVE  \E l : call' = [call EXCEPT ![c] = l] /\ l.pc \in {"idle", "fallback", "version"}
<1>1. Idle.pc = "idle" /\ FallBack.pc = "fallback"
  BY DEF Idle, FallBack, Request
<1>2. \A w, a, e : Request(w, a, e).pc = "version"
  BY DEF Request
<1> QED  BY <1>1, <1>2 DEF Answered, Revalidated, Received

\* A build starts when the cache is empty, or after one that failed.
LEMMA StartBuildKeeps ==
    ASSUME IInv, NEW c \in Clients, NEW load \in LoadState, load.at \in Workers,
           mode = "frozen", UNCHANGED backend, ~ Building(c),
           StartBuild(c, load),
           \/ cache[load.at] = 0
           \/ \E b \in DOMAIN builds[load.at] : builds[load.at][b] = "failed"
    PROVE  BuildsTyped' /\ BuildsStand'
<1> DEFINE w == load.at
           n == Len(builds[w])
           l == [StartReading(load) EXCEPT !.build = n + 1]
<1>1. builds[w] \in Seq({"running", "ok", "failed"}) /\ n \in Nat /\ DOMAIN builds[w] = 1..n
  BY DEF IInv, TypeOK
<1>2. /\ builds' = [builds EXCEPT ![w] = Append(builds[w], "running")]
      /\ cache' = [cache EXCEPT ![w] = n + 1]
      /\ call' = [call EXCEPT ![c] = l]
  BY DEF StartBuild, IInv, TypeOK
<1>3. /\ builds'[w] \in Seq({"running", "ok", "failed"})
      /\ DOMAIN builds'[w] = 1..(n + 1) /\ Len(builds'[w]) = n + 1
      /\ \A b \in 1..n : builds'[w][b] = builds[w][b]
      /\ builds'[w][n + 1] = "running"
      /\ \A x \in Workers \ {w} : builds'[x] = builds[x]
  BY <1>1, <1>2 DEF IInv, TypeOK
<1>4. \A x \in Workers : cache'[x] = IF x = w THEN n + 1 ELSE cache[x]
  BY <1>2 DEF IInv, TypeOK
<1>5. BuildsTyped'
  BY <1>1, <1>2, <1>3, <1>4 DEF IInv, TypeOK, BuildsTyped
<1>6. OneBuild'
  <2>1. ASSUME NEW x \in Workers, \A b \in DOMAIN builds'[x] : builds'[x][b] # "failed"
        PROVE  Len(builds'[x]) <= 1 /\ (Len(builds'[x]) = 1 => cache'[x] = 1)
    <3>1. CASE x # w
      BY <1>3, <1>4, <2>1, <3>1 DEF IInv, BuildsStand, OneBuild
    <3>2. CASE x = w
      <4>1. \A b \in DOMAIN builds[w] : builds[w][b] # "failed"
        BY <1>1, <1>3, <2>1, <3>2
      <4>2. cache[w] = 0
        BY <4>1
      <4>3. n <= 1 /\ (n = 1 => cache[w] = 1)
        BY <4>1 DEF IInv, BuildsStand, OneBuild
      <4>4. n = 0
        <5>1. n \in Nat
          BY <1>1
        <5>2. n # 1
          BY <4>2, <4>3
        <5> HIDE DEF n
        <5> QED  BY <4>3, <5>1, <5>2
      <4>5. Len(builds'[w]) = 1 /\ cache'[w] = 1
        BY <1>3, <1>4, <4>4
      <4> QED  BY <3>2, <4>5
    <3> QED  BY <3>1, <3>2
  <2> QED  BY <2>1 DEF OneBuild
<1>7. l.pc = "read" /\ l.at = w /\ l.build = n + 1
  BY DEF StartReading, LoadState
<1>8. \A d \in Clients : call'[d] = IF d = c THEN l ELSE call[d]
  BY <1>2 DEF IInv, TypeOK
<1>9. BuildsOwned'
  <2> HIDE DEF l
  <2>1. ASSUME NEW d \in Clients \ {c}, mode = "frozen", call[d].pc \in {"wait", "read", "built"}
        PROVE  /\ call[d].at \in Workers
               /\ call[d].build \in DOMAIN builds'[call[d].at]
               /\ call[d].at = w => call[d].build # n + 1
               /\ builds'[call[d].at][call[d].build] = builds[call[d].at][call[d].build]
    <3>1. call[d].at \in Workers /\ call[d].build \in DOMAIN builds[call[d].at]
      BY <2>1 DEF IInv, BuildsStand, BuildsOwned, Building
    <3>2. CASE call[d].at = w
      BY <1>1, <1>3, <3>1, <3>2
    <3>3. CASE call[d].at # w
      BY <1>3, <3>1, <3>3
    <3> QED  BY <3>1, <3>2, <3>3
  <2>2. \A d \in Clients \ {c} : Building(d)' <=> Building(d)
    BY <1>8 DEF Building, backend
  <2> QED  BY <1>3, <1>7, <1>8, <2>1, <2>2 DEF IInv, BuildsStand, BuildsOwned, Building
<1> QED  BY <1>5, <1>6, <1>9 DEF BuildsStand

\* A build ends with the load that made it.
LEMMA BuildEnds ==
    ASSUME IInv, NEW c \in Clients, Building(c), UNCHANGED backend, NEW l,
           call' = [call EXCEPT ![c] = l], l.pc \in {"idle", "fallback", "version"},
           NEW outcome \in {"ok", "failed"},
           builds' = [builds EXCEPT ![call[c].at][call[c].build] = outcome],
           \/ UNCHANGED cache
           \/ /\ outcome = "failed"
              /\ \E b \in {0, cache[call[c].at]} : cache' = [cache EXCEPT ![call[c].at] = b]
    PROVE  BuildsTyped' /\ BuildsStand'
<1> DEFINE w == call[c].at
           n == call[c].build
<1>1. w \in Workers /\ n \in DOMAIN builds[w] /\ builds[w][n] = "running"
  BY DEF IInv, BuildsStand, BuildsOwned
<1>2. builds[w] \in Seq({"running", "ok", "failed"})
  BY <1>1 DEF IInv, TypeOK
<1>3. /\ builds'[w] = [builds[w] EXCEPT ![n] = outcome]
      /\ \A x \in Workers \ {w} : builds'[x] = builds[x]
      /\ DOMAIN builds' = Workers
  BY <1>1 DEF IInv, TypeOK
<1>4. /\ builds'[w] \in Seq({"running", "ok", "failed"})
      /\ DOMAIN builds'[w] = DOMAIN builds[w] /\ Len(builds'[w]) = Len(builds[w])
      /\ builds'[w][n] = outcome
      /\ \A b \in DOMAIN builds[w] \ {n} : builds'[w][b] = builds[w][b]
  BY <1>1, <1>2, <1>3
<1>5. /\ cache' \in [Workers -> Nat]
      /\ \A x \in Workers : cache'[x] \in {0, cache[x]}
      /\ \A x \in Workers : x # w \/ outcome = "ok" => cache'[x] = cache[x]
  BY <1>1 DEF IInv, TypeOK
<1>6. BuildsTyped'
  <2>1. \A x \in Workers : /\ builds'[x] \in Seq({"running", "ok", "failed"})
                           /\ DOMAIN builds'[x] = DOMAIN builds[x]
    BY <1>3, <1>4 DEF IInv, TypeOK
  <2>2. builds' \in [Workers -> Seq({"running", "ok", "failed"})]
    BY <1>3, <2>1 DEF IInv, TypeOK
  <2>3. \A x \in Workers : cache[x] \in {0} \cup DOMAIN builds[x]
    BY DEF IInv, TypeOK
  <2>4. \A x \in Workers : cache'[x] \in {0} \cup DOMAIN builds'[x]
    BY <1>5, <2>1, <2>3
  <2> QED  BY <1>5, <2>2, <2>4 DEF BuildsTyped
<1>7. OneBuild'
  <2>1. ASSUME NEW x \in Workers, \A b \in DOMAIN builds'[x] : builds'[x][b] # "failed"
        PROVE  Len(builds'[x]) <= 1 /\ (Len(builds'[x]) = 1 => cache'[x] = 1)
    <3>1. CASE x # w
      BY <1>3, <1>5, <2>1, <3>1 DEF IInv, BuildsStand, OneBuild
    <3>2. CASE x = w
      <4>1. outcome = "ok"
        BY <1>1, <1>4, <2>1, <3>2
      <4>2. \A b \in DOMAIN builds[w] : builds[w][b] # "failed"
        BY <1>1, <1>4, <2>1, <3>2
      <4>3. Len(builds[w]) <= 1 /\ (Len(builds[w]) = 1 => cache[w] = 1)
        BY <1>1, <4>2 DEF IInv, BuildsStand, OneBuild
      <4>4. cache'[w] = cache[w]
        BY <1>1, <1>5, <4>1
      <4> QED  BY <1>4, <3>2, <4>3, <4>4
    <3> QED  BY <3>1, <3>2
  <2> QED  BY <2>1 DEF OneBuild
<1>8. BuildsOwned'
  <2>1. \A d \in Clients : call'[d] = IF d = c THEN l ELSE call[d]
    BY DEF IInv, TypeOK
  <2>2. mode' = mode
    BY DEF backend
  <2>3. ~ Building(c)' /\ l.pc # "wait"
    BY <2>1 DEF Building
  <2>4. \A d \in Clients \ {c} : Building(d)' <=> Building(d)
    BY <2>1, <2>2 DEF Building
  <2>5. ASSUME NEW d \in Clients \ {c}, mode = "frozen", call[d].pc \in {"wait", "read", "built"}
        PROVE  /\ call[d].at \in Workers /\ call[d].build \in DOMAIN builds'[call[d].at]
               /\ Building(d) => builds'[call[d].at][call[d].build] = "running"
    <3>1. /\ call[d].at \in Workers /\ call[d].build \in DOMAIN builds[call[d].at]
          /\ Building(d) => /\ builds[call[d].at][call[d].build] = "running"
                            /\ call[d].at = w => call[d].build # n
      BY <2>5 DEF IInv, BuildsStand, BuildsOwned, Building
    <3>2. CASE call[d].at = w
      BY <1>4, <3>1, <3>2
    <3>3. CASE call[d].at # w
      BY <1>3, <3>1, <3>3
    <3> QED  BY <3>2, <3>3
  <2> QED  BY <2>1, <2>2, <2>3, <2>4, <2>5 DEF IInv, BuildsStand, BuildsOwned, Building
<1> QED  BY <1>6, <1>7, <1>8 DEF BuildsStand

\* Where each action leaves the client's load, as far as builds are concerned.
LEMMA OtherModesSame ==
    ASSUME IInv, NEW c \in Clients, UNCHANGED frozen, mode # "frozen",
           \E load, h : Turn(c, load, h), UNCHANGED backend
    PROVE  BuildsTyped' /\ BuildsStand'
<1>1. PICK load, h : Turn(c, load, h)
  OBVIOUS
<1>2. call' = [call EXCEPT ![c] = load]
  BY <1>1 DEF Turn
<1> QED  BY <1>2, BuildsSame

LEMMA BuildsKept ==
    ASSUME IInv, NEW c \in Clients, ClientStep(c)
    PROVE  BuildsTyped' /\ BuildsStand'
<1>1. UNCHANGED backend /\ \E load, h : Turn(c, load, h)
  BY ClientStepBackend, ClientStepTurns
<1>2. c \in DOMAIN call /\ call[c] \in LoadState
  BY DEF IInv, TypeOK
<1>3. \A w, a, e : Request(w, a, e).pc = "version"
  BY DEF Request
<1>4. Idle.pc = "idle" /\ FallBack.pc = "fallback"
  BY DEF Idle, FallBack, Request
<1>5. ASSUME NEW w \in Workers, Load(c, w) PROVE BuildsTyped' /\ BuildsStand'
  <2> DEFINE l == Request(w, 1, Etag(held[c]))
  <2>1. l.pc = "version" /\ call' = [call EXCEPT ![c] = l] /\ UNCHANGED frozen
    BY <1>3, <1>5 DEF Load
  <2> HIDE DEF l
  <2> QED  BY <1>1, <2>1, BuildsSame
<1>6. ASSUME NEW w \in Workers, NEW k \in Kinds, ReadPerSchema(c, w, k)
      PROVE  BuildsTyped' /\ BuildsStand'
  <2> DEFINE l == Read(call[c], w, k)
  <2>1. call' = [call EXCEPT ![c] = l] /\ UNCHANGED frozen /\ l.pc = "fallback"
    BY <1>2, <1>6 DEF ReadPerSchema, Read, LoadState
  <2> HIDE DEF l
  <2> QED  BY <1>1, <2>1, BuildsSame
<1>7. CASE AdoptPerSchema(c)
  <2>1. call' = [call EXCEPT ![c] = Idle] /\ UNCHANGED frozen
    BY <1>7 DEF AdoptPerSchema
  <2> QED  BY <1>1, <1>4, <2>1, BuildsSame
<1>8. ASSUME NEW k \in Kinds, ReadList(c, k) PROVE BuildsTyped' /\ BuildsStand'
  <2> DEFINE l == [Read(call[c], call[c].at, k) EXCEPT
                    !.pc = IF call[c].todo = {k} THEN "built" ELSE "read"]
  <2>1. call' = [call EXCEPT ![c] = l] /\ UNCHANGED frozen /\ call[c].pc = "read"
    BY <1>8 DEF ReadList
  <2>2. l.pc \in {"read", "built"} /\ l.at = call[c].at /\ l.build = call[c].build
    BY <1>2 DEF Read, LoadState
  <2> HIDE DEF l
  <2>3. mode = "frozen" => Building(c)
    BY <2>1 DEF Building
  <2> QED  BY <1>1, <2>1, <2>2, <2>3, BuildsSame
<1>9. CASE ReadVersion(c)
  <2> DEFINE w == call[c].at
             load == [call[c] EXCEPT !.label = Version(w)]
  <2>1. w \in Workers /\ call[c].pc = "version"
    BY <1>9, BusyLoad DEF IInv, ReadVersion
  <2>2. CASE mode # "frozen"
    <3>1. UNCHANGED frozen
      BY <1>9, <2>2 DEF ReadVersion
    <3> QED  BY <1>1, <2>2, <3>1, OtherModesSame
  <2>3. CASE mode = "frozen" /\ Cached(w) # 0
    <3> DEFINE l == [load EXCEPT !.pc = "wait", !.build = Cached(w)]
    <3>1. call' = [call EXCEPT ![c] = l] /\ UNCHANGED frozen
      BY <1>9, <2>3 DEF ReadVersion
    <3>2. l.pc = "wait" /\ l.at = w /\ l.build = Cached(w)
      BY <1>2 DEF LoadState
    <3>3. Cached(w) \in DOMAIN builds[w]
      BY <2>1, <2>3 DEF IInv, TypeOK, Cached
    <3> HIDE DEF l
    <3> QED  BY <1>1, <2>1, <3>1, <3>2, <3>3, BuildsSame
  <2>4. CASE mode = "frozen" /\ Cached(w) = 0
    <3>1. Version(w) \in Versions \cup {0}
      BY <2>1, SeenRange DEF IInv
    <3>2. load \in LoadState /\ load.at = w
      BY <1>2, <3>1 DEF LoadState
    <3>3. StartBuild(c, load) /\ cache[w] = 0 /\ ~ Building(c)
      BY <1>9, <2>1, <2>4 DEF ReadVersion, Cached, Building
    <3> HIDE DEF load
    <3> QED  BY <1>1, <2>1, <2>4, <3>2, <3>3, StartBuildKeeps
  <2> QED  BY <2>2, <2>3, <2>4
<1>10. CASE FinishBuild(c)
  <2>1. Building(c) /\ UNCHANGED cache
        /\ builds' = [builds EXCEPT ![call[c].at][call[c].build] = "ok"]
    BY <1>10 DEF FinishBuild, Building
  <2>2. \E l : call' = [call EXCEPT ![c] = l] /\ l.pc \in {"idle", "fallback", "version"}
    BY <1>2, <1>10, AnsweredRests DEF FinishBuild
  <2> QED  BY <1>1, <2>1, <2>2, BuildEnds
<1>11. CASE Await(c)
  <2> DEFINE load == call[c]
             w == load.at
  <2>1. load.pc = "wait" /\ mode = "frozen" /\ w \in Workers /\ load.build \in DOMAIN builds[w]
    BY <1>11, BusyLoad DEF IInv, Await, OnPath, BuildsStand, BuildsOwned
  <2>2. CASE builds[w][load.build] = "ok"
    <3>1. UNCHANGED frozen /\ Answered(c, load.label, Digest(load.label, Nothing), Nothing)
      BY <1>11, <2>2 DEF Await
    <3>2. PICK l : call' = [call EXCEPT ![c] = l] /\ l.pc \in {"idle", "fallback", "version"}
      BY <1>2, <3>1, AnsweredRests
    <3> QED  BY <1>1, <3>1, <3>2, BuildsSame
  <2>3. CASE builds[w][load.build] = "failed"
    <3>1. StartBuild(c, load) /\ ~ Building(c)
      BY <1>11, <2>1, <2>3 DEF Await, Building
    <3> QED  BY <1>1, <1>2, <2>1, <2>3, <3>1, StartBuildKeeps
  <2> QED  BY <1>11, <2>2, <2>3 DEF Await
<1>12. CASE Fail(c)
  <2>1. call' = [call EXCEPT ![c] = FallBack]
    BY <1>12 DEF Fail
  <2>2. CASE mode = "frozen" /\ call[c].pc = "read"
    <3> DEFINE w == call[c].at
    <3>1. Building(c) /\ builds' = [builds EXCEPT ![w][call[c].build] = "failed"]
      BY <1>12, <2>2 DEF Fail, Building
    <3>2. \E b \in {0, cache[w]} : cache' = [cache EXCEPT ![w] = b]
      BY <1>12, <2>2 DEF Fail
    <3> QED  BY <1>1, <1>4, <2>1, <3>1, <3>2, BuildEnds
  <2>3. CASE ~ (mode = "frozen" /\ call[c].pc = "read")
    <3>1. UNCHANGED frozen
      BY <1>12, <2>3 DEF Fail
    <3> QED  BY <1>1, <1>4, <2>1, <3>1, BuildsSame
  <2> QED  BY <2>2, <2>3
<1>13. CASE ReadEtag(c) \/ AnswerBuilt(c) \/ Find(c) \/ CheckBuilt(c) \/ Commit(c) \/ Serve(c)
            \/ PublicationFails(c)
  <2>1. UNCHANGED frozen
    BY <1>13 DEF ReadEtag, AnswerBuilt, Find, CheckBuilt, Commit, Serve, PublicationFails
  <2>2. call[c].pc \notin {"idle", "fallback"}
    BY <1>13 DEF ReadEtag, AnswerBuilt, Find, CheckBuilt, Commit, Serve, PublicationFails
  <2>3. mode # "frozen"
    BY <1>13, <2>2, BusyLoad DEF IInv, OnPath, ReadEtag, AnswerBuilt, Find, CheckBuilt, Commit,
                             Serve, PublicationFails
  <2> QED  BY <1>1, <2>1, <2>3, OtherModesSame
<1> QED  BY <1>5, <1>6, <1>7, <1>8, <1>9, <1>10, <1>11, <1>12, <1>13 DEF ClientStep

-----------------------------------------------------------------------------
(* The catalog and its replicas                                            *)

LEMMA ChangeKeeps ==
    ASSUME IInv, NEW k \in Kinds, Change(k)
    PROVE  IInv'
<1>1. /\ mode # "frozen" /\ log' = Append(log, k) /\ Len(log) < MaxChanges /\ log \in Seq(Kinds)
      /\ UNCHANGED <<mode, seen, builds, cache, published, call, held, loads>>
  BY DEF Change, IInv, TypeOK, frozen
<1>2. log' \in Seq(Kinds) /\ Len(log') = Len(log) + 1 /\ Len(log) \in Nat
  BY <1>1
<1>3. TypeOK'
  BY <1>1, <1>2 DEF IInv, TypeOK
<1>4. \A i \in 0..Len(log) : i \in 0..Len(log') /\ VersionAt(i)' = VersionAt(i)
                                               /\ ListsAt(i)' = ListsAt(i)
  BY <1>1, <1>2, LogGrows DEF IInv
<1>5. \A w \in Workers : seen[w] \in 0..Len(log)
  BY DEF IInv, TypeOK, LogStands
<1>6. LogStands'
  BY <1>1, <1>2, <1>5, BoundsAssumption DEF IInv, LogStands
<1>7. PublishedIsThatVersion'
  BY <1>1, <1>4 DEF IInv, PublishedIsThatVersion, IsVersion
<1>8. ASSUME NEW c \in Clients PROVE SnapshotStands(held[c])'
  BY <1>1, <1>4 DEF IInv, LoadsStand, SnapshotStands, Reflects
<1>9. ASSUME NEW c \in Clients PROVE LoadStands(call[c], held[c])'
  <2>1. LoadStands(call[c], held[c])
    BY DEF IInv, LoadsStand
  <2> SUFFICES ASSUME call[c].pc \notin {"idle", "fallback"}
               PROVE  LoadStands(call[c], held[c])'
    BY <1>1 DEF LoadStands
  <2>2. /\ call[c].at \in Workers /\ OnPath(call[c]) /\ ReadUntil(call[c])
        /\ EtagStands(call[c]) /\ LabelStands(call[c]) /\ call[c].ifNoneMatch = Etag(held[c])
    BY <2>1 DEF LoadStands
  <2>3. \A i \in 0..seen[call[c].at] : i \in 0..Len(log)
    BY <1>1, <1>2, <1>5, <2>2
  <2>4. \A v : ReadSince(call[c], v) => \E i \in 0..seen'[call'[c].at] :
            /\ VersionAt(i)' = v
            /\ call'[c].pc \in {"read", "built"} =>
                \A q \in Kinds \ call'[c].todo : ListsAt(i)'[q] <= call'[c].lists[q]
    BY <1>1, <1>4, <2>3 DEF ReadSince
  <2>5. OnPath(call[c])' /\ Etag(held[c])' = Etag(held[c])
    BY <1>1, <2>2 DEF OnPath, Etag
  <2>6. ReadUntil(call[c])'
    BY <1>1, <1>4, <1>5, <2>2 DEF ReadUntil
  <2>7. EtagStands(call[c])'
    BY <1>1, <2>2, <2>4 DEF EtagStands, ReadSince
  <2>8. IsVersion(call[c].lists, call[c].label) => IsVersion(call[c].lists, call[c].label)'
    BY <1>1, <1>4 DEF IsVersion
  <2>9. LabelStands(call[c])'
    BY <1>1, <2>2, <2>4, <2>8 DEF LabelStands, ReadSince
  <2> QED  BY <1>1, <2>2, <2>5, <2>6, <2>7, <2>9 DEF LoadStands
<1>10. BuildsStand'
  BY <1>1 DEF IInv, BuildsStand, OneBuild, BuildsOwned, Building
<1> QED  BY <1>3, <1>6, <1>7, <1>8, <1>9, <1>10 DEF IInv, LoadsStand

LEMMA ReplicateKeeps ==
    ASSUME IInv, NEW x \in Workers, Replicate(x)
    PROVE  IInv'
<1>1. /\ seen[x] < Len(log) /\ seen' = [seen EXCEPT ![x] = seen[x] + 1]
      /\ UNCHANGED <<mode, log, builds, cache, published, call, held, loads>>
  BY DEF Replicate, IInv, TypeOK, frozen
<1>2. /\ seen \in [Workers -> 0..MaxChanges] /\ Len(log) \in Nat /\ Len(log) <= MaxChanges
      /\ \A w \in Workers : seen[w] <= Len(log)
  BY DEF IInv, TypeOK, LogStands
<1>3. \A w \in Workers : /\ seen'[w] \in 0..Len(log) /\ seen'[w] \in 0..MaxChanges
                         /\ seen[w] \in Nat /\ seen[w] <= seen'[w]
  BY <1>1, <1>2, BoundsAssumption
<1>4. TypeOK'
  <2>1. seen' \in [Workers -> 0..MaxChanges]
    BY <1>1, <1>2, <1>3
  <2> QED  BY <1>1, <2>1 DEF IInv, TypeOK
<1>5. LogStands'
  BY <1>1, <1>3 DEF IInv, LogStands
<1>6. \A i : VersionAt(i)' = VersionAt(i) /\ ListsAt(i)' = ListsAt(i)
  BY <1>1 DEF VersionAt, ListsAt
<1>7. PublishedIsThatVersion'
  BY <1>1, <1>6 DEF IInv, PublishedIsThatVersion, IsVersion
<1>8. ASSUME NEW c \in Clients PROVE SnapshotStands(held[c])'
  BY <1>1, <1>6 DEF IInv, LoadsStand, SnapshotStands, Reflects
<1>9. ASSUME NEW c \in Clients PROVE LoadStands(call[c], held[c])'
  <2> DEFINE load == call[c]
  <2> SUFFICES ASSUME load.pc \notin {"idle", "fallback"}
               PROVE  LoadStands(call[c], held[c])'
    BY <1>1 DEF LoadStands
  <2>1. /\ load.at \in Workers /\ OnPath(load) /\ ReadUntil(load) /\ load \in LoadState
        /\ EtagStands(load) /\ LabelStands(load) /\ load.ifNoneMatch = Etag(held[c])
    BY BusyLoad DEF IInv
  <2>2. \A i \in 0..seen[load.at] : i \in 0..seen'[load.at]
    BY <1>2, <1>3, <2>1
  <2>3. \A v : ReadSince(load, v) => \E i \in 0..seen'[load.at] :
            /\ VersionAt(i) = v
            /\ load.pc \in {"read", "built"} =>
                \A q \in Kinds \ load.todo : ListsAt(i)[q] <= load.lists[q]
    BY <2>2 DEF ReadSince
  <2>4. OnPath(call[c])' /\ Etag(held[c])' = Etag(held[c])
    BY <1>1, <2>1 DEF OnPath, Etag
  <2>5. ReadUntil(call[c])'
    <3>1. \A q \in Kinds : ListsAt(seen[load.at])[q] <= ListsAt(seen'[load.at])[q]
      BY <1>2, <1>3, <2>1, Monotone
    <3>2. \A q \in Kinds : /\ ListsAt(seen[load.at])[q] \in Int
                           /\ ListsAt(seen'[load.at])[q] \in Int
      BY <1>3, <2>1, ListsRange
    <3>3. load.lists \in [Kinds -> 0..MaxChanges]
      BY <2>1 DEF LoadState, Lists
    <3>4. load.pc \in {"read", "built"} =>
            \A q \in Kinds \ load.todo : load.lists[q] <= ListsAt(seen'[load.at])[q]
      BY <2>1, <3>1, <3>2, <3>3 DEF ReadUntil
    <3> QED  BY <1>1, <1>6, <3>4 DEF ReadUntil
  <2>6. EtagStands(call[c])'
    BY <1>1, <1>6, <2>1, <2>3 DEF EtagStands, ReadSince
  <2>7. IsVersion(load.lists, load.label) => IsVersion(call[c].lists, call[c].label)'
    BY <1>1, <1>6 DEF IsVersion
  <2>8. LabelStands(call[c])'
    BY <1>1, <1>6, <2>1, <2>3, <2>7 DEF LabelStands, ReadSince
  <2> QED  BY <1>1, <2>1, <2>4, <2>5, <2>6, <2>8 DEF LoadStands
<1>10. BuildsStand'
  BY <1>1 DEF IInv, BuildsStand, OneBuild, BuildsOwned, Building
<1> QED  BY <1>4, <1>5, <1>7, <1>8, <1>9, <1>10 DEF IInv, LoadsStand

-----------------------------------------------------------------------------
(* The theorems                                                            *)

LEMMA InitStands == Init => IInv
<1> SUFFICES ASSUME Init PROVE IInv
  OBVIOUS
<1>1. Idle \in LoadState /\ Idle.pc = "idle"
  <2>1. NoEtag \in Etags /\ Nothing \in Lists
    BY EtagTypes
  <2> QED  BY <2>1 DEF Idle, Request, LoadState
<1>2. TypeOK
  BY <1>1, BoundsAssumption DEF Init, TypeOK
<1>3. LogStands /\ PublishedIsThatVersion
  BY BoundsAssumption DEF Init, LogStands, PublishedIsThatVersion
<1>4. LoadsStand
  BY <1>1 DEF Init, LoadsStand, LoadStands, SnapshotStands
<1>5. BuildsStand
  BY <1>1 DEF Init, BuildsStand, OneBuild, BuildsOwned, Building
<1> QED  BY <1>2, <1>3, <1>4, <1>5 DEF IInv

LEMMA ClientStepKeeps ==
    ASSUME IInv, NEW c \in Clients, ClientStep(c)
    PROVE  IInv'
<1>1. UNCHANGED backend
  BY ClientStepBackend
<1>2. PICK load, h : Turn(c, load, h)
  BY ClientStepTurns
<1>3. LogStands' /\ LoadsStand'
  BY <1>1, <1>2, TurnKeeps
<1>4. published' \in [Versions -> Lists \cup {NoPublication}] /\ PublishedIsThatVersion'
  BY PublishedKept
<1>5. BuildsTyped' /\ BuildsStand'
  BY BuildsKept
<1>6. /\ call' \in [Clients -> LoadState]
      /\ held' \in [Clients -> Snapshots \cup {NoSnapshot}]
  BY <1>2 DEF IInv, TypeOK, Turn
<1>7. loads' \in 0..MaxLoads
  BY BoundsAssumption DEF IInv, TypeOK, ClientStep, Load, ReadPerSchema, ReadList,
     AdoptPerSchema, ReadVersion, ReadEtag, AnswerBuilt, FinishBuild, Await, Fail, Find,
     CheckBuilt, Commit, Serve, PublicationFails
<1>8. TypeOK'
  BY <1>1, <1>4, <1>5, <1>6, <1>7 DEF IInv, TypeOK, BuildsTyped, backend
<1> QED  BY <1>3, <1>4, <1>5, <1>8 DEF IInv

LEMMA NextKeeps == IInv /\ [Next]_vars => IInv'
<1> SUFFICES ASSUME IInv, [Next]_vars PROVE IInv'
  OBVIOUS
<1>1. ASSUME NEW k \in Kinds, Change(k) PROVE IInv'
  BY <1>1, ChangeKeeps
<1>2. ASSUME NEW w \in Workers, Replicate(w) PROVE IInv'
  BY <1>2, ReplicateKeeps
<1>3. ASSUME NEW c \in Clients, ClientStep(c) PROVE IInv'
  BY <1>3, ClientStepKeeps
<1>4. CASE UNCHANGED vars
  <2>1. /\ UNCHANGED <<mode, log, seen, builds, cache, published, call, held, loads>>
    BY <1>4 DEF vars, backend, frozen
  <2>2. TypeOK' /\ LogStands' /\ BuildsStand'
    BY <2>1 DEF IInv, TypeOK, LogStands, BuildsStand, OneBuild, BuildsOwned, Building
  <2>3. UNCHANGED backend
    BY <2>1 DEF backend
  <2>4. PublishedIsThatVersion'
    BY <2>1, <2>3, LogSame DEF IInv, PublishedIsThatVersion, IsVersion
  <2>5. ASSUME NEW d \in Clients PROVE LoadStands(call[d], held[d])'
    BY <2>1, <2>3, LogSame DEF IInv, LoadsStand, LoadStands, OnPath, ReadUntil, EtagStands,
       LabelStands, ReadSince, IsVersion
  <2>6. ASSUME NEW d \in Clients PROVE SnapshotStands(held[d])'
    BY <2>1, <2>3, LogSame DEF IInv, LoadsStand, SnapshotStands, Reflects
  <2> QED  BY <2>2, <2>4, <2>5, <2>6 DEF IInv, LoadsStand
<1> QED  BY <1>1, <1>2, <1>3, <1>4 DEF Next, ClientStep

LEMMA Invariance == Spec => []IInv
<1> QED  BY InitStands, NextKeeps, PTL DEF Spec

\* The catalog, the workers' builds and the clients' loads keep their types,
\* whatever serveCatalogContents and loadCatalog are interrupted by.
THEOREM TypeCorrect == Spec => []TypeOK
<1>1. IInv => TypeOK
  BY DEF IInv
<1> QED  BY <1>1, Invariance, PTL

\* A snapshot has all that its version and its catalog's etag stand for, and a
\* publication is its version: serveCatalogContents reads the version before
\* the lists, and asserts it again before it publishes.
THEOREM LabelsCorrect == Spec => []LabelsAreTrue
<1>1. IInv => LabelsAreTrue
  BY DEF IInv, LoadsStand, SnapshotStands, LabelsAreTrue, HeldReflectsLabels
<1> QED  BY <1>1, Invariance, PTL

\* loadCatalog never replaces a snapshot by one of catalog_contents that does
\* not reach its version, over any workers that lag.
THEOREM KnownVersionCorrect == Spec => KnownVersionKept
<1> DEFINE Keeps == \A c \in Clients :
                (/\ held'[c] # held[c] /\ held'[c].source = "catalog_contents"
                 /\ Known(held[c]) # 0)
                => Reflects(held'[c].lists, held[c].version)
<1>1. ASSUME IInv, Next PROVE Keeps
  <2>1. ASSUME NEW c \in Clients, ClientStep(c) PROVE Keeps
    <3>1. PICK load, h : Turn(c, load, h)
      BY <2>1, <1>1, ClientStepTurns
    <3>2. ASSUME NEW d \in Clients, held'[d] # held[d] PROVE d = c /\ held'[d] = h
      BY <1>1, <3>1, <3>2 DEF IInv, TypeOK, Turn
    <3>3. h # held[c] => Kept(held[c], h)
      BY <3>1 DEF Turn
    <3> QED  BY <3>2, <3>3 DEF Kept
  <2>2. CASE ~ \E c \in Clients : ClientStep(c)
    BY <1>1, <2>2 DEF Next, ClientStep, Change, Replicate
  <2> QED  BY <2>1, <2>2
<1>2. IInv /\ [Next]_vars => [Keeps]_vars
  BY <1>1
<1> QED  BY <1>2, Invariance, PTL DEF Spec, KnownVersionKept

\* However many calls reach a worker before the first build of a frozen
\* catalog is done, they share it, unless a build fails.
THEOREM BuildShared == Spec => []FirstCallsShareBuild
<1>1. IInv => FirstCallsShareBuild
  <2> SUFFICES ASSUME IInv, NEW w \in Workers, Len(builds[w]) > 1
               PROVE  \E b \in DOMAIN builds[w] : builds[w][b] = "failed"
    BY DEF FirstCallsShareBuild
  <2>1. Len(builds[w]) \in Nat
    BY DEF IInv, TypeOK
  <2> QED  BY <2>1 DEF IInv, BuildsStand, OneBuild
<1> QED  BY <1>1, Invariance, PTL
=============================================================================
