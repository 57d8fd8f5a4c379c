--------------------------- MODULE CatalogContents ---------------------------
(***************************************************************************)
(* Loading a whole catalog with the catalog_contents call                  *)
(* (protocol/handlers/catalog/contents.ts, client/client.ts).              *)
(*                                                                         *)
(* A worker reads the catalog's version, then its lists (tables, views,    *)
(* ...), one request each, and answers with both and perhaps an etag.  The *)
(* client keeps the snapshot and revalidates it by its etag; it refuses an *)
(* answer of an older version once, and otherwise falls back to one call   *)
(* per list.  Meanwhile the catalog changes, and workers lag behind it.    *)
(*                                                                         *)
(* How a worker answers depends on the catalog ("mode"):                   *)
(*   reval      the catalog has an etag of its own, made of its version;   *)
(*   hash       the etag is the hash of the answer and the version;        *)
(*   unknown    the catalog does not track versions, and has no etag;      *)
(*   frozen     the catalog never changes: a worker builds one answer;     *)
(*   published  answers are published per version (CatalogPublication has  *)
(*              the protocol, of which this module takes the effect: find, *)
(*              or build and commit if absent, or fail).                   *)
(***************************************************************************)
EXTENDS Naturals, Sequences, FiniteSets

CONSTANTS
    Clients,      \* users of VgiClient.loadCatalog, one load at a time
    Workers,      \* worker processes, each with its view of the catalog
    Kinds,        \* the lists of a catalog: tables, views, ...
    Silent,       \* the kinds whose changes version() does not count
    Modes,        \* the modes considered
    MaxChanges,   \* bound of the catalog's changes
    MaxLoads,     \* bound of the loads, of all clients
    NoSnapshot,
    NoPublication,
    NoWorker

ASSUME BoundsAssumption == MaxChanges \in Nat /\ MaxLoads \in Nat
ASSUME ModesAssumption == Modes \subseteq {"reval", "hash", "unknown", "frozen", "published"}
ASSUME SilentAssumption == Silent \subseteq Kinds

VARIABLES
    mode,        \* the catalog's mode
    log,         \* the kind of object each change was made to, in order
    seen,        \* how many of them each worker sees
    builds,      \* frozen: the builds each worker started, and how they ended
    cache,       \* frozen: each worker's cached build, 0 for none
    published,   \* published: the lists of each version's manifest
    call,        \* each client's load in progress
    held,        \* the snapshot each client holds
    loads        \* loads begun, of all clients

backend == <<mode, log, seen>>
frozen == <<builds, cache>>
vars == <<backend, frozen, published, call, held, loads>>

Versions == 1..(MaxChanges + 1)

\* A kind's list is the number of changes made to it.
Lists == [Kinds -> 0..MaxChanges]
Nothing == [k \in Kinds |-> 0]

\* No etag, an etag made of the version, and the hash of version and lists.
Etags == [kind : {"none", "generation", "hash"}, version : Versions \cup {0}, lists : Lists]
NoEtag == [kind |-> "none", version |-> 0, lists |-> Nothing]
Generation(v) == [kind |-> "generation", version |-> v, lists |-> Nothing]
Digest(v, lists) == [kind |-> "hash", version |-> v, lists |-> lists]

Snapshots ==
    [version : Versions \cup {0}, etag : Etags, lists : Lists,
     source : {"catalog_contents", "per_schema"}]

ASSUME AbsenceAssumption == NoSnapshot \notin Snapshots /\ NoPublication \notin Lists

\* "todo" are the lists not read yet, "build" the frozen build waited for or
\* made, "ordinary" a build made because the publication failed.
LoadState ==
    [pc : {"idle", "version", "etag", "wait", "find", "read", "built", "commit",
           "serve", "fallback"},
     at : Workers \cup {NoWorker}, attempt : {1, 2}, ifNoneMatch : Etags,
     label : Versions \cup {0}, etag : Etags, lists : Lists, todo : SUBSET Kinds,
     build : Nat, ordinary : BOOLEAN]

\* The types of the catalog, the workers' caches and the clients' loads.
TypeOK ==
    /\ mode \in Modes /\ log \in Seq(Kinds) /\ seen \in [Workers -> 0..MaxChanges]
    /\ builds \in [Workers -> Seq({"running", "ok", "failed"})]
    /\ cache \in [Workers -> Nat]
    /\ \A w \in Workers : cache[w] \in {0} \cup DOMAIN builds[w]
    /\ published \in [Versions -> Lists \cup {NoPublication}]
    /\ call \in [Clients -> LoadState]
    /\ held \in [Clients -> Snapshots \cup {NoSnapshot}]
    /\ loads \in 0..MaxLoads

\* A request of catalog_contents that reached worker w.
Request(w, attempt, etag) ==
    [pc |-> "version", at |-> w, attempt |-> attempt, ifNoneMatch |-> etag, label |-> 0,
     etag |-> NoEtag, lists |-> Nothing, todo |-> {}, build |-> 0, ordinary |-> FALSE]

Idle == [Request(NoWorker, 1, NoEtag) EXCEPT !.pc = "idle"]

Init ==
    /\ mode \in Modes
    /\ log = <<>> /\ seen = [w \in Workers |-> 0]
    /\ builds = [w \in Workers |-> <<>>] /\ cache = [w \in Workers |-> 0]
    /\ published = [v \in Versions |-> NoPublication]
    /\ call = [c \in Clients |-> Idle]
    /\ held = [c \in Clients |-> NoSnapshot]
    /\ loads = 0

-----------------------------------------------------------------------------
(* The catalog after the first i changes of its log                        *)

VersionAt(i) == 1 + Cardinality({j \in 1..i : log[j] \notin Silent})

ListsAt(i) == [k \in Kinds |-> Cardinality({j \in 1..i : log[j] = k})]

\* The catalog is changed, by anyone (or by the data it reflects).
Change(k) ==
    /\ mode # "frozen" /\ Len(log) < MaxChanges
    /\ log' = Append(log, k)
    /\ UNCHANGED <<mode, seen, frozen, published, call, held, loads>>

\* A replica catches up by one change.
Replicate(w) ==
    /\ seen[w] < Len(log)
    /\ seen' = [seen EXCEPT ![w] = @ + 1]
    /\ UNCHANGED <<mode, log, frozen, published, call, held, loads>>

\* cat.version(attach)
Version(w) == IF mode = "unknown" THEN 0 ELSE VersionAt(seen[w])

-----------------------------------------------------------------------------
(* The client: loadCatalog                                                 *)

Etag(snapshot) == IF snapshot = NoSnapshot THEN NoEtag ELSE snapshot.etag

\* 0 is an unknown version, as is that of a snapshot read list by list.
Known(snapshot) == IF snapshot = NoSnapshot THEN 0 ELSE snapshot.version

\* The first attempt; the worker it reaches is any.
Load(c, w) ==
    /\ call[c].pc = "idle" /\ loads < MaxLoads
    /\ call' = [call EXCEPT ![c] = Request(w, 1, Etag(held[c]))]
    /\ loads' = loads + 1
    /\ UNCHANGED <<backend, frozen, published, held>>

\* Mutant of Older: any version is adopted.
OlderNever(version, known) == FALSE

Older(version, known) == version # 0 /\ known # 0 /\ version < known

MayRetry(attempt) == attempt < 2

FallBack == [Idle EXCEPT !.pc = "fallback", !.todo = Kinds]

\* The client is answered not_modified: it keeps its lists.
Revalidated(c, version, etag) ==
    /\ held' = [held EXCEPT ![c].version = IF version # 0 THEN version ELSE @,
                            ![c].etag = etag]
    /\ call' = [call EXCEPT ![c] = Idle]

\* The client is sent a snapshot.
Received(c, version, etag, lists) ==
    \/ /\ ~ Older(version, Known(held[c]))
       /\ held' = [held EXCEPT ![c] = [version |-> version, etag |-> etag, lists |-> lists,
                                       source |-> "catalog_contents"]]
       /\ call' = [call EXCEPT ![c] = Idle]
    \/ /\ Older(version, Known(held[c]))
       /\ \/ /\ MayRetry(call[c].attempt)
             /\ \E w \in Workers : call' = [call EXCEPT ![c] =
                    Request(w, call[c].attempt + 1, call[c].ifNoneMatch)]
          \/ /\ ~ MayRetry(call[c].attempt)
             /\ call' = [call EXCEPT ![c] = FallBack]
       /\ UNCHANGED held

\* What the worker answers when its snapshot is ready.
Answered(c, version, etag, lists) ==
    IF etag # NoEtag /\ etag = call[c].ifNoneMatch
    THEN Revalidated(c, version, etag)
    ELSE Received(c, version, etag, lists)

Read(load, w, k) ==
    [load EXCEPT !.lists[k] = ListsAt(seen[w])[k], !.todo = @ \ {k}]

\* _loadCatalogPerSchema: a call per list, each of any worker.
ReadPerSchema(c, w, k) ==
    /\ call[c].pc = "fallback" /\ k \in call[c].todo
    /\ call' = [call EXCEPT ![c] = Read(@, w, k)]
    /\ UNCHANGED <<backend, frozen, published, held, loads>>

AdoptPerSchema(c) ==
    /\ call[c].pc = "fallback" /\ call[c].todo = {}
    /\ held' = [held EXCEPT ![c] = [version |-> 0, etag |-> NoEtag,
                                    lists |-> call[c].lists, source |-> "per_schema"]]
    /\ call' = [call EXCEPT ![c] = Idle]
    /\ UNCHANGED <<backend, frozen, published, loads>>

-----------------------------------------------------------------------------
(* The worker: serveCatalogContents                                        *)

StartReading(load) == [load EXCEPT !.pc = "read", !.lists = Nothing, !.todo = Kinds]

\* Mutant of Cached: the cache holds builds that are done.
CachedWhenDone(w) == IF cache[w] # 0 /\ builds[w][cache[w]] = "ok" THEN cache[w] ELSE 0

Cached(w) == cache[w]

\* The build is cached as soon as it has begun.
StartBuild(c, load) ==
    LET w == load.at IN
    /\ builds' = [builds EXCEPT ![w] = Append(@, "running")]
    /\ cache' = [cache EXCEPT ![w] = Len(builds[w]) + 1]
    /\ call' = [call EXCEPT ![c] = [StartReading(load) EXCEPT !.build = Len(builds[w]) + 1]]

\* The version, read before anything else; a frozen catalog's cache at once.
ReadVersion(c) ==
    LET w == call[c].at
        load == [call[c] EXCEPT !.label = Version(w)]
    IN
    /\ call[c].pc = "version"
    /\ \/ /\ mode = "published"
          /\ call' = [call EXCEPT ![c] = [load EXCEPT !.pc = "find"]]
          /\ UNCHANGED frozen
       \/ /\ mode \in {"reval", "hash", "unknown"}
          /\ call' = [call EXCEPT ![c] = [load EXCEPT !.pc = "etag"]]
          /\ UNCHANGED frozen
       \/ /\ mode = "frozen" /\ Cached(w) # 0
          /\ call' = [call EXCEPT ![c] = [load EXCEPT !.pc = "wait", !.build = Cached(w)]]
          /\ UNCHANGED frozen
       \/ mode = "frozen" /\ Cached(w) = 0 /\ StartBuild(c, load)
    /\ UNCHANGED <<backend, published, held, loads>>

\* catalogContents begins: a catalog with an etag of its own compares it first.
ReadEtag(c) ==
    LET w == call[c].at
        etag == IF mode = "reval" THEN Generation(VersionAt(seen[w])) ELSE NoEtag
    IN
    /\ call[c].pc = "etag"
    /\ IF etag # NoEtag /\ etag = call[c].ifNoneMatch
       THEN Revalidated(c, call[c].label, etag)
       ELSE /\ call' = [call EXCEPT ![c] = StartReading([@ EXCEPT !.etag = etag])]
            /\ UNCHANGED held
    /\ UNCHANGED <<backend, frozen, published, loads>>

ReadList(c, k) ==
    LET load == call[c] IN
    /\ load.pc = "read" /\ k \in load.todo
    /\ call' = [call EXCEPT ![c] = [Read(load, load.at, k) EXCEPT
                    !.pc = IF load.todo = {k} THEN "built" ELSE "read"]]
    /\ UNCHANGED <<backend, frozen, published, held, loads>>

\* A catalog without a cache or publications: the answer is what was built.
AnswerBuilt(c) ==
    LET load == call[c]
        etag == IF mode = "hash" THEN Digest(load.label, load.lists) ELSE load.etag
    IN
    /\ load.pc = "built" /\ mode \in {"reval", "hash", "unknown"}
    /\ Answered(c, load.label, etag, load.lists)
    /\ UNCHANGED <<backend, frozen, published, loads>>

\* A frozen catalog: the build is done, and answers its own call.
FinishBuild(c) ==
    LET load == call[c] IN
    /\ load.pc = "built" /\ mode = "frozen"
    /\ builds' = [builds EXCEPT ![load.at][load.build] = "ok"]
    /\ Answered(c, load.label, Digest(load.label, load.lists), load.lists)
    /\ UNCHANGED <<backend, cache, published, loads>>

\* Await the cached build; after one that failed, make another.
Await(c) ==
    LET load == call[c]
        w == load.at
    IN
    /\ load.pc = "wait"
    /\ \/ /\ builds[w][load.build] = "ok"
          /\ Answered(c, load.label, Digest(load.label, Nothing), Nothing)
          /\ UNCHANGED frozen
       \/ /\ builds[w][load.build] = "failed"
          /\ StartBuild(c, load)
          /\ UNCHANGED held
    /\ UNCHANGED <<backend, published, loads>>

\* The catalog throws while it is read, or the call fails: the client falls
\* back.  A failed build leaves the cache, if it is still in it.
Fail(c) ==
    LET load == call[c] IN
    /\ load.pc \in {"version", "etag", "read", "find"}
    /\ mode # "published" \/ load.pc # "read"
    /\ call' = [call EXCEPT ![c] = FallBack]
    /\ IF mode = "frozen" /\ load.pc = "read"
       THEN /\ builds' = [builds EXCEPT ![load.at][load.build] = "failed"]
            /\ cache' = [cache EXCEPT ![load.at] = IF @ = load.build THEN 0 ELSE @]
       ELSE UNCHANGED frozen
    /\ UNCHANGED <<backend, published, held, loads>>

-----------------------------------------------------------------------------
(* Published delivery                                                      *)

\* Mutant of Current: not asserted.
CurrentAlways(load) == TRUE

\* assertCurrentIdentity
Current(load) == Version(load.at) = load.label

\* warm: the version's publication, or a build.
Find(c) ==
    LET found == published[call[c].label] IN
    /\ call[c].pc = "find"
    /\ call' = [call EXCEPT ![c] =
            IF found # NoPublication THEN [@ EXCEPT !.pc = "serve", !.lists = found]
                                     ELSE StartReading(@)]
    /\ UNCHANGED <<backend, frozen, published, held, loads>>

\* buildSnapshot: built, and still current.
CheckBuilt(c) ==
    LET load == call[c] IN
    /\ load.pc = "built" /\ mode = "published" /\ Current(load)
    /\ IF load.ordinary
       THEN Answered(c, load.label, Digest(load.label, load.lists), load.lists)
       ELSE /\ call' = [call EXCEPT ![c].pc = "commit"]
            /\ UNCHANGED held
    /\ UNCHANGED <<backend, frozen, published, loads>>

\* commitIfAbsent: the first publication of the version wins.
Commit(c) ==
    LET load == call[c]
        found == published[load.label]
        winner == IF found = NoPublication THEN load.lists ELSE found
    IN
    /\ load.pc = "commit"
    /\ published' = [published EXCEPT ![load.label] = winner]
    /\ call' = [call EXCEPT ![c].pc = "serve", ![c].lists = winner]
    /\ UNCHANGED <<backend, frozen, held, loads>>

Serve(c) ==
    LET load == call[c] IN
    /\ load.pc = "serve" /\ Current(load)
    /\ Answered(c, load.label, Digest(load.label, load.lists), load.lists)
    /\ UNCHANGED <<backend, frozen, published, loads>>

\* Reading, the identity or the repository fails.  With the policy "ordinary"
\* the worker builds the answer itself, once.
PublicationFails(c) ==
    LET load == call[c] IN
    /\ mode = "published"
    /\ \/ load.pc \in {"find", "read", "commit"}
       \/ load.pc \in {"built", "serve"} /\ ~ Current(load)
    /\ \/ /\ ~ load.ordinary
          /\ call' = [call EXCEPT ![c] = StartReading([@ EXCEPT !.ordinary = TRUE])]
       \/ call' = [call EXCEPT ![c] = FallBack]
    /\ UNCHANGED <<backend, frozen, published, held, loads>>

-----------------------------------------------------------------------------
Next ==
    \/ \E k \in Kinds : Change(k)
    \/ \E w \in Workers : Replicate(w)
    \/ \E c \in Clients :
        \/ \E w \in Workers : Load(c, w)
        \/ \E w \in Workers, k \in Kinds : ReadPerSchema(c, w, k)
        \/ \E k \in Kinds : ReadList(c, k)
        \/ AdoptPerSchema(c) \/ ReadVersion(c) \/ ReadEtag(c) \/ AnswerBuilt(c)
        \/ FinishBuild(c) \/ Await(c) \/ Fail(c)
        \/ Find(c) \/ CheckBuilt(c) \/ Commit(c) \/ Serve(c) \/ PublicationFails(c)

Spec == Init /\ [][Next]_vars

-----------------------------------------------------------------------------
(* Properties                                                              *)

\* The lists have all that the catalog had when it came to version v.
Reflects(lists, v) ==
    \E i \in 0..Len(log) :
        /\ VersionAt(i) = v
        /\ \A k \in Kinds : ListsAt(i)[k] <= lists[k]

\* The lists are those of version v: no older, and no newer.
IsVersion(lists, v) ==
    \E i, j \in 0..Len(log) :
        /\ VersionAt(i) = v /\ VersionAt(j) = v
        /\ \A k \in Kinds : ListsAt(i)[k] <= lists[k] /\ lists[k] <= ListsAt(j)[k]

\* The catalog changes while serveCatalogContents reads it in several steps,
\* and a snapshot is kept for as long as its etag is answered not_modified: a
\* client's snapshot has all that its version and its catalog's etag stand for.
HeldReflectsLabels ==
    \A c \in Clients : held[c] # NoSnapshot =>
        /\ held[c].version # 0 => Reflects(held[c].lists, held[c].version)
        /\ held[c].etag.kind = "generation" => Reflects(held[c].lists, held[c].etag.version)

\* What is published for a version is that version, whatever changed while it
\* was built, on whichever worker (assertCurrentIdentity).
PublishedIsThatVersion ==
    \A v \in Versions : published[v] # NoPublication => IsVersion(published[v], v)

\* Labels never promise more than the lists they are put on.
LabelsAreTrue == HeldReflectsLabels /\ PublishedIsThatVersion

\* loadCatalog over lagging workers: a snapshot of catalog_contents never
\* replaces one whose version it does not reach, even when it is the answer of
\* the retry or was revalidated.
KnownVersionKept ==
    [][\A c \in Clients :
        /\ held'[c] # held[c] /\ held'[c].source = "catalog_contents"
        /\ Known(held[c]) # 0
        => Reflects(held'[c].lists, held[c].version)]_vars

\* Concurrent first calls of a frozen catalog share one build of a worker; only
\* after a build that failed are there more.
FirstCallsShareBuild ==
    \A w \in Workers :
        Len(builds[w]) > 1 => \E b \in DOMAIN builds[w] : builds[w][b] = "failed"
=============================================================================
