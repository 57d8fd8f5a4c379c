------------------------- MODULE CatalogPublication -------------------------
(***************************************************************************)
(* Publication of catalog snapshots (catalog/publication.ts and            *)
(* catalog/s3-publication.ts).                                             *)
(*                                                                         *)
(* A CatalogSnapshotManager (one per process) answers warm(key) with a     *)
(* manifest: a reference to an immutable uploaded object holding the       *)
(* catalog's contents.  It looks the manifest up in a repository shared by *)
(* all managers, renews an expiring URL, or builds, uploads, reads back    *)
(* and commits a new one with a conditional PUT.  import(manifest) commits *)
(* a manifest made elsewhere; invalidate(key) removes one.                 *)
(*                                                                         *)
(* One action is one await of the code: the remote request completes and   *)
(* the code runs on to its next request.  Remote requests take at most     *)
(* RequestTimeout, may fail, and may fail after they took effect.          *)
(***************************************************************************)
EXTENDS Naturals, FiniteSets

CONSTANTS
    Managers,        \* processes, each with one CatalogSnapshotManager
    Calls,           \* calls of warm, import and invalidate, each made once
    Keys,            \* publication keys (digests of the snapshot identity)
    Objects,         \* identities of uploaded objects
    Ids,             \* manifestIds (crypto.randomUUID)
    Grace,           \* referenceGraceMs
    RequestTimeout,  \* AbortSignal.timeout of one remote request
    UrlTtl,          \* lifetime of a signed GET URL
    RetainTtl,       \* retention of an uploaded object
    MaxTime,         \* bound of the clock
    MaxCached,       \* maxCachedManifests
    Foreign,         \* manifests made elsewhere, for operators to import
    Durable,         \* TRUE: S3 repository; FALSE: in-memory repository
    NoManifest, NoCall, NoManager

ASSUME TimesAssumption ==
    /\ {Grace, RequestTimeout, UrlTtl, RetainTtl, MaxTime} \subseteq Nat
    /\ MaxCached \in Nat \ {0}
ASSUME KeysAssumption == Keys # {}
ASSUME DurableAssumption == Durable \in BOOLEAN
ASSUME NoneAssumption ==
    /\ NoCall \notin Calls
    /\ NoManager \notin Managers

\* CatalogPublicationManifest.  obj stands for every field a renewal may not
\* change (etag, sha256, sizes, objectId, version) beside key and ret.
Manifest == [id : Ids, key : Keys, obj : Objects, exp : Nat, ret : Nat]

ASSUME ManifestAssumption ==
    /\ NoManifest \notin Manifest
    /\ Foreign \subseteq Manifest

\* Manifests made elsewhere have random ids too.
ASSUME ForeignAssumption ==
    \A m1, m2 \in Foreign : m1.id = m2.id => m1 = m2

\* Where a call stands: the request it waits for, or how it ended.
WarmPcs == {"lookup", "renewGet", "renewPut", "renewLookup", "readExisting",
            "build", "joined"}
CommitPcs == {"readMine", "commit", "commitLookup", "readWinner"}
DropPcs == {"dropGet", "dropDelete"}
InvalidatePcs == {"await", "invLookup"}
Pcs == WarmPcs \cup CommitPcs \cup DropPcs \cup InvalidatePcs
           \cup {"idle", "done", "crashed"}

\* The calls waiting for a remote request, which RequestTimeout bounds.  A
\* build is the application's own code and takes as long as it takes.
Requests == Pcs \ {"idle", "done", "crashed", "joined", "await", "build"}

VARIABLES
    now,       \* Date.now()
    repo,      \* the repository's manifest of each key
    lost,      \* objects the storage lifecycle has deleted
    minted,    \* every manifest ever made, the foreign ones included
    cached,    \* cached[g][k]: manager g's cached manifest
    pending,   \* pending[g][k]: the call whose publication g's callers share
    call,      \* the calls
    committed, \* history: every manifest the repository ever held
    verified,  \* history: objects some manager has read back
    removed    \* history: keys whose manifest was ever deleted

vars == <<now, repo, lost, minted, cached, pending, call,
          committed, verified, removed>>

\* seen: the repository's manifest the call works on (existing, winner);
\* mine: the manifest it made or imports; since: start of the current request.
CallState ==
    [op : {"none", "warm", "import", "invalidate"}, pc : Pcs,
     mgr : Managers \cup {NoManager}, key : Keys,
     seen : Manifest \cup {NoManifest}, mine : Manifest \cup {NoManifest},
     result : Manifest \cup {NoManifest}, waits : Calls \cup {NoCall},
     since : Nat]

\* The types of the clock, the repository, the managers and the calls.
TypeOK ==
    /\ now \in Nat
    /\ repo \in [Keys -> Manifest \cup {NoManifest}]
    /\ lost \subseteq Objects
    /\ minted \subseteq Manifest
    /\ cached \in [Managers -> [Keys -> Manifest \cup {NoManifest}]]
    /\ pending \in [Managers -> [Keys -> Calls \cup {NoCall}]]
    /\ call \in [Calls -> CallState]
    /\ committed \subseteq Manifest
    /\ verified \subseteq Objects
    /\ removed \subseteq Keys

Idle == [op |-> "none", pc |-> "idle", mgr |-> NoManager,
         key |-> CHOOSE k \in Keys : TRUE, seen |-> NoManifest,
         mine |-> NoManifest, result |-> NoManifest, waits |-> NoCall,
         since |-> 0]

Init ==
    /\ now = 0
    /\ repo = [k \in Keys |-> NoManifest]
    /\ lost \in SUBSET {m.obj : m \in Foreign}
    /\ minted = Foreign
    /\ cached = [g \in Managers |-> [k \in Keys |-> NoManifest]]
    /\ pending = [g \in Managers |-> [k \in Keys |-> NoCall]]
    /\ call = [c \in Calls |-> Idle]
    /\ committed = {}
    /\ verified = {}
    /\ removed = {}

-----------------------------------------------------------------------------
(* Helpers                                                                 *)

\* Mutant of Usable: no grace period.
UsableNow(m) == m.exp > now /\ m.ret > now

\* usable: the URL and the object outlive the grace period.
Usable(m) == m.exp > now + Grace /\ m.ret > now + Grace

\* A GET of the manifest's URL that the storage answers with the object.
Readable(m) == m.obj \notin lost /\ now < m.exp

\* manifestSame, of a repository's answer that may be empty.
Same(m, seen) == m # NoManifest /\ m.id = seen.id

\* assertRenewedPublication: only the id, URL and expiry may differ.
SameIdentity(m, r) == m.key = r.key /\ m.obj = r.obj /\ m.ret = r.ret

\* crypto.randomUUID: an id, and an object name, no manifest has yet.
FreshIds == Ids \ {m.id : m \in minted}
FreshObjects == Objects \ {m.obj : m \in minted}
FreshId == CHOOSE i \in FreshIds : TRUE
FreshObject == CHOOSE o \in FreshObjects : TRUE

Key(c) == call[c].key

\* Only requests, and results, have a time that matters.
Clock(pc) == IF pc \in Requests \cup {"done"} THEN now ELSE 0

\* c goes on to wait for the request pc, holding s and m.
Goto(c, pc, s, m) ==
    call' = [call EXCEPT ![c].pc = pc, ![c].seen = s, ![c].mine = m,
                         ![c].waits = NoCall, ![c].since = Clock(pc)]

\* Calls that return the promise of leader c's publication.
JoinedTo(c) == {d \in Calls : call[d].pc = "joined" /\ call[d].waits = c}

\* remember: m replaces its key's entry; just enough other entries go to keep
\* within MaxCached (the code drops the oldest, here any).
Remember(g, m) ==
    LET others == {k \in Keys \ {m.key} : cached[g][k] # NoManifest}
    IN  \E drop \in SUBSET others :
            /\ Cardinality(others \ drop) < MaxCached
            /\ drop # {} => Cardinality(others \ drop) = MaxCached - 1
            /\ cached' = [cached EXCEPT ![g] =
                   [k \in Keys |-> IF k = m.key THEN m
                                   ELSE IF k \in drop THEN NoManifest
                                   ELSE cached[g][k]]]

\* Mutant of End: the finally that clears the pending promise is missing.
EndStillPending(c, m) ==
    /\ call' = [d \in Calls |->
           IF d \in {c} \cup JoinedTo(c)
           THEN [Idle EXCEPT !.op = call[d].op, !.pc = "done", !.result = m,
                             !.since = now]
           ELSE call[d]]
    /\ UNCHANGED pending

\* c and the calls that share its promise end with m (NoManifest: they throw).
End(c, m) ==
    /\ call' = [d \in Calls |->
           IF d \in {c} \cup JoinedTo(c)
           THEN [Idle EXCEPT !.op = call[d].op, !.pc = "done", !.result = m,
                             !.since = now]
           ELSE call[d]]
    /\ pending' = [g \in Managers |-> [k \in Keys |->
           IF pending[g][k] = c THEN NoCall ELSE pending[g][k]]]

Return(c, m) == End(c, m) /\ Remember(call[c].mgr, m)

Throw(c) == End(c, NoManifest) /\ UNCHANGED cached

\* The repository now holds m.
Put(m) ==
    /\ repo' = [repo EXCEPT ![m.key] = m]
    /\ committed' = committed \cup {m}

Delete(k) ==
    /\ repo' = [repo EXCEPT ![k] = NoManifest]
    /\ removed' = removed \cup {k}

\* What a step that touches neither the repository nor a cache leaves alone.
SameRepo == UNCHANGED <<repo, committed, removed>>
SameCaches == UNCHANGED <<cached, pending>>
SameWorld == UNCHANGED <<now, lost, minted, verified>>

-----------------------------------------------------------------------------
(* warm(identity, build)                                                   *)

\* A call starts: m is the manifest it imports, w the call it waits for.
Begin(c, op, g, k, pc, m, w) ==
    /\ call[c].pc = "idle"
    /\ call' = [call EXCEPT ![c] = [Idle EXCEPT !.op = op, !.pc = pc, !.mgr = g,
                    !.key = k, !.mine = m, !.waits = w, !.since = Clock(pc)]]

CacheUsable(g, k) == cached[g][k] # NoManifest /\ Usable(cached[g][k])

\* A usable cached manifest answers at once.
WarmHit(c, g, k) ==
    /\ call[c].pc = "idle"
    /\ CacheUsable(g, k)
    /\ call' = [call EXCEPT ![c] = [Idle EXCEPT !.op = "warm", !.pc = "done",
                    !.result = cached[g][k], !.since = now]]
    /\ SameRepo /\ SameCaches /\ SameWorld

\* A publication of this key in progress here is shared.
WarmJoin(c, g, k) ==
    /\ ~CacheUsable(g, k) /\ pending[g][k] # NoCall
    /\ Begin(c, "warm", g, k, "joined", NoManifest, pending[g][k])
    /\ SameRepo /\ SameCaches /\ SameWorld

\* Mutant of WarmLead: does not look for a pending publication.
WarmLeadAnyway(c, g, k) ==
    /\ ~CacheUsable(g, k)
    /\ Begin(c, "warm", g, k, "lookup", NoManifest, NoCall)
    /\ pending' = [pending EXCEPT ![g][k] = c]
    /\ SameRepo /\ UNCHANGED cached /\ SameWorld

WarmLead(c, g, k) ==
    /\ ~CacheUsable(g, k) /\ pending[g][k] = NoCall
    /\ Begin(c, "warm", g, k, "lookup", NoManifest, NoCall)
    /\ pending' = [pending EXCEPT ![g][k] = c]
    /\ SameRepo /\ UNCHANGED cached /\ SameWorld

\* recoverOrPublish: what lookup found decides the next request.
Lookup(c) ==
    LET m == repo[Key(c)] IN
    /\ call[c].pc = "lookup"
    /\ Goto(c, IF m = NoManifest THEN "build"
               ELSE IF Usable(m) THEN "readExisting"
               ELSE IF Durable THEN "renewGet" ELSE "dropGet",
            m, NoManifest)
    /\ SameRepo /\ SameCaches /\ SameWorld

\* renew answered r: it must be the same publication, and usable, to be read.
Renewed(c, r) ==
    IF r = NoManifest \/ ~SameIdentity(call[c].seen, r)
    THEN Goto(c, "dropGet", call[c].seen, NoManifest)
    ELSE Goto(c, IF Usable(r) THEN "readExisting" ELSE "dropGet", r, NoManifest)

\* renew: another publisher's manifest is returned as it is; the one we saw
\* gets a new id, URL and expiry.
RenewGet(c) ==
    LET m == repo[Key(c)] IN
    /\ call[c].pc = "renewGet"
    /\ \/ /\ ~Same(m, call[c].seen)
          /\ Renewed(c, m)
          /\ UNCHANGED minted
       \/ /\ Same(m, call[c].seen)
          /\ FreshIds # {}
          /\ LET r == [m EXCEPT !.id = FreshId, !.exp = now + UrlTtl] IN
                /\ minted' = minted \cup {r}
                /\ Goto(c, "renewPut", m, r)
    /\ SameRepo /\ SameCaches /\ UNCHANGED <<now, lost, verified>>

\* Mutant of RenewPut: the PUT has no If-Match.
RenewPutOverwrites(c) ==
    /\ call[c].pc = "renewPut"
    /\ Put(call[c].mine) /\ UNCHANGED removed
    /\ Renewed(c, call[c].mine)
    /\ SameCaches /\ SameWorld

\* PUT If-Match: stored only over the very manifest that was read.
RenewPut(c) ==
    /\ call[c].pc = "renewPut"
    /\ \/ /\ repo[Key(c)] = call[c].seen
          /\ Put(call[c].mine) /\ UNCHANGED removed
          /\ Renewed(c, call[c].mine)
       \/ /\ repo[Key(c)] # call[c].seen
          /\ Goto(c, "renewLookup", call[c].seen, NoManifest)
          /\ SameRepo
    /\ SameCaches /\ SameWorld

RenewLookup(c) ==
    /\ call[c].pc = "renewLookup"
    /\ Renewed(c, repo[Key(c)])
    /\ SameRepo /\ SameCaches /\ SameWorld

\* validate(existing): the object is there, or the manifest is dropped.
ReadExisting(c) ==
    /\ call[c].pc = "readExisting"
    /\ IF Readable(call[c].seen)
       THEN /\ Return(c, call[c].seen)
            /\ verified' = verified \cup {call[c].seen.obj}
       ELSE /\ Goto(c, "dropGet", call[c].seen, NoManifest)
            /\ SameCaches /\ UNCHANGED verified
    /\ SameRepo /\ UNCHANGED <<now, lost, minted>>

\* build, upload and describe; validate then refuses what is not usable.
Build(c) ==
    /\ call[c].pc = "build"
    /\ FreshIds # {} /\ FreshObjects # {}
    /\ LET m == [id |-> FreshId, key |-> Key(c), obj |-> FreshObject,
                 exp |-> now + UrlTtl, ret |-> now + RetainTtl] IN
          /\ minted' = minted \cup {m}
          /\ IF Usable(m)
             THEN Goto(c, "readMine", NoManifest, m) /\ SameCaches
             ELSE Throw(c)
    /\ SameRepo /\ UNCHANGED <<now, lost, verified>>

-----------------------------------------------------------------------------
(* import(manifest, identity), and the commit it shares with warm          *)

\* An operator hands over a manifest made elsewhere, or once held here.
Import(c, g, k, m) ==
    /\ m.key = k /\ Usable(m)
    /\ Begin(c, "import", g, k, "readMine", m, NoCall)
    /\ SameRepo /\ SameCaches /\ SameWorld

\* Mutant of ReadMine: commits without reading the object back.
ReadMineSkipped(c) ==
    /\ call[c].pc = "readMine"
    /\ Goto(c, "commit", NoManifest, call[c].mine)
    /\ SameRepo /\ SameCaches /\ SameWorld

\* validate(m): its object is read back before it may be committed.
ReadMine(c) ==
    /\ call[c].pc = "readMine"
    /\ IF Readable(call[c].mine)
       THEN /\ Goto(c, "commit", NoManifest, call[c].mine)
            /\ verified' = verified \cup {call[c].mine.obj}
            /\ SameCaches
       ELSE Throw(c) /\ UNCHANGED verified
    /\ SameRepo /\ UNCHANGED <<now, lost, minted>>

\* Mutant of Lost: the loser hands over its own manifest.
LostReturnsMine(c, w) ==
    IF w = NoManifest THEN Throw(c) ELSE Return(c, call[c].mine)

\* The commit was lost to winner w, which is validated unless it is mine.
Lost(c, w) ==
    IF w = NoManifest THEN Throw(c)
    ELSE IF w.id = call[c].mine.id THEN Return(c, w)
    ELSE IF Usable(w) THEN Goto(c, "readWinner", w, call[c].mine) /\ SameCaches
    ELSE Throw(c)

\* Mutant of Commit: the PUT has no If-None-Match.
CommitOverwrites(c) ==
    /\ call[c].pc = "commit"
    /\ Put(call[c].mine) /\ UNCHANGED removed
    /\ Return(c, call[c].mine)
    /\ SameWorld

\* commitIfAbsent: PUT If-None-Match.
Commit(c) ==
    /\ call[c].pc = "commit"
    /\ \/ /\ repo[Key(c)] = NoManifest
          /\ Put(call[c].mine) /\ UNCHANGED removed
          /\ Return(c, call[c].mine)
       \/ /\ repo[Key(c)] # NoManifest
          /\ IF Durable
             THEN Goto(c, "commitLookup", NoManifest, call[c].mine) /\ SameCaches
             ELSE Lost(c, repo[Key(c)])
          /\ SameRepo
    /\ SameWorld

CommitLookup(c) ==
    /\ call[c].pc = "commitLookup"
    /\ Lost(c, repo[Key(c)])
    /\ SameRepo /\ SameWorld

ReadWinner(c) ==
    /\ call[c].pc = "readWinner"
    /\ IF Readable(call[c].seen)
       THEN Return(c, call[c].seen) /\ verified' = verified \cup {call[c].seen.obj}
       ELSE Throw(c) /\ UNCHANGED verified
    /\ SameRepo /\ UNCHANGED <<now, lost, minted>>

-----------------------------------------------------------------------------
(* invalidate(key), and the repository's invalidate it shares with warm    *)

\* It waits for the publication pending now, if any.
Invalidate(c, g, k) ==
    /\ Begin(c, "invalidate", g, k, "await", NoManifest, pending[g][k])
    /\ SameRepo /\ SameCaches /\ SameWorld

\* The cached manifest is the one to remove, else the repository's.
InvalidateCached(c) ==
    LET g == call[c].mgr  k == Key(c) IN
    /\ call[c].pc = "await"
    /\ call[c].waits # NoCall => call[call[c].waits].pc = "done"
    /\ Goto(c, IF cached[g][k] # NoManifest THEN "dropGet" ELSE "invLookup",
            cached[g][k], NoManifest)
    /\ cached' = [cached EXCEPT ![g][k] = NoManifest]
    /\ SameRepo /\ UNCHANGED pending /\ SameWorld

InvalidateLookup(c) ==
    LET g == call[c].mgr  k == Key(c) IN
    /\ call[c].pc = "invLookup"
    /\ cached' = [cached EXCEPT ![g][k] = NoManifest]
    /\ Goto(c, IF repo[k] = NoManifest THEN "done" ELSE "dropGet",
            repo[k], NoManifest)
    /\ SameRepo /\ UNCHANGED pending /\ SameWorld

\* repository.invalidate is over: invalidate returns (its result is the
\* manifest it removed), warm builds anew.
Dropped(c, m) ==
    IF call[c].op = "invalidate"
    THEN call' = [call EXCEPT ![c].pc = "done", ![c].result = m,
                              ![c].seen = NoManifest, ![c].since = now]
    ELSE Goto(c, "build", NoManifest, NoManifest)

\* GET: only the manifest the caller saw is deleted.
DropGet(c) ==
    LET m == repo[Key(c)]
        same == Same(m, call[c].seen) IN
    /\ call[c].pc = "dropGet"
    /\ \/ ~same /\ Dropped(c, NoManifest) /\ SameRepo
       \/ same /\ Durable /\ Goto(c, "dropDelete", m, NoManifest) /\ SameRepo
       \/ same /\ ~Durable /\ Dropped(c, m) /\ Delete(Key(c)) /\ UNCHANGED committed
    /\ SameCaches /\ SameWorld

\* Mutant of DropDelete: the DELETE has no If-Match.
DropDeleteAny(c) ==
    /\ call[c].pc = "dropDelete"
    /\ Dropped(c, call[c].seen) /\ Delete(Key(c)) /\ UNCHANGED committed
    /\ SameCaches /\ SameWorld

\* DELETE If-Match.
DropDelete(c) ==
    /\ call[c].pc = "dropDelete"
    /\ IF repo[Key(c)] = call[c].seen
       THEN Dropped(c, call[c].seen) /\ Delete(Key(c)) /\ UNCHANGED committed
       ELSE Dropped(c, NoManifest) /\ SameRepo
    /\ SameCaches /\ SameWorld

-----------------------------------------------------------------------------
(* Failures and the environment                                            *)

\* What an error does: inside warm's try it drops the existing manifest;
\* anywhere else the call throws.
Fail(c) ==
    IF call[c].pc \in {"renewGet", "renewPut", "renewLookup", "readExisting"}
    THEN Goto(c, "dropGet", call[c].seen, NoManifest) /\ SameCaches
    ELSE Throw(c)

RequestFails(c) ==
    /\ call[c].pc \in Requests \cup {"build"}
    /\ Fail(c)
    /\ SameRepo /\ SameWorld

\* A conditional PUT or DELETE took effect but its answer did not arrive.
AnswerLost(c) ==
    /\ Durable
    /\ \/ /\ call[c].pc = "renewPut" /\ repo[Key(c)] = call[c].seen
          /\ Put(call[c].mine) /\ UNCHANGED removed
       \/ /\ call[c].pc = "commit" /\ repo[Key(c)] = NoManifest
          /\ Put(call[c].mine) /\ UNCHANGED removed
       \/ /\ call[c].pc = "dropDelete" /\ repo[Key(c)] = call[c].seen
          /\ Delete(Key(c)) /\ UNCHANGED committed
    /\ Fail(c)
    /\ SameWorld

\* A process dies: its cache, its publications and its calls are gone.
Crash(g) ==
    /\ \E c \in Calls : call[c].mgr = g /\ call[c].pc \notin {"done", "crashed"}
    /\ call' = [c \in Calls |->
           IF call[c].mgr = g /\ call[c].pc \notin {"done", "crashed"}
           THEN [Idle EXCEPT !.op = call[c].op, !.pc = "crashed"]
           ELSE call[c]]
    /\ cached' = [cached EXCEPT ![g] = [k \in Keys |-> NoManifest]]
    /\ pending' = [pending EXCEPT ![g] = [k \in Keys |-> NoCall]]
    /\ SameRepo /\ SameWorld

\* Time passes, but no request outlives its timeout.
Tick ==
    /\ now < MaxTime
    /\ \A c \in Calls : call[c].pc \in Requests => now < call[c].since + RequestTimeout
    /\ now' = now + 1
    /\ UNCHANGED <<lost, minted, verified>> /\ SameRepo /\ SameCaches /\ UNCHANGED call

\* The storage lifecycle deletes an object, never before its retention ends.
Expire(o) ==
    /\ o \notin lost
    /\ \E m \in minted : m.obj = o /\ now >= m.ret
    /\ lost' = lost \cup {o}
    /\ UNCHANGED <<now, minted, verified, call>> /\ SameRepo /\ SameCaches

Start(c) ==
    \E g \in Managers, k \in Keys :
        \/ WarmHit(c, g, k)
        \/ WarmJoin(c, g, k)
        \/ WarmLead(c, g, k)
        \/ Invalidate(c, g, k)
        \/ \E m \in Foreign \cup committed : Import(c, g, k, m)

\* The steps a started call takes by itself.
Proceed(c) ==
    \/ Lookup(c) \/ RenewGet(c) \/ RenewPut(c) \/ RenewLookup(c)
    \/ ReadExisting(c) \/ Build(c) \/ ReadMine(c) \/ Commit(c)
    \/ CommitLookup(c) \/ ReadWinner(c)
    \/ InvalidateCached(c) \/ InvalidateLookup(c) \/ DropGet(c) \/ DropDelete(c)

Next ==
    \/ \E c \in Calls : Start(c) \/ Proceed(c) \/ RequestFails(c) \/ AnswerLost(c)
    \/ \E g \in Managers : Crash(g)
    \/ \E o \in Objects : Expire(o)
    \/ Tick

Spec == Init /\ [][Next]_vars

\* Every request is answered or times out, and every build ends.
Fairness == \A c \in Calls : WF_vars(Proceed(c) \/ RequestFails(c))

FairSpec == Spec /\ Fairness

-----------------------------------------------------------------------------
(* What publication promises                                               *)

Served(c) == call[c].op # "invalidate" /\ call[c].result # NoManifest

\* A caller is only ever handed a manifest that was durable at some time: a
\* publisher that loses the conditional PUT hands over the winner's, never
\* its own (publication.ts:287-289, 220-223).
ServedWasCommitted == \A c \in Calls : Served(c) => call[c].result \in committed

\* When warm returns a manifest, its URL and its object have the grace period
\* left but for the two requests at most that separate the check of usable from
\* the answer (publication.ts:163-166, 286-288).  Not so import: its third
\* request, the lookup after a lost PUT, may find its own manifest, which is
\* not validated again (publication.ts:220-221).
ServedStaysReadable ==
    \A c \in Calls :
        LET m == call[c].result IN
        call[c].op = "warm" /\ m # NoManifest =>
            /\ call[c].since + Grace < m.exp + 2 * RequestTimeout
            /\ call[c].since + Grace < m.ret + 2 * RequestTimeout

\* A manifest becomes durable, and is cached, only if some manager has read
\* its object back (publication.ts:219-220, 286-287).
DurableIsVerified ==
    /\ \A k \in Keys : repo[k] # NoManifest =>
          repo[k].key = k /\ repo[k].obj \in verified
    /\ \A g \in Managers, k \in Keys : cached[g][k] # NoManifest =>
          /\ cached[g][k].key = k
          /\ cached[g][k] \in committed
          /\ cached[g][k].obj \in verified

\* Until somebody removes a key's manifest, every publisher and every renewal
\* agrees on one object, whatever races the conditional PUTs lose
\* (publication.ts:127-145).
OneObjectPerKey ==
    \A m1, m2 \in committed :
        m1.key = m2.key /\ m1.key \notin removed => m1.obj = m2.obj

\* One manager never runs two publications of a key at once: concurrent warm
\* calls share the first one's promise (publication.ts:229-233).
Leading == (WarmPcs \ {"joined"}) \cup CommitPcs \cup DropPcs
SharedPublication ==
    \A c, d \in Calls :
        /\ call[c].op = "warm" /\ call[c].pc \in Leading
        /\ call[d].op = "warm" /\ call[d].pc \in Leading
        /\ call[c].mgr = call[d].mgr /\ call[c].key = call[d].key
        => c = d

\* A manifest leaves the repository only by the hand of a call that saw that
\* very manifest, and is replaced only by a renewal of itself: a late delete or
\* PUT never destroys another publisher's (publication.ts:143, 146-151).
ReplacedOnlyAsSeen ==
    [][\A k \in Keys :
          repo[k] # NoManifest /\ repo'[k] # repo[k] =>
              /\ \E c \in Calls : call[c].seen = repo[k] /\ call'[c].pc # call[c].pc
              /\ repo'[k] # NoManifest => SameIdentity(repo[k], repo'[k])]_vars

\* Every call ends: a shared publication always answers those that wait for
\* it, and invalidate never waits for ever (publication.ts:178, 232-233).
CallsEnd ==
    \A c \in Calls :
        (call[c].pc # "idle") ~> (call[c].pc \in {"done", "crashed"})

-----------------------------------------------------------------------------
(* The managers and their repository implement one register per key.      *)

ServedManifests == {call[c].result : c \in {d \in Calls : Served(d)}}

Register == INSTANCE PublicationRegister WITH
    held <- repo, ever <- committed, readBack <- verified,
    served <- ServedManifests

\* Every step of a manager, lost answers and crashes included, is a step of
\* the register: publish once, renew in place, remove (publication.ts:127-151).
ImplementsRegister == Register!Spec

=============================================================================
