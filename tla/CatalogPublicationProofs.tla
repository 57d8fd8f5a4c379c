---------------------- MODULE CatalogPublicationProofs ----------------------
(***************************************************************************)
(* Proofs about CatalogPublication, for any managers, calls, keys, times   *)
(* and repository kind.                                                    *)
(***************************************************************************)
EXTENDS CatalogPublication, TLAPS

Maybe == Manifest \cup {NoManifest}

-----------------------------------------------------------------------------
(* What the ways a call moves on make of the calls.                        *)

LEMMA IdleType == Idle \in CallState
<1>1. (CHOOSE k \in Keys : TRUE) \in Keys
  BY KeysAssumption
<1>2. QED
  BY <1>1 DEF Idle, CallState, Pcs

LEMMA ClockType ==
  ASSUME now \in Nat, NEW pc
  PROVE  Clock(pc) \in Nat
BY DEF Clock

LEMMA GotoEffect ==
  ASSUME TypeOK, NEW c \in Calls, NEW pc \in Pcs, NEW s \in Maybe, NEW m \in Maybe,
         Goto(c, pc, s, m)
  PROVE  /\ call' \in [Calls -> CallState]
         /\ call'[c] = [call[c] EXCEPT !.pc = pc, !.seen = s, !.mine = m,
                                       !.waits = NoCall, !.since = Clock(pc)]
         /\ \A d \in Calls \ {c} : call'[d] = call[d]
<1>1. Clock(pc) \in Nat
  BY ClockType DEF TypeOK
<1>2. call[c] \in CallState
  BY DEF TypeOK
<1>3. call' = [call EXCEPT ![c] =
          [call[c] EXCEPT !.pc = pc, !.seen = s, !.mine = m,
                          !.waits = NoCall, !.since = Clock(pc)]]
  BY DEF Goto, TypeOK, CallState
<1>4. [call[c] EXCEPT !.pc = pc, !.seen = s, !.mine = m,
                      !.waits = NoCall, !.since = Clock(pc)] \in CallState
  BY <1>1, <1>2 DEF CallState, Maybe
<1>5. QED
  BY <1>3, <1>4 DEF TypeOK

LEMMA BeginEffect ==
  ASSUME TypeOK, NEW c \in Calls, NEW op \in {"warm", "import", "invalidate"},
         NEW g \in Managers, NEW k \in Keys, NEW pc \in Pcs, NEW m \in Maybe,
         NEW w \in Calls \cup {NoCall}, Begin(c, op, g, k, pc, m, w)
  PROVE  /\ call' \in [Calls -> CallState]
         /\ call[c].pc = "idle"
         /\ call'[c] = [Idle EXCEPT !.op = op, !.pc = pc, !.mgr = g, !.key = k,
                                    !.mine = m, !.waits = w, !.since = Clock(pc)]
         /\ \A d \in Calls \ {c} : call'[d] = call[d]
<1>1. Clock(pc) \in Nat
  BY ClockType DEF TypeOK
<1>2. [Idle EXCEPT !.op = op, !.pc = pc, !.mgr = g, !.key = k, !.mine = m,
                   !.waits = w, !.since = Clock(pc)] \in CallState
  BY <1>1, IdleType DEF CallState, Maybe
<1>3. QED
  BY <1>2 DEF Begin, TypeOK

LEMMA EndEffect ==
  ASSUME TypeOK, NEW c \in Calls, NEW m \in Maybe, End(c, m)
  PROVE  /\ call' \in [Calls -> CallState]
         /\ \A d \in {c} \cup JoinedTo(c) :
               call'[d] = [Idle EXCEPT !.op = call[d].op, !.pc = "done",
                                       !.result = m, !.since = now]
         /\ \A d \in Calls \ ({c} \cup JoinedTo(c)) : call'[d] = call[d]
         /\ pending' \in [Managers -> [Keys -> Calls \cup {NoCall}]]
         /\ \A g \in Managers, k \in Keys :
               pending'[g][k] = IF pending[g][k] = c THEN NoCall ELSE pending[g][k]
<1>1. \A d \in Calls : [Idle EXCEPT !.op = call[d].op, !.pc = "done",
                                    !.result = m, !.since = now] \in CallState
  BY IdleType DEF TypeOK, CallState, Maybe, Pcs
<1>2. JoinedTo(c) \subseteq Calls
  BY DEF JoinedTo
<1>3. QED
  BY <1>1, <1>2 DEF End, TypeOK

LEMMA RememberEffect ==
  ASSUME TypeOK, NEW g \in Managers, NEW m \in Manifest, Remember(g, m)
  PROVE  /\ cached' \in [Managers -> [Keys -> Maybe]]
         /\ \A h \in Managers, k \in Keys :
               cached'[h][k] \in {cached[h][k], NoManifest}
                   \cup (IF h = g /\ k = m.key THEN {m} ELSE {})
BY DEF Remember, TypeOK, Maybe

-----------------------------------------------------------------------------
(* The inductive invariant.                                                *)

\* Where a call holds a manifest it saw, one it made, one it read back.
SeenPcs == {"renewGet", "renewPut", "renewLookup", "readExisting",
            "readWinner", "dropGet", "dropDelete"}
MinePcs == {"renewPut", "readMine", "commit", "commitLookup", "readWinner"}
ReadPcs == {"commit", "commitLookup", "readWinner"}

CallOK(x, held, read) ==
    /\ x.seen # NoManifest => x.seen \in held /\ x.seen.key = x.key
    /\ x.pc \in SeenPcs => x.seen # NoManifest
    /\ x.mine # NoManifest => x.mine.key = x.key
    /\ x.pc \in MinePcs => x.mine # NoManifest
    /\ x.pc \in ReadPcs => x.mine.obj \in read
    /\ x.pc = "renewPut" => SameIdentity(x.seen, x.mine)
    /\ x.result # NoManifest => x.result \in held /\ x.pc = "done"
    /\ x.pc \notin {"idle", "done", "crashed"} => x.mgr \in Managers
    /\ x.pc \in InvalidatePcs => x.op = "invalidate"

CallsOK == \A c \in Calls : CallOK(call[c], committed, verified)

RepoOK ==
    /\ \A k \in Keys : repo[k] # NoManifest => repo[k].key = k /\ repo[k] \in committed
    /\ \A m \in committed : m.obj \in verified
    /\ \A m \in committed : m.key \notin removed =>
          repo[m.key] # NoManifest /\ repo[m.key].obj = m.obj

CachedOK ==
    \A g \in Managers, k \in Keys : cached[g][k] # NoManifest =>
        cached[g][k].key = k /\ cached[g][k] \in committed

LeadersOK ==
    \A c \in Calls : call[c].op = "warm" /\ call[c].pc \in Leading =>
        pending[call[c].mgr][call[c].key] = c

IInv == TypeOK /\ CallsOK /\ RepoOK /\ CachedOK /\ LeadersOK

-----------------------------------------------------------------------------
(* The ways the repository changes.                                        *)

LEMMA SameRepoOK ==
  ASSUME RepoOK, SameRepo, verified \subseteq verified'
  PROVE  RepoOK'
BY DEF RepoOK, SameRepo

LEMMA PutNewOK ==
  ASSUME TypeOK, RepoOK, NEW m \in Manifest, m.obj \in verified,
         repo[m.key] = NoManifest, Put(m), UNCHANGED <<removed, verified>>
  PROVE  RepoOK' /\ repo' \in [Keys -> Maybe] /\ committed' \subseteq Manifest
<1>1. m.key \in Keys /\ m # NoManifest
  BY ManifestAssumption DEF Manifest
<1>2. QED
  BY <1>1 DEF RepoOK, Put, TypeOK, Maybe, Manifest

LEMMA PutRenewedOK ==
  ASSUME TypeOK, RepoOK, NEW m \in Manifest, repo[m.key] # NoManifest,
         repo[m.key].obj = m.obj, Put(m), UNCHANGED <<removed, verified>>
  PROVE  RepoOK' /\ repo' \in [Keys -> Maybe] /\ committed' \subseteq Manifest
<1>1. m.key \in Keys /\ m # NoManifest
  BY ManifestAssumption DEF Manifest
<1>2. QED
  BY <1>1 DEF RepoOK, Put, TypeOK, Maybe, Manifest

LEMMA DeleteOK ==
  ASSUME TypeOK, RepoOK, NEW k \in Keys, Delete(k), UNCHANGED <<committed, verified>>
  PROVE  RepoOK' /\ repo' \in [Keys -> Maybe] /\ removed' \subseteq Keys
BY DEF RepoOK, Delete, TypeOK, Maybe, Manifest

-----------------------------------------------------------------------------
(* The ways a call moves on.                                               *)

Running(c) == call[c].pc \notin {"idle", "done", "crashed", "joined"}

\* What a step that makes c wait for pc, holding s and m, must establish.
GotoReady(c, pc, s, m) ==
    /\ pc \in Pcs \ {"idle", "joined", "crashed"}
    /\ s \in Maybe /\ m \in Maybe
    /\ s # NoManifest => s \in committed' /\ s.key = call[c].key
    /\ pc \in SeenPcs => s # NoManifest
    /\ m # NoManifest => m.key = call[c].key
    /\ pc \in MinePcs => m # NoManifest
    /\ pc \in ReadPcs => m.obj \in verified'
    /\ pc = "renewPut" => SameIdentity(s, m)
    /\ pc \in InvalidatePcs => call[c].op = "invalidate"

LEMMA GotoOK ==
  ASSUME TypeOK, CallsOK, LeadersOK, NEW c \in Calls, NEW pc, NEW s, NEW m,
         Running(c), Goto(c, pc, s, m), GotoReady(c, pc, s, m), UNCHANGED pending,
         committed \subseteq committed', verified \subseteq verified'
  PROVE  CallsOK' /\ LeadersOK' /\ call' \in [Calls -> CallState]
<1>0. pc \in Pcs /\ s \in Maybe /\ m \in Maybe
  BY DEF GotoReady
<1>1. /\ call' \in [Calls -> CallState]
      /\ call'[c] = [call[c] EXCEPT !.pc = pc, !.seen = s, !.mine = m,
                                    !.waits = NoCall, !.since = Clock(pc)]
      /\ \A d \in Calls \ {c} : call'[d] = call[d]
  BY <1>0, GotoEffect
<1>2. CallsOK'
  <2>1. /\ call'[c].pc = pc /\ call'[c].seen = s /\ call'[c].mine = m
        /\ call'[c].op = call[c].op /\ call'[c].mgr = call[c].mgr
        /\ call'[c].key = call[c].key /\ call'[c].result = call[c].result
    BY <1>1 DEF TypeOK, CallState
  <2>2. CallOK(call[c], committed, verified)
    BY DEF CallsOK
  <2>3. CallOK(call'[c], committed', verified')
    BY <2>1, <2>2 DEF CallOK, GotoReady, Running
  <2>4. \A d \in Calls \ {c} : CallOK(call'[d], committed', verified')
    BY <1>1 DEF CallsOK, CallOK
  <2>5. QED
    BY <2>3, <2>4 DEF CallsOK
<1>3. LeadersOK'
  <2>1. /\ call'[c].op = call[c].op
        /\ call'[c].mgr = call[c].mgr
        /\ call'[c].key = call[c].key
    BY <1>1 DEF TypeOK, CallState
  <2>2. ASSUME NEW d \in Calls, call'[d].op = "warm", call'[d].pc \in Leading
        PROVE  pending'[call'[d].mgr][call'[d].key] = d
    <3>1. CASE d = c
      <4>1. call[c].op = "warm" => call[c].pc \in Leading
        BY DEF Running, TypeOK, CallState, Pcs, Leading, CallsOK, CallOK
      <4>2. QED
        BY <3>1, <4>1, <2>1, <2>2 DEF LeadersOK
    <3>2. CASE d # c
      BY <3>2, <1>1, <2>2 DEF LeadersOK
    <3>3. QED
      BY <3>1, <3>2
  <2>3. QED
    BY <2>2 DEF LeadersOK
<1>4. QED
  BY <1>1, <1>2, <1>3

LEMMA BeginOK ==
  ASSUME TypeOK, CallsOK, LeadersOK, NEW c \in Calls,
         NEW op \in {"warm", "import", "invalidate"}, NEW g \in Managers,
         NEW k \in Keys, NEW pc \in {"lookup", "joined", "readMine", "await"},
         NEW m \in Maybe, NEW w \in Calls \cup {NoCall},
         Begin(c, op, g, k, pc, m, w),
         m # NoManifest => m.key = k,
         pc = "readMine" => m # NoManifest, pc = "await" => op = "invalidate",
         op = "warm" /\ pc \in Leading => pending'[g][k] = c,
         \A h \in Managers, j \in Keys :
             pending'[h][j] = pending[h][j] \/ pending[h][j] = NoCall,
         UNCHANGED <<committed, verified>>
  PROVE  CallsOK' /\ LeadersOK' /\ call' \in [Calls -> CallState]
<1>1. pc \in Pcs
  BY DEF Pcs, WarmPcs, CommitPcs, InvalidatePcs
<1>2. /\ call' \in [Calls -> CallState]
      /\ call[c].pc = "idle"
      /\ call'[c] = [Idle EXCEPT !.op = op, !.pc = pc, !.mgr = g, !.key = k,
                                 !.mine = m, !.waits = w, !.since = Clock(pc)]
      /\ \A d \in Calls \ {c} : call'[d] = call[d]
  BY <1>1, BeginEffect
<1>3. /\ call'[c].op = op /\ call'[c].pc = pc /\ call'[c].mgr = g
      /\ call'[c].key = k /\ call'[c].mine = m
      /\ call'[c].seen = NoManifest /\ call'[c].result = NoManifest
  BY <1>2 DEF Idle
<1>4. CallsOK'
  <2>1. CallOK(call'[c], committed', verified')
    BY <1>3 DEF CallOK, SeenPcs, MinePcs, ReadPcs, InvalidatePcs
  <2>2. \A d \in Calls \ {c} : CallOK(call'[d], committed', verified')
    BY <1>2 DEF CallsOK
  <2>3. QED
    BY <2>1, <2>2 DEF CallsOK
<1>5. ASSUME NEW d \in Calls, call'[d].op = "warm", call'[d].pc \in Leading
      PROVE  pending'[call'[d].mgr][call'[d].key] = d
  <2>1. CASE d = c
    BY <2>1, <1>3, <1>5
  <2>2. CASE d # c
    <3>1. pending[call[d].mgr][call[d].key] = d
      BY <2>2, <1>2, <1>5 DEF LeadersOK
    <3>2. call[d].mgr \in Managers /\ call[d].key \in Keys
      BY <2>2, <1>2, <1>5 DEF CallsOK, CallOK, TypeOK, CallState, Leading,
                              WarmPcs, CommitPcs, DropPcs
    <3>3. QED
      BY <3>1, <3>2, <2>2, <1>2, NoneAssumption
  <2>3. QED
    BY <2>1, <2>2
<1>6. QED
  BY <1>2, <1>4, <1>5 DEF LeadersOK

LEMMA EndOK ==
  ASSUME TypeOK, CallsOK, LeadersOK, NEW c \in Calls, NEW m \in Maybe, End(c, m),
         m # NoManifest => m \in committed',
         committed \subseteq committed', verified \subseteq verified'
  PROVE  /\ CallsOK' /\ LeadersOK' /\ call' \in [Calls -> CallState]
         /\ pending' \in [Managers -> [Keys -> Calls \cup {NoCall}]]
<1>1. /\ call' \in [Calls -> CallState]
      /\ \A d \in {c} \cup JoinedTo(c) :
            call'[d] = [Idle EXCEPT !.op = call[d].op, !.pc = "done",
                                    !.result = m, !.since = now]
      /\ \A d \in Calls \ ({c} \cup JoinedTo(c)) : call'[d] = call[d]
      /\ pending' \in [Managers -> [Keys -> Calls \cup {NoCall}]]
      /\ \A g \in Managers, k \in Keys :
            pending'[g][k] = IF pending[g][k] = c THEN NoCall ELSE pending[g][k]
  BY EndEffect
<1>2. ASSUME NEW d \in {c} \cup JoinedTo(c)
      PROVE  /\ call'[d].pc = "done" /\ call'[d].result = m
             /\ call'[d].seen = NoManifest /\ call'[d].mine = NoManifest
  <2>1. call'[d] = [Idle EXCEPT !.op = call[d].op, !.pc = "done",
                                !.result = m, !.since = now]
    BY <1>1
  <2>2. QED
    BY <2>1 DEF Idle
<1>3. CallsOK'
  <2>1. \A d \in {c} \cup JoinedTo(c) : CallOK(call'[d], committed', verified')
    BY <1>2 DEF CallOK, SeenPcs, MinePcs, ReadPcs, InvalidatePcs
  <2>2. \A d \in Calls \ ({c} \cup JoinedTo(c)) : CallOK(call'[d], committed', verified')
    BY <1>1 DEF CallsOK, CallOK
  <2>3. QED
    BY <2>1, <2>2 DEF CallsOK
<1>4. ASSUME NEW d \in Calls, call'[d].op = "warm", call'[d].pc \in Leading
      PROVE  pending'[call'[d].mgr][call'[d].key] = d
  <2>1. d \notin {c} \cup JoinedTo(c)
    BY <1>2, <1>4 DEF Leading, WarmPcs, CommitPcs, DropPcs
  <2>2. call'[d] = call[d] /\ d # c
    BY <2>1, <1>1
  <2>3. pending[call[d].mgr][call[d].key] = d
    BY <2>2, <1>4 DEF LeadersOK
  <2>4. call[d].mgr \in Managers /\ call[d].key \in Keys
    BY <2>2, <1>4 DEF CallsOK, CallOK, TypeOK, CallState, Leading,
                      WarmPcs, CommitPcs, DropPcs
  <2>5. pending'[call[d].mgr][call[d].key] = pending[call[d].mgr][call[d].key]
    BY <2>2, <2>3, <2>4, <1>1
  <2>6. QED
    BY <2>2, <2>3, <2>5
<1>5. QED
  BY <1>1, <1>3, <1>4 DEF LeadersOK

LEMMA ReturnOK ==
  ASSUME TypeOK, CallsOK, LeadersOK, CachedOK, NEW c \in Calls,
         NEW m \in Manifest, Return(c, m), m \in committed',
         call[c].pc \notin {"idle", "done", "crashed"},
         committed \subseteq committed', verified \subseteq verified'
  PROVE  /\ CallsOK' /\ LeadersOK' /\ CachedOK'
         /\ call' \in [Calls -> CallState]
         /\ pending' \in [Managers -> [Keys -> Calls \cup {NoCall}]]
         /\ cached' \in [Managers -> [Keys -> Maybe]]
<1>1. call[c].mgr \in Managers
  BY DEF CallsOK, CallOK
<1>2. m \in Maybe
  BY DEF Maybe
<1>3. CallsOK' /\ LeadersOK' /\ call' \in [Calls -> CallState]
      /\ pending' \in [Managers -> [Keys -> Calls \cup {NoCall}]]
  BY <1>2, EndOK DEF Return
<1>4. /\ cached' \in [Managers -> [Keys -> Maybe]]
      /\ \A h \in Managers, k \in Keys :
            cached'[h][k] \in {cached[h][k], NoManifest}
                \cup (IF h = call[c].mgr /\ k = m.key THEN {m} ELSE {})
  BY <1>1, RememberEffect DEF Return
<1>5. CachedOK'
  BY <1>4 DEF CachedOK
<1>6. QED
  BY <1>3, <1>4, <1>5

LEMMA ThrowOK ==
  ASSUME TypeOK, CallsOK, LeadersOK, CachedOK, NEW c \in Calls, Throw(c),
         committed \subseteq committed', verified \subseteq verified'
  PROVE  /\ CallsOK' /\ LeadersOK' /\ CachedOK'
         /\ call' \in [Calls -> CallState]
         /\ pending' \in [Managers -> [Keys -> Calls \cup {NoCall}]]
         /\ cached' \in [Managers -> [Keys -> Maybe]]
<1>1. NoManifest \in Maybe
  BY DEF Maybe
<1>2. CallsOK' /\ LeadersOK' /\ call' \in [Calls -> CallState]
      /\ pending' \in [Managers -> [Keys -> Calls \cup {NoCall}]]
  BY <1>1, EndOK DEF Throw
<1>3. CachedOK' /\ cached' \in [Managers -> [Keys -> Maybe]]
  BY DEF Throw, CachedOK, TypeOK, Maybe
<1>4. QED
  BY <1>2, <1>3

-----------------------------------------------------------------------------
(* Each action preserves the invariant.                                    *)

\* A step that only moves a call on, reads an object back or makes a manifest.
LEMMA QuietOK ==
  ASSUME IInv, NEW c \in Calls, NEW pc, NEW s, NEW m,
         Running(c), Goto(c, pc, s, m), GotoReady(c, pc, s, m),
         SameRepo, SameCaches, UNCHANGED <<now, lost>>,
         minted' \subseteq Manifest, verified \subseteq verified', verified' \subseteq Objects
  PROVE  IInv'
<1>1. CallsOK' /\ LeadersOK' /\ call' \in [Calls -> CallState]
  BY GotoOK DEF IInv, SameRepo, SameCaches
<1>2. RepoOK'
  BY SameRepoOK DEF IInv
<1>3. CachedOK'
  BY DEF IInv, CachedOK, SameRepo, SameCaches
<1>4. TypeOK'
  BY <1>1 DEF IInv, TypeOK, SameRepo, SameCaches
<1>5. QED
  BY <1>1, <1>2, <1>3, <1>4 DEF IInv

\* What IInv says of a running call and of its key.
LEMMA Holding ==
  ASSUME IInv, NEW c \in Calls, Running(c)
  PROVE  /\ Key(c) \in Keys /\ call[c].mgr \in Managers
         /\ call[c].seen \in Maybe /\ call[c].mine \in Maybe
         /\ repo[Key(c)] \in Maybe
         /\ repo[Key(c)] # NoManifest =>
               repo[Key(c)].key = Key(c) /\ repo[Key(c)] \in committed
         /\ call[c].seen # NoManifest =>
               call[c].seen \in committed /\ call[c].seen.key = Key(c)
         /\ call[c].pc \in SeenPcs => call[c].seen \in Manifest
         /\ call[c].mine # NoManifest => call[c].mine.key = Key(c)
         /\ call[c].pc \in MinePcs => call[c].mine \in Manifest
         /\ call[c].pc \in ReadPcs => call[c].mine.obj \in verified
         /\ call[c].pc = "renewPut" => SameIdentity(call[c].seen, call[c].mine)
         /\ call[c].pc \in InvalidatePcs => call[c].op = "invalidate"
BY DEF IInv, TypeOK, CallState, CallsOK, CallOK, RepoOK, Key, Maybe, Running

LEMMA LookupOK ==
  ASSUME IInv, NEW c \in Calls, Lookup(c)
  PROVE  IInv'
<1> DEFINE m == repo[Key(c)]
<1> DEFINE pc == IF m = NoManifest THEN "build"
                 ELSE IF Usable(m) THEN "readExisting"
                 ELSE IF Durable THEN "renewGet" ELSE "dropGet"
<1>1. Running(c)
  BY DEF Lookup, Running
<1>2. GotoReady(c, pc, m, NoManifest)
  BY <1>1, Holding DEF GotoReady, Lookup, Key, Pcs, WarmPcs, CommitPcs, DropPcs,
     InvalidatePcs, SeenPcs, MinePcs, ReadPcs, SameRepo, Maybe
<1>3. Goto(c, pc, m, NoManifest)
  BY DEF Lookup
<1>4. QED
  BY <1>1, <1>2, <1>3, QuietOK DEF Lookup, SameWorld, IInv, TypeOK

LEMMA RenewedReady ==
  ASSUME IInv, NEW c \in Calls, NEW r \in Maybe, Running(c),
         call[c].seen \in Manifest, committed \subseteq committed',
         r # NoManifest => r \in committed' /\ r.key = Key(c), Renewed(c, r)
  PROVE  \E pc, s : GotoReady(c, pc, s, NoManifest) /\ Goto(c, pc, s, NoManifest)
<1>0. /\ call[c].seen \in committed /\ call[c].seen.key = Key(c)
      /\ call[c].seen # NoManifest /\ NoManifest \in Maybe
  BY Holding, ManifestAssumption DEF Maybe
<1>1. CASE r = NoManifest \/ ~SameIdentity(call[c].seen, r)
  <2>1. Goto(c, "dropGet", call[c].seen, NoManifest)
    BY <1>1 DEF Renewed
  <2>2. GotoReady(c, "dropGet", call[c].seen, NoManifest)
    BY <1>0 DEF GotoReady, Key, Pcs, DropPcs, MinePcs, ReadPcs, InvalidatePcs, Maybe
  <2>3. QED
    BY <2>1, <2>2
<1>2. CASE ~(r = NoManifest \/ ~SameIdentity(call[c].seen, r))
  <2> DEFINE pc == IF Usable(r) THEN "readExisting" ELSE "dropGet"
  <2>1. Goto(c, pc, r, NoManifest)
    BY <1>2 DEF Renewed
  <2>2. GotoReady(c, pc, r, NoManifest)
    BY <1>0, <1>2 DEF GotoReady, Key, Pcs, WarmPcs, DropPcs, MinePcs, ReadPcs, InvalidatePcs
  <2>3. QED
    BY <2>1, <2>2
<1>3. QED
  BY <1>1, <1>2

LEMMA FreshIdType == ASSUME FreshIds # {} PROVE FreshId \in Ids
BY DEF FreshId, FreshIds

LEMMA RenewGetOK ==
  ASSUME IInv, NEW c \in Calls, RenewGet(c)
  PROVE  IInv'
<1> DEFINE m == repo[Key(c)]
<1>1. Running(c) /\ call[c].seen \in Manifest /\ m \in Maybe
  BY Holding DEF RenewGet, Running, SeenPcs
<1>2. CASE ~Same(m, call[c].seen)
  <2>1. Renewed(c, m) /\ UNCHANGED minted /\ SameRepo
    BY <1>2 DEF RenewGet
  <2>2. PICK pc, s : GotoReady(c, pc, s, NoManifest) /\ Goto(c, pc, s, NoManifest)
    BY <1>1, <2>1, RenewedReady, Holding DEF SameRepo
  <2>3. QED
    BY <1>1, <2>1, <2>2, QuietOK DEF RenewGet, IInv, TypeOK
<1>3. CASE Same(m, call[c].seen)
  <2> DEFINE r == [m EXCEPT !.id = FreshId, !.exp = now + UrlTtl]
  <2>1. FreshIds # {} /\ minted' = minted \cup {r} /\ Goto(c, "renewPut", m, r) /\ SameRepo
    BY <1>3 DEF RenewGet
  <2>2. m \in Manifest
    BY <1>1, <1>3 DEF Same, Maybe
  <2>3. now + UrlTtl \in Nat
    BY TimesAssumption DEF IInv, TypeOK
  <2>4. r \in Manifest /\ r.key = m.key /\ SameIdentity(m, r)
    BY <2>1, <2>2, <2>3, FreshIdType DEF Manifest, SameIdentity
  <2>5. m # NoManifest /\ r # NoManifest
    BY <2>2, <2>4, ManifestAssumption
  <2>6. GotoReady(c, "renewPut", m, r)
    BY <1>1, <2>1, <2>2, <2>4, <2>5, Holding DEF GotoReady, Key, Pcs, WarmPcs, ReadPcs,
       InvalidatePcs, SameRepo, Maybe
  <2>7. minted' \subseteq Manifest
    BY <2>1, <2>4 DEF IInv, TypeOK
  <2>8. QED
    BY <1>1, <2>1, <2>6, <2>7, QuietOK DEF RenewGet, IInv, TypeOK
<1>4. QED
  BY <1>2, <1>3

LEMMA RenewPutOK ==
  ASSUME IInv, NEW c \in Calls, RenewPut(c)
  PROVE  IInv'
<1> DEFINE n == call[c].mine
<1>1. /\ Running(c) /\ call[c].seen \in Manifest /\ n \in Manifest
      /\ n.key = Key(c) /\ SameIdentity(call[c].seen, n)
      /\ call[c].seen \in Maybe /\ NoManifest \in Maybe /\ n \in Maybe
      /\ n # NoManifest /\ call[c].seen # NoManifest
  <2>1. Running(c) /\ call[c].pc = "renewPut"
    BY DEF RenewPut, Running
  <2>2. call[c].seen \in Manifest /\ n \in Manifest
    BY <2>1, Holding DEF SeenPcs, MinePcs
  <2>3. QED
    BY <2>1, <2>2, Holding, ManifestAssumption DEF Maybe
<1>2. CASE repo[Key(c)] = call[c].seen
  <2>1. Put(n) /\ UNCHANGED removed /\ Renewed(c, n) /\ SameCaches /\ SameWorld
    BY <1>2 DEF RenewPut
  <2>2. RepoOK' /\ repo' \in [Keys -> Maybe] /\ committed' \subseteq Manifest
    BY <1>1, <1>2, <2>1, PutRenewedOK DEF IInv, SameIdentity, SameWorld
  <2>3. committed \subseteq committed' /\ n \in committed'
    BY <2>1 DEF Put
  <2>4. PICK pc, s : GotoReady(c, pc, s, NoManifest) /\ Goto(c, pc, s, NoManifest)
    BY <1>1, <2>1, <2>3, RenewedReady
  <2>5. CallsOK' /\ LeadersOK' /\ call' \in [Calls -> CallState]
    BY <1>1, <2>1, <2>3, <2>4, GotoOK DEF IInv, SameCaches, SameWorld
  <2>6. CachedOK'
    BY <2>1, <2>3 DEF IInv, CachedOK, SameCaches
  <2>7. QED
    BY <2>1, <2>2, <2>5, <2>6 DEF IInv, TypeOK, SameCaches, SameWorld, Maybe
<1>3. CASE repo[Key(c)] # call[c].seen
  <2>1. Goto(c, "renewLookup", call[c].seen, NoManifest) /\ SameRepo
    BY <1>3 DEF RenewPut
  <2>2. GotoReady(c, "renewLookup", call[c].seen, NoManifest)
    BY <1>1, <2>1, Holding DEF GotoReady, Key, Pcs, WarmPcs, MinePcs, ReadPcs,
       InvalidatePcs, SameRepo
  <2>3. QED
    BY <1>1, <2>1, <2>2, QuietOK DEF RenewPut, SameWorld, IInv, TypeOK
<1>4. QED
  BY <1>2, <1>3

LEMMA RenewLookupOK ==
  ASSUME IInv, NEW c \in Calls, RenewLookup(c)
  PROVE  IInv'
<1>1. Running(c) /\ call[c].seen \in Manifest
  BY Holding DEF RenewLookup, Running, SeenPcs
<1>2. PICK pc, s : GotoReady(c, pc, s, NoManifest) /\ Goto(c, pc, s, NoManifest)
  BY <1>1, RenewedReady, Holding DEF RenewLookup, SameRepo
<1>3. QED
  BY <1>1, <1>2, QuietOK DEF RenewLookup, SameWorld, IInv, TypeOK

\* A call ends, leaving the repository alone.
LEMMA EndedOK ==
  ASSUME IInv, NEW c \in Calls, call[c].pc \notin {"idle", "done", "crashed"},
         Throw(c) \/ \E m \in committed : Return(c, m),
         SameRepo, UNCHANGED <<now, lost>>, minted' \subseteq Manifest,
         verified \subseteq verified', verified' \subseteq Objects
  PROVE  IInv'
<1>1. committed' = committed
  BY DEF SameRepo
<1> DEFINE Ended == /\ CallsOK' /\ LeadersOK' /\ CachedOK'
                    /\ call' \in [Calls -> CallState]
                    /\ pending' \in [Managers -> [Keys -> Calls \cup {NoCall}]]
                    /\ cached' \in [Managers -> [Keys -> Maybe]]
<1>2. Ended
  <2>1. CASE Throw(c)
    BY <1>1, <2>1, ThrowOK DEF IInv
  <2>2. ASSUME NEW m \in committed, Return(c, m)
        PROVE  Ended
    <3>1. m \in Manifest
      BY DEF IInv, TypeOK
    <3>2. QED
      BY <1>1, <2>2, <3>1, ReturnOK DEF IInv
  <2>3. QED
    BY <2>1, <2>2
<1>3. RepoOK'
  BY SameRepoOK DEF IInv
<1>4. QED
  BY <1>2, <1>3 DEF IInv, TypeOK, SameRepo, Maybe

LEMMA ReadExistingOK ==
  ASSUME IInv, NEW c \in Calls, ReadExisting(c)
  PROVE  IInv'
<1>1. /\ Running(c) /\ call[c].seen \in Manifest /\ call[c].seen \in committed
      /\ call[c].seen.key = Key(c) /\ call[c].seen # NoManifest
  <2>1. Running(c) /\ call[c].pc \in SeenPcs
    BY DEF ReadExisting, Running, SeenPcs
  <2>2. QED
    BY <2>1, Holding, ManifestAssumption
<1>2. call[c].seen.obj \in Objects
  BY <1>1 DEF Manifest
<1>3. CASE Readable(call[c].seen)
  BY <1>1, <1>2, <1>3, EndedOK DEF ReadExisting, Running, IInv, TypeOK
<1>4. CASE ~Readable(call[c].seen)
  <2>1. GotoReady(c, "dropGet", call[c].seen, NoManifest)
    BY <1>1 DEF GotoReady, Key, Pcs, DropPcs, MinePcs, ReadPcs, InvalidatePcs,
       ReadExisting, SameRepo, Maybe
  <2>2. QED
    BY <1>1, <1>4, <2>1, QuietOK DEF ReadExisting, IInv, TypeOK
<1>5. QED
  BY <1>3, <1>4

LEMMA BuildOK ==
  ASSUME IInv, NEW c \in Calls, Build(c)
  PROVE  IInv'
<1> DEFINE m == [id |-> FreshId, key |-> Key(c), obj |-> FreshObject,
                 exp |-> now + UrlTtl, ret |-> now + RetainTtl]
<1>1. Running(c)
  BY DEF Build, Running
<1>2. m \in Manifest
  <2>1. FreshId \in Ids /\ FreshObject \in Objects
    BY FreshIdType DEF Build, FreshObject, FreshObjects
  <2>2. now + UrlTtl \in Nat /\ now + RetainTtl \in Nat
    BY TimesAssumption DEF IInv, TypeOK
  <2>3. Key(c) \in Keys
    BY <1>1, Holding
  <2>4. QED
    BY <2>1, <2>2, <2>3 DEF Manifest
<1>3. minted' \subseteq Manifest
  BY <1>2 DEF Build, IInv, TypeOK
<1>4. CASE Usable(m)
  <2>1. m # NoManifest /\ m \in Maybe /\ NoManifest \in Maybe
    BY <1>2, ManifestAssumption DEF Maybe
  <2>2. GotoReady(c, "readMine", NoManifest, m)
    BY <2>1 DEF GotoReady, Key, Pcs, CommitPcs, SeenPcs, ReadPcs, InvalidatePcs
  <2>3. QED
    BY <1>1, <1>3, <1>4, <2>2, QuietOK DEF Build, IInv, TypeOK
<1>5. CASE ~Usable(m)
  BY <1>1, <1>3, <1>5, EndedOK DEF Build, Running, IInv, TypeOK
<1>6. QED
  BY <1>4, <1>5

LEMMA ReadMineOK ==
  ASSUME IInv, NEW c \in Calls, ReadMine(c)
  PROVE  IInv'
<1> DEFINE m == call[c].mine
<1>1. Running(c) /\ m \in Manifest /\ m.key = Key(c) /\ m # NoManifest
  <2>1. Running(c) /\ call[c].pc \in MinePcs
    BY DEF ReadMine, Running, MinePcs
  <2>2. QED
    BY <2>1, Holding, ManifestAssumption
<1>2. m.obj \in Objects
  BY <1>1 DEF Manifest
<1>3. CASE Readable(m)
  <2>1. Goto(c, "commit", NoManifest, m) /\ verified' = verified \cup {m.obj}
    BY <1>3 DEF ReadMine
  <2>2. GotoReady(c, "commit", NoManifest, m)
    BY <1>1, <2>1 DEF GotoReady, Key, Pcs, CommitPcs, SeenPcs, InvalidatePcs, Maybe
  <2>3. QED
    BY <1>1, <1>2, <1>3, <2>1, <2>2, QuietOK DEF ReadMine, IInv, TypeOK
<1>4. CASE ~Readable(m)
  BY <1>1, <1>4, EndedOK DEF ReadMine, Running, IInv, TypeOK
<1>5. QED
  BY <1>3, <1>4

LEMMA LostOK ==
  ASSUME IInv, NEW c \in Calls, call[c].pc \in {"commit", "commitLookup"},
         Lost(c, repo[Key(c)]), SameRepo, SameWorld
  PROVE  IInv'
<1> DEFINE w == repo[Key(c)]
<1> DEFINE n == call[c].mine
<1>1. /\ Running(c) /\ call[c].pc \in MinePcs /\ call[c].pc \in ReadPcs
      /\ call[c].pc \notin {"idle", "done", "crashed"}
  BY DEF Running, MinePcs, ReadPcs
<1>2. /\ n \in Manifest /\ n \in Maybe /\ n.key = Key(c) /\ n # NoManifest
      /\ n.obj \in verified
  BY <1>1, Holding, ManifestAssumption DEF Maybe
<1>3. w \in Maybe /\ (w # NoManifest => w.key = Key(c) /\ w \in committed)
  BY <1>1, Holding
<1>4. minted' \subseteq Manifest /\ verified' = verified /\ verified' \subseteq Objects
  BY DEF SameWorld, IInv, TypeOK
<1>5. CASE w = NoManifest \/ (w.id # n.id /\ ~Usable(w))
  BY <1>1, <1>4, <1>5, EndedOK DEF Lost, SameWorld
<1>6. CASE w # NoManifest /\ w.id = n.id
  BY <1>1, <1>3, <1>4, <1>6, EndedOK DEF Lost, SameWorld
<1>7. CASE w # NoManifest /\ w.id # n.id /\ Usable(w)
  <2>1. Goto(c, "readWinner", w, n) /\ SameCaches
    BY <1>7 DEF Lost
  <2>2. GotoReady(c, "readWinner", w, n)
    BY <1>2, <1>3, <1>4, <1>7 DEF GotoReady, Key, Pcs, CommitPcs, SameRepo, InvalidatePcs
  <2>3. QED
    BY <1>1, <1>4, <2>1, <2>2, QuietOK DEF SameWorld
<1>8. QED
  BY <1>5, <1>6, <1>7

LEMMA CommitOK ==
  ASSUME IInv, NEW c \in Calls, Commit(c)
  PROVE  IInv'
<1> DEFINE n == call[c].mine
<1>1. /\ Running(c) /\ call[c].pc \in MinePcs /\ call[c].pc \in ReadPcs
      /\ call[c].pc \notin {"idle", "done", "crashed"}
  BY DEF Commit, Running, MinePcs, ReadPcs
<1>2. /\ n \in Manifest /\ n \in Maybe /\ NoManifest \in Maybe /\ n.key = Key(c)
      /\ n # NoManifest /\ n.obj \in verified
  BY <1>1, Holding, ManifestAssumption DEF Maybe
<1>3. CASE repo[Key(c)] = NoManifest
  <2>1. Put(n) /\ UNCHANGED removed /\ Return(c, n) /\ SameWorld
    BY <1>3 DEF Commit
  <2>2. RepoOK' /\ repo' \in [Keys -> Maybe] /\ committed' \subseteq Manifest
    BY <1>2, <1>3, <2>1, PutNewOK DEF IInv, SameWorld
  <2>3. committed \subseteq committed' /\ n \in committed'
    BY <2>1 DEF Put
  <2>4. /\ CallsOK' /\ LeadersOK' /\ CachedOK'
        /\ call' \in [Calls -> CallState]
        /\ pending' \in [Managers -> [Keys -> Calls \cup {NoCall}]]
        /\ cached' \in [Managers -> [Keys -> Maybe]]
    BY <1>1, <1>2, <2>1, <2>3, ReturnOK DEF IInv, SameWorld
  <2>5. QED
    BY <2>1, <2>2, <2>4 DEF IInv, TypeOK, SameWorld, Maybe
<1>4. CASE repo[Key(c)] # NoManifest /\ Durable
  <2>1. Goto(c, "commitLookup", NoManifest, n) /\ SameCaches /\ SameRepo /\ SameWorld
    BY <1>4 DEF Commit
  <2>2. GotoReady(c, "commitLookup", NoManifest, n)
    BY <1>2, <2>1 DEF GotoReady, Key, Pcs, CommitPcs, SeenPcs, InvalidatePcs, SameWorld
  <2>3. QED
    BY <1>1, <2>1, <2>2, QuietOK DEF SameWorld, IInv, TypeOK
<1>5. CASE repo[Key(c)] # NoManifest /\ ~Durable
  BY <1>5, LostOK DEF Commit
<1>6. QED
  BY <1>3, <1>4, <1>5

LEMMA CommitLookupOK ==
  ASSUME IInv, NEW c \in Calls, CommitLookup(c)
  PROVE  IInv'
BY LostOK DEF CommitLookup

LEMMA ReadWinnerOK ==
  ASSUME IInv, NEW c \in Calls, ReadWinner(c)
  PROVE  IInv'
<1>1. Running(c) /\ call[c].seen \in Manifest /\ call[c].seen \in committed
  <2>1. Running(c) /\ call[c].pc \in SeenPcs
    BY DEF ReadWinner, Running, SeenPcs
  <2>2. QED
    BY <2>1, Holding, ManifestAssumption
<1>2. call[c].seen.obj \in Objects
  BY <1>1 DEF Manifest
<1>3. QED
  BY <1>1, <1>2, EndedOK DEF ReadWinner, Running, IInv, TypeOK

\* A call starts, leaving the repository and the caches alone.
LEMMA BegunOK ==
  ASSUME IInv, SameRepo, UNCHANGED cached, SameWorld,
         CallsOK', LeadersOK', call' \in [Calls -> CallState],
         pending' \in [Managers -> [Keys -> Calls \cup {NoCall}]]
  PROVE  IInv'
<1>1. RepoOK'
  BY SameRepoOK DEF IInv, SameWorld
<1>2. CachedOK'
  BY DEF IInv, CachedOK, SameRepo
<1>3. QED
  BY <1>1, <1>2 DEF IInv, TypeOK, SameRepo, SameWorld

LEMMA WarmHitOK ==
  ASSUME IInv, NEW c \in Calls, NEW g \in Managers, NEW k \in Keys, WarmHit(c, g, k)
  PROVE  IInv'
<1> DEFINE m == cached[g][k]
<1>1. m \in Manifest /\ m \in committed
  BY DEF IInv, TypeOK, CachedOK, WarmHit, CacheUsable
<1> DEFINE x == [Idle EXCEPT !.op = "warm", !.pc = "done", !.result = m, !.since = now]
<1>2. x \in CallState
  BY <1>1, IdleType DEF CallState, Pcs, IInv, TypeOK
<1>3. call' = [call EXCEPT ![c] = x]
  BY DEF WarmHit
<1>4. call' \in [Calls -> CallState] /\ call'[c] = x /\ \A d \in Calls \ {c} : call'[d] = call[d]
  BY <1>2, <1>3 DEF IInv, TypeOK
<1>5. x.pc = "done" /\ x.result = m /\ x.seen = NoManifest /\ x.mine = NoManifest
  BY DEF Idle
<1>6. CallsOK'
  <2>1. CallOK(x, committed', verified')
    BY <1>1, <1>5 DEF CallOK, SeenPcs, MinePcs, ReadPcs, InvalidatePcs, WarmHit, SameRepo
  <2>2. \A d \in Calls \ {c} : CallOK(call'[d], committed', verified')
    BY <1>4 DEF IInv, CallsOK, WarmHit, SameRepo, SameWorld
  <2>3. QED
    BY <1>4, <2>1, <2>2 DEF CallsOK
<1>7. LeadersOK'
  <2>1. x.pc \notin Leading
    BY <1>5 DEF Leading, WarmPcs, CommitPcs, DropPcs
  <2>2. QED
    BY <1>4, <2>1 DEF IInv, LeadersOK, WarmHit, SameCaches
<1>8. QED
  BY <1>4, <1>6, <1>7, BegunOK DEF WarmHit, SameCaches, IInv, TypeOK

LEMMA WarmJoinOK ==
  ASSUME IInv, NEW c \in Calls, NEW g \in Managers, NEW k \in Keys, WarmJoin(c, g, k)
  PROVE  IInv'
<1>1. Begin(c, "warm", g, k, "joined", NoManifest, pending[g][k])
  BY DEF WarmJoin
<1>2. pending[g][k] \in Calls \cup {NoCall} /\ NoManifest \in Maybe
  BY DEF IInv, TypeOK, Maybe
<1>3. CallsOK' /\ LeadersOK' /\ call' \in [Calls -> CallState]
  BY <1>1, <1>2, BeginOK DEF WarmJoin, IInv, Leading, CommitPcs, DropPcs,
     SameRepo, SameCaches, SameWorld
<1>4. QED
  BY <1>3, BegunOK DEF WarmJoin, SameCaches, IInv, TypeOK

LEMMA WarmLeadOK ==
  ASSUME IInv, NEW c \in Calls, NEW g \in Managers, NEW k \in Keys, WarmLead(c, g, k)
  PROVE  IInv'
<1>1. /\ Begin(c, "warm", g, k, "lookup", NoManifest, NoCall)
      /\ pending' = [pending EXCEPT ![g][k] = c] /\ pending[g][k] = NoCall
      /\ UNCHANGED <<committed, verified>> /\ NoManifest \in Maybe
  BY DEF WarmLead, SameRepo, SameWorld, Maybe
<1>2. pending' \in [Managers -> [Keys -> Calls \cup {NoCall}]]
  BY <1>1 DEF IInv, TypeOK
<1>3. pending'[g][k] = c /\ \A h \in Managers, j \in Keys :
          pending'[h][j] = pending[h][j] \/ pending[h][j] = NoCall
  BY <1>1 DEF IInv, TypeOK
<1>4. CallsOK' /\ LeadersOK' /\ call' \in [Calls -> CallState]
  BY <1>1, <1>3, BeginOK DEF IInv
<1>5. QED
  BY <1>2, <1>4, BegunOK DEF WarmLead

LEMMA ImportOK ==
  ASSUME IInv, NEW c \in Calls, NEW g \in Managers, NEW k \in Keys,
         NEW m \in Foreign \cup committed, Import(c, g, k, m)
  PROVE  IInv'
<1>1. m \in Manifest /\ m \in Maybe /\ m # NoManifest /\ m.key = k
  BY ManifestAssumption DEF IInv, TypeOK, Maybe, Import
<1>2. Begin(c, "import", g, k, "readMine", m, NoCall)
  BY DEF Import
<1>3. CallsOK' /\ LeadersOK' /\ call' \in [Calls -> CallState]
  BY <1>1, <1>2, BeginOK DEF Import, IInv, SameRepo, SameCaches, SameWorld
<1>4. QED
  BY <1>3, BegunOK DEF Import, SameCaches, IInv, TypeOK

LEMMA InvalidateOK ==
  ASSUME IInv, NEW c \in Calls, NEW g \in Managers, NEW k \in Keys, Invalidate(c, g, k)
  PROVE  IInv'
<1>1. Begin(c, "invalidate", g, k, "await", NoManifest, pending[g][k])
  BY DEF Invalidate
<1>2. pending[g][k] \in Calls \cup {NoCall} /\ NoManifest \in Maybe
  BY DEF IInv, TypeOK, Maybe
<1>3. CallsOK' /\ LeadersOK' /\ call' \in [Calls -> CallState]
  BY <1>1, <1>2, BeginOK DEF Invalidate, IInv, SameRepo, SameCaches, SameWorld
<1>4. QED
  BY <1>3, BegunOK DEF Invalidate, SameCaches, IInv, TypeOK

\* invalidate forgets its manager's cached manifest and waits for pc, or is done.
LEMMA ForgetOK ==
  ASSUME IInv, NEW c \in Calls, NEW pc, NEW s, Running(c),
         Goto(c, pc, s, NoManifest), GotoReady(c, pc, s, NoManifest),
         cached' = [cached EXCEPT ![call[c].mgr][Key(c)] = NoManifest],
         SameRepo, UNCHANGED pending, SameWorld
  PROVE  IInv'
<1>1. CallsOK' /\ LeadersOK' /\ call' \in [Calls -> CallState]
  BY GotoOK DEF IInv, SameRepo, SameWorld
<1>2. RepoOK'
  BY SameRepoOK DEF IInv, SameWorld
<1>3. cached' \in [Managers -> [Keys -> Manifest \cup {NoManifest}]]
  BY DEF IInv, TypeOK
<1>4. \A g \in Managers, k \in Keys : cached'[g][k] \in {cached[g][k], NoManifest}
  BY DEF IInv, TypeOK
<1>5. CachedOK'
  BY <1>4 DEF IInv, CachedOK, SameRepo
<1>6. QED
  BY <1>1, <1>2, <1>3, <1>5 DEF IInv, TypeOK, SameRepo, SameWorld

LEMMA InvalidateCachedOK ==
  ASSUME IInv, NEW c \in Calls, InvalidateCached(c)
  PROVE  IInv'
<1> DEFINE m == cached[call[c].mgr][Key(c)]
<1> DEFINE pc == IF m # NoManifest THEN "dropGet" ELSE "invLookup"
<1>1. Running(c) /\ call[c].op = "invalidate"
  BY DEF InvalidateCached, Running, IInv, CallsOK, CallOK, InvalidatePcs
<1>2. /\ m \in Maybe /\ NoManifest \in Maybe
      /\ m # NoManifest => m.key = Key(c) /\ m \in committed
  BY <1>1, Holding DEF IInv, TypeOK, CachedOK, Maybe
<1>3. GotoReady(c, pc, m, NoManifest)
  BY <1>1, <1>2 DEF GotoReady, Key, Pcs, DropPcs, InvalidatePcs, SeenPcs, MinePcs,
     ReadPcs, InvalidateCached, SameRepo
<1>4. QED
  BY <1>1, <1>3, ForgetOK DEF InvalidateCached

LEMMA InvalidateLookupOK ==
  ASSUME IInv, NEW c \in Calls, InvalidateLookup(c)
  PROVE  IInv'
<1> DEFINE m == repo[Key(c)]
<1> DEFINE pc == IF m = NoManifest THEN "done" ELSE "dropGet"
<1>1. Running(c)
  BY DEF InvalidateLookup, Running
<1>2. NoManifest \in Maybe /\ Goto(c, pc, m, NoManifest)
  BY DEF Maybe, InvalidateLookup
<1>3. GotoReady(c, pc, m, NoManifest)
  BY <1>1, <1>2, Holding DEF GotoReady, Key, Pcs, DropPcs, InvalidatePcs, SeenPcs,
     MinePcs, ReadPcs, InvalidateLookup, SameRepo
<1>4. QED
  BY <1>1, <1>2, <1>3, ForgetOK DEF InvalidateLookup

LEMMA DroppedOK ==
  ASSUME TypeOK, CallsOK, LeadersOK, NEW c \in Calls, NEW m \in Maybe,
         call[c].pc \in DropPcs, Dropped(c, m), m # NoManifest => m \in committed,
         UNCHANGED <<committed, verified, pending>>
  PROVE  CallsOK' /\ LeadersOK' /\ call' \in [Calls -> CallState]
<1>1. CASE call[c].op # "invalidate"
  <2>1. Running(c) /\ Goto(c, "build", NoManifest, NoManifest)
    BY <1>1 DEF Dropped, Running, DropPcs
  <2>2. GotoReady(c, "build", NoManifest, NoManifest)
    BY DEF GotoReady, Pcs, WarmPcs, SeenPcs, MinePcs, ReadPcs, InvalidatePcs, Maybe
  <2>3. QED
    BY <2>1, <2>2, GotoOK
<1>2. CASE call[c].op = "invalidate"
  <2> DEFINE x == [call[c] EXCEPT !.pc = "done", !.result = m,
                                  !.seen = NoManifest, !.since = now]
  <2>1. call' = [call EXCEPT ![c] = x]
    BY <1>2 DEF Dropped, TypeOK, CallState
  <2>2. x \in CallState
    <3>1. call[c] \in CallState /\ now \in Nat /\ "done" \in Pcs
      BY DEF TypeOK, Pcs
    <3>2. QED
      BY <3>1 DEF CallState, Maybe
  <2>3. /\ call' \in [Calls -> CallState] /\ call'[c] = x
        /\ \A d \in Calls \ {c} : call'[d] = call[d]
    BY <2>1, <2>2 DEF TypeOK
  <2>4. /\ x.pc = "done" /\ x.seen = NoManifest /\ x.result = m /\ x.op = "invalidate"
        /\ x.mine = call[c].mine /\ x.key = call[c].key
    BY <1>2 DEF TypeOK, CallState
  <2>5. CallOK(x, committed', verified')
    BY <2>4 DEF CallsOK, CallOK, SeenPcs, MinePcs, ReadPcs, InvalidatePcs
  <2>6. CallsOK'
    BY <2>3, <2>5 DEF CallsOK
  <2>7. LeadersOK'
    BY <2>3, <2>4 DEF LeadersOK
  <2>8. QED
    BY <2>3, <2>6, <2>7
<1>3. QED
  BY <1>1, <1>2

\* A drop that leaves the repository alone, and one that empties it.
LEMMA KeptOK ==
  ASSUME IInv, NEW c \in Calls, call[c].pc \in DropPcs, Dropped(c, NoManifest),
         SameRepo, SameCaches, SameWorld
  PROVE  IInv'
<1>1. NoManifest \in Maybe
  BY DEF Maybe
<1>2. CallsOK' /\ LeadersOK' /\ call' \in [Calls -> CallState]
  BY <1>1, DroppedOK DEF IInv, SameRepo, SameCaches, SameWorld
<1>3. QED
  BY <1>2, BegunOK DEF SameCaches, IInv, TypeOK

LEMMA DeletedOK ==
  ASSUME IInv, NEW c \in Calls, call[c].pc \in DropPcs, NEW m \in committed,
         Dropped(c, m), Delete(Key(c)), UNCHANGED committed, SameCaches, SameWorld
  PROVE  IInv'
<1>1. Running(c) /\ m \in Maybe
  BY DEF Running, DropPcs, IInv, TypeOK, Maybe
<1>2. CallsOK' /\ LeadersOK' /\ call' \in [Calls -> CallState]
  BY <1>1, DroppedOK DEF IInv, SameCaches, SameWorld
<1>3. RepoOK' /\ repo' \in [Keys -> Maybe] /\ removed' \subseteq Keys
  BY <1>1, Holding, DeleteOK DEF IInv, SameWorld
<1>4. CachedOK'
  BY DEF IInv, CachedOK, SameCaches
<1>5. QED
  BY <1>2, <1>3, <1>4 DEF IInv, TypeOK, SameCaches, SameWorld, Maybe

LEMMA DropGetOK ==
  ASSUME IInv, NEW c \in Calls, DropGet(c)
  PROVE  IInv'
<1> DEFINE m == repo[Key(c)]
<1>1. Running(c) /\ call[c].pc \in DropPcs
  BY DEF DropGet, Running, DropPcs
<1>2. CASE ~Same(m, call[c].seen)
  BY <1>1, <1>2, KeptOK DEF DropGet
<1>3. CASE Same(m, call[c].seen) /\ Durable
  <2>1. Goto(c, "dropDelete", m, NoManifest) /\ SameRepo /\ SameCaches /\ SameWorld
    BY <1>3 DEF DropGet
  <2>2. GotoReady(c, "dropDelete", m, NoManifest)
    BY <1>1, <1>3, <2>1, Holding DEF GotoReady, Key, Pcs, DropPcs, MinePcs, ReadPcs,
       InvalidatePcs, SameRepo, Same, Maybe
  <2>3. QED
    BY <1>1, <2>1, <2>2, QuietOK DEF SameWorld, IInv, TypeOK
<1>4. CASE Same(m, call[c].seen) /\ ~Durable
  <2>1. m \in committed
    BY <1>1, <1>4, Holding DEF Same
  <2>2. Dropped(c, m) /\ Delete(Key(c)) /\ UNCHANGED committed /\ SameCaches /\ SameWorld
    BY <1>4 DEF DropGet
  <2>3. QED
    BY <1>1, <2>1, <2>2, DeletedOK
<1>5. QED
  BY <1>2, <1>3, <1>4

LEMMA DropDeleteOK ==
  ASSUME IInv, NEW c \in Calls, DropDelete(c)
  PROVE  IInv'
<1>1. Running(c) /\ call[c].pc \in DropPcs /\ call[c].pc \in SeenPcs
  BY DEF DropDelete, Running, DropPcs, SeenPcs
<1>2. call[c].seen \in committed
  BY <1>1, Holding, ManifestAssumption
<1>3. CASE repo[Key(c)] = call[c].seen
  BY <1>1, <1>2, <1>3, DeletedOK DEF DropDelete
<1>4. CASE repo[Key(c)] # call[c].seen
  BY <1>1, <1>4, KeptOK DEF DropDelete
<1>5. QED
  BY <1>3, <1>4

\* An error after the repository changed, or did not.
LEMMA FailOK ==
  ASSUME IInv, NEW c \in Calls, call[c].pc \in Requests \cup {"build"}, Fail(c),
         RepoOK', repo' \in [Keys -> Maybe], committed \subseteq committed',
         committed' \subseteq Manifest, removed' \subseteq Keys, SameWorld
  PROVE  IInv'
<1>1. Running(c) /\ call[c].pc \notin {"idle", "done", "crashed"}
  BY DEF Running, Requests
<1>2. verified' = verified
  BY DEF SameWorld
<1>3. CASE call[c].pc \in {"renewGet", "renewPut", "renewLookup", "readExisting"}
  <2>1. Goto(c, "dropGet", call[c].seen, NoManifest) /\ SameCaches
    BY <1>3 DEF Fail
  <2>2. /\ call[c].seen \in Maybe /\ call[c].seen # NoManifest /\ NoManifest \in Maybe
        /\ call[c].seen \in committed /\ call[c].seen.key = Key(c)
    BY <1>1, <1>3, Holding, ManifestAssumption DEF SeenPcs, Maybe
  <2>3. GotoReady(c, "dropGet", call[c].seen, NoManifest)
    BY <2>2 DEF GotoReady, Key, Pcs, DropPcs, MinePcs, ReadPcs, InvalidatePcs
  <2>4. CallsOK' /\ LeadersOK' /\ call' \in [Calls -> CallState]
    BY <1>1, <1>2, <2>1, <2>3, GotoOK DEF IInv, SameCaches
  <2>5. CachedOK'
    BY <2>1 DEF IInv, CachedOK, SameCaches
  <2>6. QED
    BY <2>1, <2>4, <2>5 DEF IInv, TypeOK, SameCaches, SameWorld, Maybe
<1>4. CASE call[c].pc \notin {"renewGet", "renewPut", "renewLookup", "readExisting"}
  <2>1. Throw(c)
    BY <1>4 DEF Fail
  <2>2. /\ CallsOK' /\ LeadersOK' /\ CachedOK'
        /\ call' \in [Calls -> CallState]
        /\ pending' \in [Managers -> [Keys -> Calls \cup {NoCall}]]
        /\ cached' \in [Managers -> [Keys -> Maybe]]
    BY <1>2, <2>1, ThrowOK DEF IInv
  <2>3. QED
    BY <2>2 DEF IInv, TypeOK, SameWorld, Maybe
<1>5. QED
  BY <1>3, <1>4

LEMMA RequestFailsOK ==
  ASSUME IInv, NEW c \in Calls, RequestFails(c)
  PROVE  IInv'
<1>1. RepoOK'
  BY SameRepoOK DEF RequestFails, SameWorld, IInv
<1>2. repo' = repo /\ committed' = committed /\ removed' = removed
  BY DEF RequestFails, SameRepo
<1>3. repo' \in [Keys -> Maybe] /\ committed' \subseteq Manifest /\ removed' \subseteq Keys
  BY <1>2 DEF IInv, TypeOK, Maybe
<1>4. QED
  BY <1>1, <1>2, <1>3, FailOK DEF RequestFails

LEMMA AnswerLostOK ==
  ASSUME IInv, NEW c \in Calls, AnswerLost(c)
  PROVE  IInv'
<1> DEFINE n == call[c].mine
<1>1. /\ Running(c) /\ call[c].pc \in {"renewPut", "commit", "dropDelete"}
      /\ call[c].pc \in Requests /\ SameWorld /\ Fail(c)
  BY DEF AnswerLost, Running, Requests, Pcs, WarmPcs, CommitPcs, DropPcs
<1> DEFINE Changed == /\ RepoOK' /\ repo' \in [Keys -> Maybe]
                      /\ committed \subseteq committed' /\ committed' \subseteq Manifest
                      /\ removed' \subseteq Keys
<1>2. ASSUME call[c].pc = "renewPut", repo[Key(c)] = call[c].seen, Put(n),
             UNCHANGED removed
      PROVE  Changed
  <2>1. /\ n \in Manifest /\ n.key = Key(c) /\ SameIdentity(call[c].seen, n)
        /\ call[c].seen # NoManifest
    BY <1>1, <1>2, Holding, ManifestAssumption DEF SeenPcs, MinePcs
  <2>2. RepoOK' /\ repo' \in [Keys -> Maybe] /\ committed' \subseteq Manifest
    BY <1>1, <1>2, <2>1, PutRenewedOK DEF IInv, SameIdentity, SameWorld
  <2>3. QED
    BY <1>2, <2>2 DEF Put, IInv, TypeOK
<1>3. ASSUME call[c].pc = "commit", repo[Key(c)] = NoManifest, Put(n), UNCHANGED removed
      PROVE  Changed
  <2>1. n \in Manifest /\ n.key = Key(c) /\ n.obj \in verified
    BY <1>1, <1>3, Holding, ManifestAssumption DEF MinePcs, ReadPcs
  <2>2. RepoOK' /\ repo' \in [Keys -> Maybe] /\ committed' \subseteq Manifest
    BY <1>1, <1>3, <2>1, PutNewOK DEF IInv, SameWorld
  <2>3. QED
    BY <1>3, <2>2 DEF Put, IInv, TypeOK
<1>4. ASSUME Delete(Key(c)), UNCHANGED committed
      PROVE  Changed
  <2>1. RepoOK' /\ repo' \in [Keys -> Maybe] /\ removed' \subseteq Keys
    BY <1>1, <1>4, Holding, DeleteOK DEF IInv, SameWorld
  <2>2. QED
    BY <1>4, <2>1 DEF IInv, TypeOK
<1>5. Changed
  BY <1>2, <1>3, <1>4 DEF AnswerLost
<1>6. QED
  BY <1>1, <1>5, FailOK

LEMMA CrashOK ==
  ASSUME IInv, NEW g \in Managers, Crash(g)
  PROVE  IInv'
<1> DEFINE Dies(c) == call[c].mgr = g /\ call[c].pc \notin {"done", "crashed"}
<1> DEFINE x(c) == [Idle EXCEPT !.op = call[c].op, !.pc = "crashed"]
<1>1. \A c \in Calls : call'[c] = IF Dies(c) THEN x(c) ELSE call[c]
  BY DEF Crash
<1>2. \A c \in Calls : /\ x(c) \in CallState /\ x(c).pc = "crashed"
                       /\ x(c).seen = NoManifest /\ x(c).mine = NoManifest
                       /\ x(c).result = NoManifest
  BY IdleType DEF IInv, TypeOK, CallState, Pcs, Idle
<1>3. call' \in [Calls -> CallState]
  BY <1>1, <1>2 DEF Crash, IInv, TypeOK
<1>4. /\ pending' \in [Managers -> [Keys -> Calls \cup {NoCall}]]
      /\ cached' \in [Managers -> [Keys -> Manifest \cup {NoManifest}]]
      /\ \A h \in Managers, k \in Keys : cached'[h][k] \in {cached[h][k], NoManifest}
      /\ \A h \in Managers \ {g} : pending'[h] = pending[h]
  BY DEF Crash, IInv, TypeOK
<1>5. CallsOK'
  <2>1. ASSUME NEW c \in Calls
        PROVE  CallOK(call'[c], committed', verified')
    <3>1. CASE Dies(c)
      <4>1. CallOK(x(c), committed', verified')
        BY <1>2 DEF CallOK, SeenPcs, MinePcs, ReadPcs, InvalidatePcs
      <4>2. QED
        BY <3>1, <4>1, <1>1
    <3>2. CASE ~Dies(c)
      <4>1. call'[c] = call[c] /\ committed' = committed /\ verified' = verified
        BY <3>2, <1>1 DEF Crash, SameRepo, SameWorld
      <4>2. QED
        BY <4>1 DEF IInv, CallsOK
    <3>3. QED
      BY <3>1, <3>2
  <2>2. QED
    BY <2>1 DEF CallsOK
<1>6. ASSUME NEW c \in Calls, call'[c].op = "warm", call'[c].pc \in Leading
      PROVE  pending'[call'[c].mgr][call'[c].key] = c
  <2>1. call'[c].pc \notin {"idle", "done", "crashed"}
    BY <1>6 DEF Leading, WarmPcs, CommitPcs, DropPcs
  <2>2. ~Dies(c) /\ call'[c] = call[c]
    BY <1>1, <1>2, <2>1
  <2>3. call[c].mgr \in Managers /\ call[c].mgr # g
    BY <2>1, <2>2 DEF IInv, CallsOK, CallOK
  <2>4. QED
    BY <1>4, <1>6, <2>2, <2>3 DEF IInv, LeadersOK
<1>7. RepoOK'
  BY SameRepoOK DEF Crash, SameWorld, IInv
<1>8. CachedOK'
  <2>1. ASSUME NEW h \in Managers, NEW k \in Keys, cached'[h][k] # NoManifest
        PROVE  cached'[h][k].key = k /\ cached'[h][k] \in committed'
    <3>1. cached'[h][k] = cached[h][k] /\ committed' = committed
      BY <1>4, <2>1 DEF Crash, SameRepo
    <3>2. QED
      BY <2>1, <3>1 DEF IInv, CachedOK
  <2>2. QED
    BY <2>1 DEF CachedOK
<1>9. TypeOK'
  <2>1. UNCHANGED <<now, repo, lost, minted, committed, verified, removed>>
    BY DEF Crash, SameRepo, SameWorld
  <2>2. QED
    BY <1>3, <1>4, <2>1 DEF IInv, TypeOK
<1>10. LeadersOK'
  BY <1>6 DEF LeadersOK
<1>11. QED
  BY <1>5, <1>7, <1>8, <1>9, <1>10 DEF IInv

\* Time and the storage lifecycle touch no call, cache or repository.
LEMMA OutsideOK ==
  ASSUME IInv, SameRepo, SameCaches, UNCHANGED <<call, minted, verified>>,
         now' \in Nat, lost' \subseteq Objects
  PROVE  IInv'
BY DEF IInv, TypeOK, CallsOK, RepoOK, CachedOK, LeadersOK, SameRepo, SameCaches

LEMMA InitOK == Init => IInv
<1> SUFFICES ASSUME Init PROVE IInv
  OBVIOUS
<1>1. /\ Idle.pc = "idle" /\ Idle.op = "none" /\ Idle.seen = NoManifest
      /\ Idle.mine = NoManifest /\ Idle.result = NoManifest
  BY DEF Idle
<1>2. TypeOK
  <2>1. lost \subseteq Objects
    BY ManifestAssumption DEF Init, Manifest
  <2>2. call \in [Calls -> CallState]
    BY IdleType DEF Init
  <2>3. QED
    BY <2>1, <2>2, ManifestAssumption DEF Init, TypeOK
<1>3. CallsOK
  BY <1>1 DEF Init, CallsOK, CallOK, SeenPcs, MinePcs, ReadPcs, InvalidatePcs
<1>4. RepoOK /\ CachedOK /\ LeadersOK
  BY <1>1 DEF Init, RepoOK, CachedOK, LeadersOK
<1>5. QED
  BY <1>2, <1>3, <1>4 DEF IInv

LEMMA StepOK == IInv /\ [Next]_vars => IInv'
<1> SUFFICES ASSUME IInv, [Next]_vars PROVE IInv'
  OBVIOUS
<1>1. ASSUME NEW c \in Calls, Start(c) PROVE IInv'
  <2>1. PICK g \in Managers, k \in Keys :
            \/ WarmHit(c, g, k) \/ WarmJoin(c, g, k) \/ WarmLead(c, g, k)
            \/ Invalidate(c, g, k)
            \/ \E m \in Foreign \cup committed : Import(c, g, k, m)
    BY <1>1 DEF Start
  <2>2. QED
    BY <2>1, WarmHitOK, WarmJoinOK, WarmLeadOK, InvalidateOK, ImportOK
<1>2. ASSUME NEW c \in Calls, Proceed(c) PROVE IInv'
  BY <1>2, LookupOK, RenewGetOK, RenewPutOK, RenewLookupOK, ReadExistingOK, BuildOK,
     ReadMineOK, CommitOK, CommitLookupOK, ReadWinnerOK, InvalidateCachedOK,
     InvalidateLookupOK, DropGetOK, DropDeleteOK DEF Proceed
<1>3. ASSUME NEW c \in Calls, RequestFails(c) \/ AnswerLost(c) PROVE IInv'
  BY <1>3, RequestFailsOK, AnswerLostOK
<1>4. ASSUME NEW g \in Managers, Crash(g) PROVE IInv'
  BY <1>4, CrashOK
<1>5. ASSUME NEW o \in Objects, Expire(o) PROVE IInv'
  <2>1. now' \in Nat /\ lost' \subseteq Objects
    BY <1>5 DEF Expire, IInv, TypeOK
  <2>2. QED
    BY <1>5, <2>1, OutsideOK DEF Expire
<1>6. CASE Tick
  <2>1. now' \in Nat /\ lost' \subseteq Objects
    BY <1>6 DEF Tick, IInv, TypeOK
  <2>2. QED
    BY <1>6, <2>1, OutsideOK DEF Tick
<1>7. CASE UNCHANGED vars
  BY <1>7, OutsideOK DEF vars, SameRepo, SameCaches, IInv, TypeOK
<1>8. QED
  BY <1>1, <1>2, <1>3, <1>4, <1>5, <1>6, <1>7 DEF Next

LEMMA Inductive == Spec => []IInv
BY InitOK, StepOK, PTL DEF Spec

-----------------------------------------------------------------------------
(* The properties of CatalogPublication, for every instance.               *)

\* Every variable keeps its type, whatever the calls, failures and crashes.
THEOREM TypeCorrect == Spec => []TypeOK
<1>1. IInv => TypeOK
  BY DEF IInv
<1>2. QED
  BY <1>1, Inductive, PTL

\* Nobody is served a manifest that was never durable: warm and import give
\* the winner's manifest when they lose the conditional PUT.
THEOREM OnlyCommittedServed == Spec => []ServedWasCommitted
<1>1. IInv => ServedWasCommitted
  BY DEF IInv, CallsOK, CallOK, ServedWasCommitted, Served
<1>2. QED
  BY <1>1, Inductive, PTL

\* What is durable or cached was read back by some manager first.
THEOREM OnlyVerifiedDurable == Spec => []DurableIsVerified
<1>1. IInv => DurableIsVerified
  BY DEF IInv, RepoOK, CachedOK, DurableIsVerified
<1>2. QED
  BY <1>1, Inductive, PTL

\* Racing publishers and renewals agree on one object for a key that nobody
\* has removed.
THEOREM PublishersAgree == Spec => []OneObjectPerKey
<1>1. IInv => OneObjectPerKey
  BY DEF IInv, RepoOK, OneObjectPerKey
<1>2. QED
  BY <1>1, Inductive, PTL

\* A manager runs one publication of a key at a time.
THEOREM PublicationShared == Spec => []SharedPublication
<1>1. IInv => SharedPublication
  BY DEF IInv, LeadersOK, SharedPublication
<1>2. QED
  BY <1>1, Inductive, PTL

-----------------------------------------------------------------------------
(* The managers implement the register.                                    *)

\* A call that is over stays as it is: what was served stays served.
LEMMA DoneKept ==
  ASSUME IInv, [Next]_vars, NEW d \in Calls, call[d].pc = "done"
  PROVE  call'[d] = call[d]
<1> DEFINE Over == call'[d] = call[d]
<1>0. call \in [Calls -> CallState]
  BY DEF IInv, TypeOK
<1>1. ASSUME NEW c \in Calls, NEW pc, NEW s, NEW m, Running(c), Goto(c, pc, s, m)
      PROVE  Over
  BY <1>0, <1>1 DEF Goto, Running
<1>2. ASSUME NEW c \in Calls, NEW m, Running(c), End(c, m)
      PROVE  Over
  BY <1>2 DEF End, JoinedTo, Running
<1>3. ASSUME NEW c \in Calls, Start(c) PROVE Over
  BY <1>0, <1>3 DEF Start, WarmHit, WarmJoin, WarmLead, Invalidate, Import, Begin
<1>4. ASSUME NEW c \in Calls, NEW m, call[c].pc \in DropPcs, Dropped(c, m) PROVE Over
  <2>1. Running(c)
    BY <1>4 DEF Running, DropPcs
  <2>2. QED
    BY <1>0, <1>1, <1>4, <2>1 DEF Dropped, Running
<1>5. ASSUME NEW c \in Calls, Running(c), Fail(c) PROVE Over
  BY <1>1, <1>2, <1>5 DEF Fail, Throw
<1>6. ASSUME NEW c \in Calls, Proceed(c) PROVE Over
  <2>1. CASE Lookup(c) \/ RenewGet(c) \/ RenewPut(c) \/ RenewLookup(c)
    BY <1>1, <2>1 DEF Lookup, RenewGet, RenewPut, RenewLookup, Renewed, Running
  <2>2. CASE ReadExisting(c) \/ Build(c) \/ ReadMine(c) \/ ReadWinner(c)
    BY <1>1, <1>2, <2>2 DEF ReadExisting, Build, ReadMine, ReadWinner, Return, Throw, Running
  <2>3. CASE Commit(c) \/ CommitLookup(c)
    BY <1>1, <1>2, <2>3 DEF Commit, CommitLookup, Lost, Return, Throw, Running
  <2>4. CASE InvalidateCached(c) \/ InvalidateLookup(c)
    BY <1>1, <2>4 DEF InvalidateCached, InvalidateLookup, Running
  <2>5. CASE DropGet(c) \/ DropDelete(c)
    BY <1>1, <1>4, <2>5 DEF DropGet, DropDelete, DropPcs, Running
  <2>6. QED
    BY <1>6, <2>1, <2>2, <2>3, <2>4, <2>5 DEF Proceed
<1>7. ASSUME NEW c \in Calls, RequestFails(c) \/ AnswerLost(c) PROVE Over
  <2>1. Running(c) /\ Fail(c)
    BY <1>7 DEF RequestFails, AnswerLost, Running, Requests
  <2>2. QED
    BY <1>5, <2>1
<1>8. ASSUME NEW g \in Managers, Crash(g) PROVE Over
  BY <1>8 DEF Crash
<1>9. QED
  BY <1>3, <1>6, <1>7, <1>8 DEF Next, Tick, Expire, vars

\* The registers stay, one is filled, renewed or emptied.
RegisterMoves ==
    \/ UNCHANGED <<repo, committed>>
    \/ \E k \in Keys : Register!Remove(k)
                       \/ \E m \in committed' : Register!Publish(k, m) \/ Register!Renew(k, m)

LEMMA Moves == IInv /\ [Next]_vars => RegisterMoves /\ verified \subseteq verified'
<1> SUFFICES ASSUME IInv, [Next]_vars PROVE RegisterMoves /\ verified \subseteq verified'
  OBVIOUS
<1>1. ASSUME NEW c \in Calls, call[c].pc = "renewPut", repo[Key(c)] = call[c].seen,
             Put(call[c].mine)
      PROVE  RegisterMoves
  <2>1. /\ Key(c) \in Keys /\ call[c].mine.key = Key(c) /\ call[c].seen # NoManifest
        /\ SameIdentity(call[c].seen, call[c].mine)
    BY <1>1, Holding, ManifestAssumption DEF Running, SeenPcs, MinePcs
  <2>2. Register!Renew(Key(c), call[c].mine) /\ call[c].mine \in committed'
    BY <1>1, <2>1 DEF Register!Renew, Register!Hold, Put, SameIdentity
  <2>3. QED
    BY <2>1, <2>2 DEF RegisterMoves
<1>2. ASSUME NEW c \in Calls, call[c].pc = "commit", repo[Key(c)] = NoManifest,
             Put(call[c].mine)
      PROVE  RegisterMoves
  <2>1. /\ Key(c) \in Keys /\ call[c].mine.key = Key(c) /\ call[c].mine.obj \in verified
    BY <1>2, Holding, ManifestAssumption DEF Running, MinePcs, ReadPcs
  <2>2. Register!Publish(Key(c), call[c].mine) /\ call[c].mine \in committed'
    BY <1>2, <2>1 DEF Register!Publish, Register!Hold, Put
  <2>3. QED
    BY <2>1, <2>2 DEF RegisterMoves
<1>3. ASSUME NEW c \in Calls, call[c].pc \in DropPcs, Delete(Key(c)), UNCHANGED committed
      PROVE  RegisterMoves
  <2>1. Key(c) \in Keys
    BY <1>3, Holding DEF Running, DropPcs
  <2>2. QED
    BY <1>3, <2>1 DEF RegisterMoves, Register!Remove, Delete
<1>4. ASSUME UNCHANGED <<repo, committed>> PROVE RegisterMoves
  BY <1>4 DEF RegisterMoves
<1>5. ASSUME NEW c \in Calls, Proceed(c) PROVE RegisterMoves
  BY <1>1, <1>2, <1>3, <1>4, <1>5 DEF Proceed, Lookup, RenewGet, RenewPut, RenewLookup,
     ReadExisting, Build, ReadMine, Commit, CommitLookup, ReadWinner,
     InvalidateCached, InvalidateLookup, DropGet, DropDelete, DropPcs, SameRepo
<1>6. ASSUME NEW c \in Calls, AnswerLost(c) PROVE RegisterMoves
  BY <1>1, <1>2, <1>3, <1>6 DEF AnswerLost, DropPcs
<1>7. RegisterMoves
  <2>1. ASSUME NEW c \in Calls, Start(c) \/ RequestFails(c)
        PROVE  UNCHANGED <<repo, committed>>
    BY <2>1 DEF Start, WarmHit, WarmJoin, WarmLead, Invalidate, Import, RequestFails, SameRepo
  <2>2. ASSUME NEW g \in Managers, Crash(g) PROVE UNCHANGED <<repo, committed>>
    BY <2>2 DEF Crash, SameRepo
  <2>3. ASSUME NEW o \in Objects, Expire(o) PROVE UNCHANGED <<repo, committed>>
    BY <2>3 DEF Expire, SameRepo
  <2>4. CASE Tick \/ UNCHANGED vars
    BY <1>4, <2>4 DEF Tick, vars, SameRepo
  <2>5. QED
    BY <1>4, <1>5, <1>6, <2>1, <2>2, <2>3, <2>4 DEF Next
<1>8. verified \subseteq verified'
  <2>1. ASSUME NEW c \in Calls, Start(c) \/ Proceed(c) \/ RequestFails(c) \/ AnswerLost(c)
        PROVE  verified \subseteq verified'
    BY <2>1 DEF Start, WarmHit, WarmJoin, WarmLead, Invalidate, Import, Proceed, Lookup,
       RenewGet, RenewPut, RenewLookup, ReadExisting, Build, ReadMine, Commit,
       CommitLookup, ReadWinner, InvalidateCached, InvalidateLookup, DropGet,
       DropDelete, RequestFails, AnswerLost, SameWorld
  <2>2. QED
    BY <2>1 DEF Next, Crash, Expire, Tick, vars, SameWorld
<1>9. QED
  BY <1>7, <1>8

\* Managers and repository implement one publish-once, renew-in-place register
\* per key, through lost answers, lost races and crashes.
THEOREM ManagersImplementRegister == Spec => ImplementsRegister
<1>1. Init => Register!Init
  BY DEF Init, Register!Init, ServedManifests, Served, Idle
<1>2. IInv /\ IInv' /\ [Next]_vars => [Register!Next]_(Register!avars)
  <2> SUFFICES ASSUME IInv, IInv', [Next]_vars PROVE Register!Next
    OBVIOUS
  <2>1. RegisterMoves /\ verified \subseteq verified'
    BY Moves
  <2>2. ServedManifests \subseteq ServedManifests'
    <3>1. ASSUME NEW d \in Calls, Served(d)
          PROVE  Served(d)' /\ call'[d].result = call[d].result
      <4>1. call[d].pc = "done"
        BY <3>1 DEF Served, IInv, CallsOK, CallOK
      <4>2. QED
        BY <3>1, <4>1, DoneKept DEF Served
    <3>2. QED
      BY <3>1 DEF ServedManifests
  <2>3. ServedManifests' \subseteq committed'
    BY DEF ServedManifests, Served, IInv, CallsOK, CallOK
  <2>4. QED
    BY <2>1, <2>2, <2>3 DEF Register!Next, RegisterMoves
<1>3. QED
  BY <1>1, <1>2, Inductive, PTL DEF Spec, ImplementsRegister, Register!Spec

-----------------------------------------------------------------------------
(* What a warm serves outlives the grace period, and what leaves the       *)
(* repository was seen by the call that removed it.                        *)

\* From time t on, m lasts the grace period but for the slack.
Outlives(m, t, slack) == t + Grace < m.exp + slack /\ t + Grace < m.ret + slack

\* A warm has checked the manifest it reads, or made it, when its request
\* began; the one it commits, a request earlier.
Timely(x, t) ==
    /\ x.pc = "idle" => x.op = "none"
    /\ x.pc \in Requests => x.since <= t /\ t <= x.since + RequestTimeout
    /\ x.op = "warm" =>
         /\ x.pc \in {"readExisting", "readWinner"} => Outlives(x.seen, x.since, 0)
         /\ x.pc = "readMine" => Outlives(x.mine, x.since, 0)
         /\ x.pc = "commit" => Outlives(x.mine, x.since, RequestTimeout)
         /\ x.result # NoManifest => Outlives(x.result, x.since, 2 * RequestTimeout)

TimelyOK == \A c \in Calls : Timely(call[c], now)

\* Only a warm leads a publication that others join.
WaitsOK ==
    /\ \A g \in Managers, k \in Keys :
          pending[g][k] # NoCall => call[pending[g][k]].op = "warm"
    /\ \A c \in Calls : call[c].pc = "joined" =>
          call[c].waits \in Calls /\ call[call[c].waits].op = "warm"

\* An id names one manifest, ever.
IdsOK == \A m1, m2 \in minted : m1.id = m2.id => m1 = m2

MintedOK ==
    /\ Foreign \cup committed \subseteq minted
    /\ IdsOK
    /\ \A c \in Calls : call[c].mine # NoManifest => call[c].mine \in minted

\* What a warm built is its own until its commit succeeds: nobody else has
\* it, and no lookup can find it.
OwnPcs == {"readMine", "commit", "commitLookup"}

OwnOK ==
    \A c \in Calls : call[c].op = "warm" /\ call[c].pc \in OwnPcs =>
        /\ call[c].mine \notin Foreign \cup committed
        /\ \A d \in Calls \ {c} : call[d].mine # call[c].mine

TInv == TimelyOK /\ WaitsOK /\ MintedOK /\ OwnOK

LEMMA UsableOutlives ==
  ASSUME NEW m \in Manifest, now \in Nat
  PROVE  Usable(m) <=> Outlives(m, now, 0)
BY TimesAssumption DEF Usable, Outlives, Manifest

\* A request later, the slack is a request more.
LEMMA OutlivesLater ==
  ASSUME NEW m \in Manifest, NEW t \in Nat, NEW u \in Nat, NEW slack \in Nat,
         t <= u, u <= t + RequestTimeout, Outlives(m, t, slack)
  PROVE  Outlives(m, u, slack + RequestTimeout)
BY TimesAssumption DEF Outlives, Manifest

\* A new manifest has an id of its own.
LEMMA MintOK ==
  ASSUME MintedOK, minted \subseteq Manifest, NEW m \in Manifest, FreshIds # {},
         m.id = FreshId, minted' = minted \cup {m}
  PROVE  IdsOK' /\ m \notin minted
<1>1. m.id \notin {n.id : n \in minted}
  BY DEF FreshId, FreshIds
<1>2. \A n \in minted : n.id # m.id
  BY <1>1
<1>3. QED
  BY <1>2 DEF IdsOK, MintedOK

-----------------------------------------------------------------------------
(* The ways a call moves on, again.                                        *)

\* What a step leaves of the manifests: the repository may gain the one c made.
World(c) ==
    /\ UNCHANGED now
    /\ minted \subseteq minted' /\ IdsOK' /\ minted' \subseteq Manifest
    /\ committed \subseteq committed' /\ committed' \subseteq committed \cup {call[c].mine}

\* What a step that makes c wait for pc, holding s and m, must establish.
GotoTimely(c, pc, s, m) ==
    /\ pc \in Pcs \ {"idle", "joined", "crashed"}
    /\ s \in Maybe /\ m \in Maybe
    /\ m # NoManifest =>
         m \in minted' /\ (m # call[c].mine => m \notin minted)
    /\ call[c].op = "warm" =>
         /\ pc \in {"readExisting", "readWinner"} => s \in Manifest /\ Usable(s)
         /\ pc = "readMine" => m \in Manifest /\ Usable(m) /\ m \notin minted
         /\ pc = "commit" => call[c].pc = "readMine" /\ m = call[c].mine
         /\ pc = "commitLookup" => call[c].pc = "commit" /\ m = call[c].mine
         /\ pc \in OwnPcs => committed' = committed

LEMMA CommittedMinted ==
  ASSUME IInv, TInv, NEW c \in Calls, World(c), call[c].mine # NoManifest \/ committed' = committed
  PROVE  Foreign \cup committed' \subseteq minted' /\ IdsOK'
BY DEF TInv, MintedOK, World

LEMMA GotoTimelyOK ==
  ASSUME IInv, TInv, NEW c \in Calls, NEW pc, NEW s, NEW m, Running(c),
         Goto(c, pc, s, m), GotoTimely(c, pc, s, m), World(c), UNCHANGED pending,
         call[c].mine # NoManifest \/ committed' = committed
  PROVE  TInv'
<1>0. pc \in Pcs /\ s \in Maybe /\ m \in Maybe /\ now \in Nat /\ now' = now
  BY DEF GotoTimely, IInv, TypeOK, World
<1>1. /\ call' \in [Calls -> CallState]
      /\ call'[c] = [call[c] EXCEPT !.pc = pc, !.seen = s, !.mine = m,
                                    !.waits = NoCall, !.since = Clock(pc)]
      /\ \A d \in Calls \ {c} : call'[d] = call[d]
  BY <1>0, GotoEffect DEF IInv
<1>2. /\ call'[c].pc = pc /\ call'[c].seen = s /\ call'[c].mine = m
      /\ call'[c].op = call[c].op /\ call'[c].result = call[c].result
      /\ call'[c].since = Clock(pc)
  BY <1>1 DEF IInv, TypeOK, CallState
<1>3. call[c].result = NoManifest
  BY DEF IInv, CallsOK, CallOK, Running
<1>4. TimelyOK'
  <2>1. pc \in Requests \cup {"done"} => Clock(pc) = now
    BY DEF Clock
  <2>2. pc # "idle"
    BY DEF GotoTimely
  <2>3. pc \in Requests => Clock(pc) <= now /\ now <= Clock(pc) + RequestTimeout
    BY <1>0, <2>1, TimesAssumption
  <2>4. ASSUME call[c].op = "warm", pc \in {"readExisting", "readWinner"}
        PROVE  Outlives(s, Clock(pc), 0)
    BY <1>0, <2>1, <2>4, UsableOutlives DEF GotoTimely, Requests, Pcs, WarmPcs, CommitPcs
  <2>5. ASSUME call[c].op = "warm", pc = "readMine"
        PROVE  Outlives(m, Clock(pc), 0)
    BY <1>0, <2>1, <2>5, UsableOutlives DEF GotoTimely, Requests, Pcs, WarmPcs, CommitPcs
  <2>6. ASSUME call[c].op = "warm", pc = "commit"
        PROVE  Outlives(m, Clock(pc), RequestTimeout)
    <3>1. m = call[c].mine /\ call[c].pc = "readMine" /\ Clock(pc) = now
      BY <2>1, <2>6 DEF GotoTimely, Requests, Pcs, CommitPcs
    <3>2. call[c].mine \in Manifest
      BY <3>1, Holding DEF Running, MinePcs
    <3>3. /\ call[c].since <= now /\ now <= call[c].since + RequestTimeout
          /\ Outlives(call[c].mine, call[c].since, 0)
      BY <2>6, <3>1 DEF TInv, TimelyOK, Timely, Requests, Pcs, CommitPcs
    <3>4. call[c].since \in Nat
      BY DEF IInv, TypeOK, CallState
    <3>5. Outlives(call[c].mine, now, 0 + RequestTimeout)
      BY <1>0, <3>2, <3>3, <3>4, OutlivesLater
    <3>6. QED
      BY <3>1, <3>5, TimesAssumption
  <2>7. Timely(call'[c], now')
    BY <1>0, <1>2, <1>3, <2>2, <2>3, <2>4, <2>5, <2>6 DEF Timely
  <2>8. \A d \in Calls \ {c} : Timely(call'[d], now')
    BY <1>0, <1>1 DEF TInv, TimelyOK
  <2>9. QED
    BY <2>7, <2>8 DEF TimelyOK
<1>5. WaitsOK'
  <2>1. \A d \in Calls : call'[d].op = call[d].op
    BY <1>1, <1>2
  <2>2. \A d \in Calls : call'[d].pc = "joined" => call[d] = call'[d]
    BY <1>1, <1>2 DEF GotoTimely
  <2>3. \A g \in Managers, k \in Keys : pending[g][k] # NoCall => pending[g][k] \in Calls
    BY DEF IInv, TypeOK
  <2>4. QED
    BY <2>1, <2>2, <2>3 DEF TInv, WaitsOK
<1>6. MintedOK'
  <2>1. ASSUME NEW d \in Calls, call'[d].mine # NoManifest
        PROVE  call'[d].mine \in minted'
    BY <1>1, <1>2, <2>1 DEF TInv, MintedOK, World, GotoTimely
  <2>2. QED
    BY <2>1, CommittedMinted DEF MintedOK
<1>7. OwnOK'
  <2>1. ASSUME NEW e \in Calls, call'[e].op = "warm", call'[e].pc \in OwnPcs
        PROVE  /\ call'[e].mine \notin Foreign \cup committed'
               /\ \A d \in Calls \ {e} : call'[d].mine # call'[e].mine
    <3>1. CASE e = c
      <4>1. committed' = committed
        BY <1>2, <2>1, <3>1 DEF GotoTimely
      <4>2. CASE m \notin minted /\ m # NoManifest
        BY <1>1, <1>2, <3>1, <4>1, <4>2 DEF TInv, MintedOK
      <4>3. CASE m = call[c].mine /\ call[c].pc \in OwnPcs
        <5>1. call[c].op = "warm"
          BY <1>2, <2>1, <3>1
        <5>2. /\ call[c].mine \notin Foreign \cup committed
              /\ \A d \in Calls \ {c} : call[d].mine # call[c].mine
          BY <4>3, <5>1 DEF TInv, OwnOK
        <5>3. call'[e].mine = call[c].mine /\ \A d \in Calls \ {c} : call'[d].mine = call[d].mine
          BY <1>1, <1>2, <3>1, <4>3
        <5>4. QED
          BY <3>1, <4>1, <5>2, <5>3
      <4>4. QED
        BY <1>2, <2>1, <3>1, <4>2, <4>3, ManifestAssumption DEF GotoTimely, OwnPcs
    <3>2. CASE e # c
      <4>1. call'[e] = call[e]
        BY <1>1, <3>2
      <4>2. /\ call[e].mine \notin Foreign \cup committed
            /\ \A d \in Calls \ {e} : call[d].mine # call[e].mine
        BY <2>1, <4>1 DEF TInv, OwnOK
      <4>3. call[e].mine # NoManifest /\ call[e].mine \in minted
        <5>1. call[e].mine # NoManifest
          BY <2>1, <4>1 DEF IInv, CallsOK, CallOK, OwnPcs, MinePcs
        <5>2. QED
          BY <5>1 DEF TInv, MintedOK
      <4>4. call[e].mine \notin committed'
        BY <3>2, <4>2 DEF World
      <4>5. \A d \in Calls \ {e} : call'[d].mine # call[e].mine
        BY <1>1, <1>2, <3>2, <4>2, <4>3 DEF GotoTimely
      <4>6. QED
        BY <4>1, <4>2, <4>4, <4>5
    <3>3. QED
      BY <3>1, <3>2
  <2>2. QED
    BY <2>1 DEF OwnOK
<1>8. QED
  BY <1>4, <1>5, <1>6, <1>7 DEF TInv

LEMMA BeginTimelyOK ==
  ASSUME IInv, TInv, NEW c \in Calls, NEW op \in {"warm", "import", "invalidate"},
         NEW g \in Managers, NEW k \in Keys,
         NEW pc \in {"lookup", "joined", "readMine", "await"},
         NEW m \in Maybe, NEW w \in Calls \cup {NoCall},
         Begin(c, op, g, k, pc, m, w),
         pc = "readMine" => op = "import",
         m # NoManifest => m \in Foreign \cup committed,
         pc = "joined" => w = pending[g][k] /\ w # NoCall,
         op = "warm" \/ UNCHANGED pending,
         \A h \in Managers, j \in Keys : pending'[h][j] \in {pending[h][j], c},
         SameRepo, SameWorld
  PROVE  TInv'
<1>0. /\ pc \in Pcs /\ now \in Nat
      /\ now' = now /\ minted' = minted /\ committed' = committed
  BY DEF Pcs, WarmPcs, CommitPcs, InvalidatePcs, IInv, TypeOK, SameRepo, SameWorld
<1>1. /\ call' \in [Calls -> CallState]
      /\ call[c].pc = "idle"
      /\ call'[c] = [Idle EXCEPT !.op = op, !.pc = pc, !.mgr = g, !.key = k,
                                 !.mine = m, !.waits = w, !.since = Clock(pc)]
      /\ \A d \in Calls \ {c} : call'[d] = call[d]
  BY <1>0, BeginEffect DEF IInv
<1>2. /\ call'[c].op = op /\ call'[c].pc = pc /\ call'[c].mine = m
      /\ call'[c].waits = w /\ call'[c].result = NoManifest
      /\ call'[c].since = Clock(pc)
  BY <1>1 DEF Idle
<1>3. call[c].op = "none"
  BY <1>1 DEF TInv, TimelyOK, Timely
<1>4. TimelyOK'
  <2>1. pc \in Requests => Clock(pc) <= now /\ now <= Clock(pc) + RequestTimeout
    BY <1>0, TimesAssumption DEF Clock
  <2>2. Timely(call'[c], now')
    BY <1>0, <1>2, <2>1 DEF Timely
  <2>3. \A d \in Calls \ {c} : Timely(call'[d], now')
    BY <1>0, <1>1 DEF TInv, TimelyOK
  <2>4. QED
    BY <2>2, <2>3 DEF TimelyOK
<1>5. \A d \in Calls : call[d].op = "warm" => call'[d].op = "warm"
  BY <1>1, <1>3
<1>6. WaitsOK'
  <2>1. \A h \in Managers, j \in Keys : pending[h][j] \in Calls \cup {NoCall}
    BY DEF IInv, TypeOK
  <2>2. \A h \in Managers, j \in Keys :
            pending[h][j] # NoCall => call'[pending[h][j]].op = "warm"
    BY <1>5, <2>1 DEF TInv, WaitsOK
  <2>3. ASSUME NEW h \in Managers, NEW j \in Keys, pending'[h][j] # NoCall
        PROVE  call'[pending'[h][j]].op = "warm"
    BY <1>2, <2>2, <2>3
  <2>4. ASSUME NEW d \in Calls, call'[d].pc = "joined"
        PROVE  call'[d].waits \in Calls /\ call'[call'[d].waits].op = "warm"
    <3>1. CASE d = c
      BY <1>2, <2>1, <2>2, <2>4, <3>1
    <3>2. CASE d # c
      BY <1>1, <1>5, <2>4, <3>2 DEF TInv, WaitsOK
    <3>3. QED
      BY <3>1, <3>2
  <2>5. QED
    BY <2>3, <2>4 DEF WaitsOK
<1>7. MintedOK'
  <2>0. m # NoManifest => m \in minted
    BY DEF TInv, MintedOK
  <2>1. ASSUME NEW d \in Calls, call'[d].mine # NoManifest
        PROVE  call'[d].mine \in minted
    <3>1. CASE d = c
      BY <1>2, <2>0, <2>1, <3>1
    <3>2. CASE d # c
      BY <1>1, <2>1, <3>2 DEF TInv, MintedOK
    <3>3. QED
      BY <3>1, <3>2
  <2>2. QED
    BY <1>0, <2>1 DEF TInv, MintedOK, IdsOK
<1>8. OwnOK'
  <2>1. ASSUME NEW e \in Calls, call'[e].op = "warm", call'[e].pc \in OwnPcs
        PROVE  /\ call'[e].mine \notin Foreign \cup committed'
               /\ \A d \in Calls \ {e} : call'[d].mine # call'[e].mine
    <3>1. e # c
      BY <1>2, <2>1 DEF OwnPcs
    <3>2. /\ call'[e] = call[e] /\ call[e].mine \notin Foreign \cup committed
          /\ \A d \in Calls \ {e} : call[d].mine # call[e].mine
      BY <1>1, <2>1, <3>1 DEF TInv, OwnOK
    <3>3. call[e].mine # NoManifest
      BY <2>1, <3>2 DEF IInv, CallsOK, CallOK, OwnPcs, MinePcs
    <3>4. m # call[e].mine
      BY <3>2, <3>3
    <3>5. ASSUME NEW d \in Calls \ {e} PROVE call'[d].mine # call[e].mine
      BY <1>1, <1>2, <3>2, <3>4
    <3>6. QED
      BY <1>0, <3>2, <3>5
  <2>2. QED
    BY <2>1 DEF OwnOK
<1>9. QED
  BY <1>4, <1>6, <1>7, <1>8 DEF TInv

\* Calls that end, crash or answer at once keep no manifest and hold nobody up.
LEMMA OverTimelyOK ==
  ASSUME IInv, TInv, NEW c \in Calls, NEW S \in SUBSET Calls, World(c),
         call[c].mine # NoManifest \/ committed' = committed,
         \A d \in S :
             /\ call'[d].pc \in {"done", "crashed"} /\ call'[d].mine = NoManifest
             /\ call[d].op = "warm" => call'[d].op = "warm"
             /\ call'[d].op = "warm" /\ call'[d].result # NoManifest =>
                   Outlives(call'[d].result, call'[d].since, 2 * RequestTimeout),
         committed' = committed \/ c \in S,
         \A d \in Calls \ S : call'[d] = call[d],
         \A g \in Managers, k \in Keys : pending'[g][k] \in {pending[g][k], NoCall}
  PROVE  TInv'
<1>1. now' = now
  BY DEF World
<1>2. TimelyOK'
  <2>1. \A d \in S : Timely(call'[d], now')
    BY DEF Timely, Requests
  <2>2. \A d \in Calls \ S : Timely(call'[d], now')
    BY <1>1 DEF TInv, TimelyOK
  <2>3. QED
    BY <2>1, <2>2 DEF TimelyOK
<1>3. WaitsOK'
  <2>1. \A d \in Calls : call[d].op = "warm" => call'[d].op = "warm"
    OBVIOUS
  <2>2. \A h \in Managers, j \in Keys : pending[h][j] # NoCall =>
            pending[h][j] \in Calls /\ call[pending[h][j]].op = "warm"
    BY DEF IInv, TypeOK, TInv, WaitsOK
  <2>3. \A h \in Managers, j \in Keys :
            pending'[h][j] # NoCall => call'[pending'[h][j]].op = "warm"
    BY <2>1, <2>2
  <2>4. ASSUME NEW d \in Calls, call'[d].pc = "joined"
        PROVE  call'[d].waits \in Calls /\ call'[call'[d].waits].op = "warm"
    <3>1. call'[d] = call[d]
      BY <2>4
    <3>2. QED
      BY <2>1, <2>4, <3>1 DEF TInv, WaitsOK
  <2>5. QED
    BY <2>3, <2>4 DEF WaitsOK
<1>4. MintedOK'
  <2>1. \A d \in Calls : call'[d].mine # NoManifest => call'[d].mine \in minted'
    BY DEF TInv, MintedOK, World
  <2>2. QED
    BY <2>1, CommittedMinted DEF MintedOK
<1>5. OwnOK'
  <2>1. ASSUME NEW e \in Calls, call'[e].op = "warm", call'[e].pc \in OwnPcs
        PROVE  /\ call'[e].mine \notin Foreign \cup committed'
               /\ \A d \in Calls \ {e} : call'[d].mine # call'[e].mine
    <3>1. e \notin S /\ call'[e] = call[e]
      BY <2>1 DEF OwnPcs
    <3>2. /\ call[e].mine \notin Foreign \cup committed
          /\ \A d \in Calls \ {e} : call[d].mine # call[e].mine
      BY <2>1, <3>1 DEF TInv, OwnOK
    <3>3. call[e].mine # NoManifest
      BY <2>1, <3>1 DEF IInv, CallsOK, CallOK, OwnPcs, MinePcs
    <3>4. \A d \in Calls \ {e} : call'[d].mine # call[e].mine
      BY <3>2, <3>3
    <3>5. call[e].mine \notin committed'
      BY <3>1, <3>2 DEF World
    <3>6. QED
      BY <3>1, <3>2, <3>4, <3>5
  <2>2. QED
    BY <2>1 DEF OwnOK
<1>6. QED
  BY <1>2, <1>3, <1>4, <1>5 DEF TInv

LEMMA EndTimelyOK ==
  ASSUME IInv, TInv, NEW c \in Calls, Running(c), NEW m \in Maybe, End(c, m), World(c),
         call[c].mine # NoManifest \/ committed' = committed,
         call[c].op = "warm" /\ m # NoManifest => Outlives(m, now, 2 * RequestTimeout)
  PROVE  TInv'
<1> DEFINE S == {c} \cup JoinedTo(c)
<1>1. /\ \A d \in S : call'[d] = [Idle EXCEPT !.op = call[d].op, !.pc = "done",
                                              !.result = m, !.since = now]
      /\ \A d \in Calls \ S : call'[d] = call[d]
      /\ \A g \in Managers, k \in Keys :
            pending'[g][k] = IF pending[g][k] = c THEN NoCall ELSE pending[g][k]
  BY EndEffect DEF IInv
<1>2. S \in SUBSET Calls
  BY DEF JoinedTo
<1>3. \A d \in S : /\ call'[d].pc = "done" /\ call'[d].mine = NoManifest
                   /\ call'[d].op = call[d].op /\ call'[d].result = m
                   /\ call'[d].since = now
  <2>1. ASSUME NEW d \in S
        PROVE  /\ call'[d].pc = "done" /\ call'[d].mine = NoManifest
               /\ call'[d].op = call[d].op /\ call'[d].result = m
               /\ call'[d].since = now
    <3>1. call'[d] = [Idle EXCEPT !.op = call[d].op, !.pc = "done",
                                  !.result = m, !.since = now]
      BY <1>1
    <3>2. QED
      BY <3>1 DEF Idle
  <2>2. QED
    BY <2>1
<1>4. \A d \in S : call[d].op = "warm" => call[c].op = "warm"
  BY DEF JoinedTo, TInv, WaitsOK
<1>5. \A d \in S : call'[d].op = "warm" /\ call'[d].result # NoManifest =>
          Outlives(call'[d].result, call'[d].since, 2 * RequestTimeout)
  BY <1>3, <1>4
<1>6. c \in S
  OBVIOUS
<1> HIDE DEF S
<1>7. QED
  BY <1>1, <1>2, <1>3, <1>5, <1>6, OverTimelyOK

-----------------------------------------------------------------------------
(* Each action keeps what a warm serves timely.                            *)

LEMMA QuietWorld ==
  ASSUME IInv, TInv, NEW c \in Calls, SameRepo, UNCHANGED <<now, minted>>
  PROVE  World(c) /\ committed' = committed
BY DEF World, SameRepo, IInv, TypeOK, TInv, MintedOK, IdsOK

\* A call goes on to a request that reads no manifest it may serve.
PlainPcs == {"renewGet", "renewLookup", "build", "dropGet", "dropDelete",
             "invLookup", "done"}

LEMMA PlainTimelyOK ==
  ASSUME IInv, TInv, NEW c \in Calls, NEW pc \in PlainPcs, NEW s \in Maybe,
         Running(c), Goto(c, pc, s, NoManifest), World(c), UNCHANGED pending,
         call[c].mine # NoManifest \/ committed' = committed
  PROVE  TInv'
<1>1. GotoTimely(c, pc, s, NoManifest)
  BY DEF GotoTimely, PlainPcs, Pcs, WarmPcs, CommitPcs, DropPcs, InvalidatePcs, OwnPcs, Maybe
<1>2. QED
  BY <1>1, GotoTimelyOK

LEMMA ReadTimelyOK ==
  ASSUME IInv, TInv, NEW c \in Calls, NEW s \in Manifest, Usable(s),
         Running(c), Goto(c, "readExisting", s, NoManifest), World(c), UNCHANGED pending,
         call[c].mine # NoManifest \/ committed' = committed
  PROVE  TInv'
<1>1. GotoTimely(c, "readExisting", s, NoManifest)
  BY DEF GotoTimely, Pcs, WarmPcs, OwnPcs, Maybe
<1>2. QED
  BY <1>1, GotoTimelyOK

LEMMA RenewedTimelyOK ==
  ASSUME IInv, TInv, NEW c \in Calls, NEW r \in Maybe, Running(c),
         call[c].seen \in Manifest, Renewed(c, r), World(c), UNCHANGED pending,
         call[c].mine # NoManifest \/ committed' = committed
  PROVE  TInv'
<1>0. call[c].seen \in Maybe /\ "dropGet" \in PlainPcs
  BY DEF Maybe, PlainPcs
<1>1. CASE r = NoManifest \/ ~SameIdentity(call[c].seen, r)
  BY <1>0, <1>1, PlainTimelyOK DEF Renewed
<1>2. CASE ~(r = NoManifest \/ ~SameIdentity(call[c].seen, r)) /\ ~Usable(r)
  BY <1>0, <1>2, PlainTimelyOK DEF Renewed
<1>3. CASE ~(r = NoManifest \/ ~SameIdentity(call[c].seen, r)) /\ Usable(r)
  BY <1>3, ReadTimelyOK DEF Renewed, Maybe
<1>4. QED
  BY <1>1, <1>2, <1>3

LEMMA LookupTimely ==
  ASSUME IInv, TInv, NEW c \in Calls, Lookup(c)
  PROVE  TInv'
<1> DEFINE m == repo[Key(c)]
<1>1. /\ Running(c) /\ m \in Maybe /\ World(c) /\ committed' = committed
      /\ UNCHANGED pending /\ {"build", "renewGet", "dropGet"} \subseteq PlainPcs
  BY Holding, QuietWorld DEF Lookup, Running, SameWorld, SameCaches, PlainPcs
<1>2. CASE m = NoManifest
  BY <1>1, <1>2, PlainTimelyOK DEF Lookup
<1>3. CASE m # NoManifest /\ Usable(m)
  BY <1>1, <1>3, ReadTimelyOK DEF Lookup, Maybe
<1>4. CASE m # NoManifest /\ ~Usable(m) /\ Durable
  BY <1>1, <1>4, PlainTimelyOK DEF Lookup
<1>5. CASE m # NoManifest /\ ~Usable(m) /\ ~Durable
  BY <1>1, <1>5, PlainTimelyOK DEF Lookup
<1>6. QED
  BY <1>2, <1>3, <1>4, <1>5

LEMMA RenewGetTimely ==
  ASSUME IInv, TInv, NEW c \in Calls, RenewGet(c)
  PROVE  TInv'
<1> DEFINE m == repo[Key(c)]
<1>1. /\ Running(c) /\ call[c].seen \in Manifest /\ m \in Maybe
      /\ committed' = committed /\ UNCHANGED pending
  BY Holding DEF RenewGet, Running, SeenPcs, SameRepo, SameCaches
<1>2. CASE ~Same(m, call[c].seen)
  BY <1>1, <1>2, QuietWorld, RenewedTimelyOK DEF RenewGet
<1>3. CASE Same(m, call[c].seen)
  <2> DEFINE r == [m EXCEPT !.id = FreshId, !.exp = now + UrlTtl]
  <2>1. /\ FreshIds # {} /\ minted' = minted \cup {r} /\ Goto(c, "renewPut", m, r)
        /\ SameRepo /\ UNCHANGED <<now, lost, verified>>
    BY <1>3 DEF RenewGet
  <2>2. m \in Manifest
    BY <1>1, <1>3 DEF Same, Maybe
  <2>3. now + UrlTtl \in Nat
    BY TimesAssumption DEF IInv, TypeOK
  <2>4. r \in Manifest /\ r.id = FreshId
    BY <2>1, <2>2, <2>3, FreshIdType DEF Manifest
  <2> HIDE DEF r
  <2>5. IdsOK' /\ r \notin minted
    BY <2>1, <2>4, MintOK DEF IInv, TypeOK, TInv
  <2>6. World(c)
    BY <1>1, <2>1, <2>4, <2>5 DEF World, IInv, TypeOK
  <2>7. GotoTimely(c, "renewPut", m, r)
    BY <2>1, <2>2, <2>4, <2>5 DEF GotoTimely, Pcs, WarmPcs, OwnPcs, Maybe
  <2>8. QED
    BY <1>1, <2>1, <2>6, <2>7, GotoTimelyOK
<1>4. QED
  BY <1>2, <1>3

\* The conditional PUT of a manifest the call made.
LEMMA PutWorld ==
  ASSUME IInv, TInv, NEW c \in Calls, call[c].pc \in MinePcs, Put(call[c].mine), SameWorld
  PROVE  World(c) /\ call[c].mine # NoManifest
<1>1. call[c].mine # NoManifest
  BY DEF IInv, CallsOK, CallOK
<1>2. QED
  BY <1>1 DEF World, Put, SameWorld, IInv, TypeOK, TInv, MintedOK, IdsOK

LEMMA RenewPutTimely ==
  ASSUME IInv, TInv, NEW c \in Calls, RenewPut(c)
  PROVE  TInv'
<1>1. /\ Running(c) /\ call[c].pc \in MinePcs /\ call[c].seen \in Manifest
      /\ call[c].seen \in Maybe /\ call[c].mine \in Maybe
      /\ UNCHANGED pending /\ "renewLookup" \in PlainPcs
  BY Holding DEF RenewPut, Running, SeenPcs, MinePcs, SameCaches, PlainPcs
<1>2. CASE Put(call[c].mine) /\ Renewed(c, call[c].mine)
  BY <1>1, <1>2, PutWorld, RenewedTimelyOK DEF RenewPut
<1>3. CASE Goto(c, "renewLookup", call[c].seen, NoManifest) /\ SameRepo
  BY <1>1, <1>3, QuietWorld, PlainTimelyOK DEF RenewPut, SameWorld
<1>4. QED
  BY <1>2, <1>3 DEF RenewPut

LEMMA RenewLookupTimely ==
  ASSUME IInv, TInv, NEW c \in Calls, RenewLookup(c)
  PROVE  TInv'
<1>1. Running(c) /\ call[c].seen \in Manifest /\ repo[Key(c)] \in Maybe
  BY Holding DEF RenewLookup, Running, SeenPcs
<1>2. QED
  BY <1>1, QuietWorld, RenewedTimelyOK DEF RenewLookup, SameWorld, SameCaches

\* What a call read at its second request lasts long enough when it returns.
LEMMA ReadLasts ==
  ASSUME IInv, TInv, NEW c \in Calls, call[c].op = "warm",
         call[c].pc \in {"readExisting", "readWinner"}
  PROVE  Outlives(call[c].seen, now, 2 * RequestTimeout)
<1>1. /\ call[c].since <= now /\ now <= call[c].since + RequestTimeout
      /\ Outlives(call[c].seen, call[c].since, 0)
  BY DEF TInv, TimelyOK, Timely, Requests, Pcs, WarmPcs, CommitPcs
<1>2. call[c].seen \in Manifest /\ call[c].since \in Nat /\ now \in Nat
  BY Holding DEF Running, SeenPcs, IInv, TypeOK, CallState
<1>3. QED
  BY <1>1, <1>2, TimesAssumption DEF Outlives, Manifest

LEMMA ReadExistingTimely ==
  ASSUME IInv, TInv, NEW c \in Calls, ReadExisting(c)
  PROVE  TInv'
<1>1. /\ Running(c) /\ call[c].seen \in Maybe /\ World(c) /\ committed' = committed
      /\ "dropGet" \in PlainPcs
  BY Holding, QuietWorld DEF ReadExisting, Running, PlainPcs
<1>2. CASE Readable(call[c].seen)
  BY <1>1, <1>2, ReadLasts, EndTimelyOK DEF ReadExisting, Return
<1>3. CASE ~Readable(call[c].seen)
  BY <1>1, <1>3, PlainTimelyOK DEF ReadExisting, SameCaches
<1>4. QED
  BY <1>2, <1>3

LEMMA ThrowTimely ==
  ASSUME IInv, TInv, NEW c \in Calls, Running(c), Throw(c), World(c),
         call[c].mine # NoManifest \/ committed' = committed
  PROVE  TInv'
BY EndTimelyOK DEF Throw, Maybe

LEMMA BuildTimely ==
  ASSUME IInv, TInv, NEW c \in Calls, Build(c)
  PROVE  TInv'
<1> DEFINE m == [id |-> FreshId, key |-> Key(c), obj |-> FreshObject,
                 exp |-> now + UrlTtl, ret |-> now + RetainTtl]
<1>1. /\ Running(c) /\ committed' = committed /\ FreshIds # {} /\ minted' = minted \cup {m}
      /\ now' = now
  BY DEF Build, Running, SameRepo
<1>2. m \in Manifest /\ m.id = FreshId
  <2>1. FreshId \in Ids /\ FreshObject \in Objects
    BY FreshIdType DEF Build, FreshObject, FreshObjects
  <2>2. now + UrlTtl \in Nat /\ now + RetainTtl \in Nat
    BY TimesAssumption DEF IInv, TypeOK
  <2>3. Key(c) \in Keys
    BY <1>1, Holding
  <2>4. QED
    BY <2>1, <2>2, <2>3 DEF Manifest
<1>3. \/ Usable(m) /\ Goto(c, "readMine", NoManifest, m) /\ SameCaches
      \/ Throw(c)
  BY DEF Build
<1> HIDE DEF m
<1>4. IdsOK' /\ m \notin minted
  BY <1>1, <1>2, MintOK DEF IInv, TypeOK, TInv
<1>5. World(c)
  BY <1>1, <1>2, <1>4 DEF World, IInv, TypeOK
<1>6. CASE Usable(m) /\ Goto(c, "readMine", NoManifest, m) /\ SameCaches
  <2>1. GotoTimely(c, "readMine", NoManifest, m)
    BY <1>1, <1>2, <1>4, <1>6 DEF GotoTimely, Pcs, CommitPcs, Maybe
  <2>2. QED
    BY <1>1, <1>5, <1>6, <2>1, GotoTimelyOK DEF SameCaches
<1>7. CASE Throw(c)
  BY <1>1, <1>5, <1>7, ThrowTimely
<1>8. QED
  BY <1>3, <1>6, <1>7

LEMMA ReadMineTimely ==
  ASSUME IInv, TInv, NEW c \in Calls, ReadMine(c)
  PROVE  TInv'
<1>1. /\ Running(c) /\ call[c].mine \in Maybe /\ call[c].mine # NoManifest
      /\ World(c) /\ committed' = committed
  BY Holding, QuietWorld, ManifestAssumption DEF ReadMine, Running, MinePcs, Maybe
<1>2. CASE Readable(call[c].mine)
  <2>1. call[c].mine \in minted'
    BY <1>1 DEF World, TInv, MintedOK
  <2>2. GotoTimely(c, "commit", NoManifest, call[c].mine)
    BY <1>1, <2>1 DEF GotoTimely, ReadMine, Pcs, CommitPcs, Maybe
  <2>3. QED
    BY <1>1, <1>2, <2>2, GotoTimelyOK DEF ReadMine, SameCaches
<1>3. CASE ~Readable(call[c].mine)
  BY <1>1, <1>3, ThrowTimely DEF ReadMine
<1>4. QED
  BY <1>2, <1>3

\* A warm that lost its commit never finds its own manifest: it validates the
\* winner's.
LEMMA LostTimely ==
  ASSUME IInv, TInv, NEW c \in Calls, call[c].pc \in {"commit", "commitLookup"},
         Lost(c, repo[Key(c)]), SameRepo, SameWorld
  PROVE  TInv'
<1> DEFINE w == repo[Key(c)]
<1>1. /\ Running(c) /\ call[c].pc \in MinePcs /\ call[c].pc \in OwnPcs
      /\ World(c) /\ committed' = committed
  BY QuietWorld DEF Running, MinePcs, OwnPcs, SameWorld
<1>2. /\ call[c].mine \in Maybe /\ call[c].mine # NoManifest
      /\ call[c].mine \in minted /\ call[c].mine \in minted'
      /\ w \in Maybe /\ (w # NoManifest => w \in committed /\ w \in minted)
  BY <1>1, Holding, ManifestAssumption DEF TInv, MintedOK, World
<1>3. CASE w = NoManifest \/ (w.id # call[c].mine.id /\ ~Usable(w))
  BY <1>1, <1>3, ThrowTimely DEF Lost
<1>4. CASE w # NoManifest /\ w.id = call[c].mine.id
  <2>1. w = call[c].mine
    BY <1>2, <1>4 DEF TInv, MintedOK, IdsOK
  <2>2. call[c].op # "warm"
    BY <1>1, <1>2, <1>4, <2>1 DEF TInv, OwnOK
  <2>3. QED
    BY <1>1, <1>2, <1>4, <2>2, EndTimelyOK DEF Lost, Return
<1>5. CASE w # NoManifest /\ w.id # call[c].mine.id /\ Usable(w)
  <2>1. w \in Manifest
    BY <1>2, <1>5 DEF Maybe
  <2>2. GotoTimely(c, "readWinner", w, call[c].mine)
    BY <1>2, <1>5, <2>1 DEF GotoTimely, Pcs, CommitPcs, OwnPcs
  <2>3. QED
    BY <1>1, <1>5, <2>2, GotoTimelyOK DEF Lost, SameCaches
<1>6. QED
  BY <1>3, <1>4, <1>5

LEMMA CommitTimely ==
  ASSUME IInv, TInv, NEW c \in Calls, Commit(c)
  PROVE  TInv'
<1> DEFINE n == call[c].mine
<1>1. /\ Running(c) /\ call[c].pc \in MinePcs /\ n \in Manifest /\ n \in Maybe
      /\ n # NoManifest /\ call[c].pc = "commit" /\ SameWorld
  BY Holding, ManifestAssumption DEF Commit, Running, MinePcs, Maybe
<1>2. CASE Put(n) /\ Return(c, n)
  <2>1. ASSUME call[c].op = "warm"
        PROVE  Outlives(n, now, 2 * RequestTimeout)
    <3>1. /\ call[c].since <= now /\ now <= call[c].since + RequestTimeout
          /\ Outlives(n, call[c].since, RequestTimeout)
      BY <1>1, <2>1 DEF TInv, TimelyOK, Timely, Requests, Pcs, CommitPcs
    <3>2. call[c].since \in Nat /\ now \in Nat
      BY DEF IInv, TypeOK, CallState
    <3>3. QED
      BY <1>1, <3>1, <3>2, TimesAssumption DEF Outlives, Manifest
  <2>2. World(c)
    BY <1>1, <1>2, PutWorld
  <2>3. QED
    BY <1>1, <1>2, <2>1, <2>2, EndTimelyOK DEF Return
<1>3. CASE /\ repo[Key(c)] # NoManifest /\ Durable /\ SameRepo
           /\ Goto(c, "commitLookup", NoManifest, n) /\ SameCaches
  <2>1. World(c) /\ committed' = committed
    BY <1>1, <1>3, QuietWorld DEF SameWorld
  <2>2. GotoTimely(c, "commitLookup", NoManifest, n)
    BY <1>1, <2>1 DEF GotoTimely, Pcs, CommitPcs, Maybe, TInv, MintedOK, World
  <2>3. QED
    BY <1>1, <1>3, <2>1, <2>2, GotoTimelyOK DEF SameCaches
<1>4. CASE Lost(c, repo[Key(c)]) /\ SameRepo
  BY <1>1, <1>4, LostTimely
<1>5. QED
  BY <1>2, <1>3, <1>4 DEF Commit

LEMMA CommitLookupTimely ==
  ASSUME IInv, TInv, NEW c \in Calls, CommitLookup(c)
  PROVE  TInv'
BY LostTimely DEF CommitLookup

LEMMA ReadWinnerTimely ==
  ASSUME IInv, TInv, NEW c \in Calls, ReadWinner(c)
  PROVE  TInv'
<1>1. /\ Running(c) /\ call[c].seen \in Maybe /\ World(c) /\ committed' = committed
  BY Holding, QuietWorld DEF ReadWinner, Running
<1>2. CASE Readable(call[c].seen)
  BY <1>1, <1>2, ReadLasts, EndTimelyOK DEF ReadWinner, Return
<1>3. CASE ~Readable(call[c].seen)
  BY <1>1, <1>3, ThrowTimely DEF ReadWinner
<1>4. QED
  BY <1>2, <1>3

LEMMA WarmHitTimely ==
  ASSUME IInv, TInv, NEW c \in Calls, NEW g \in Managers, NEW k \in Keys, WarmHit(c, g, k)
  PROVE  TInv'
<1> DEFINE m == cached[g][k]
<1>1. m \in Manifest /\ Usable(m) /\ now \in Nat
  BY DEF IInv, TypeOK, WarmHit, CacheUsable
<1>2. /\ call'[c] = [Idle EXCEPT !.op = "warm", !.pc = "done", !.result = m, !.since = now]
      /\ \A d \in Calls \ {c} : call'[d] = call[d]
  BY DEF WarmHit, IInv, TypeOK
<1>3. /\ call'[c].op = "warm" /\ call'[c].pc = "done" /\ call'[c].mine = NoManifest
      /\ call'[c].result = m /\ call'[c].since = now
  BY <1>2 DEF Idle
<1>4. Outlives(m, now, 2 * RequestTimeout)
  BY <1>1, TimesAssumption DEF Outlives, Usable, Manifest
<1>5. World(c) /\ committed' = committed
  BY QuietWorld DEF WarmHit, SameWorld
<1> DEFINE S == {c}
<1>6. /\ S \in SUBSET Calls /\ c \in S
      /\ \A d \in S :
            /\ call'[d].pc \in {"done", "crashed"} /\ call'[d].mine = NoManifest
            /\ call[d].op = "warm" => call'[d].op = "warm"
            /\ call'[d].op = "warm" /\ call'[d].result # NoManifest =>
                  Outlives(call'[d].result, call'[d].since, 2 * RequestTimeout)
      /\ \A d \in Calls \ S : call'[d] = call[d]
  BY <1>2, <1>3, <1>4
<1> HIDE DEF m, S
<1>7. \A h \in Managers, j \in Keys : pending'[h][j] \in {pending[h][j], NoCall}
  BY DEF WarmHit, SameCaches
<1>8. QED
  BY <1>5, <1>6, <1>7, OverTimelyOK

LEMMA WarmJoinTimely ==
  ASSUME IInv, TInv, NEW c \in Calls, NEW g \in Managers, NEW k \in Keys, WarmJoin(c, g, k)
  PROVE  TInv'
<1>1. /\ Begin(c, "warm", g, k, "joined", NoManifest, pending[g][k])
      /\ pending[g][k] \in Calls \cup {NoCall} /\ pending[g][k] # NoCall
      /\ NoManifest \in Maybe /\ UNCHANGED pending /\ SameRepo /\ SameWorld
  BY DEF WarmJoin, SameCaches, Maybe, IInv, TypeOK
<1>2. QED
  BY <1>1, BeginTimelyOK

LEMMA WarmLeadTimely ==
  ASSUME IInv, TInv, NEW c \in Calls, NEW g \in Managers, NEW k \in Keys, WarmLead(c, g, k)
  PROVE  TInv'
<1>1. /\ Begin(c, "warm", g, k, "lookup", NoManifest, NoCall)
      /\ NoManifest \in Maybe /\ SameRepo /\ SameWorld
  BY DEF WarmLead, Maybe
<1>2. \A h \in Managers, j \in Keys : pending'[h][j] \in {pending[h][j], c}
  BY DEF WarmLead, IInv, TypeOK
<1>3. QED
  BY <1>1, <1>2, BeginTimelyOK

LEMMA ImportTimely ==
  ASSUME IInv, TInv, NEW c \in Calls, NEW g \in Managers, NEW k \in Keys,
         NEW m \in Foreign \cup committed, Import(c, g, k, m)
  PROVE  TInv'
<1>1. m \in Maybe
  BY ManifestAssumption DEF IInv, TypeOK, Maybe
<1>2. /\ Begin(c, "import", g, k, "readMine", m, NoCall)
      /\ UNCHANGED pending /\ SameRepo /\ SameWorld
  BY DEF Import, SameCaches
<1>3. QED
  BY <1>1, <1>2, BeginTimelyOK

LEMMA InvalidateTimely ==
  ASSUME IInv, TInv, NEW c \in Calls, NEW g \in Managers, NEW k \in Keys, Invalidate(c, g, k)
  PROVE  TInv'
<1>1. /\ Begin(c, "invalidate", g, k, "await", NoManifest, pending[g][k])
      /\ pending[g][k] \in Calls \cup {NoCall}
      /\ NoManifest \in Maybe /\ UNCHANGED pending /\ SameRepo /\ SameWorld
  BY DEF Invalidate, SameCaches, Maybe, IInv, TypeOK
<1>2. QED
  BY <1>1, BeginTimelyOK

LEMMA InvalidateCachedTimely ==
  ASSUME IInv, TInv, NEW c \in Calls, InvalidateCached(c)
  PROVE  TInv'
<1>1. Running(c) /\ World(c) /\ committed' = committed /\ UNCHANGED pending
  BY QuietWorld DEF InvalidateCached, Running, SameWorld
<1>2. cached[call[c].mgr][Key(c)] \in Maybe
  BY <1>1, Holding DEF IInv, TypeOK, Maybe
<1>3. (IF cached[call[c].mgr][Key(c)] # NoManifest THEN "dropGet" ELSE "invLookup") \in PlainPcs
  BY DEF PlainPcs
<1>4. QED
  BY <1>1, <1>2, <1>3, PlainTimelyOK DEF InvalidateCached

LEMMA InvalidateLookupTimely ==
  ASSUME IInv, TInv, NEW c \in Calls, InvalidateLookup(c)
  PROVE  TInv'
<1>1. Running(c) /\ World(c) /\ committed' = committed /\ UNCHANGED pending
  BY QuietWorld DEF InvalidateLookup, Running, SameWorld
<1>2. repo[Key(c)] \in Maybe
  BY <1>1, Holding
<1>3. (IF repo[Key(c)] = NoManifest THEN "done" ELSE "dropGet") \in PlainPcs
  BY DEF PlainPcs
<1>4. QED
  BY <1>1, <1>2, <1>3, PlainTimelyOK DEF InvalidateLookup

\* The repository's invalidate is over.
LEMMA DroppedTimely ==
  ASSUME IInv, TInv, NEW c \in Calls, NEW m \in Maybe, call[c].pc \in DropPcs,
         Dropped(c, m), UNCHANGED committed, SameCaches, SameWorld
  PROVE  TInv'
<1>1. Running(c) /\ World(c) /\ UNCHANGED pending
  BY DEF Running, DropPcs, World, SameWorld, SameCaches, IInv, TypeOK, TInv, MintedOK, IdsOK
<1>2. CASE call[c].op = "invalidate"
  <2>1. call' = [call EXCEPT ![c] = [call[c] EXCEPT !.pc = "done", !.result = m,
                                         !.seen = NoManifest, !.since = now]]
    BY <1>2 DEF Dropped
  <2>2. /\ call'[c].op = "invalidate" /\ call'[c].pc = "done"
        /\ call'[c].mine = call[c].mine
        /\ \A d \in Calls \ {c} : call'[d] = call[d]
    BY <1>2, <2>1 DEF IInv, TypeOK, CallState
  <2>3. TimelyOK'
    <3>1. Timely(call'[c], now')
      BY <2>2 DEF Timely, Requests
    <3>2. \A d \in Calls \ {c} : Timely(call'[d], now')
      BY <2>2 DEF TInv, TimelyOK, SameWorld
    <3>3. QED
      BY <3>1, <3>2 DEF TimelyOK
  <2>4. WaitsOK'
    <3>1. \A d \in Calls : call'[d].op = call[d].op
      BY <1>2, <2>2
    <3>2. \A d \in Calls : call'[d].pc = "joined" => call'[d] = call[d]
      BY <2>2
    <3>3. \A g \in Managers, k \in Keys : pending[g][k] # NoCall => pending[g][k] \in Calls
      BY DEF IInv, TypeOK
    <3>4. QED
      BY <1>1, <3>1, <3>2, <3>3 DEF TInv, WaitsOK
  <2>5. \A d \in Calls : call'[d].mine = call[d].mine
    BY <2>2
  <2>6. MintedOK'
    BY <2>5 DEF TInv, MintedOK, IdsOK, SameWorld
  <2>7. OwnOK'
    <3>1. \A d \in Calls : call'[d].op = "warm" => call'[d] = call[d]
      BY <2>2
    <3>2. QED
      BY <2>5, <3>1 DEF TInv, OwnOK
  <2>8. QED
    BY <2>3, <2>4, <2>6, <2>7 DEF TInv
<1>3. CASE call[c].op # "invalidate"
  BY <1>1, <1>3, PlainTimelyOK DEF Dropped, PlainPcs, Maybe
<1>4. QED
  BY <1>2, <1>3

LEMMA DropGetTimely ==
  ASSUME IInv, TInv, NEW c \in Calls, DropGet(c)
  PROVE  TInv'
<1> DEFINE m == repo[Key(c)]
<1>1. /\ Running(c) /\ call[c].pc \in DropPcs /\ NoManifest \in Maybe
      /\ SameCaches /\ SameWorld /\ "dropDelete" \in PlainPcs
  BY DEF DropGet, Running, DropPcs, Maybe, PlainPcs
<1>2. m \in Maybe
  BY <1>1, Holding
<1>3. CASE Dropped(c, NoManifest) /\ SameRepo
  BY <1>1, <1>3, DroppedTimely DEF SameRepo
<1>4. CASE Goto(c, "dropDelete", m, NoManifest) /\ SameRepo
  BY <1>1, <1>2, <1>4, QuietWorld, PlainTimelyOK DEF SameWorld, SameCaches
<1>5. CASE Dropped(c, m) /\ UNCHANGED committed
  BY <1>1, <1>2, <1>5, DroppedTimely
<1>6. QED
  BY <1>3, <1>4, <1>5 DEF DropGet

LEMMA DropDeleteTimely ==
  ASSUME IInv, TInv, NEW c \in Calls, DropDelete(c)
  PROVE  TInv'
<1>1. /\ Running(c) /\ call[c].pc \in DropPcs /\ NoManifest \in Maybe
      /\ SameCaches /\ SameWorld
  BY DEF DropDelete, Running, DropPcs, Maybe
<1>2. call[c].seen \in Maybe
  BY <1>1, Holding
<1>3. QED
  BY <1>1, <1>2, DroppedTimely DEF DropDelete, SameRepo

\* A failed request, whether or not it took effect.
LEMMA FailTimely ==
  ASSUME IInv, TInv, NEW c \in Calls, Running(c), Fail(c), World(c),
         call[c].mine # NoManifest \/ committed' = committed
  PROVE  TInv'
<1>1. CASE call[c].pc \in {"renewGet", "renewPut", "renewLookup", "readExisting"}
  BY <1>1, Holding, PlainTimelyOK DEF Fail, SameCaches, PlainPcs
<1>2. CASE Throw(c)
  BY <1>2, ThrowTimely
<1>3. QED
  BY <1>1, <1>2 DEF Fail

LEMMA RequestFailsTimely ==
  ASSUME IInv, TInv, NEW c \in Calls, RequestFails(c)
  PROVE  TInv'
<1>1. Running(c) /\ World(c) /\ committed' = committed
  BY QuietWorld DEF RequestFails, Running, Requests, SameWorld
<1>2. QED
  BY <1>1, FailTimely DEF RequestFails

LEMMA AnswerLostTimely ==
  ASSUME IInv, TInv, NEW c \in Calls, AnswerLost(c)
  PROVE  TInv'
<1>1. Running(c) /\ Fail(c) /\ SameWorld
  BY DEF AnswerLost, Running
<1>2. CASE call[c].pc \in MinePcs /\ Put(call[c].mine)
  BY <1>1, <1>2, PutWorld, FailTimely
<1>3. CASE UNCHANGED committed
  BY <1>1, <1>3, FailTimely DEF World, SameWorld, IInv, TypeOK, TInv, MintedOK, IdsOK
<1>4. QED
  BY <1>2, <1>3 DEF AnswerLost, MinePcs

LEMMA CrashTimely ==
  ASSUME IInv, TInv, NEW g \in Managers, Crash(g)
  PROVE  TInv'
<1> DEFINE S == {c \in Calls : call[c].mgr = g /\ call[c].pc \notin {"done", "crashed"}}
<1>1. PICK c \in Calls : c \in S
  BY DEF Crash
<1>2. \A d \in S : call'[d] = [Idle EXCEPT !.op = call[d].op, !.pc = "crashed"]
  BY DEF Crash
<1>3. \A d \in Calls \ S : call'[d] = call[d]
  BY DEF Crash
<1>4. \A d \in S : /\ call'[d].pc = "crashed" /\ call'[d].mine = NoManifest
                   /\ call'[d].op = call[d].op /\ call'[d].result = NoManifest
  <2>1. ASSUME NEW d \in S
        PROVE  /\ call'[d].pc = "crashed" /\ call'[d].mine = NoManifest
               /\ call'[d].op = call[d].op /\ call'[d].result = NoManifest
    <3>1. call'[d] = [Idle EXCEPT !.op = call[d].op, !.pc = "crashed"]
      BY <1>2
    <3>2. QED
      BY <3>1 DEF Idle
  <2>2. QED
    BY <2>1
<1>5. \A h \in Managers, k \in Keys : pending'[h][k] \in {pending[h][k], NoCall}
  BY DEF Crash, IInv, TypeOK
<1>6. World(c) /\ committed' = committed
  BY QuietWorld DEF Crash, SameWorld
<1>7. S \in SUBSET Calls
  OBVIOUS
<1> HIDE DEF S
<1>8. QED
  BY <1>1, <1>3, <1>4, <1>5, <1>6, <1>7, OverTimelyOK

\* No request outlives its timeout.
LEMMA TickTimely ==
  ASSUME IInv, TInv, Tick
  PROVE  TInv'
<1>1. \A c \in Calls : call[c].since \in Nat
  BY DEF IInv, TypeOK, CallState
<1>2. TimelyOK'
  <2>1. ASSUME NEW c \in Calls
        PROVE  Timely(call[c], now')
    <3>1. now \in Nat /\ now' = now + 1
      BY DEF Tick, IInv, TypeOK
    <3>2. Timely(call[c], now)
      BY DEF TInv, TimelyOK
    <3>3. call[c].pc \in Requests => now < call[c].since + RequestTimeout
      BY DEF Tick
    <3>4. call[c].pc \in Requests =>
              call[c].since <= now' /\ now' <= call[c].since + RequestTimeout
      BY <1>1, <3>1, <3>2, <3>3, TimesAssumption DEF Timely
    <3>5. QED
      BY <3>2, <3>4 DEF Timely
  <2>2. QED
    BY <2>1 DEF TimelyOK, Tick
<1>3. WaitsOK' /\ MintedOK' /\ OwnOK'
  BY DEF TInv, WaitsOK, MintedOK, IdsOK, OwnOK, Tick, SameRepo, SameCaches
<1>4. QED
  BY <1>2, <1>3 DEF TInv

LEMMA StillTimely ==
  ASSUME TInv, SameRepo, SameCaches, UNCHANGED <<now, call, minted>>
  PROVE  TInv'
BY DEF TInv, TimelyOK, WaitsOK, MintedOK, IdsOK, OwnOK, SameRepo, SameCaches

LEMMA InitTimely == Init => TInv
<1> SUFFICES ASSUME Init PROVE TInv
  OBVIOUS
<1>1. /\ Idle.pc = "idle" /\ Idle.op = "none" /\ Idle.mine = NoManifest
      /\ Idle.result = NoManifest
  BY DEF Idle
<1>2. TimelyOK
  BY <1>1 DEF Init, TimelyOK, Timely, Requests
<1>3. WaitsOK /\ OwnOK
  BY <1>1 DEF Init, WaitsOK, OwnOK
<1>4. MintedOK
  BY <1>1, ForeignAssumption DEF Init, MintedOK, IdsOK
<1>5. QED
  BY <1>2, <1>3, <1>4 DEF TInv

LEMMA StepTimely == IInv /\ TInv /\ [Next]_vars => TInv'
<1> SUFFICES ASSUME IInv, TInv, [Next]_vars PROVE TInv'
  OBVIOUS
<1>1. ASSUME NEW c \in Calls, Start(c) PROVE TInv'
  <2>1. PICK g \in Managers, k \in Keys :
            \/ WarmHit(c, g, k) \/ WarmJoin(c, g, k) \/ WarmLead(c, g, k)
            \/ Invalidate(c, g, k)
            \/ \E m \in Foreign \cup committed : Import(c, g, k, m)
    BY <1>1 DEF Start
  <2>2. QED
    BY <2>1, WarmHitTimely, WarmJoinTimely, WarmLeadTimely, InvalidateTimely, ImportTimely
<1>2. ASSUME NEW c \in Calls, Proceed(c) PROVE TInv'
  BY <1>2, LookupTimely, RenewGetTimely, RenewPutTimely, RenewLookupTimely,
     ReadExistingTimely, BuildTimely, ReadMineTimely, CommitTimely,
     CommitLookupTimely, ReadWinnerTimely, InvalidateCachedTimely,
     InvalidateLookupTimely, DropGetTimely, DropDeleteTimely DEF Proceed
<1>3. ASSUME NEW c \in Calls, RequestFails(c) \/ AnswerLost(c) PROVE TInv'
  BY <1>3, RequestFailsTimely, AnswerLostTimely
<1>4. ASSUME NEW g \in Managers, Crash(g) PROVE TInv'
  BY <1>4, CrashTimely
<1>5. ASSUME NEW o \in Objects, Expire(o) PROVE TInv'
  BY <1>5, StillTimely DEF Expire
<1>6. CASE Tick
  BY <1>6, TickTimely
<1>7. CASE UNCHANGED vars
  BY <1>7, StillTimely DEF vars, SameRepo, SameCaches
<1>8. QED
  BY <1>1, <1>2, <1>3, <1>4, <1>5, <1>6, <1>7 DEF Next

LEMMA TimelyInductive == Spec => [](IInv /\ TInv)
<1>1. Init => IInv /\ TInv
  BY InitOK, InitTimely
<1>2. IInv /\ TInv /\ [Next]_vars => IInv' /\ TInv'
  BY StepOK, StepTimely
<1>3. QED
  BY <1>1, <1>2, PTL DEF Spec

\* What warm returns has the grace period left but for two requests, whichever
\* way it was found: cached, shared, looked up, renewed, built or the winner's.
THEOREM ServedLasts == Spec => []ServedStaysReadable
<1>1. IInv /\ TInv => ServedStaysReadable
  BY DEF TInv, TimelyOK, Timely, Outlives, ServedStaysReadable
<1>2. QED
  BY <1>1, TimelyInductive, PTL

\* Calls that end or go on to another request are somewhere else afterwards.
LEMMA MovesOn ==
  ASSUME IInv, NEW c \in Calls, NEW pc, NEW s, NEW m, Running(c), pc # call[c].pc,
         Goto(c, pc, s, m) \/ End(c, m)
  PROVE  call'[c].pc # call[c].pc
<1>1. CASE Goto(c, pc, s, m)
  <2>1. call' = [call EXCEPT ![c] =
            [call[c] EXCEPT !.pc = pc, !.seen = s, !.mine = m,
                            !.waits = NoCall, !.since = Clock(pc)]]
    BY <1>1 DEF Goto, IInv, TypeOK, CallState
  <2>2. call'[c].pc = pc
    BY <2>1 DEF IInv, TypeOK, CallState
  <2>3. QED
    BY <2>2
<1>2. CASE End(c, m)
  <2>1. call'[c] = [Idle EXCEPT !.op = call[c].op, !.pc = "done", !.result = m, !.since = now]
    BY <1>2 DEF End
  <2>2. call'[c].pc = "done"
    BY <2>1 DEF Idle
  <2>3. QED
    BY <2>2 DEF Running
<1>3. QED
  BY <1>1, <1>2

LEMMA DroppedMovesOn ==
  ASSUME IInv, NEW c \in Calls, NEW m, call[c].pc \in DropPcs, Dropped(c, m)
  PROVE  call'[c].pc # call[c].pc
<1>1. CASE call[c].op = "invalidate"
  <2>1. call' = [call EXCEPT ![c] = [call[c] EXCEPT !.pc = "done", !.result = m,
                                         !.seen = NoManifest, !.since = now]]
    BY <1>1 DEF Dropped
  <2>2. call'[c].pc = "done"
    BY <2>1 DEF IInv, TypeOK, CallState
  <2>3. QED
    BY <2>2 DEF DropPcs
<1>2. CASE call[c].op # "invalidate"
  BY <1>2, MovesOn DEF Dropped, Running, DropPcs
<1>3. QED
  BY <1>1, <1>2

LEMMA FailMovesOn ==
  ASSUME IInv, NEW c \in Calls, Fail(c), call[c].pc \in {"renewPut", "commit", "dropDelete"}
  PROVE  call'[c].pc # call[c].pc
BY MovesOn DEF Fail, Throw, Running

\* k's manifest changes only as ReplacedOnlyAsSeen says.
AsSeen(k) ==
    repo[k] # NoManifest /\ repo'[k] # repo[k] =>
        /\ \E c \in Calls : call[c].seen = repo[k] /\ call'[c].pc # call[c].pc
        /\ repo'[k] # NoManifest => SameIdentity(repo[k], repo'[k])

LEMMA RenewedAsSeen ==
  ASSUME IInv, NEW c \in Calls, call[c].pc = "renewPut", repo[Key(c)] = call[c].seen,
         Put(call[c].mine), call'[c].pc # call[c].pc, NEW k \in Keys
  PROVE  AsSeen(k)
<1>1. call[c].mine.key = Key(c) /\ SameIdentity(call[c].seen, call[c].mine)
  BY Holding, ManifestAssumption DEF Running, MinePcs
<1>2. repo'[Key(c)] = call[c].mine /\ (k # Key(c) => repo'[k] = repo[k])
  BY <1>1, Holding DEF Put, IInv, TypeOK, Running
<1>3. QED
  BY <1>1, <1>2 DEF AsSeen

LEMMA CommittedAsSeen ==
  ASSUME IInv, NEW c \in Calls, call[c].pc = "commit", repo[Key(c)] = NoManifest,
         Put(call[c].mine), NEW k \in Keys
  PROVE  AsSeen(k)
<1>1. call[c].mine.key = Key(c)
  BY Holding, ManifestAssumption DEF Running, MinePcs
<1>2. k # Key(c) => repo'[k] = repo[k]
  BY <1>1 DEF Put, IInv, TypeOK
<1>3. QED
  BY <1>2 DEF AsSeen

LEMMA DeletedAsSeen ==
  ASSUME IInv, NEW c \in Calls, repo[Key(c)] = call[c].seen, Delete(Key(c)),
         call'[c].pc # call[c].pc, NEW k \in Keys
  PROVE  AsSeen(k)
<1>1. repo'[k] = IF k = Key(c) THEN NoManifest ELSE repo[k]
  BY DEF Delete, IInv, TypeOK
<1>2. QED
  BY <1>1 DEF AsSeen

LEMMA KeptAsSeen ==
  ASSUME UNCHANGED repo, NEW k \in Keys
  PROVE  AsSeen(k)
BY DEF AsSeen

LEMMA ProceedAsSeen ==
  ASSUME IInv, TInv, NEW c \in Calls, Proceed(c), NEW k \in Keys
  PROVE  AsSeen(k)
<1>1. CASE \/ Lookup(c) \/ RenewGet(c) \/ RenewLookup(c) \/ ReadExisting(c)
           \/ Build(c) \/ ReadMine(c) \/ CommitLookup(c) \/ ReadWinner(c)
           \/ InvalidateCached(c) \/ InvalidateLookup(c)
  BY <1>1, KeptAsSeen DEF Lookup, RenewGet, RenewLookup, ReadExisting, Build, ReadMine,
     CommitLookup, ReadWinner, InvalidateCached, InvalidateLookup, SameRepo
<1>2. CASE RenewPut(c)
  <2>1. CASE Put(call[c].mine) /\ repo[Key(c)] = call[c].seen /\ Renewed(c, call[c].mine)
    <3>1. call'[c].pc # call[c].pc
      BY <1>2, <2>1, MovesOn DEF RenewPut, Renewed, Running
    <3>2. QED
      BY <1>2, <2>1, <3>1, RenewedAsSeen DEF RenewPut
  <2>2. CASE SameRepo
    BY <2>2, KeptAsSeen DEF SameRepo
  <2>3. QED
    BY <1>2, <2>1, <2>2 DEF RenewPut
<1>3. CASE Commit(c)
  BY <1>3, CommittedAsSeen, KeptAsSeen DEF Commit, SameRepo
<1>4. CASE DropGet(c)
  <2>1. CASE SameRepo
    BY <2>1, KeptAsSeen DEF SameRepo
  <2>2. CASE Same(repo[Key(c)], call[c].seen) /\ Delete(Key(c)) /\ Dropped(c, repo[Key(c)])
    <3>1. call[c].pc \in DropPcs /\ Running(c) /\ call[c].pc \in SeenPcs
      BY <1>4 DEF DropGet, DropPcs, Running, SeenPcs
    <3>2. /\ call[c].seen \in committed /\ repo[Key(c)] \in committed
          /\ call[c].seen.id = repo[Key(c)].id
      BY <2>2, <3>1, Holding, ManifestAssumption DEF Same
    <3>3. repo[Key(c)] = call[c].seen
      BY <3>2 DEF TInv, MintedOK, IdsOK
    <3>4. QED
      BY <2>2, <3>1, <3>3, DroppedMovesOn, DeletedAsSeen
  <2>3. QED
    BY <1>4, <2>1, <2>2 DEF DropGet
<1>5. CASE DropDelete(c)
  <2>1. CASE SameRepo
    BY <2>1, KeptAsSeen DEF SameRepo
  <2>2. CASE repo[Key(c)] = call[c].seen /\ Delete(Key(c)) /\ Dropped(c, call[c].seen)
    <3>1. call[c].pc \in DropPcs
      BY <1>5 DEF DropDelete, DropPcs
    <3>2. QED
      BY <2>2, <3>1, DroppedMovesOn, DeletedAsSeen
  <2>3. QED
    BY <1>5, <2>1, <2>2 DEF DropDelete
<1>6. QED
  BY <1>1, <1>2, <1>3, <1>4, <1>5 DEF Proceed

LEMMA AnswerLostAsSeen ==
  ASSUME IInv, NEW c \in Calls, AnswerLost(c), NEW k \in Keys
  PROVE  AsSeen(k)
<1>1. call'[c].pc # call[c].pc
  BY FailMovesOn DEF AnswerLost
<1>2. QED
  BY <1>1, RenewedAsSeen, CommittedAsSeen, DeletedAsSeen DEF AnswerLost

\* A manifest is deleted only by a call that saw that very manifest, and is
\* replaced only by its renewal: a late DELETE or PUT, or one whose answer was
\* lost, never destroys another publisher's.
THEOREM OnlyAsSeen == Spec => ReplacedOnlyAsSeen
<1>1. IInv /\ TInv /\ [Next]_vars =>
          [\A k \in Keys : repo[k] # NoManifest /\ repo'[k] # repo[k] =>
              /\ \E c \in Calls : call[c].seen = repo[k] /\ call'[c].pc # call[c].pc
              /\ repo'[k] # NoManifest => SameIdentity(repo[k], repo'[k])]_vars
  <2> SUFFICES ASSUME IInv, TInv, Next, NEW k \in Keys PROVE AsSeen(k)
    BY DEF AsSeen
  <2>1. ASSUME NEW c \in Calls, Start(c) \/ RequestFails(c) PROVE AsSeen(k)
    BY <2>1, KeptAsSeen DEF Start, WarmHit, WarmJoin, WarmLead, Invalidate, Import,
       RequestFails, SameRepo
  <2>2. ASSUME NEW g \in Managers, Crash(g) PROVE AsSeen(k)
    BY <2>2, KeptAsSeen DEF Crash, SameRepo
  <2>3. ASSUME NEW o \in Objects, Expire(o) PROVE AsSeen(k)
    BY <2>3, KeptAsSeen DEF Expire, SameRepo
  <2>4. CASE Tick
    BY <2>4, KeptAsSeen DEF Tick, SameRepo
  <2>5. QED
    BY <2>1, <2>2, <2>3, <2>4, ProceedAsSeen, AnswerLostAsSeen DEF Next
<1>2. QED
  BY <1>1, TimelyInductive, PTL DEF Spec, ReplacedOnlyAsSeen

=============================================================================
