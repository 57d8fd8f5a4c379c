-------------------------- MODULE TableScansProofs --------------------------
(***************************************************************************)
(* What divided scans keep, for any functions, workers, readers, keys and  *)
(* deployments: one snapshot for a run of a query, a stream once admitted  *)
(* carried on, a query run again only for a publication, and every row of  *)
(* its function once in an answer.                                         *)
(*                                                                         *)
(* A token's anchor is a version the catalog had when it was planned,      *)
(* later than the runs given up before; what was admitted was admitted     *)
(* under a version no token's anchor is later than.  Two things must be    *)
(* the same for this: the version that is minted and the version that is   *)
(* compared, which they are unless the attach as the client sends it leads *)
(* to another catalog that answers it (AttachKeptApart).                   *)
(*                                                                         *)
(* The rows rest on a second invariant (RInv).  The ranges of a function   *)
(* divide its rows, a plan that is scanned has all of them, and the        *)
(* attempts under way have splits no other has and a query lacks: what an  *)
(* attempt has emitted is the rows of its splits up to where it is, and    *)
(* what a query has is the rows of the splits whose attempts finished.     *)
(***************************************************************************)
EXTENDS TableScans, FiniteSetTheorems, SequenceTheorems, TLAPS

\* The attach as sent leads to no other catalog that answers for its version.
AttachKeptApart ==
    \A s \in Sites :
        s.composite /\ s.rawRoute \in DOMAIN s.backends /\ s.rawRoute # home =>
            ~s.backends[s.rawRoute]

Versioned == home \in DOMAIN site.backends
Stale(q) == f(q).name = "split_stale_plan"

AnyPayload == {Plan(g, page).payloads[i] : g \in Functions, page \in Nat, i \in Nat}
Token == [payload : AnyPayload, bind : Functions, anchor : Nat, key : Keys \cup {NoKey}]
Request == [bind : Functions, columns : STRING, tokens : Seq(Token)]
AnyHash == {"same"} \cup {<<x.bind, x.columns, x.tokens>> : x \in Request}
\* What the memo holds for some bytes is what they parse to.
Entry == {e \in [hash : AnyHash, packed : Request, request : Request] : e.request = e.packed}

Phases == {"planning", "scanning", "done", "failed"}

\* The fields batches, state and got are left to the second invariant.
IsRun(x) ==
    x \in [phase : Phases, reruns : Nat, page : Nat, splits : Seq(Token), claimed : Nat,
           admitted : SUBSET (Nat \cup {NoVersion}), batches : {x.batches}]

IsStream(x) ==
    x \in [phase : {"open"}, query : Queries, request : Request, got : {x.got},
           key : Keys \cup {NoKey}, at : Workers, old : BOOLEAN, claim : Seq(Nat),
           state : {x.state}]

Typed ==
    /\ site \in Sites
    /\ key \in [Workers -> Keys \cup {NoKey}]
    /\ \A w \in Workers : http <=> key[w] # NoKey
    /\ versions \in [DOMAIN site.backends -> Nat \ {0}]
    /\ memo \in [Workers -> Seq(Entry)]
    /\ query = [q \in Queries |-> query[q]] /\ \A q \in Queries : IsRun(query[q])
    /\ reader = [r \in Readers |-> reader[r]]
    /\ \A r \in Readers : reader[r] = Idle \/ IsStream(reader[r])

\* A reader's stream is of a query being scanned, here its run x, on splits of
\* its plan, and its tokens were sealed with the key its cursor is sealed with.
StreamStands(s, x) ==
    /\ x.phase = "scanning"
    /\ s.claim # <<>>
    /\ \A i \in DOMAIN s.claim : s.claim[i] \in DOMAIN x.splits
    /\ \A i \in DOMAIN s.request.tokens :
          s.request.tokens[i].bind = s.request.bind /\ s.request.tokens[i].key = s.key

StreamsStand == \A r \in Readers : reader[r] # Idle => StreamStands(reader[r], query[reader[r].query])

\* The anchors of the plan of a run x of query q.
Anchored(q, x) ==
    \A i \in DOMAIN x.splits :
        IF Stale(q) THEN x.splits[i].anchor = OldVersion
        ELSE Versioned => x.reruns < x.splits[i].anchor /\ x.splits[i].anchor <= versions[home]

\* What its splits were admitted under.
AdmittedUnder(q, x) ==
    /\ x.phase = "planning" => x.admitted = {}
    /\ \A u, v \in x.admitted : u = v
    /\ \A v \in x.admitted :
          IF Versioned
          THEN /\ v \in Nat /\ v <= versions[home]
               /\ IF Stale(q) THEN v = OldVersion
                  ELSE \A i \in DOMAIN x.splits : x.splits[i].anchor <= v
          ELSE v = NoVersion

Earned(q, x) ==
    ~Stale(q) => IF Versioned THEN x.reruns < versions[home] ELSE x.reruns = 0

RunStands(q, x) == Anchored(q, x) /\ AdmittedUnder(q, x) /\ Earned(q, x)

IInv == Typed /\ StreamsStand /\ \A q \in Queries : RunStands(q, query[q])

-----------------------------------------------------------------------------
(* Plans, versions and tokens                                              *)

LEMMA MinPair ==
  ASSUME NEW i \in Int, NEW j \in Int
  PROVE  Min({i, j}) \in {i, j} /\ Min({i, j}) <= i /\ Min({i, j}) <= j
<1>1. \E x \in {i, j} : \A y \in {i, j} : x <= y
  OBVIOUS
<1> QED
  BY <1>1 DEF Min

LEMMA MaxPair ==
  ASSUME NEW i \in Nat, NEW j \in Nat
  PROVE  Max({i, j}) \in Nat
<1>1. \E x \in {i, j} : \A y \in {i, j} : x >= y
  OBVIOUS
<1> QED
  BY <1>1 DEF Max

LEMMA SiteType ==
  ASSUME Typed
  PROVE  /\ site.composite \in BOOLEAN /\ site.backends \in Seq(BOOLEAN) /\ site.rawRoute \in Nat
         /\ site.claim \in Nat \ {0} /\ site.collide \in BOOLEAN
         /\ site.bounds.reruns \in Nat
         /\ \A q \in Queries : f(q) \in Functions /\ site.queries[q].columns \in STRING
         /\ site.key \in Keys \cup {NoKey}
BY SitesAssumption DEF Typed, Bounds, f

\* What init compares is the catalog's own version, if it has one.
LEMMA InitVersionIs ==
  ASSUME Typed
  PROVE  InitVersion = IF Versioned THEN versions[home] ELSE NoVersion
BY SiteType DEF Typed, InitVersion, Version, Versioned, home

\* The version minted is the version compared. Without it every token of a plan
\* would be refused, the query run again, and refused again.
\* (liveSplitAnchor: function.ts:66-76, 88-131)
LEMMA AnchorsAgree ==
  ASSUME Typed, AttachKeptApart
  PROVE  PlanVersion = InitVersion
<1>1. Version(site.rawRoute, FALSE) # NoVersion => Version(site.rawRoute, FALSE) = Version(home, TRUE)
  BY SiteType DEF Typed, Version, home, AttachKeptApart
<1> QED
  BY <1>1 DEF PlanVersion, InitVersion

LEMMA PlanAnchorIs ==
  ASSUME Typed, AttachKeptApart, NEW q \in Queries
  PROVE  /\ planAnchor(q) \in Nat
         /\ Stale(q) => planAnchor(q) = OldVersion
         /\ ~Stale(q) /\ Versioned => planAnchor(q) = versions[home]
<1>1. Versioned => versions[home] \in Nat
  BY DEF Typed, Versioned
<1> QED
  BY <1>1, AnchorsAgree, InitVersionIs, VersionAssumption DEF planAnchor, Stale

LEMMA CurrentVersion ==
  ASSUME Typed
  PROVE  /\ Versioned => versions[home] \in Nat \ {0} /\ InitVersion = versions[home]
                         /\ versions[home] # NoVersion
         /\ ~Versioned => InitVersion = NoVersion
<1>1. Versioned => versions[home] \in Nat \ {0}
  BY DEF Typed, Versioned
<1> QED
  BY <1>1, InitVersionIs, VersionAssumption

\* A sequence, whatever its elements.
IsList(s) == \E n \in Nat : DOMAIN s = 1..n

LEMMA UpTo ==
  ASSUME NEW n \in Int
  PROVE  \E m \in Nat : 1..n = 1..m
<1>1. CASE n >= 0
  BY <1>1
<1>2. CASE n < 0
  <2>1. 1..n = 1..0
    BY <1>2
  <2> QED
    BY <2>1
<1> QED
  BY <1>1, <1>2

LEMMA EvenRangesAreListed ==
  ASSUME NEW n \in Int, NEW k \in Int
  PROVE  /\ k <= 0 => evenRanges(n, k) = <<>>
         /\ k > 0 => DOMAIN evenRanges(n, k) = 1..k
BY DEF evenRanges

LEMMA EvenRangesList ==
  ASSUME NEW n \in Int, NEW k \in Int
  PROVE  IsList(evenRanges(n, k))
<1>1. CASE k <= 0
  BY <1>1, EvenRangesAreListed DEF IsList
<1>2. CASE k > 0
  BY <1>2, EvenRangesAreListed DEF IsList
<1> QED
  BY <1>1, <1>2

LEMMA SkewedList ==
  ASSUME NEW n \in Nat, NEW k \in Nat
  PROVE  IsList(Skewed(n, k))
<1> DEFINE head == (n * 99) \div 100
           rest == evenRanges(n - head, k - 1)
           tail == [i \in DOMAIN rest |-> Span(head + rest[i].lo, head + rest[i].hi)]
           T == {Span(0, head)} \cup {tail[i] : i \in DOMAIN rest}
<1>1. CASE n <= 0 \/ k <= 0
  BY <1>1 DEF Skewed, IsList
<1>2. CASE ~(n <= 0 \/ k <= 0)
  <2>1. n * 99 \in Nat /\ head \in Int
    OBVIOUS
  <2>2. IsList(rest)
    BY <2>1, EvenRangesList
  <2>3. PICK m \in Nat : DOMAIN rest = 1..m
    BY <2>2 DEF IsList
  <2>4. tail \in Seq(T)
    BY <2>3, IsASeq
  <2>5. <<Span(0, head)>> \in Seq(T)
    OBVIOUS
  <2>6. <<Span(0, head)>> \o tail \in Seq(T)
    BY <2>4, <2>5, ConcatProperties
  <2>7. Skewed(n, k) = <<Span(0, head)>> \o tail
    BY <1>2 DEF Skewed
  <2> QED
    BY <2>6, <2>7, LenProperties DEF IsList
<1> QED
  BY <1>1, <1>2

\* Every function that is divided lists its ranges.
LEMMA RangesList ==
  ASSUME NEW g \in Functions
  PROVE  IsList(Ranges(g))
<1>0. g.n \in Nat /\ g.splits \in Nat
  BY DEF Functions
<1>1. CASE g.name = "split_zero"
  BY <1>1 DEF Ranges, IsList
<1>2. CASE g.name = "split_empty_ranges"
  <2>1. PICK m \in Nat : DOMAIN evenRanges(g.n, g.splits) = 1..m /\ Len(evenRanges(g.n, g.splits)) = m
    <3>1. CASE g.splits <= 0
      BY <1>0, <3>1, EvenRangesAreListed
    <3>2. CASE g.splits > 0
      <4>1. DOMAIN evenRanges(g.n, g.splits) = 1..g.splits
        BY <1>0, <3>2, EvenRangesAreListed
      <4>2. Len(evenRanges(g.n, g.splits)) = g.splits
        BY <1>0, <3>2 DEF evenRanges
      <4> QED
        BY <1>0, <4>1, <4>2
    <3> QED
      BY <1>0, <3>1, <3>2
  <2>2. DOMAIN Ranges(g) = 1..(2 * m)
    BY <1>2, <2>1 DEF Ranges, WithEmpty
  <2> QED
    BY <2>2 DEF IsList
<1>3. CASE g.name = "split_skewed"
  BY <1>0, <1>3, SkewedList DEF Ranges
<1>4. CASE g.name \notin {"split_zero", "split_empty_ranges", "split_skewed"}
  <2> DEFINE k == IF g.name = "split_many" /\ g.splits <= 0 THEN ManySplits ELSE g.splits
  <2>1. k \in Int
    BY <1>0, ManySplitsAssumption
  <2>2. Ranges(g) = evenRanges(g.n, k)
    BY <1>4 DEF Ranges
  <2> QED
    BY <1>0, <2>1, <2>2, EvenRangesList
<1> QED
  BY <1>1, <1>2, <1>3, <1>4

LEMMA PlanList ==
  ASSUME NEW g \in Functions, NEW page \in Nat
  PROVE  IsList(Plan(g, page).payloads)
<1>1. CASE g.name = "plain"
  BY <1>1 DEF Plan, IsList
<1>2. CASE g.name = "split_endless_cursor"
  BY <1>2 DEF Plan, IsList
<1>3. CASE g.name = "split_paginated"
  <2> DEFINE first == page * PerPage
             n == Min({first + PerPage, Len(Ranges(g))}) - first
             window == [i \in 1..n |-> Ranges(g)[first + i]]
  <2>1. first \in Int /\ PerPage \in Nat
    BY PerPageAssumption
  <2>2. Len(Ranges(g)) \in Int
    <3>1. Ranges(g) = evenRanges(g.n, g.splits) /\ g.n \in Nat /\ g.splits \in Nat
      BY <1>3 DEF Ranges, Functions
    <3>2. g.splits > 0 => Len(evenRanges(g.n, g.splits)) = g.splits
      BY <3>1 DEF evenRanges
    <3>3. g.splits = 0 => Len(evenRanges(g.n, g.splits)) = 0
      BY <3>1, EvenRangesAreListed
    <3> QED
      BY <3>1, <3>2, <3>3
  <2>3. n \in Int
    <3>1. first + PerPage \in Int
      BY <2>1
    <3>2. Min({first + PerPage, Len(Ranges(g))}) \in Int
      <4> HIDE DEF first
      <4> QED
        BY <3>1, <2>2, MinPair
    <3> QED
      BY <2>1, <3>2
  <2>4. PICK m \in Nat : 1..n = 1..m
    BY <2>3, UpTo
  <2>5. Plan(g, page).payloads = planOf(window, first)
    BY <1>3 DEF Plan
  <2>6. DOMAIN planOf(window, first) = 1..n
    BY DEF planOf
  <2> QED
    BY <2>4, <2>5, <2>6 DEF IsList
<1>4. CASE g.name \notin {"plain", "split_endless_cursor", "split_paginated"}
  <2>1. Plan(g, page).payloads = planOf(Ranges(g), 0)
    BY <1>4 DEF Plan
  <2>2. IsList(Ranges(g))
    BY RangesList
  <2>3. DOMAIN planOf(Ranges(g), 0) = DOMAIN Ranges(g)
    BY DEF planOf
  <2> QED
    BY <2>1, <2>2, <2>3 DEF IsList
<1> QED
  BY <1>1, <1>2, <1>3, <1>4

-----------------------------------------------------------------------------
(* The memo of parsed requests                                             *)

\* A turn goes by the request its cursor carries, whatever else the memo has
\* under its hash. (parseCarriedInitRequest: carried-init-request.ts:112)
LEMMA ParsedIsCarried ==
  ASSUME Typed, NEW w \in Workers, NEW x
  PROVE  Parsed(w, x) = x
<1>1. CASE Hits(w, x) = {}
  BY <1>1 DEF Parsed
<1>2. CASE Hits(w, x) # {}
  <2>1. PICK i \in Hits(w, x) : i = CHOOSE j \in Hits(w, x) : TRUE
    BY <1>2
  <2>2. i \in DOMAIN memo[w] /\ memo[w][i].packed = x
    BY <2>1 DEF Hits, Entries
  <2>3. memo[w] \in Seq(Entry)
    BY DEF Typed
  <2>4. memo[w][i] \in Entry
    BY <2>2, <2>3, ElementOfSeq, LenProperties
  <2> QED
    BY <1>2, <2>1, <2>2, <2>4 DEF Parsed, Entry
<1> QED
  BY <1>1, <1>2

LEMMA MemoAfterTyped ==
  ASSUME Typed, NEW w \in Workers, NEW x \in Request
  PROVE  MemoAfter(w, x) \in Seq(Entry)
<1> DEFINE rest == IF Entries(w, x) = {} THEN memo[w]
                   ELSE RemoveAt(memo[w], CHOOSE i \in Entries(w, x) : TRUE)
           entry == [hash |-> Hash(x), packed |-> x, request |-> Parsed(w, x)]
           kept == IF Len(rest) >= MaxEntries THEN Tail(rest) ELSE rest
<1>1. memo[w] \in Seq(Entry)
  BY DEF Typed
<1>2. rest \in Seq(Entry)
  <2>1. CASE Entries(w, x) = {}
    BY <1>1, <2>1
  <2>2. CASE Entries(w, x) # {}
    <3>1. PICK i \in Entries(w, x) : i = CHOOSE j \in Entries(w, x) : TRUE
      BY <2>2
    <3>2. i \in 1..Len(memo[w])
      BY <1>1, <3>1, LenProperties DEF Entries
    <3>3. SubSeq(memo[w], 1, i - 1) \in Seq(Entry) /\ SubSeq(memo[w], i + 1, Len(memo[w])) \in Seq(Entry)
      BY <1>1, <3>2, SubSeqProperties
    <3>4. rest = SubSeq(memo[w], 1, i - 1) \o SubSeq(memo[w], i + 1, Len(memo[w]))
      BY <2>2, <3>1 DEF RemoveAt
    <3> QED
      BY <3>3, <3>4, ConcatProperties
  <2> QED
    BY <2>1, <2>2
<1>3. Hash(x) \in AnyHash
  BY DEF Hash, AnyHash
<1>4. entry \in Entry
  BY <1>3, ParsedIsCarried DEF Entry
<1>5. kept \in Seq(Entry)
  <2> HIDE DEF rest
  <2>1. rest # <<>> => Tail(rest) \in Seq(Entry)
    BY <1>2, HeadTailProperties
  <2>2. rest = <<>> => Len(rest) = 0
    BY <1>2
  <2> QED
    BY <1>2, <2>1, <2>2, MaxEntriesAssumption
<1>6. Append(kept, entry) \in Seq(Entry)
  <2> HIDE DEF kept, entry
  <2> QED
    BY <1>4, <1>5, AppendProperties
<1>7. MemoAfter(w, x) = Append(kept, entry)
  BY DEF MemoAfter
<1> QED
  BY <1>6, <1>7

-----------------------------------------------------------------------------
(* Opening tokens                                                          *)

LEMMA AdmittedTokens ==
  ASSUME NEW x, NEW current, NEW w \in Workers, resolveSplitPayloads(x, current, w) = "admitted",
         NEW i \in DOMAIN x.tokens
  PROVE  /\ x.tokens[i].bind = x.bind /\ x.tokens[i].key = key[w]
         /\ current # NoVersion => x.tokens[i].anchor = current
<1>1. openSplitToken(x.tokens[i], x.bind, current, key[w]) = "admitted"
  BY DEF resolveSplitPayloads
<1> QED
  BY <1>1 DEF openSplitToken

LEMMA ExpiredToken ==
  ASSUME NEW x, NEW current, NEW w \in Workers, resolveSplitPayloads(x, current, w) = "expired"
  PROVE  current # NoVersion /\ \E i \in DOMAIN x.tokens : x.tokens[i].anchor # current
<1>1. PICK i \in DOMAIN x.tokens : openSplitToken(x.tokens[i], x.bind, current, key[w]) = "expired"
  BY DEF resolveSplitPayloads
<1> QED
  BY <1>1 DEF openSplitToken

\* What was sealed with a worker's key for the same bind, it opens, if it is not
\* asked for the version.
LEMMA OpensUnpinned ==
  ASSUME NEW x, NEW w \in Workers,
         \A i \in DOMAIN x.tokens : x.tokens[i].bind = x.bind /\ x.tokens[i].key = key[w]
  PROVE  resolveSplitPayloads(x, NoVersion, w) = "admitted"
BY DEF resolveSplitPayloads, openSplitToken

-----------------------------------------------------------------------------
(* Steps of one query                                                      *)

LEMMA QueryStep ==
  ASSUME IInv, NEW q \in Queries, NEW x, IsRun(x), RunStands(q, x),
         query' = [query EXCEPT ![q] = x],
         UNCHANGED <<site, key, versions>>, memo' \in [Workers -> Seq(Entry)],
         reader' = [r \in Readers |-> reader'[r]],
         \A r \in Readers :
            \/ reader'[r] = Idle
            \/ /\ IsStream(reader'[r])
               /\ StreamStands(reader'[r], IF reader'[r].query = q THEN x ELSE query[reader'[r].query])
  PROVE  IInv'
<1>1. query' = [p \in Queries |-> query'[p]] /\ query'[q] = x
      /\ \A p \in Queries : p # q => query'[p] = query[p]
  BY DEF IInv, Typed
<1>2. \A p \in Queries : IsRun(query'[p]) /\ RunStands(p, query'[p])
  BY <1>1 DEF IInv, Typed
<1>3. \A p \in Queries : RunStands(p, query[p])'
  BY <1>2 DEF RunStands, Anchored, AdmittedUnder, Earned, Stale, Versioned, f
<1>4. Typed'
  BY <1>1, <1>2 DEF IInv, Typed, IsRun, IsStream, Idle, http
<1>5. ASSUME NEW r \in Readers, reader'[r] # Idle
      PROVE  StreamStands(reader'[r], query'[reader'[r].query])
  <2>1. IsStream(reader'[r])
    BY <1>5
  <2>2. reader'[r].query \in Queries
    BY <2>1 DEF IsStream
  <2> QED
    BY <1>1, <1>5, <2>2
<1>6. StreamsStand'
  BY <1>5 DEF StreamsStand, StreamStands, Idle
<1> QED
  BY <1>3, <1>4, <1>6 DEF IInv

LEMMA AllIdleIs ==
  ASSUME IInv, NEW q \in Queries, NEW x,
         reader' = AllIdle(q)
  PROVE  /\ reader' = [r \in Readers |-> reader'[r]]
         /\ \A r \in Readers :
            \/ reader'[r] = Idle
            \/ /\ IsStream(reader'[r])
               /\ StreamStands(reader'[r], IF reader'[r].query = q THEN x ELSE query[reader'[r].query])
<1>1. \A r \in Readers : reader[r] = Idle \/ (IsStream(reader[r]) /\ StreamStands(reader[r], query[reader[r].query]))
  BY DEF IInv, Typed, StreamsStand
<1>2. ASSUME NEW r \in Readers, reader'[r] # Idle
      PROVE  reader'[r] = reader[r] /\ reader[r].query # q
  <2>1. reader'[r] = IF reader[r].phase = "open" /\ reader[r].query = q THEN Idle ELSE reader[r]
    BY DEF AllIdle
  <2>2. IsStream(reader[r])
    BY <1>1, <1>2, <2>1
  <2>3. reader[r].phase = "open"
    BY <2>2 DEF IsStream
  <2> QED
    BY <1>2, <2>1, <2>3
<1> QED
  BY <1>1, <1>2 DEF AllIdle

LEMMA FailStands ==
  ASSUME IInv, NEW q \in Queries, Fail(q),
         UNCHANGED <<site, key, versions>>, memo' \in [Workers -> Seq(Entry)]
  PROVE  IInv'
<1> DEFINE x == [query[q] EXCEPT !.phase = "failed"]
<1>1. IsRun(query[q]) /\ RunStands(q, query[q])
  BY DEF IInv, Typed
<1>2. IsRun(x) /\ x.phase = "failed" /\ x.splits = query[q].splits /\ x.admitted = query[q].admitted
      /\ x.reruns = query[q].reruns
  BY <1>1 DEF IsRun, Phases
<1>3. RunStands(q, x)
  BY <1>1, <1>2 DEF RunStands, Anchored, AdmittedUnder, Earned
<1>4. query' = [query EXCEPT ![q] = x] /\ reader' = AllIdle(q)
  BY DEF Fail, Failed
<1> QED
  <2> HIDE DEF x
  <2> QED
    BY <1>2, <1>3, <1>4, AllIdleIs, QueryStep

\* A query that is run again has met a publication of its catalog.
LEMMA RunAgainStands ==
  ASSUME IInv, NEW q \in Queries, RunAgain(q), ~Stale(q) => Versioned /\ query[q].reruns + 1 < versions[home],
         UNCHANGED <<site, key, versions>>, memo' \in [Workers -> Seq(Entry)]
  PROVE  IInv'
<1> DEFINE n == Min({query[q].reruns + 1, site.bounds.reruns})
           x == NewRun(n)
<1>1. query[q].reruns \in Nat /\ site.bounds.reruns \in Nat
  BY SiteType DEF IInv, Typed, IsRun
<1>2. n \in Nat /\ n <= query[q].reruns + 1
  <2>1. query[q].reruns + 1 \in Int /\ site.bounds.reruns \in Int
    BY <1>1
  <2>2. n \in {query[q].reruns + 1, site.bounds.reruns} /\ n <= query[q].reruns + 1
    BY <2>1, MinPair
  <2> HIDE DEF n
  <2> QED
    BY <1>1, <2>2
<1>3. IsRun(x)
  <2> HIDE DEF n
  <2>1. <<>> \in Seq(Token) /\ {} \in SUBSET (Nat \cup {NoVersion})
    OBVIOUS
  <2>2. NewRun(n).batches = <<>>
    BY DEF NewRun
  <2> QED
    BY <1>2, <2>1, <2>2 DEF IsRun, NewRun, Phases
<1>4. Versioned => versions[home] \in Nat
  BY CurrentVersion DEF IInv
<1>5. RunStands(q, x)
  <2> HIDE DEF n
  <2>1. x.splits = <<>> /\ x.admitted = {} /\ x.reruns = n
    BY DEF NewRun
  <2>2. Earned(q, x)
    BY <1>1, <1>2, <1>4, <2>1 DEF Earned
  <2> QED
    BY <2>1, <2>2 DEF RunStands, Anchored, AdmittedUnder
<1>6. query' = [query EXCEPT ![q] = x] /\ reader' = AllIdle(q)
  BY DEF RunAgain
<1> QED
  <2> HIDE DEF x
  <2> QED
    BY <1>3, <1>5, <1>6, AllIdleIs, QueryStep

LEMMA ProduceStands ==
  ASSUME IInv, NEW r \in Readers, NEW stream, NEW parsed, NEW x,
         IsStream(stream), IsRun(x), RunStands(stream.query, x), StreamStands(stream, x),
         \A i \in DOMAIN query[stream.query].splits : i \in DOMAIN x.splits,
         Produce(r, stream, parsed, x),
         UNCHANGED <<site, key, versions>>, memo' \in [Workers -> Seq(Entry)]
  PROVE  IInv'
<1> DEFINE q == stream.query
<1>0. q \in Queries
  BY DEF IsStream
<1>1. \A p \in Readers : reader[p] = Idle \/ (IsStream(reader[p]) /\ StreamStands(reader[p], query[reader[p].query]))
  BY DEF IInv, Typed, StreamsStand
<1>2. \A p \in Readers : \/ reader[p] = Idle
         \/ /\ IsStream(reader[p])
            /\ StreamStands(reader[p], IF reader[p].query = q THEN x ELSE query[reader[p].query])
  BY <1>1 DEF StreamStands
<1>3. PICK step \in {emitNext(parsed.bind, stream.state)} :
        LET batch == [lo |-> step.lo, hi |-> step.hi, index |-> step.index,
                      columns |-> parsed.columns, reader |-> r]
        IN  \/ /\ step.out = "batch"
               /\ reader' = [reader EXCEPT ![r] =
                      [stream EXCEPT !.state = step.state, !.old = FALSE, !.got = Append(@, batch)]]
               /\ query' = [query EXCEPT ![q] = x]
            \/ /\ step.out = "finished"
               /\ reader' = [reader EXCEPT ![r] = Idle]
               /\ query' = [query EXCEPT ![q] = [x EXCEPT !.batches = @ \o stream.got]]
            \/ step.out = "failed" /\ Fail(q)
  BY DEF Produce
<1>4. CASE step.out = "batch" /\ query' = [query EXCEPT ![q] = x]
           /\ reader' = [reader EXCEPT ![r] =
                  [stream EXCEPT !.state = step.state, !.old = FALSE,
                                 !.got = Append(@, [lo |-> step.lo, hi |-> step.hi, index |-> step.index,
                                                    columns |-> parsed.columns, reader |-> r])]]
  <2> DEFINE s == [stream EXCEPT !.state = step.state, !.old = FALSE,
                                 !.got = Append(@, [lo |-> step.lo, hi |-> step.hi, index |-> step.index,
                                                    columns |-> parsed.columns, reader |-> r])]
  <2>1. IsStream(s) /\ s.query = q /\ s.claim = stream.claim /\ s.request = stream.request
        /\ s.key = stream.key
    BY DEF IsStream
  <2>2. StreamStands(s, x)
    BY <2>1 DEF StreamStands
  <2>3. reader' = [reader EXCEPT ![r] = s]
    BY <1>4
  <2>4. reader' = [p \in Readers |-> IF p = r THEN s ELSE reader[p]]
    BY <2>3 DEF IInv, Typed
  <2>5. \A p \in Readers : \/ reader'[p] = Idle
           \/ /\ IsStream(reader'[p])
              /\ StreamStands(reader'[p], IF reader'[p].query = q THEN x ELSE query[reader'[p].query])
    <3> HIDE DEF s
    <3> QED
      BY <1>2, <2>1, <2>2, <2>4
  <2>6. reader' = [p \in Readers |-> reader'[p]]
    BY <2>4
  <2> QED
    BY <1>0, <1>4, <2>5, <2>6, QueryStep
<1>5. CASE step.out = "finished" /\ reader' = [reader EXCEPT ![r] = Idle]
           /\ query' = [query EXCEPT ![q] = [x EXCEPT !.batches = @ \o stream.got]]
  <2> DEFINE y == [x EXCEPT !.batches = @ \o stream.got]
  <2>1. IsRun(y) /\ y.phase = x.phase /\ y.splits = x.splits /\ y.admitted = x.admitted
        /\ y.reruns = x.reruns
    BY DEF IsRun
  <2>2. RunStands(q, y)
    BY <2>1 DEF RunStands, Anchored, AdmittedUnder, Earned
  <2>3. reader' = [p \in Readers |-> IF p = r THEN Idle ELSE reader[p]]
    BY <1>5 DEF IInv, Typed
  <2>4. \A p \in Readers : \/ reader'[p] = Idle
           \/ /\ IsStream(reader'[p])
              /\ StreamStands(reader'[p], IF reader'[p].query = q THEN y ELSE query[reader'[p].query])
    BY <1>2, <2>1, <2>3 DEF StreamStands
  <2>5. reader' = [p \in Readers |-> reader'[p]] /\ query' = [query EXCEPT ![q] = y]
    BY <1>5, <2>3
  <2> QED
    <3> HIDE DEF y
    <3> QED
      BY <1>0, <2>1, <2>2, <2>4, <2>5, QueryStep
<1>6. CASE step.out = "failed" /\ Fail(q)
  BY <1>0, <1>6, FailStands
<1> QED
  BY <1>3, <1>4, <1>5, <1>6

LEMMA OpenStreamStands ==
  ASSUME IInv, NEW q \in Queries, NEW r \in Readers, NEW w \in Workers, NEW claim \in Seq(Nat),
         claim # <<>>, \A i \in DOMAIN claim : claim[i] \in DOMAIN query[q].splits,
         query[q].phase = "scanning",
         OpenStream(q, r, w, claim), UNCHANGED <<site, key, versions, memo>>
  PROVE  IInv'
<1> DEFINE request == InitRequest(q, claim)
           answer == resolveSplitPayloads(request, InitVersion, w)
           stream == Stream(q, request, w, claim)
           entered == [query[q] EXCEPT !.claimed = Max({@, Last(claim)}),
                                       !.admitted = @ \cup {InitVersion}]
<1>1. IsRun(query[q]) /\ RunStands(q, query[q]) /\ memo' \in [Workers -> Seq(Entry)]
  BY DEF IInv, Typed
<1>2. query[q].splits \in Seq(Token)
  BY <1>1 DEF IsRun
<1>3. claim = [i \in 1..Len(claim) |-> claim[i]] /\ Len(claim) \in Nat \ {0}
      /\ DOMAIN claim = 1..Len(claim)
  BY EmptySeq, LenProperties
<1>4. request.tokens \in Seq(Token) /\ DOMAIN request.tokens = DOMAIN claim
      /\ \A i \in DOMAIN claim : request.tokens[i] = query[q].splits[claim[i]]
  <2>1. \A i \in DOMAIN claim : query[q].splits[claim[i]] \in Token
    BY <1>2, ElementOfSeq, LenProperties
  <2>2. request.tokens = [i \in 1..Len(claim) |-> query[q].splits[claim[i]]]
    BY <1>3 DEF InitRequest
  <2> QED
    BY <1>3, <2>1, <2>2, IsASeq
<1>5. request \in Request /\ request.bind = f(q)
  BY <1>4, SiteType DEF IInv, InitRequest, Request
<1>6. CASE answer = "invalid" /\ Fail(q)
  BY <1>1, <1>6, FailStands
<1>7. CASE answer = "expired" /\ RunAgain(q)
  <2>1. InitVersion # NoVersion /\ \E i \in DOMAIN request.tokens : request.tokens[i].anchor # InitVersion
    BY <1>7, ExpiredToken
  <2>2. PICK i \in DOMAIN claim : query[q].splits[claim[i]].anchor # InitVersion
    BY <1>4, <2>1
  <2>3. Versioned /\ InitVersion = versions[home] /\ versions[home] \in Nat
    BY <2>1, CurrentVersion DEF IInv
  <2>4. query[q].splits[claim[i]].anchor \in Nat /\ query[q].reruns \in Nat
    <3>1. claim[i] \in 1..Len(query[q].splits)
      BY <1>2, LenProperties
    <3>2. query[q].splits[claim[i]] \in Token
      BY <1>2, <3>1, ElementOfSeq
    <3> QED
      BY <1>1, <3>2 DEF IsRun, Token
  <2>5. ~Stale(q) => /\ query[q].reruns < query[q].splits[claim[i]].anchor
                     /\ query[q].splits[claim[i]].anchor <= versions[home]
    BY <1>1, <2>3 DEF RunStands, Anchored
  <2>6. ~Stale(q) => Versioned /\ query[q].reruns + 1 < versions[home]
    BY <2>2, <2>3, <2>4, <2>5
  <2> QED
    BY <1>1, <1>7, <2>6, RunAgainStands
<1>8. CASE answer = "admitted" /\ Fail(q)
  BY <1>1, <1>8, FailStands
<1>9. CASE answer = "admitted" /\ Produce(r, stream, request, entered)
  <2> HIDE DEF request
  <2>1. IsStream(stream) /\ stream.query = q /\ stream.request = request /\ stream.claim = claim
        /\ stream.key = key[w]
    BY <1>5 DEF Stream, IsStream, IInv, Typed
  <2>2. InitVersion \in Nat \cup {NoVersion}
    BY CurrentVersion DEF IInv
  <2>3. Last(claim) \in Nat
    BY <1>3, ElementOfSeq DEF Last
  <2>4. Max({query[q].claimed, Last(claim)}) \in Nat
    BY <1>1, <2>3, MaxPair DEF IsRun
  <2>5. IsRun(entered) /\ entered.phase = "scanning" /\ entered.splits = query[q].splits
        /\ entered.admitted = query[q].admitted \cup {InitVersion} /\ entered.reruns = query[q].reruns
    BY <1>1, <2>2, <2>4 DEF IsRun
  <2>6. StreamStands(stream, entered)
    <3>1. \A i \in DOMAIN request.tokens :
             request.tokens[i].bind = request.bind /\ request.tokens[i].key = key[w]
      BY <1>9, AdmittedTokens
    <3> QED
      BY <2>1, <2>5, <3>1 DEF StreamStands
  <2>7. ASSUME NEW i \in DOMAIN claim, Versioned
        PROVE  query[q].splits[claim[i]].anchor = versions[home]
    <3>1. InitVersion # NoVersion /\ InitVersion = versions[home]
      BY <2>7, CurrentVersion DEF IInv
    <3>2. request.tokens[i].anchor = InitVersion
      BY <1>4, <1>9, <3>1, AdmittedTokens
    <3> QED
      BY <1>4, <3>1, <3>2
  <2>8. AdmittedUnder(q, entered)
    <3>1. CASE ~Versioned
      BY <1>1, <2>5, <3>1, CurrentVersion DEF IInv, RunStands, AdmittedUnder
    <3>2. CASE Versioned
      <4>1. InitVersion = versions[home] /\ versions[home] \in Nat
        BY <3>2, CurrentVersion DEF IInv
      <4>2. PICK i \in DOMAIN claim : TRUE
        BY <1>3
      <4>3. claim[i] \in DOMAIN query[q].splits /\ query[q].splits[claim[i]].anchor = versions[home]
        BY <2>7, <3>2
      <4>4. CASE Stale(q)
        <5>1. versions[home] = OldVersion
          BY <1>1, <4>3, <4>4 DEF RunStands, Anchored
        <5>2. \A v \in query[q].admitted : v = OldVersion
          BY <1>1, <3>2, <4>4 DEF RunStands, AdmittedUnder
        <5> QED
          BY <2>5, <3>2, <4>1, <4>4, <5>1, <5>2, VersionAssumption DEF AdmittedUnder
      <4>5. CASE ~Stale(q)
        <5>1. \A v \in query[q].admitted : v \in Nat /\ v <= versions[home] /\ versions[home] <= v
          BY <1>1, <3>2, <4>3, <4>5 DEF RunStands, AdmittedUnder
        <5>2. \A v \in query[q].admitted : v = versions[home]
          BY <4>1, <5>1
        <5>3. \A j \in DOMAIN query[q].splits : query[q].splits[j].anchor <= versions[home]
          BY <1>1, <3>2, <4>5 DEF RunStands, Anchored
        <5> QED
          BY <2>5, <3>2, <4>1, <4>5, <5>2, <5>3 DEF AdmittedUnder
      <4> QED
        BY <4>4, <4>5
    <3> QED
      BY <3>1, <3>2
  <2>9. RunStands(q, entered)
    BY <1>1, <2>5, <2>8 DEF RunStands, Anchored, Earned
  <2> QED
    <3> HIDE DEF entered, stream
    <3> QED
      BY <1>1, <1>9, <2>1, <2>5, <2>6, <2>9, ProduceStands
<1> QED
  BY <1>6, <1>7, <1>8, <1>9 DEF OpenStream

\* A step of a query that leaves the readers alone, none of which is on it.
LEMMA ReadersElsewhere ==
  ASSUME IInv, NEW q \in Queries, NEW x, \A r \in Readers : reader[r] # Idle => reader[r].query # q,
         reader' = reader
  PROVE  /\ reader' = [r \in Readers |-> reader'[r]]
         /\ \A r \in Readers :
            \/ reader'[r] = Idle
            \/ /\ IsStream(reader'[r])
               /\ StreamStands(reader'[r], IF reader'[r].query = q THEN x ELSE query[reader'[r].query])
BY DEF IInv, Typed, StreamsStand

LEMMA NotScanned ==
  ASSUME IInv, NEW q \in Queries, query[q].phase # "scanning", NEW r \in Readers, reader[r] # Idle
  PROVE  reader[r].query # q
BY DEF IInv, StreamsStand, StreamStands

-----------------------------------------------------------------------------
(* The actions                                                             *)

LEMMA PlanPageStands ==
  ASSUME IInv, AttachKeptApart, NEW q \in Queries, NEW w \in Workers, PlanPage(q, w)
  PROVE  IInv'
<1> DEFINE plan == Plan(f(q), query[q].page)
           tokens == [i \in DOMAIN plan.payloads |->
                         buildSplitToken(plan.payloads[i], f(q), planAnchor(q), key[w])]
           x == [query[q] EXCEPT !.splits = @ \o tokens, !.page = @ + 1,
                                 !.phase = IF plan.more THEN @ ELSE "scanning"]
           y == [query[q] EXCEPT !.phase = "failed"]
<1>1. IsRun(query[q]) /\ RunStands(q, query[q]) /\ memo' \in [Workers -> Seq(Entry)]
      /\ query[q].phase = "planning" /\ query[q].admitted = {}
  BY DEF IInv, Typed, PlanPage, RunStands, AdmittedUnder
<1>2. UNCHANGED <<site, key, versions>> /\ reader' = reader
  BY DEF PlanPage
<1>3. \A r \in Readers : reader[r] # Idle => reader[r].query # q
  BY <1>1, NotScanned
<1>4. f(q) \in Functions /\ query[q].page \in Nat /\ planAnchor(q) \in Nat
  BY <1>1, SiteType, PlanAnchorIs DEF IInv, IsRun
<1>5. PICK n \in Nat : DOMAIN plan.payloads = 1..n
  BY <1>4, PlanList DEF IsList
<1>6. ASSUME NEW i \in 1..n
      PROVE  tokens[i] \in Token /\ tokens[i].anchor = planAnchor(q)
  <2>1. plan.payloads[i] \in AnyPayload
    BY <1>4 DEF AnyPayload
  <2>2. key[w] \in Keys \cup {NoKey}
    BY DEF IInv, Typed
  <2>3. tokens[i] = buildSplitToken(plan.payloads[i], f(q), planAnchor(q), key[w])
    BY <1>5
  <2> HIDE DEF plan, tokens
  <2> QED
    BY <1>4, <2>1, <2>2, <2>3 DEF buildSplitToken, Token
<1>7. tokens \in Seq(Token) /\ Len(tokens) = n
  <2>1. tokens = [i \in 1..n |-> tokens[i]]
    BY <1>5
  <2> HIDE DEF tokens
  <2> QED
    BY <1>6, <2>1, IsASeq
<1>8. CASE query' = Failed(q)
  <2>1. IsRun(y) /\ y.phase = "failed" /\ y.splits = query[q].splits
        /\ y.admitted = query[q].admitted /\ y.reruns = query[q].reruns
    BY <1>1 DEF IsRun, Phases
  <2>2. RunStands(q, y)
    BY <1>1, <2>1 DEF RunStands, Anchored, AdmittedUnder, Earned
  <2>3. query' = [query EXCEPT ![q] = y]
    BY <1>8 DEF Failed
  <2> HIDE DEF y
  <2>4. /\ reader' = [r \in Readers |-> reader'[r]]
        /\ \A r \in Readers :
           \/ reader'[r] = Idle
           \/ /\ IsStream(reader'[r])
              /\ StreamStands(reader'[r], IF reader'[r].query = q THEN y ELSE query[reader'[r].query])
    BY <1>2, <1>3, ReadersElsewhere
  <2> QED
    BY <1>1, <1>2, <2>1, <2>2, <2>3, <2>4, QueryStep
<1>9. CASE query' = [query EXCEPT ![q].splits = @ \o tokens, ![q].page = @ + 1,
                                 ![q].phase = IF plan.more THEN @ ELSE "scanning"]
  <2> HIDE DEF plan, tokens
  <2>1. query[q].splits \in Seq(Token)
    BY <1>1 DEF IsRun
  <2>2. query[q].splits \o tokens \in Seq(Token)
        /\ Len(query[q].splits \o tokens) = Len(query[q].splits) + n
        /\ \A i \in 1..(Len(query[q].splits) + n) : (query[q].splits \o tokens)[i] =
                IF i <= Len(query[q].splits) THEN query[q].splits[i]
                ELSE tokens[i - Len(query[q].splits)]
    BY <1>7, <2>1, ConcatProperties
  <2>3. IsRun(x) /\ x.splits = query[q].splits \o tokens /\ x.admitted = {}
        /\ x.reruns = query[q].reruns
    <3> DEFINE splits == query[q].splits \o tokens
               phase == IF plan.more THEN query[q].phase ELSE "scanning"
    <3>1. x = [query[q] EXCEPT !.splits = splits, !.page = query[q].page + 1, !.phase = phase]
      OBVIOUS
    <3>2. splits \in Seq(Token) /\ phase \in Phases
      BY <1>1, <2>2 DEF Phases
    <3> HIDE DEF splits, phase, x
    <3>3. query[q].page + 1 \in Nat
      BY <1>1 DEF IsRun
    <3>4. /\ x.splits = splits /\ x.phase = phase /\ x.page = query[q].page + 1
          /\ x.reruns = query[q].reruns /\ x.claimed = query[q].claimed
          /\ x.admitted = query[q].admitted /\ x.batches = query[q].batches
      BY <1>1, <3>1 DEF IsRun
    <3>5. IsRun(x)
      BY <1>1, <3>1, <3>2, <3>3, <3>4 DEF IsRun
    <3> QED
      BY <1>1, <3>4, <3>5 DEF splits
  <2>4. ASSUME NEW i \in DOMAIN x.splits
        PROVE  x.splits[i].anchor = planAnchor(q) \/ (i \in DOMAIN query[q].splits /\ x.splits[i] = query[q].splits[i])
    <3>1. i \in 1..(Len(query[q].splits) + n)
      BY <2>2, <2>3, LenProperties
    <3>2. CASE i <= Len(query[q].splits)
      BY <2>1, <2>2, <2>3, <3>1, <3>2, LenProperties
    <3>3. CASE ~(i <= Len(query[q].splits))
      <4>1. i - Len(query[q].splits) \in 1..n
        BY <2>1, <3>1, <3>3, LenProperties
      <4>2. x.splits[i] = tokens[i - Len(query[q].splits)]
        BY <2>2, <2>3, <3>1, <3>3
      <4> QED
        BY <1>6, <4>1, <4>2
    <3> QED
      BY <3>2, <3>3
  <2>5. Anchored(q, x)
    <3>1. ~Stale(q) /\ Versioned => query[q].reruns < versions[home] /\ versions[home] \in Nat
      BY <1>1, CurrentVersion DEF IInv, RunStands, Earned
    <3> QED
      BY <1>1, <2>3, <2>4, <3>1, PlanAnchorIs DEF IInv, RunStands, Anchored
  <2>6. RunStands(q, x)
    BY <1>1, <2>3, <2>5 DEF RunStands, AdmittedUnder, Earned
  <2>7. query' = [query EXCEPT ![q] = x]
    BY <1>9
  <2> HIDE DEF x
  <2>8. /\ reader' = [r \in Readers |-> reader'[r]]
        /\ \A r \in Readers :
           \/ reader'[r] = Idle
           \/ /\ IsStream(reader'[r])
              /\ StreamStands(reader'[r], IF reader'[r].query = q THEN x ELSE query[reader'[r].query])
    BY <1>2, <1>3, ReadersElsewhere
  <2> QED
    BY <1>1, <1>2, <2>3, <2>6, <2>7, <2>8, QueryStep
<1> QED
  BY <1>8, <1>9 DEF PlanPage

\* A run whose phase alone changes, to one that is not of planning.
LEMMA PhaseMoves ==
  ASSUME IInv, NEW q \in Queries, NEW x, IsRun(x), x.phase # "planning",
         x.splits = query[q].splits, x.admitted = query[q].admitted, x.reruns = query[q].reruns,
         query' = [query EXCEPT ![q] = x], UNCHANGED <<site, key, versions, memo, reader>>,
         \A r \in Readers : reader[r] # Idle => reader[r].query # q
  PROVE  IInv'
<1>1. RunStands(q, x) /\ memo' \in [Workers -> Seq(Entry)]
  BY DEF IInv, Typed, RunStands, Anchored, AdmittedUnder, Earned
<1>2. /\ reader' = [r \in Readers |-> reader'[r]]
      /\ \A r \in Readers :
         \/ reader'[r] = Idle
         \/ /\ IsStream(reader'[r])
            /\ StreamStands(reader'[r], IF reader'[r].query = q THEN x ELSE query[reader'[r].query])
  BY ReadersElsewhere
<1> QED
  BY <1>1, <1>2, QueryStep

LEMMA ScanUnplannedStands ==
  ASSUME IInv, NEW q \in Queries, NEW w \in Workers, ScanUnplanned(q, w)
  PROVE  IInv'
<1> DEFINE scan == <<[lo |-> 0, hi |-> f(q).n, index |-> NoIndex,
                      columns |-> site.queries[q].columns, reader |-> w]>>
           x == [query[q] EXCEPT !.phase = "done", !.batches = scan]
           y == [query[q] EXCEPT !.phase = "failed"]
<1>1. IsRun(query[q]) /\ query[q].phase = "planning"
  BY DEF IInv, Typed, ScanUnplanned
<1>2. \A r \in Readers : reader[r] # Idle => reader[r].query # q
  BY <1>1, NotScanned
<1>3. IsRun(x) /\ x.phase = "done" /\ x.splits = query[q].splits
      /\ x.admitted = query[q].admitted /\ x.reruns = query[q].reruns
  <2> HIDE DEF scan
  <2> QED
    BY <1>1 DEF IsRun, Phases
<1>4. IsRun(y) /\ y.phase = "failed" /\ y.splits = query[q].splits
      /\ y.admitted = query[q].admitted /\ y.reruns = query[q].reruns
  BY <1>1 DEF IsRun, Phases
<1>5. query' = [query EXCEPT ![q] = x] \/ query' = [query EXCEPT ![q] = y]
  BY DEF ScanUnplanned, Failed
<1>6. UNCHANGED <<site, key, versions, memo, reader>>
  BY DEF ScanUnplanned
<1> QED
  <2> HIDE DEF x, y
  <2> QED
    BY <1>2, <1>3, <1>4, <1>5, <1>6, PhaseMoves

LEMMA ClaimStands ==
  ASSUME IInv, NEW q \in Queries, NEW r \in Readers, NEW w \in Workers, Claim(q, r, w)
  PROVE  IInv'
<1> DEFINE have == query[q].claimed
           last == Min({have + site.claim, Len(query[q].splits)})
           claim == [i \in 1..(last - have) |-> have + 1 + i - 1]
<1>1. IsRun(query[q]) /\ have \in Nat /\ query[q].splits \in Seq(Token)
  BY DEF IInv, Typed, IsRun
<1>2. have < Len(query[q].splits) /\ query[q].phase = "scanning"
  BY DEF Claim
<1>3. site.claim \in Nat \ {0} /\ Len(query[q].splits) \in Nat
      /\ DOMAIN query[q].splits = 1..Len(query[q].splits)
  BY <1>1, SiteType, LenProperties DEF IInv
<1>4. last \in {have + site.claim, Len(query[q].splits)} /\ last <= Len(query[q].splits)
  <2>1. have + site.claim \in Int /\ Len(query[q].splits) \in Int
    BY <1>1, <1>3
  <2> QED
    BY <2>1, MinPair
<1>5. last - have \in Nat \ {0} /\ last \in Nat
  <2> HIDE DEF last
  <2> QED
    BY <1>1, <1>2, <1>3, <1>4
<1>6. claim \in Seq(Nat) /\ Len(claim) = last - have
  <2> HIDE DEF last
  <2>1. \A i \in 1..(last - have) : have + 1 + i - 1 \in Nat
    BY <1>1, <1>5
  <2> HIDE DEF have
  <2>2. claim \in Seq(Nat)
    BY <1>5, <2>1, IsASeq
  <2> QED
    BY <1>5, <2>2
<1>7. claim # <<>>
  <2> HIDE DEF last, claim
  <2> QED
    BY <1>5, <1>6
<1>8. \A i \in DOMAIN claim : claim[i] \in DOMAIN query[q].splits
  <2>1. ASSUME NEW i \in 1..(last - have)
        PROVE  claim[i] = have + i /\ have + i \in 1..Len(query[q].splits)
    <3> HIDE DEF last, have
    <3> QED
      BY <1>1, <1>3, <1>4, <1>5, <2>1
  <2>2. DOMAIN claim = 1..(last - have)
    OBVIOUS
  <2> HIDE DEF last, have, claim
  <2> QED
    BY <1>3, <2>1, <2>2
<1>9. OpenStream(q, r, w, claim)
  BY DEF Claim
<1> QED
  <2> HIDE DEF claim
  <2> QED
    BY <1>2, <1>6, <1>7, <1>8, <1>9, OpenStreamStands DEF Claim

LEMMA OpenReader ==
  ASSUME IInv, NEW q \in Queries, NEW r \in Readers, reader[r].phase = "open", reader[r].query = q
  PROVE  IsStream(reader[r]) /\ StreamStands(reader[r], query[q])
BY DEF IInv, Typed, StreamsStand, Idle

LEMMA RetryStands ==
  ASSUME IInv, NEW q \in Queries, NEW r \in Readers, NEW w \in Workers, Retry(q, r, w)
  PROVE  IInv'
<1>1. IsStream(reader[r]) /\ StreamStands(reader[r], query[q])
  BY OpenReader DEF Retry
<1>2. reader[r].claim \in Seq(Nat)
  BY <1>1 DEF IsStream
<1> QED
  BY <1>1, <1>2, OpenStreamStands DEF Retry, StreamStands

LEMMA MemoTyped ==
  ASSUME IInv, NEW w \in Workers, NEW x \in Request,
         memo' = [memo EXCEPT ![w] = MemoAfter(w, x)] \/ memo' = memo
  PROVE  memo' \in [Workers -> Seq(Entry)]
<1>1. memo \in [Workers -> Seq(Entry)] /\ MemoAfter(w, x) \in Seq(Entry)
  BY MemoAfterTyped DEF IInv, Typed
<1> QED
  BY <1>1

LEMMA TurnStands ==
  ASSUME IInv, NEW q \in Queries, NEW r \in Readers, NEW w \in Workers, Turn(q, r, w)
  PROVE  IInv'
<1>1. IsStream(reader[r]) /\ StreamStands(reader[r], query[q]) /\ reader[r].query = q
  BY OpenReader DEF Turn
<1>2. reader[r].request \in Request
  BY <1>1 DEF IsStream
<1>3. memo' \in [Workers -> Seq(Entry)]
  BY <1>2, MemoTyped DEF Turn
<1>4. IsRun(query[q]) /\ RunStands(q, query[q])
  BY DEF IInv, Typed
<1>5. UNCHANGED <<site, key, versions>>
  BY DEF Turn
<1>6. PICK parsed : Fail(q) \/ Produce(r, reader[r], parsed, query[q])
  BY DEF Turn
<1>7. CASE Fail(q)
  BY <1>3, <1>5, <1>7, FailStands
<1>8. CASE Produce(r, reader[r], parsed, query[q])
  BY <1>1, <1>3, <1>4, <1>5, <1>8, ProduceStands
<1> QED
  BY <1>6, <1>7, <1>8

LEMMA TurnLostStands ==
  ASSUME IInv, NEW q \in Queries, NEW r \in Readers, NEW w \in Workers, TurnLost(q, r, w)
  PROVE  IInv'
<1>1. reader[r].request \in Request
  BY OpenReader DEF TurnLost, IsStream
<1>2. memo' \in [Workers -> Seq(Entry)] /\ UNCHANGED <<site, key, versions, query, reader>>
  BY <1>1, MemoTyped DEF TurnLost
<1>3. Typed'
  BY <1>2 DEF IInv, Typed, IsRun, IsStream, http, Idle
<1> QED
  BY <1>2, <1>3 DEF IInv, StreamsStand, StreamStands, Idle, RunStands, Anchored, AdmittedUnder, Earned,
                    Stale, Versioned, f

\* A cursor that has grown old is still of the stream it was of.
LEMMA OutliveStands ==
  ASSUME IInv, NEW r \in Readers, Outlive(r)
  PROVE  IInv'
<1> DEFINE s == [reader[r] EXCEPT !.old = TRUE]
<1>1. IsStream(reader[r]) /\ reader[r] # Idle /\ StreamStands(reader[r], query[reader[r].query])
  BY DEF Outlive, IInv, Typed, StreamsStand, Idle
<1>2. IsStream(s) /\ s.query = reader[r].query /\ s.claim = reader[r].claim
      /\ s.request = reader[r].request /\ s.key = reader[r].key
  BY <1>1 DEF IsStream
<1>3. UNCHANGED <<site, key, versions, memo, query>>
  BY DEF Outlive
<1>4. reader' = [t \in Readers |-> IF t = r THEN s ELSE reader[t]]
  BY DEF Outlive, IInv, Typed
<1> HIDE DEF s
<1>5. StreamStands(s, query[s.query])
  BY <1>1, <1>2 DEF StreamStands
<1>6. Typed'
  <2>1. \A t \in Readers : reader'[t] = Idle \/ IsStream(reader'[t])
    BY <1>2, <1>4 DEF IInv, Typed
  <2>2. reader' = [t \in Readers |-> reader'[t]]
    BY <1>4
  <2> QED
    BY <1>3, <2>1, <2>2 DEF IInv, Typed, IsRun, IsStream, http, Idle
<1>7. StreamsStand'
  BY <1>3, <1>4, <1>5 DEF IInv, StreamsStand, StreamStands, Idle
<1> QED
  BY <1>3, <1>6, <1>7 DEF IInv, RunStands, Anchored, AdmittedUnder, Earned, Stale, Versioned, f

LEMMA FinishStands ==
  ASSUME IInv, NEW q \in Queries, Finish(q)
  PROVE  IInv'
<1> DEFINE x == [query[q] EXCEPT !.phase = "done"]
<1>1. IsRun(query[q])
  BY DEF IInv, Typed
<1>2. IsRun(x) /\ x.phase = "done" /\ x.splits = query[q].splits
      /\ x.admitted = query[q].admitted /\ x.reruns = query[q].reruns
  BY <1>1 DEF IsRun, Phases
<1>3. \A r \in Readers : reader[r] # Idle => reader[r].query # q
  BY DEF IInv, Typed, IsStream, Finish
<1>4. query' = [query EXCEPT ![q] = x] /\ UNCHANGED <<site, key, versions, memo, reader>>
  BY DEF Finish
<1> QED
  <2> HIDE DEF x
  <2> QED
    BY <1>2, <1>3, <1>4, PhaseMoves

\* A version that moves on stays later than every anchor and every admission.
LEMMA PublishStands ==
  ASSUME IInv, NEW b \in DOMAIN site.backends, Publish(b)
  PROVE  IInv'
<1>1. UNCHANGED <<site, key, memo, query, reader>> /\ versions' = [versions EXCEPT ![b] = @ + 1]
  BY DEF Publish
<1>2. versions' \in [DOMAIN site.backends -> Nat \ {0}]
  BY <1>1 DEF IInv, Typed
<1>3. Versioned => versions[home] \in Nat /\ versions'[home] \in Nat /\ versions[home] <= versions'[home]
  BY <1>1 DEF IInv, Typed, Versioned
<1>4. Typed'
  BY <1>1, <1>2 DEF IInv, Typed, IsRun, IsStream, http, Idle
<1>5. StreamsStand'
  BY <1>1 DEF IInv, StreamsStand, StreamStands, Idle
<1>6. ASSUME NEW q \in Queries
      PROVE  RunStands(q, query[q])'
  <2>1. IsRun(query[q]) /\ RunStands(q, query[q])
    BY DEF IInv, Typed
  <2>2. query[q].splits \in Seq(Token) /\ query[q].reruns \in Nat
    BY <2>1 DEF IsRun
  <2>3. \A i \in DOMAIN query[q].splits : query[q].splits[i].anchor \in Nat
    <3>1. \A i \in DOMAIN query[q].splits : query[q].splits[i] \in Token
      BY <2>2, ElementOfSeq, LenProperties
    <3> QED
      BY <3>1 DEF Token
  <2>4. Anchored(q, query[q])'
    BY <1>1, <1>3, <2>1, <2>2, <2>3 DEF RunStands, Anchored, Stale, Versioned, f
  <2>5. AdmittedUnder(q, query[q])'
    BY <1>1, <1>3, <2>1 DEF RunStands, AdmittedUnder, Stale, Versioned, f
  <2>6. Earned(q, query[q])'
    BY <1>1, <1>3, <2>1, <2>2 DEF RunStands, Earned, Stale, Versioned, f
  <2> QED
    BY <2>4, <2>5, <2>6 DEF RunStands
<1> QED
  BY <1>4, <1>5, <1>6 DEF IInv

LEMMA RotateStands ==
  ASSUME IInv, NEW w \in Workers, Rotate(w)
  PROVE  IInv'
<1>1. UNCHANGED <<site, versions, query, reader>> /\ memo' = [memo EXCEPT ![w] = <<>>]
  BY DEF Rotate
<1>2. PICK k \in Keys : key' = [key EXCEPT ![w] = k]
  BY DEF Rotate
<1>3. http /\ k # NoKey
  BY KeyAssumption DEF Rotate
<1>4. memo' \in [Workers -> Seq(Entry)]
  BY <1>1 DEF IInv, Typed
<1>5. key' \in [Workers -> Keys \cup {NoKey}] /\ \A v \in Workers : key'[v] # NoKey
  BY <1>2, <1>3 DEF IInv, Typed
<1>6. Typed'
  BY <1>1, <1>3, <1>4, <1>5 DEF IInv, Typed, IsRun, IsStream, http, Idle
<1> QED
  BY <1>1, <1>6 DEF IInv, StreamsStand, StreamStands, Idle, RunStands, Anchored, AdmittedUnder, Earned,
                    Stale, Versioned, f

-----------------------------------------------------------------------------
(* The invariant                                                           *)

LEMMA InitStands ==
  ASSUME Init
  PROVE  IInv
<1>1. <<>> \in Seq(Token) /\ <<>> \in Seq(Entry)
  OBVIOUS
<1>2. site.key \in Keys \cup {NoKey} /\ site \in Sites
  BY SitesAssumption DEF Init
<1>3. \A q \in Queries : query[q] = NewRun(0)
  BY DEF Init
<1>4. ASSUME NEW q \in Queries
      PROVE  IsRun(query[q])
  <2>1. query[q].batches = <<>> /\ query[q] = NewRun(0)
    BY <1>3 DEF NewRun
  <2>2. {} \in SUBSET (Nat \cup {NoVersion})
    OBVIOUS
  <2> QED
    BY <1>1, <2>1, <2>2 DEF IsRun, NewRun, Phases
<1>5. ASSUME NEW q \in Queries
      PROVE  RunStands(q, query[q])
  BY <1>3 DEF Init, NewRun, RunStands, Anchored, AdmittedUnder, Earned, Versioned
<1>6. Typed
  BY <1>1, <1>2, <1>4 DEF Init, Typed, http
<1>7. StreamsStand
  BY DEF Init, StreamsStand
<1> QED
  BY <1>5, <1>6, <1>7 DEF IInv

LEMMA StepStands ==
  ASSUME IInv, AttachKeptApart, [Next]_vars
  PROVE  IInv'
<1>1. ASSUME NEW q \in Queries, Progress(q)
      PROVE  IInv'
  BY <1>1, PlanPageStands, ScanUnplannedStands, ClaimStands, TurnStands, FinishStands DEF Progress
<1>2. ASSUME NEW q \in Queries, NEW r \in Readers, NEW w \in Workers, Retry(q, r, w) \/ TurnLost(q, r, w)
      PROVE  IInv'
  BY <1>2, RetryStands, TurnLostStands
<1>3. CASE UNCHANGED vars
  BY <1>3 DEF vars, IInv, Typed, IsRun, IsStream, http, Idle, StreamsStand, StreamStands, RunStands,
              Anchored, AdmittedUnder, Earned, Stale, Versioned, f
<1> QED
  BY <1>1, <1>2, <1>3, OutliveStands, PublishStands, RotateStands DEF Next

LEMMA Stands ==
  ASSUME AttachKeptApart
  PROVE  Spec => []IInv
<1>1. IInv /\ [Next]_vars => IInv'
  BY StepStands
<1> QED
  BY <1>1, InitStands, PTL DEF Spec

\* The splits of a run of a query are admitted under one version of the catalog,
\* however many pages and claims it takes. (openSplitToken: split-token.ts:272)
THEOREM OneSnapshotHolds ==
  ASSUME AttachKeptApart
  PROVE  Spec => []OneSnapshot
<1>1. IInv => OneSnapshot
  <2>1. ASSUME IInv, NEW q \in Queries
        PROVE  Cardinality(query[q].admitted) <= 1
    <3>1. \A u, v \in query[q].admitted : u = v
      BY <2>1 DEF IInv, RunStands, AdmittedUnder
    <3>2. CASE query[q].admitted = {}
      BY <3>2, FS_EmptySet
    <3>3. CASE query[q].admitted # {}
      <4>1. PICK v \in query[q].admitted : TRUE
        BY <3>3
      <4>2. query[q].admitted = {v}
        BY <3>1, <4>1
      <4>3. Cardinality({v}) = 1
        BY FS_Singleton
      <4> QED
        BY <4>2, <4>3
    <3> QED
      BY <3>2, <3>3
  <2> QED
    BY <2>1 DEF OneSnapshot
<1> QED
  BY <1>1, Stands, PTL

\* Where the attach as sent leads to no other catalog that answers for its
\* version, a stream that was admitted is carried on by every worker that opens
\* its cursor, sealed with its key and not older than tokenTtl, whatever is
\* published meanwhile. (resolveSplitPayloads: function.ts:148; fetch.ts:199)
THEOREM AdmittedRunsOnHolds ==
  ASSUME AttachKeptApart
  PROVE  Spec => []AdmittedRunsOn
<1>1. IInv => AdmittedRunsOn
  <2>1. ASSUME IInv, NEW r \in Readers, NEW w \in Workers, reader[r].phase = "open", CursorOpens(r, w)
        PROVE  TurnAnswer(r, w) = "admitted"
    <3>1. reader[r] # Idle
      BY <2>1 DEF Idle
    <3>2. \A i \in DOMAIN reader[r].request.tokens :
             /\ reader[r].request.tokens[i].bind = reader[r].request.bind
             /\ reader[r].request.tokens[i].key = key[w]
      BY <2>1, <3>1 DEF IInv, StreamsStand, StreamStands, CursorOpens
    <3>3. Parsed(w, reader[r].request) = reader[r].request
      BY <2>1, ParsedIsCarried DEF IInv
    <3> QED
      BY <2>1, <3>2, <3>3, OpensUnpinned DEF TurnAnswer
  <2> QED
    BY <2>1 DEF AdmittedRunsOn
<1> QED
  BY <1>1, Stands, PTL

\* No plan is refused for a version nobody published: there are no more runs
\* of a query than versions of its catalog. (tableFunctionPlan: function.ts:510)
THEOREM RerunsEarnedHolds ==
  ASSUME AttachKeptApart
  PROVE  Spec => []RerunsEarned
<1>1. IInv => RerunsEarned
  BY DEF IInv, Typed, RunStands, Earned, Stale, Versioned, RerunsEarned
<1> QED
  BY <1>1, Stands, PTL

-----------------------------------------------------------------------------
(* The rows of a function, and the splits that divide them                 *)

\* The splits of a function, all of them, as its readers go by them: one that
\* is not divided is one range of all its rows.
Whole(g) ==
    IF g.name = "plain" THEN <<[ordinal |-> 0, lo |-> 0, hi |-> g.n]>>
    ELSE IF g.name = "split_endless_cursor" THEN <<>>
    ELSE planOf(Ranges(g), 0)

\* Whether they have all the rows. Asked for no split a function plans none, and
\* asked for one split_skewed has nowhere for the last hundredth of its rows.
\* (evenRanges and split_skewed: splits.ts:106, 357)
AllPlanned(g) ==
    \/ g.name = "plain"
    \/ g.name = "split_many"
    \/ g.name \notin {"split_zero", "split_endless_cursor", "split_skewed"} /\ g.splits > 0
    \/ g.name = "split_skewed" /\ g.splits > 1

\* Ranges that divide the rows 0..n-1, in their order.
Divides(rs, n) ==
    /\ \A i \in DOMAIN rs : rs[i].lo \in 0..n /\ rs[i].hi \in 0..n /\ rs[i].lo <= rs[i].hi
    /\ \A i, j \in DOMAIN rs : i < j => rs[i].hi <= rs[j].lo

HasRows(rs, n) == \A row \in 0..(n - 1) : \E i \in DOMAIN rs : rs[i].lo <= row /\ row < rs[i].hi

\* The least of a set of numbers up to k.
LEMMA Least ==
  ASSUME NEW k \in Nat, NEW S \in SUBSET (1..k), S # {}
  PROVE  \E i \in S : \A j \in S : i <= j
<1> DEFINE below(i) == {j \in S : j < i}
           B == {below(i) : i \in S}
<1>1. B \subseteq SUBSET S /\ B # {}
  OBVIOUS
<1>2. IsFiniteSet(S)
  <2>1. IsFiniteSet(1..k)
    BY FS_Interval
  <2> QED
    BY <2>1, FS_Subset
<1>3. PICK b \in B : \A y \in B : ~ (<<y, b>> \in StrictSubsetOrdering(S))
  <2> HIDE DEF B
  <2>1. B \subseteq FiniteSubsetsOf(S)
    BY <1>1, <1>2, FS_FiniteSubsetsOfFinite
  <2> QED
    BY <1>1, <1>2, <2>1, WFMin, FS_StrictSubsetOrderingWellFounded
<1>4. PICK i \in S : b = below(i)
  BY <1>3
<1>5. ASSUME NEW j \in S, j < i
      PROVE  FALSE
  <2>0. i \in Int /\ j \in Int /\ ~ (j < j) /\ \A m \in S : m \in Int
    OBVIOUS
  <2>1. below(j) \subseteq below(i)
    <3>1. \A m \in S : m < j => m < i
      BY <1>5, <2>0
    <3> QED
      BY <3>1
  <2>2. j \in below(i) /\ j \notin below(j)
    <3>1. j \in {m \in S : m < i}
      BY <1>5
    <3>2. j \notin {m \in S : m < j}
      BY <2>0
    <3> QED
      BY <3>1, <3>2
  <2>3. below(j) \in B /\ below(i) \in B
    OBVIOUS
  <2>4. <<below(j), below(i)>> \in StrictSubsetOrdering(S)
    <3>1. below(j) # below(i)
      BY <2>2
    <3> HIDE DEF below
    <3> QED
      BY <1>1, <2>1, <2>3, <3>1 DEF StrictSubsetOrdering
  <2> QED
    BY <1>3, <1>4, <2>3, <2>4
<1> QED
  BY <1>5

\* Where the i-th of k even ranges of n rows ends.
Start(n, k, i) == i * (n \div k) + Min({i, n % k})

LEMMA DivMod ==
  ASSUME NEW n \in Nat, NEW k \in Nat \ {0}
  PROVE  /\ n \div k \in Nat /\ n % k \in Nat /\ n % k < k
         /\ n = k * (n \div k) + (n % k)
OBVIOUS

LEMMA StartIs ==
  ASSUME NEW n \in Nat, NEW k \in Nat \ {0}, NEW i \in 0..k
  PROVE  /\ Start(n, k, i) = i * (n \div k) + (IF i <= n % k THEN i ELSE n % k)
         /\ Start(n, k, i) \in Nat
<1> DEFINE b == n \div k
           e == n % k
<1>1. b \in Nat /\ e \in Nat
  BY DivMod
<1>2. Min({i, e}) \in {i, e} /\ Min({i, e}) <= i /\ Min({i, e}) <= e
  <2>1. i \in Int /\ e \in Int
    BY <1>1
  <2> HIDE DEF e
  <2> QED
    BY <2>1, MinPair
<1>3. Min({i, e}) = IF i <= e THEN i ELSE e
  <2> HIDE DEF e
  <2> QED
    BY <1>1, <1>2
<1>4. Start(n, k, i) = i * b + Min({i, e})
  BY DEF Start
<1> HIDE DEF b, e
<1>5. i * b \in Nat
  BY <1>1
<1> QED
  BY <1>1, <1>3, <1>4, <1>5 DEF b, e

LEMMA StartAscends ==
  ASSUME NEW n \in Nat, NEW k \in Nat \ {0}, NEW i \in 0..k, NEW j \in 0..k, i <= j
  PROVE  Start(n, k, i) <= Start(n, k, j)
<1> DEFINE b == n \div k
           e == n % k
<1>1. b \in Nat /\ e \in Nat
  BY DivMod
<1>2. Start(n, k, i) = i * b + (IF i <= e THEN i ELSE e) /\ Start(n, k, j) = j * b + (IF j <= e THEN j ELSE e)
  BY StartIs
<1> HIDE DEF b, e
<1>3. i * b \in Int /\ j * b \in Int /\ (j - i) * b >= 0 /\ (j - i) * b = j * b - i * b
  BY <1>1
<1> QED
  BY <1>1, <1>2, <1>3

LEMMA StartEnds ==
  ASSUME NEW n \in Nat, NEW k \in Nat \ {0}
  PROVE  Start(n, k, 0) = 0 /\ Start(n, k, k) = n
<1> DEFINE b == n \div k
           e == n % k
<1>1. b \in Nat /\ e \in Nat /\ e < k /\ n = k * b + e
  BY DivMod
<1>2. 0 \in 0..k /\ k \in 0..k
  OBVIOUS
<1>3. Start(n, k, 0) = 0 * b + (IF 0 <= e THEN 0 ELSE e) /\ Start(n, k, k) = k * b + (IF k <= e THEN k ELSE e)
  BY <1>2, StartIs
<1> HIDE DEF b, e
<1> QED
  BY <1>1, <1>3

\* evenRanges divides the rows, and leaves none out if it makes any range.
\* (evenRanges: splits.ts:106)
LEMMA EvenRangesDivide ==
  ASSUME NEW n \in Nat, NEW k \in Nat \ {0}
  PROVE  /\ evenRanges(n, k) = [i \in 1..k |-> Span(Start(n, k, i - 1), Start(n, k, i))]
         /\ Divides(evenRanges(n, k), n) /\ HasRows(evenRanges(n, k), n)
<1> DEFINE rs == evenRanges(n, k)
<1>1. rs = [i \in 1..k |-> Span(Start(n, k, i - 1), Start(n, k, i))]
  BY DEF evenRanges, Start
<1>2. \A i \in 1..k : rs[i].lo = Start(n, k, i - 1) /\ rs[i].hi = Start(n, k, i)
  BY <1>1 DEF Span
<1>3. DOMAIN rs = 1..k
  BY <1>1
<1> HIDE DEF rs
<1>4. ASSUME NEW i \in 1..k
      PROVE  rs[i].lo \in 0..n /\ rs[i].hi \in 0..n /\ rs[i].lo <= rs[i].hi
  <2>1. i - 1 \in 0..k /\ i \in 0..k /\ 0 \in 0..k /\ k \in 0..k
    OBVIOUS
  <2>2. Start(n, k, i - 1) \in Nat /\ Start(n, k, i) \in Nat
    BY <2>1, StartIs
  <2>3. Start(n, k, i - 1) <= Start(n, k, i) /\ Start(n, k, i) <= n
    BY <2>1, StartAscends, StartEnds
  <2> QED
    BY <1>2, <2>2, <2>3
<1>5. ASSUME NEW i \in 1..k, NEW j \in 1..k, i < j
      PROVE  rs[i].hi <= rs[j].lo
  <2>1. i \in 0..k /\ j - 1 \in 0..k /\ i <= j - 1
    BY <1>5
  <2> QED
    BY <1>2, <2>1, StartAscends
<1>6. ASSUME NEW row \in 0..(n - 1)
      PROVE  \E i \in 1..k : rs[i].lo <= row /\ row < rs[i].hi
  <2> DEFINE S == {i \in 1..k : row < Start(n, k, i)}
  <2>1. k \in S
    BY StartEnds
  <2>2. PICK i \in S : \A j \in S : i <= j
    BY <2>1, Least
  <2>3. Start(n, k, i - 1) <= row
    <3>1. CASE i = 1
      BY <3>1, StartEnds
    <3>2. CASE i # 1
      <4>1. i - 1 \in 1..k /\ i - 1 \notin S
        BY <2>2, <3>2
      <4>2. i - 1 \in 0..k
        BY <4>1
      <4>3. Start(n, k, i - 1) \in Nat
        BY <4>2, StartIs
      <4> QED
        BY <4>1, <4>3
    <3> QED
      BY <3>1, <3>2
  <2> QED
    BY <1>2, <2>2, <2>3
<1>7. Divides(rs, n)
  BY <1>2, <1>3, <1>4, <1>5 DEF Divides
<1>8. HasRows(rs, n)
  BY <1>3, <1>6 DEF HasRows
<1> QED
  BY <1>1, <1>7, <1>8 DEF rs

\* (split_empty_ranges: splits.ts:336)
LEMMA WithEmptyDivides ==
  ASSUME NEW n \in Nat, NEW k \in Nat, NEW rs, DOMAIN rs = 1..k, Len(rs) = k, Divides(rs, n)
  PROVE  /\ DOMAIN WithEmpty(rs) = 1..(2 * k) /\ Divides(WithEmpty(rs), n)
         /\ HasRows(rs, n) => HasRows(WithEmpty(rs), n)
<1> DEFINE half(i) == (i + 1) \div 2
           es == WithEmpty(rs)
<1>1. es = [i \in 1..(2 * k) |-> IF i % 2 = 1 THEN Span(rs[half(i)].lo, rs[half(i)].lo) ELSE rs[half(i)]]
  BY DEF WithEmpty
<1>2. ASSUME NEW i \in 1..(2 * k)
      PROVE  /\ half(i) \in 1..k
             /\ es[i].lo = rs[half(i)].lo
             /\ i % 2 = 1 => es[i].hi = rs[half(i)].lo
             /\ i % 2 # 1 => es[i].hi = rs[half(i)].hi
  <2>1. half(i) \in 1..k
    OBVIOUS
  <2> QED
    BY <1>1, <2>1 DEF Span
<1>3. ASSUME NEW i \in 1..(2 * k), NEW j \in 1..(2 * k), i < j
      PROVE  half(i) < half(j) \/ (half(i) = half(j) /\ i % 2 = 1)
  BY <1>3
<1>4. DOMAIN es = 1..(2 * k)
  BY <1>1
<1> HIDE DEF es, half
<1>5. ASSUME NEW i \in 1..(2 * k)
      PROVE  es[i].lo \in 0..n /\ es[i].hi \in 0..n /\ es[i].lo <= es[i].hi
  <2>1. rs[half(i)].lo \in 0..n /\ rs[half(i)].hi \in 0..n /\ rs[half(i)].lo <= rs[half(i)].hi
    BY <1>2 DEF Divides
  <2> QED
    BY <1>2, <2>1
<1>6. ASSUME NEW i \in 1..(2 * k), NEW j \in 1..(2 * k), i < j
      PROVE  es[i].hi <= es[j].lo
  <2>1. half(i) \in 1..k /\ half(j) \in 1..k
    BY <1>2
  <2>2. rs[half(i)].lo \in 0..n /\ rs[half(i)].hi \in 0..n /\ rs[half(i)].lo <= rs[half(i)].hi
        /\ rs[half(j)].lo \in 0..n
    BY <2>1 DEF Divides
  <2>3. half(i) < half(j) => rs[half(i)].hi <= rs[half(j)].lo
    BY <2>1 DEF Divides
  <2>4. es[i].hi \in {rs[half(i)].lo, rs[half(i)].hi} /\ es[j].lo = rs[half(j)].lo
        /\ (i % 2 = 1 => es[i].hi = rs[half(i)].lo)
    BY <1>2
  <2> QED
    BY <1>3, <1>6, <2>2, <2>3, <2>4
<1>7. ASSUME HasRows(rs, n), NEW row \in 0..(n - 1)
      PROVE  \E i \in 1..(2 * k) : es[i].lo <= row /\ row < es[i].hi
  <2>1. PICK i \in 1..k : rs[i].lo <= row /\ row < rs[i].hi
    BY <1>7 DEF HasRows
  <2>2. 2 * i \in 1..(2 * k) /\ half(2 * i) = i /\ (2 * i) % 2 # 1
    BY DEF half
  <2> QED
    BY <1>2, <2>1, <2>2
<1>8. Divides(es, n)
  BY <1>4, <1>5, <1>6 DEF Divides
<1>9. HasRows(rs, n) => HasRows(es, n)
  BY <1>4, <1>7 DEF HasRows
<1> QED
  BY <1>4, <1>8, <1>9 DEF es

\* (split_skewed: splits.ts:357)
LEMMA SkewedDivides ==
  ASSUME NEW n \in Nat, NEW k \in Nat
  PROVE  /\ Divides(Skewed(n, k), n)
         /\ k > 1 => HasRows(Skewed(n, k), n)
<1> DEFINE head == (n * 99) \div 100
           rest == evenRanges(n - head, k - 1)
           tail == [i \in DOMAIN rest |-> Span(head + rest[i].lo, head + rest[i].hi)]
           T == {Span(0, head)} \cup {tail[i] : i \in DOMAIN rest}
           rs == <<Span(0, head)>> \o tail
<1>1. CASE n <= 0 \/ k <= 0
  <2>1. Skewed(n, k) = <<>>
    BY <1>1 DEF Skewed
  <2>2. DOMAIN Skewed(n, k) = {} /\ (n <= 0 \/ ~(k > 1))
    BY <1>1, <2>1
  <2> QED
    BY <2>2 DEF Divides, HasRows
<1>2. CASE ~(n <= 0 \/ k <= 0)
  <2>1. head \in 0..n /\ n - head \in Nat
    OBVIOUS
  <2>2. k - 1 \in Nat
    BY <1>2
  <2>3. PICK m \in Nat : DOMAIN rest = 1..m /\ (k > 1 => HasRows(rest, n - head)) /\ Divides(rest, n - head)
    <3> HIDE DEF head
    <3>1. CASE k = 1
      <4>1. DOMAIN rest = 1..0
        BY <2>1, <3>1, EvenRangesAreListed
      <4> QED
        BY <3>1, <4>1 DEF Divides
    <3>2. CASE k # 1
      <4>1. k - 1 \in Nat \ {0}
        BY <2>2, <3>2
      <4>2. Divides(rest, n - head) /\ HasRows(rest, n - head)
        BY <2>1, <4>1, EvenRangesDivide
      <4>3. DOMAIN rest = 1..(k - 1)
        BY <2>1, <4>1, EvenRangesAreListed
      <4> QED
        BY <2>2, <4>2, <4>3
    <3> QED
      BY <3>1, <3>2
  <2> HIDE DEF head, rest
  <2>4. tail \in Seq(T) /\ Len(tail) = m
    BY <2>3, IsASeq
  <2>5. <<Span(0, head)>> \in Seq(T) /\ Len(<<Span(0, head)>>) = 1
    OBVIOUS
  <2>6. /\ DOMAIN rs = 1..(m + 1) /\ rs[1] = Span(0, head)
        /\ \A i \in 2..(m + 1) : rs[i] = tail[i - 1]
    <3> HIDE DEF tail, T
    <3>1. rs \in Seq(T) /\ Len(rs) = 1 + m
      BY <2>4, <2>5, ConcatProperties
    <3>2. \A i \in 1..Len(rs) : rs[i] = IF i <= 1 THEN <<Span(0, head)>>[i] ELSE tail[i - 1]
      BY <2>4, <2>5, ConcatProperties
    <3> HIDE DEF rs
    <3> QED
      BY <2>3, <3>1, <3>2, LenProperties
  <2>7. rs[1].lo = 0 /\ rs[1].hi = head
    BY <2>6 DEF Span
  <2>8. \A i \in 1..m : tail[i].lo = head + rest[i].lo /\ tail[i].hi = head + rest[i].hi
    BY <2>3 DEF Span
  <2>9. \A i \in 2..(m + 1) : i - 1 \in 1..m /\ rs[i].lo = head + rest[i - 1].lo /\ rs[i].hi = head + rest[i - 1].hi
    <3> HIDE DEF tail, rs
    <3>1. \A i \in 2..(m + 1) : i - 1 \in 1..m
      BY <2>3
    <3> QED
      BY <2>6, <2>8, <3>1
  <2> HIDE DEF rs
  <2>10. \A i \in 1..m : rest[i].lo \in 0..(n - head) /\ rest[i].hi \in 0..(n - head) /\ rest[i].lo <= rest[i].hi
    BY <2>3 DEF Divides
  <2>11. ASSUME NEW i \in 1..(m + 1)
         PROVE  rs[i].lo \in 0..n /\ rs[i].hi \in 0..n /\ rs[i].lo <= rs[i].hi
    <3>1. CASE i = 1
      BY <2>1, <2>7, <3>1
    <3>2. CASE i \in 2..(m + 1)
      <4>1. i - 1 \in 1..m /\ rs[i].lo = head + rest[i - 1].lo /\ rs[i].hi = head + rest[i - 1].hi
        BY <2>9, <3>2
      <4>2. /\ rest[i - 1].lo \in 0..(n - head) /\ rest[i - 1].hi \in 0..(n - head)
            /\ rest[i - 1].lo <= rest[i - 1].hi
        BY <2>10, <4>1
      <4> QED
        BY <2>1, <4>1, <4>2
    <3> QED
      BY <2>3, <3>1, <3>2
  <2>12. ASSUME NEW i \in 1..(m + 1), NEW j \in 1..(m + 1), i < j
         PROVE  rs[i].hi <= rs[j].lo
    <3>1. j \in 2..(m + 1)
      BY <2>12
    <3>2. CASE i = 1
      BY <2>1, <2>7, <2>9, <2>10, <3>1, <3>2
    <3>3. CASE i # 1
      <4>1. i \in 2..(m + 1) /\ i - 1 < j - 1
        BY <2>12, <3>3
      <4>2. rest[i - 1].hi <= rest[j - 1].lo
        BY <2>3, <2>9, <3>1, <4>1 DEF Divides
      <4> QED
        BY <2>1, <2>9, <2>10, <3>1, <4>1, <4>2
    <3> QED
      BY <3>2, <3>3
  <2>13. ASSUME k > 1, NEW row \in 0..(n - 1)
         PROVE  \E i \in 1..(m + 1) : rs[i].lo <= row /\ row < rs[i].hi
    <3>1. CASE row < head
      <4>1. 1 \in 1..(m + 1)
        BY <2>3
      <4> QED
        BY <2>7, <3>1, <4>1
    <3>2. CASE ~(row < head)
      <4>1. row - head \in 0..(n - head - 1)
        BY <2>1, <3>2
      <4>2. PICK i \in 1..m : rest[i].lo <= row - head /\ row - head < rest[i].hi
        BY <2>3, <2>13, <4>1 DEF HasRows
      <4>3. i + 1 \in 2..(m + 1) /\ (i + 1) - 1 = i
        BY <2>3
      <4>4. rs[i + 1].lo = head + rest[i].lo /\ rs[i + 1].hi = head + rest[i].hi
        BY <2>9, <4>3
      <4> QED
        BY <2>1, <2>10, <4>2, <4>3, <4>4
    <3> QED
      BY <2>1, <3>1, <3>2
  <2>14. Skewed(n, k) = rs
    BY <1>2 DEF Skewed, rs, tail, rest, head
  <2> QED
    BY <2>6, <2>11, <2>12, <2>13, <2>14 DEF Divides, HasRows
<1> QED
  BY <1>1, <1>2

\* The ranges every fixture makes divide its rows. (splits.ts:319-410)
LEMMA RangesDivide ==
  ASSUME NEW g \in Functions, g.name # "plain"
  PROVE  \E l \in Nat : /\ DOMAIN Ranges(g) = 1..l /\ Divides(Ranges(g), g.n)
                        /\ AllPlanned(g) => HasRows(Ranges(g), g.n)
<1>0. g.n \in Nat /\ g.splits \in Nat
  BY DEF Functions
<1>1. CASE g.name = "split_zero"
  <2>1. Ranges(g) = <<>> /\ DOMAIN Ranges(g) = 1..0
    BY <1>1 DEF Ranges
  <2> QED
    BY <1>1, <2>1 DEF Divides, AllPlanned
<1>2. CASE g.name = "split_skewed"
  <2>1. Ranges(g) = Skewed(g.n, g.splits)
    BY <1>2 DEF Ranges
  <2>2. PICK l \in Nat : DOMAIN Ranges(g) = 1..l
    BY RangesList DEF IsList
  <2>3. AllPlanned(g) => g.splits > 1
    BY <1>2 DEF AllPlanned
  <2> QED
    BY <1>0, <2>1, <2>2, <2>3, SkewedDivides
<1> DEFINE k == IF g.name = "split_many" /\ g.splits <= 0 THEN ManySplits ELSE g.splits
           rs == evenRanges(g.n, k)
<1>3. ASSUME g.name \notin {"split_zero", "split_skewed"}
      PROVE  /\ k \in Nat /\ (AllPlanned(g) => k # 0)
             /\ DOMAIN rs = 1..k /\ Len(rs) = k /\ Divides(rs, g.n) /\ (k # 0 => HasRows(rs, g.n))
  <2>1. k \in Nat /\ (AllPlanned(g) => k # 0)
    BY <1>0, <1>3, ManySplitsAssumption DEF AllPlanned
  <2>2. CASE k = 0
    <3>1. rs = <<>>
      BY <1>0, <2>2, EvenRangesAreListed
    <3>2. DOMAIN rs = {} /\ Len(rs) = 0 /\ 1..k = {}
      BY <2>2, <3>1
    <3> QED
      BY <2>1, <2>2, <3>2 DEF Divides
  <2>3. CASE k # 0
    <3> HIDE DEF k
    <3>1. k \in Nat \ {0}
      BY <2>1, <2>3
    <3>2. rs = [i \in 1..k |-> Span(Start(g.n, k, i - 1), Start(g.n, k, i))] /\ Divides(rs, g.n) /\ HasRows(rs, g.n)
      BY <1>0, <3>1, EvenRangesDivide
    <3>3. DOMAIN rs = 1..k /\ Len(rs) = k
      BY <3>1, <3>2
    <3> QED
      BY <2>1, <3>2, <3>3
  <2> QED
    BY <2>2, <2>3
<1>4. CASE g.name = "split_empty_ranges"
  <2>1. Ranges(g) = WithEmpty(rs)
    BY <1>4 DEF Ranges
  <2>2. k \in Nat /\ 2 * k \in Nat
    BY <1>3, <1>4
  <2> HIDE DEF k, rs
  <2> QED
    BY <1>0, <1>3, <1>4, <2>1, <2>2, WithEmptyDivides
<1>5. CASE g.name \notin {"split_zero", "split_skewed", "split_empty_ranges"}
  <2>1. Ranges(g) = rs
    BY <1>5 DEF Ranges
  <2> HIDE DEF k, rs
  <2> QED
    BY <1>3, <1>5, <2>1
<1> QED
  BY <1>1, <1>2, <1>4, <1>5

WholeOf(g) == [ordinal : Nat, lo : 0..g.n, hi : 0..g.n]

\* The splits of a function are ranges of its rows one after the other, each
\* with its place as its ordinal.
LEMMA WholeDivides ==
  ASSUME NEW g \in Functions
  PROVE  /\ Whole(g) \in Seq(WholeOf(g))
         /\ \A i \in DOMAIN Whole(g) : Whole(g)[i].ordinal = i - 1
         /\ Divides(Whole(g), g.n)
         /\ AllPlanned(g) => HasRows(Whole(g), g.n)
         /\ g.name \notin {"plain", "split_endless_cursor"} =>
               /\ DOMAIN Ranges(g) = DOMAIN Whole(g)
               /\ Whole(g) = planOf(Ranges(g), 0)
<1>0. g.n \in Nat
  BY DEF Functions
<1>1. CASE g.name = "plain"
  <2>1. Whole(g) = <<[ordinal |-> 0, lo |-> 0, hi |-> g.n]>>
    BY <1>1 DEF Whole
  <2>2. [ordinal |-> 0, lo |-> 0, hi |-> g.n] \in WholeOf(g)
    BY <1>0 DEF WholeOf
  <2>3. Whole(g) \in Seq(WholeOf(g)) /\ DOMAIN Whole(g) = {1}
    BY <2>1, <2>2
  <2>4. Whole(g)[1] = [ordinal |-> 0, lo |-> 0, hi |-> g.n]
    BY <2>1
  <2> QED
    BY <1>0, <1>1, <2>3, <2>4 DEF Divides, HasRows
<1>2. CASE g.name = "split_endless_cursor"
  <2>1. Whole(g) = <<>>
    BY <1>2 DEF Whole
  <2>2. Whole(g) \in Seq(WholeOf(g)) /\ DOMAIN Whole(g) = {}
    BY <2>1
  <2> QED
    BY <1>2, <2>2 DEF Divides, AllPlanned
<1>3. CASE g.name \notin {"plain", "split_endless_cursor"}
  <2>1. PICK l \in Nat : /\ DOMAIN Ranges(g) = 1..l /\ Divides(Ranges(g), g.n)
                         /\ AllPlanned(g) => HasRows(Ranges(g), g.n)
    BY <1>3, RangesDivide
  <2>2. Whole(g) = planOf(Ranges(g), 0)
    BY <1>3 DEF Whole
  <2>3. Whole(g) = [i \in 1..l |-> [ordinal |-> 0 + i - 1, lo |-> Ranges(g)[i].lo, hi |-> Ranges(g)[i].hi]]
    BY <2>1, <2>2 DEF planOf
  <2>4. \A i \in 1..l : 0 + i - 1 \in Nat /\ 0 + i - 1 = i - 1 /\ Ranges(g)[i].lo \in 0..g.n /\ Ranges(g)[i].hi \in 0..g.n
    BY <2>1 DEF Divides
  <2>5. \A i \in 1..l : [ordinal |-> 0 + i - 1, lo |-> Ranges(g)[i].lo, hi |-> Ranges(g)[i].hi] \in WholeOf(g)
    BY <2>4 DEF WholeOf
  <2>6. Whole(g) \in Seq(WholeOf(g))
    BY <2>3, <2>5, IsASeq
  <2>7. DOMAIN Whole(g) = 1..l
    BY <2>3
  <2>8. \A i \in 1..l : Whole(g)[i].ordinal = i - 1 /\ Whole(g)[i].lo = Ranges(g)[i].lo /\ Whole(g)[i].hi = Ranges(g)[i].hi
    BY <2>3, <2>4
  <2>9. Divides(Whole(g), g.n)
    BY <2>1, <2>7, <2>8 DEF Divides
  <2>10. AllPlanned(g) => HasRows(Whole(g), g.n)
    BY <2>1, <2>7, <2>8 DEF HasRows
  <2> QED
    BY <2>1, <2>2, <2>6, <2>7, <2>8, <2>9, <2>10
<1> QED
  BY <1>1, <1>2, <1>3

\* A page of l splits of a function, past the first m.
PageOf(plan, g, m, l) ==
    /\ DOMAIN plan.payloads = 1..l /\ m + l <= Len(Whole(g))
    /\ \A i \in 1..l : plan.payloads[i] = Whole(g)[m + i]
    /\ IF plan.more
       THEN g.name = "split_paginated" /\ l = PerPage
       ELSE m + l = Len(Whole(g))

\* Its plan hands them out, a page after the other, and says when they are all.
\* (plan: splits.ts:277-303)
LEMMA PlanIsWhole ==
  ASSUME NEW g \in Functions, NEW page \in Nat,
         g.name \notin {"plain", "split_endless_cursor"},
         NEW m \in Nat, m <= Len(Whole(g)),
         g.name = "split_paginated" => m = page * PerPage,
         g.name # "split_paginated" => m = 0
  PROVE  \E l \in Nat : PageOf(Plan(g, page), g, m, l)
<1>1. Whole(g) \in Seq(WholeOf(g)) /\ DOMAIN Ranges(g) = DOMAIN Whole(g) /\ Whole(g) = planOf(Ranges(g), 0)
  BY WholeDivides
<1>2. DOMAIN Whole(g) = 1..Len(Whole(g)) /\ Len(Whole(g)) \in Nat
  BY <1>1, LenProperties
<1>3. \A i \in DOMAIN Whole(g) :
         Whole(g)[i] = [ordinal |-> 0 + i - 1, lo |-> Ranges(g)[i].lo, hi |-> Ranges(g)[i].hi]
  BY <1>1 DEF planOf
<1>4. CASE g.name = "split_paginated"
  <2> DEFINE all == Ranges(g)
             size == Min({m + PerPage, Len(all)}) - m
             window == [i \in 1..size |-> all[m + i]]
  <2>1. PerPage \in Nat \ {0} /\ m = page * PerPage
    BY <1>4, PerPageAssumption
  <2>2. Len(all) = Len(Whole(g))
    <3>1. all = evenRanges(g.n, g.splits) /\ g.n \in Nat /\ g.splits \in Nat
      BY <1>4 DEF Ranges, Functions
    <3>2. CASE g.splits > 0
      <4>1. Len(all) = g.splits /\ DOMAIN all = 1..g.splits
        BY <3>1, <3>2 DEF evenRanges
      <4>2. 1..g.splits = 1..Len(Whole(g))
        BY <1>1, <1>2, <4>1
      <4> QED
        BY <1>2, <3>1, <4>1, <4>2
    <3>3. CASE g.splits = 0
      <4>1. all = <<>>
        BY <3>1, <3>3, EvenRangesAreListed
      <4>2. Len(all) = 0 /\ 1..Len(Whole(g)) = {}
        BY <1>1, <1>2, <4>1
      <4> QED
        BY <1>2, <4>2
    <3> QED
      BY <3>1, <3>2, <3>3
  <2>3. Plan(g, page) = [payloads |-> planOf(window, m), more |-> m + PerPage < Len(all)]
    BY <1>4, <2>1 DEF Plan
  <2> HIDE DEF all
  <2>4. Min({m + PerPage, Len(all)}) = IF m + PerPage < Len(all) THEN m + PerPage ELSE Len(all)
    <3>1. m + PerPage \in Int /\ Len(all) \in Int
      BY <1>2, <2>1, <2>2
    <3>2. /\ Min({m + PerPage, Len(all)}) \in {m + PerPage, Len(all)}
          /\ Min({m + PerPage, Len(all)}) <= m + PerPage /\ Min({m + PerPage, Len(all)}) <= Len(all)
      BY <3>1, MinPair
    <3> QED
      BY <3>1, <3>2
  <2>5. size = IF m + PerPage < Len(all) THEN PerPage ELSE Len(all) - m
    BY <1>2, <2>1, <2>2, <2>4
  <2>6. size \in Nat /\ m + size <= Len(Whole(g))
    <3> HIDE DEF size, all
    <3>1. CASE m + PerPage < Len(all)
      <4>1. size = PerPage
        BY <2>5, <3>1
      <4> QED
        BY <1>2, <2>1, <2>2, <3>1, <4>1
    <3>2. CASE ~(m + PerPage < Len(all))
      <4>1. size = Len(Whole(g)) - m
        BY <2>2, <2>5, <3>2
      <4> QED
        BY <1>2, <4>1
    <3> QED
      BY <3>1, <3>2
  <2>7. planOf(window, m) = [i \in 1..size |-> [ordinal |-> m + i - 1, lo |-> all[m + i].lo, hi |-> all[m + i].hi]]
    BY DEF planOf
  <2> HIDE DEF size, window
  <2>8. ASSUME NEW i \in 1..size
        PROVE  planOf(window, m)[i] = Whole(g)[m + i]
    <3>1. m + i \in 1..Len(Whole(g)) /\ 0 + (m + i) - 1 = m + i - 1
      BY <1>2, <2>6
    <3>2. Whole(g)[m + i] = [ordinal |-> 0 + (m + i) - 1, lo |-> Ranges(g)[m + i].lo, hi |-> Ranges(g)[m + i].hi]
      BY <1>2, <1>3, <3>1
    <3>3. planOf(window, m)[i] = [ordinal |-> m + i - 1, lo |-> all[m + i].lo, hi |-> all[m + i].hi]
      BY <2>7
    <3> QED
      BY <3>1, <3>2, <3>3 DEF all
  <2>9. DOMAIN planOf(window, m) = 1..size
    BY <2>7
  <2>10. IF m + PerPage < Len(all) THEN size = PerPage ELSE m + size = Len(Whole(g))
    <3>1. CASE m + PerPage < Len(all)
      BY <2>5, <3>1
    <3>2. CASE ~(m + PerPage < Len(all))
      <4>1. size = Len(Whole(g)) - m
        BY <2>2, <2>5, <3>2
      <4> QED
        BY <1>2, <3>2, <4>1
    <3> QED
      BY <3>1, <3>2
  <2>11. Plan(g, page).payloads = planOf(window, m) /\ Plan(g, page).more = (m + PerPage < Len(all))
    <3> DEFINE p == planOf(window, m)
               b == m + PerPage < Len(all)
    <3>1. Plan(g, page) = [payloads |-> p, more |-> b]
      BY <2>3
    <3> HIDE DEF p, b
    <3>2. Plan(g, page).payloads = p /\ Plan(g, page).more = b
      BY <3>1
    <3> QED
      BY <3>2 DEF p, b
  <2> HIDE DEF all
  <2>12. PageOf(Plan(g, page), g, m, size)
    <3>1. DOMAIN Plan(g, page).payloads = 1..size
      BY <2>9, <2>11
    <3>2. \A i \in 1..size : Plan(g, page).payloads[i] = Whole(g)[m + i]
      BY <2>8, <2>11
    <3>3. IF Plan(g, page).more THEN size = PerPage ELSE m + size = Len(Whole(g))
      BY <2>10, <2>11
    <3> QED
      BY <1>4, <2>6, <3>1, <3>2, <3>3, Zenon DEF PageOf
  <2> QED
    BY <2>6, <2>12
<1>5. CASE g.name # "split_paginated"
  <2>1. Plan(g, page) = [payloads |-> planOf(Ranges(g), 0), more |-> FALSE] /\ m = 0
    BY <1>5 DEF Plan
  <2>2. Plan(g, page).payloads = Whole(g) /\ ~Plan(g, page).more
    BY <1>1, <2>1
  <2>3. \A i \in 1..Len(Whole(g)) : m + i = i
    BY <1>2, <2>1
  <2>4. m + Len(Whole(g)) = Len(Whole(g))
    BY <1>2, <2>1
  <2>5. PageOf(Plan(g, page), g, m, Len(Whole(g)))
    <3>1. \A i \in 1..Len(Whole(g)) : Plan(g, page).payloads[i] = Whole(g)[m + i]
      BY <2>2, <2>3
    <3>2. m + Len(Whole(g)) <= Len(Whole(g))
      BY <1>2, <2>4
    <3> QED
      BY <1>2, <2>2, <2>4, <3>1, <3>2, Zenon DEF PageOf
  <2> QED
    BY <1>2, <2>5
<1> QED
  BY <1>4, <1>5

-----------------------------------------------------------------------------
(* What a stream has emitted                                               *)

\* The batches of a split have indices of their own: split_batch_index numbers
\* up to Stride of them, and the function has no more.
Numbered(g) == g.name = "split_batch_index" /\ g.n <= g.splits * (Stride * g.batch)

LEMMA WithinStride ==
  ASSUME NEW g \in Functions, Numbered(g), NEW d \in DOMAIN Whole(g)
  PROVE  Whole(g)[d].hi - Whole(g)[d].lo <= Stride * g.batch
<1> DEFINE n == g.n
           k == g.splits
           b == n \div k
           e == n % k
           m == Stride * g.batch
<1>1. n \in Nat /\ k \in Nat /\ m \in Nat /\ n <= k * m
  BY StrideAssumption DEF Functions, Numbered
<1>2. Whole(g) = planOf(Ranges(g), 0) /\ DOMAIN Ranges(g) = DOMAIN Whole(g) /\ Ranges(g) = evenRanges(n, k)
  BY WholeDivides DEF Numbered, Ranges
<1>3. k # 0 /\ d \in 1..k
  <2>1. k > 0
    BY <1>1, <1>2, EvenRangesAreListed
  <2> QED
    BY <1>1, <1>2, <2>1, EvenRangesAreListed
<1>4. evenRanges(n, k) = [i \in 1..k |-> Span(Start(n, k, i - 1), Start(n, k, i))]
  BY <1>1, <1>3, EvenRangesDivide
<1>5. Whole(g)[d].lo = Start(n, k, d - 1) /\ Whole(g)[d].hi = Start(n, k, d)
  BY <1>2, <1>3, <1>4 DEF planOf, Span
<1>6. b \in Nat /\ e \in Nat /\ e < k /\ n = k * b + e
  BY <1>1, <1>3, DivMod
<1>7. /\ Start(n, k, d - 1) = (d - 1) * b + (IF d - 1 <= e THEN d - 1 ELSE e)
      /\ Start(n, k, d) = d * b + (IF d <= e THEN d ELSE e)
  <2>1. d - 1 \in 0..k /\ d \in 0..k /\ k \in Nat \ {0}
    BY <1>1, <1>3
  <2> QED
    BY <1>1, <2>1, StartIs
<1>8. Whole(g)[d].hi - Whole(g)[d].lo <= IF e = 0 THEN b ELSE b + 1
  <2> HIDE DEF b, e, n, k
  <2>1. d * b = (d - 1) * b + b /\ (d - 1) * b \in Int /\ d * b \in Int
    BY <1>3, <1>6
  <2> QED
    BY <1>3, <1>5, <1>6, <1>7, <2>1
<1>9. (IF e = 0 THEN b ELSE b + 1) <= m
  <2> HIDE DEF b, e, n, k, m
  <2>1. k * b \in Int /\ k * m \in Int /\ k * b + e <= k * m
    BY <1>1, <1>6
  <2>2. ASSUME b > m
        PROVE  FALSE
    <3>1. k * (b - m) >= k /\ k * (b - m) = k * b - k * m
      BY <1>1, <1>3, <1>6, <2>2
    <3> QED
      BY <1>1, <1>3, <1>6, <2>1, <3>1
  <2>3. b = m => e = 0
    BY <1>1, <1>6, <2>1
  <2> QED
    BY <1>1, <1>6, <2>2, <2>3
<1> QED
  <2>1. Whole(g)[d].hi \in Int /\ Whole(g)[d].lo \in Int
    BY WholeDivides DEF Divides
  <2> HIDE DEF b, e
  <2> QED
    BY <1>1, <1>6, <1>8, <1>9, <2>1 DEF m

\* Where the range j of a stream's state is read from, and the batches of it
\* already emitted.
From(s, j) == IF j = s.idx THEN s.cur ELSE s.claimed[j].lo
Sofar(s, j) == IF j = s.idx THEN s.emitted ELSE 0

\* (emitNext: splits.ts:189)
LEMMA EmitNextIs ==
  ASSUME NEW g \in Functions, NEW s, s.claimed \in Seq(WholeOf(g)), s.idx \in 1..Len(s.claimed), s.cur \in Nat
  PROVE  LET step == emitNext(g, s)
         IN  /\ step.out = "finished" =>
                    \A j \in s.idx..Len(s.claimed) : s.claimed[j].hi <= From(s, j)
             /\ step.out = "batch" =>
                    \E j \in s.idx..Len(s.claimed) :
                        /\ \A i \in s.idx..(j - 1) : s.claimed[i].hi <= From(s, i)
                        /\ From(s, j) < s.claimed[j].hi
                        /\ step.lo = From(s, j)
                        /\ step.hi = IF s.claimed[j].hi <= From(s, j) + g.batch
                                     THEN s.claimed[j].hi ELSE From(s, j) + g.batch
                        /\ step.index = IF g.name = "split_batch_index"
                                        THEN s.claimed[j].ordinal * Stride + Sofar(s, j) ELSE NoIndex
                        /\ step.state = [s EXCEPT !.idx = j, !.cur = step.hi, !.emitted = Sofar(s, j) + 1]
<1> DEFINE step == emitNext(g, s)
           l == Len(s.claimed)
           R == Remaining(s)
<1>1. R = {j \in s.idx..l : From(s, j) < s.claimed[j].hi}
  BY DEF Remaining, From
<1>2. l \in Nat /\ DOMAIN s.claimed = 1..l
  BY LenProperties
<1>3. \A j \in 1..l : s.claimed[j] \in WholeOf(g)
  BY <1>2, ElementOfSeq
<1>4. \A j \in 1..l : s.claimed[j].hi \in Nat /\ s.claimed[j].lo \in Nat /\ From(s, j) \in Nat
  <2>1. \A j \in 1..l : s.claimed[j].hi \in 0..g.n /\ s.claimed[j].lo \in 0..g.n
    BY <1>3 DEF WholeOf
  <2>2. g.n \in Nat
    BY DEF Functions
  <2> QED
    BY <2>1, <2>2 DEF From
<1>5. s.idx..l \subseteq 1..l
  BY <1>2
<1>6. CASE R = {}
  <2>1. step.out = "finished"
    BY <1>6 DEF emitNext
  <2>2. \A j \in s.idx..l : s.claimed[j].hi <= From(s, j)
    BY <1>1, <1>4, <1>5, <1>6
  <2> QED
    BY <2>1, <2>2
<1>7. CASE R # {}
  <2> DEFINE j == Min(R)
  <2>1. \E i \in R : \A k \in R : i <= k
    <3>1. R \in SUBSET (1..l)
      BY <1>1, <1>5
    <3> HIDE DEF R, l
    <3> QED
      BY <1>2, <1>7, <3>1, Least
  <2>2. j \in R /\ \A k \in R : j <= k
    BY <2>1 DEF Min
  <2> HIDE DEF j
  <2>3. j \in s.idx..l /\ From(s, j) < s.claimed[j].hi
    BY <1>1, <2>2
  <2>4. \A i \in s.idx..(j - 1) : s.claimed[i].hi <= From(s, i)
    <3>1. ASSUME NEW i \in s.idx..(j - 1)
          PROVE  s.claimed[i].hi <= From(s, i)
      <4>1. i \in s.idx..l /\ i \in 1..l /\ i < j
        BY <1>2, <2>3
      <4>2. i \notin R
        BY <2>2, <2>3, <4>1
      <4> QED
        BY <1>1, <1>4, <4>1, <4>2
    <3> QED
      BY <3>1
  <2>5. j \in 1..l /\ g.batch \in Nat \ {0}
    BY <1>5, <2>3 DEF Functions
  <2>6. Min({s.claimed[j].hi, From(s, j) + g.batch}) =
           IF s.claimed[j].hi <= From(s, j) + g.batch THEN s.claimed[j].hi ELSE From(s, j) + g.batch
    <3>1. s.claimed[j].hi \in Int /\ From(s, j) + g.batch \in Int
      BY <1>4, <2>5
    <3>2. LET i == s.claimed[j].hi
              k == From(s, j) + g.batch
          IN  Min({i, k}) \in {i, k} /\ Min({i, k}) <= i /\ Min({i, k}) <= k
      BY <3>1, MinPair
    <3> QED
      BY <3>1, <3>2
  <2> DEFINE to == Min({s.claimed[j].hi, From(s, j) + g.batch})
             index == IF g.name = "split_batch_index"
                      THEN s.claimed[j].ordinal * Stride + Sofar(s, j) ELSE NoIndex
             state == [s EXCEPT !.idx = j, !.cur = to, !.emitted = Sofar(s, j) + 1]
  <2>7. step.out = "failed" \/ step = [out |-> "batch", lo |-> From(s, j), hi |-> to,
                                       index |-> index, state |-> state]
    BY <1>7 DEF emitNext, From, Sofar, BatchIndex, j
  <2>8. step.out # "finished"
    BY <2>7
  <2>9. ASSUME step.out = "batch"
        PROVE  /\ step.lo = From(s, j) /\ step.hi = to /\ step.index = index
               /\ step.state = [s EXCEPT !.idx = j, !.cur = step.hi, !.emitted = Sofar(s, j) + 1]
    <3> HIDE DEF to, index, state
    <3>1. step.lo = From(s, j) /\ step.hi = to /\ step.index = index /\ step.state = state
      BY <2>7, <2>9
    <3> QED
      BY <3>1 DEF state
  <2> QED
    BY <2>3, <2>4, <2>6, <2>8, <2>9
<1> QED
  BY <1>6, <1>7

\* A batch of a function, with the columns asked for.
Batch(g, c) ==
    [lo : Nat, hi : 0..g.n, index : Int, columns : {c}, reader : Readers \cup Workers]

Cover(bs, lo, hi) == \A row \in lo..(hi - 1) : \E i \in DOMAIN bs : bs[i].lo <= row /\ row < bs[i].hi

\* b has rows of split d, and an index of that split's.
Of(g, b, d) ==
    /\ Whole(g)[d].lo <= b.lo /\ b.lo < b.hi /\ b.hi <= Whole(g)[d].hi
    /\ Numbered(g) => (d - 1) * Stride <= b.index /\ b.index < d * Stride

\* A stream is at some row of one of the splits it claimed.
StreamTyped(g, c, s) ==
    /\ s.request.bind = g /\ s.request.columns = c
    /\ s.claim # <<>>
    /\ \A i \in DOMAIN s.claim : s.claim[i] \in DOMAIN Whole(g)
    /\ \A i, j \in DOMAIN s.claim : i < j => s.claim[i] < s.claim[j]
    /\ s.state \in [claimed : {[i \in DOMAIN s.claim |-> Whole(g)[s.claim[i]]]},
                    idx : DOMAIN s.claim, cur : Nat, emitted : Nat]
    /\ Whole(g)[s.claim[s.state.idx]].lo <= s.state.cur
    /\ s.state.cur <= Whole(g)[s.claim[s.state.idx]].hi
    /\ s.got \in Seq(Batch(g, c))

\* What it has emitted: the splits it has passed, and the one it is in as far
\* as it is, in their order.
Emitted(g, r, s) ==
    /\ \A i \in DOMAIN s.got :
          /\ \E j \in 1..s.state.idx : Of(g, s.got[i], s.claim[j])
          /\ s.got[i].hi <= s.state.cur
          /\ s.got[i].reader = r
    /\ \A i, j \in DOMAIN s.got : i < j => s.got[i].hi <= s.got[j].lo
    /\ \A j \in 1..(s.state.idx - 1) : Cover(s.got, Whole(g)[s.claim[j]].lo, Whole(g)[s.claim[j]].hi)
    /\ Cover(s.got, Whole(g)[s.claim[s.state.idx]].lo, s.state.cur)

\* And their indices.
InOrder(g, s) ==
    LET at == s.claim[s.state.idx]
    IN  /\ s.state.cur < Whole(g)[at].hi => s.state.cur = Whole(g)[at].lo + s.state.emitted * g.batch
        /\ \A i, j \in DOMAIN s.got : i < j => s.got[i].index < s.got[j].index
        /\ \A i \in DOMAIN s.got : s.got[i].index < (at - 1) * Stride + s.state.emitted

StreamOK(g, c, r, s) == StreamTyped(g, c, s) /\ Emitted(g, r, s) /\ (Numbered(g) => InOrder(g, s))

\* The facts of a split that the proofs use.
LEMMA SplitIs ==
  ASSUME NEW g \in Functions
  PROVE  /\ DOMAIN Whole(g) = 1..Len(Whole(g)) /\ Len(Whole(g)) \in Nat /\ g.n \in Nat
         /\ \A d \in DOMAIN Whole(g) :
               /\ d \in Nat \ {0} /\ Whole(g)[d].ordinal = d - 1
               /\ Whole(g)[d].lo \in Nat /\ Whole(g)[d].hi \in 0..g.n /\ Whole(g)[d].hi \in Nat
               /\ Whole(g)[d].lo <= Whole(g)[d].hi
         /\ \A d, e \in DOMAIN Whole(g) : d < e => Whole(g)[d].hi <= Whole(g)[e].lo
<1>1. Whole(g) \in Seq(WholeOf(g)) /\ Divides(Whole(g), g.n) /\ g.n \in Nat
      /\ \A i \in DOMAIN Whole(g) : Whole(g)[i].ordinal = i - 1
  BY WholeDivides DEF Functions
<1>2. DOMAIN Whole(g) = 1..Len(Whole(g)) /\ Len(Whole(g)) \in Nat
  BY <1>1, LenProperties
<1>3. \A d \in DOMAIN Whole(g) : Whole(g)[d].lo \in 0..g.n /\ Whole(g)[d].hi \in 0..g.n
                                /\ Whole(g)[d].lo <= Whole(g)[d].hi
  BY <1>1 DEF Divides
<1>4. \A d, e \in DOMAIN Whole(g) : d < e => Whole(g)[d].hi <= Whole(g)[e].lo
  BY <1>1 DEF Divides
<1> QED
  BY <1>1, <1>2, <1>3, <1>4

\* An attempt that has just been opened. (seedState: splits.ts:160)
LEMMA SeedStands ==
  ASSUME NEW g \in Functions, NEW c, NEW r \in Readers, NEW s, NEW m \in Nat \ {0},
         DOMAIN s.claim = 1..m, s.request.bind = g, s.request.columns = c, s.got = <<>>,
         s.claim # <<>>,
         \A i \in DOMAIN s.claim : s.claim[i] \in DOMAIN Whole(g),
         \A i, j \in DOMAIN s.claim : i < j => s.claim[i] < s.claim[j],
         s.state = [claimed |-> [i \in DOMAIN s.claim |-> Whole(g)[s.claim[i]]], idx |-> 1,
                    cur |-> Whole(g)[s.claim[1]].lo, emitted |-> 0]
  PROVE  StreamOK(g, c, r, s)
<1>1. 1 \in DOMAIN s.claim /\ s.claim[1] \in DOMAIN Whole(g)
  OBVIOUS
<1>2. /\ Whole(g)[s.claim[1]].lo \in Nat /\ Whole(g)[s.claim[1]].hi \in Nat
      /\ Whole(g)[s.claim[1]].lo <= Whole(g)[s.claim[1]].hi
      /\ s.claim[1] \in Nat \ {0}
  BY <1>1, SplitIs
<1>3. s.state.idx = 1 /\ s.state.cur = Whole(g)[s.claim[1]].lo /\ s.state.emitted = 0
      /\ DOMAIN s.got = {}
  OBVIOUS
<1>4. StreamTyped(g, c, s)
  <2>1. <<>> \in Seq(Batch(g, c))
    OBVIOUS
  <2> QED
    BY <1>1, <1>2, <1>3, <2>1 DEF StreamTyped
<1>5. Emitted(g, r, s)
  BY <1>2, <1>3 DEF Emitted, Cover
<1>6. InOrder(g, s)
  <2>1. 0 * g.batch = 0
    BY DEF Functions
  <2> QED
    BY <1>2, <1>3, <2>1 DEF InOrder
<1> QED
  BY <1>4, <1>5, <1>6 DEF StreamOK

LEMMA ClaimedIs ==
  ASSUME NEW g \in Functions, NEW c, NEW s, NEW m \in Nat, DOMAIN s.claim = 1..m, StreamTyped(g, c, s)
  PROVE  /\ s.state.claimed \in Seq(WholeOf(g)) /\ Len(s.state.claimed) = m
         /\ \A i \in 1..m : s.state.claimed[i] = Whole(g)[s.claim[i]] /\ s.claim[i] \in DOMAIN Whole(g)
         /\ s.state.idx \in 1..m /\ s.state.cur \in Nat /\ s.state.emitted \in Nat
<1>1. s.state.claimed = [i \in 1..m |-> Whole(g)[s.claim[i]]]
      /\ s.state.idx \in 1..m /\ s.state.cur \in Nat /\ s.state.emitted \in Nat
  BY DEF StreamTyped
<1>2. \A i \in 1..m : s.claim[i] \in DOMAIN Whole(g)
  BY DEF StreamTyped
<1>3. \A d \in DOMAIN Whole(g) : Whole(g)[d] \in WholeOf(g)
  BY WholeDivides, SplitIs, ElementOfSeq
<1>4. \A i \in 1..m : Whole(g)[s.claim[i]] \in WholeOf(g)
  BY <1>2, <1>3
<1>5. s.state.claimed \in Seq(WholeOf(g)) /\ Len(s.state.claimed) = m
  BY <1>1, <1>4, IsASeq
<1> QED
  BY <1>1, <1>2, <1>5

LEMMA TimesAscends ==
  ASSUME NEW u \in Nat, NEW v \in Nat, NEW k \in Nat, u <= v
  PROVE  u * k \in Nat /\ v * k \in Nat /\ u * k <= v * k
<1>1. (v - u) * k >= 0 /\ (v - u) * k = v * k - u * k
  OBVIOUS
<1> QED
  BY <1>1

\* A stream that has no rows left has emitted all of its splits.
LEMMA FinishedCovers ==
  ASSUME NEW g \in Functions, NEW c, NEW r \in Readers, NEW s, NEW m \in Nat, DOMAIN s.claim = 1..m,
         StreamOK(g, c, r, s), emitNext(g, s.state).out = "finished", NEW j \in 1..m
  PROVE  Cover(s.got, Whole(g)[s.claim[j]].lo, Whole(g)[s.claim[j]].hi)
<1> DEFINE x == s.state.idx
<1>1. /\ StreamTyped(g, c, s) /\ Emitted(g, r, s)
  BY DEF StreamOK
<1>2. /\ s.state.claimed \in Seq(WholeOf(g)) /\ Len(s.state.claimed) = m
      /\ \A i \in 1..m : s.state.claimed[i] = Whole(g)[s.claim[i]] /\ s.claim[i] \in DOMAIN Whole(g)
      /\ x \in 1..m /\ s.state.cur \in Nat
  BY <1>1, ClaimedIs
<1>3. \A i \in x..m : s.state.claimed[i].hi <= From(s.state, i)
  BY <1>2, EmitNextIs
<1>4. CASE j < x
  <2>1. j \in 1..(x - 1)
    BY <1>2, <1>4
  <2> QED
    BY <1>1, <2>1 DEF Emitted
<1>5. CASE j = x
  <2>1. Whole(g)[s.claim[x]].hi <= s.state.cur
    BY <1>2, <1>3 DEF From
  <2>2. s.state.cur <= Whole(g)[s.claim[x]].hi /\ Whole(g)[s.claim[x]].hi \in Nat
    BY <1>1, <1>2, SplitIs DEF StreamTyped
  <2>3. s.state.cur = Whole(g)[s.claim[x]].hi
    BY <1>2, <2>1, <2>2
  <2> QED
    BY <1>1, <1>5, <2>3 DEF Emitted
<1>6. CASE j > x
  <2>1. j \in x..m
    BY <1>2, <1>6
  <2>2. Whole(g)[s.claim[j]].hi <= Whole(g)[s.claim[j]].lo
    BY <1>2, <1>3, <1>6, <2>1 DEF From
  <2>3. Whole(g)[s.claim[j]].hi \in Nat /\ Whole(g)[s.claim[j]].lo \in Nat
    BY <1>2, SplitIs
  <2> QED
    BY <2>2, <2>3 DEF Cover
<1> QED
  BY <1>2, <1>4, <1>5, <1>6

LEMMA CoverMore ==
  ASSUME NEW T, NEW bs \in Seq(T), NEW b \in T, NEW lo, NEW hi, Cover(bs, lo, hi)
  PROVE  Cover(Append(bs, b), lo, hi)
<1>1. DOMAIN bs = 1..Len(bs) /\ Len(bs) \in Nat
  BY LenProperties
<1>2. DOMAIN Append(bs, b) = 1..(Len(bs) + 1) /\ \A i \in 1..Len(bs) : Append(bs, b)[i] = bs[i]
  BY AppendProperties, LenProperties
<1>3. ASSUME NEW row \in lo..(hi - 1)
      PROVE  \E i \in DOMAIN Append(bs, b) : Append(bs, b)[i].lo <= row /\ row < Append(bs, b)[i].hi
  <2>1. PICK i \in DOMAIN bs : bs[i].lo <= row /\ row < bs[i].hi
    BY DEF Cover
  <2>2. i \in 1..Len(bs) /\ i \in 1..(Len(bs) + 1)
    BY <1>1, <2>1
  <2> QED
    BY <1>2, <2>1, <2>2
<1> QED
  BY <1>3 DEF Cover

\* The stream with one batch more.
Further(s, step, c, r) ==
    [s EXCEPT !.state = step.state, !.old = FALSE,
              !.got = Append(@, [lo |-> step.lo, hi |-> step.hi, index |-> step.index,
                                 columns |-> c, reader |-> r])]

\* The batch a turn emits goes on where the last one ended. (emitNext: splits.ts:189)
LEMMA EmitKeeps ==
  ASSUME NEW g \in Functions, NEW c, NEW r \in Readers, NEW s, IsStream(s),
         StreamOK(g, c, r, s), emitNext(g, s.state).out = "batch"
  PROVE  StreamOK(g, c, r, Further(s, emitNext(g, s.state), c, r))
<1> DEFINE step == emitNext(g, s.state)
           b == [lo |-> step.lo, hi |-> step.hi, index |-> step.index, columns |-> c, reader |-> r]
           t == Further(s, step, c, r)
           x == s.state.idx
           m == Len(s.claim)
<1>1. StreamTyped(g, c, s) /\ Emitted(g, r, s) /\ (Numbered(g) => InOrder(g, s))
  BY DEF StreamOK
<1>2. m \in Nat /\ DOMAIN s.claim = 1..m
  BY LenProperties DEF IsStream
<1>3. /\ s.state.claimed \in Seq(WholeOf(g)) /\ Len(s.state.claimed) = m
      /\ \A i \in 1..m : s.state.claimed[i] = Whole(g)[s.claim[i]] /\ s.claim[i] \in DOMAIN Whole(g)
      /\ x \in 1..m /\ s.state.cur \in Nat /\ s.state.emitted \in Nat
  <2> HIDE DEF m
  <2> QED
    BY <1>1, <1>2, ClaimedIs
<1> DEFINE lo(i) == Whole(g)[s.claim[i]].lo
           hi(i) == Whole(g)[s.claim[i]].hi
<1>4. \A i \in 1..m : s.claim[i] \in Nat \ {0} /\ lo(i) \in Nat /\ hi(i) \in Nat /\ lo(i) <= hi(i) /\ hi(i) <= g.n
                      /\ Whole(g)[s.claim[i]].ordinal = s.claim[i] - 1
  <2>1. g.n \in Nat
    BY SplitIs
  <2>2. ASSUME NEW i \in 1..m
        PROVE  /\ s.claim[i] \in Nat \ {0} /\ lo(i) \in Nat /\ hi(i) \in 0..g.n /\ lo(i) <= hi(i)
               /\ Whole(g)[s.claim[i]].ordinal = s.claim[i] - 1
    <3>1. s.claim[i] \in DOMAIN Whole(g)
      BY <1>3
    <3> QED
      BY <3>1, SplitIs
  <2> QED
    BY <2>1, <2>2
<1>5. \A i, k \in 1..m : i < k => s.claim[i] < s.claim[k] /\ hi(i) <= lo(k)
  <2>1. \A i, k \in 1..m : i < k => s.claim[i] < s.claim[k]
    BY <1>1, <1>2 DEF StreamTyped
  <2>2. ASSUME NEW i \in 1..m, NEW k \in 1..m, i < k
        PROVE  hi(i) <= lo(k)
    <3>1. s.claim[i] \in DOMAIN Whole(g) /\ s.claim[k] \in DOMAIN Whole(g) /\ s.claim[i] < s.claim[k]
      BY <1>3, <2>1, <2>2
    <3> QED
      BY <3>1, SplitIs
  <2> QED
    BY <2>1, <2>2
<1>6. PICK j \in x..Len(s.state.claimed) :
         /\ \A i \in x..(j - 1) : s.state.claimed[i].hi <= From(s.state, i)
         /\ From(s.state, j) < s.state.claimed[j].hi
         /\ step.lo = From(s.state, j)
         /\ step.hi = IF s.state.claimed[j].hi <= From(s.state, j) + g.batch
                      THEN s.state.claimed[j].hi ELSE From(s.state, j) + g.batch
         /\ step.index = IF g.name = "split_batch_index"
                         THEN s.state.claimed[j].ordinal * Stride + Sofar(s.state, j) ELSE NoIndex
         /\ step.state = [s.state EXCEPT !.idx = j, !.cur = step.hi, !.emitted = Sofar(s.state, j) + 1]
  <2>1. x \in 1..Len(s.state.claimed) /\ Len(s.state.claimed) = m
    BY <1>3
  <2>2. step.out = "batch"
    OBVIOUS
  <2> HIDE DEF m
  <2>3. s.state.claimed \in Seq(WholeOf(g)) /\ s.state.cur \in Nat
    BY <1>3
  <2> QED
    BY <2>1, <2>2, <2>3, EmitNextIs
<1>7. j \in 1..m /\ x <= j /\ g.batch \in Nat \ {0} /\ Stride \in Nat \ {0}
  BY <1>3, StrideAssumption DEF Functions
<1> DEFINE from == From(s.state, j)
           sofar == Sofar(s.state, j)
<1>8. from = (IF j = x THEN s.state.cur ELSE lo(j)) /\ sofar = (IF j = x THEN s.state.emitted ELSE 0)
      /\ from \in Nat /\ sofar \in Nat
  <2>1. lo(j) \in Nat /\ s.state.claimed[j].lo = lo(j)
    BY <1>3, <1>4, <1>7
  <2> HIDE DEF lo
  <2> QED
    BY <1>3, <2>1 DEF From, Sofar
<1>9. lo(x) <= s.state.cur /\ s.state.cur <= hi(x)
  BY <1>1 DEF StreamTyped
<1>10. /\ step.lo = from /\ from < step.hi /\ step.hi <= hi(j) /\ step.hi \in Nat
       /\ step.hi < hi(j) => step.hi = from + g.batch
       /\ lo(j) <= from
  <2> HIDE DEF step, from
  <2>1. hi(j) \in Nat /\ s.state.claimed[j].hi = hi(j) /\ lo(j) \in Nat
    BY <1>3, <1>4, <1>7
  <2>2. lo(j) <= from
    BY <1>8, <1>9, <2>1
  <2>3. from < hi(j) /\ step.lo = from /\ step.hi = IF hi(j) <= from + g.batch THEN hi(j) ELSE from + g.batch
    BY <1>6, <2>1 DEF step, from
  <2> HIDE DEF lo, hi
  <2> QED
    BY <1>7, <1>8, <2>1, <2>2, <2>3
<1>11. s.state.cur <= from
  <2>1. CASE j = x
    BY <1>3, <1>8, <2>1
  <2>2. CASE j # x
    <3>1. x < j
      BY <1>3, <1>7, <2>2
    <3>2. hi(x) <= lo(j) /\ hi(x) \in Nat /\ lo(j) \in Nat
      BY <1>3, <1>4, <1>5, <1>7, <3>1
    <3> QED
      BY <1>3, <1>8, <1>9, <2>2, <3>2
  <2> QED
    BY <2>1, <2>2
<1>12. step.index \in Int
  <2>1. s.claim[j] \in Nat /\ Whole(g)[s.claim[j]].ordinal = s.claim[j] - 1
    BY <1>4, <1>7
  <2>2. (s.claim[j] - 1) * Stride + sofar \in Int
    BY <1>7, <1>8, <2>1
  <2>3. step.index = NoIndex \/ step.index = (s.claim[j] - 1) * Stride + sofar
    BY <1>3, <1>6, <1>7, <2>1
  <2> HIDE DEF sofar, step
  <2> QED
    BY <2>2, <2>3 DEF NoIndex
<1>13. b \in Batch(g, c) /\ b.lo = from /\ b.hi = step.hi /\ b.index = step.index /\ b.reader = r
  <2> HIDE DEF step, from
  <2>1. hi(j) <= g.n /\ g.n \in Nat /\ hi(j) \in Nat
    BY <1>4, <1>7, SplitIs
  <2>2. step.hi \in 0..g.n
    <3> HIDE DEF hi
    <3> QED
      BY <1>10, <2>1
  <2> QED
    BY <1>8, <1>10, <1>12, <2>2 DEF Batch
<1>14. t.claim = s.claim /\ t.request = s.request /\ t.state = step.state /\ t.got = Append(s.got, b)
  BY DEF IsStream, Further
<1>15. /\ step.state \in [claimed : {[i \in DOMAIN s.claim |-> Whole(g)[s.claim[i]]]},
                          idx : DOMAIN s.claim, cur : Nat, emitted : Nat]
       /\ step.state.idx = j /\ step.state.cur = step.hi /\ step.state.emitted = sofar + 1
  <2>1. s.state \in [claimed : {[i \in DOMAIN s.claim |-> Whole(g)[s.claim[i]]]},
                     idx : DOMAIN s.claim, cur : Nat, emitted : Nat]
    BY <1>1, Zenon DEF StreamTyped
  <2>2. step.state = [s.state EXCEPT !.idx = j, !.cur = step.hi, !.emitted = sofar + 1]
    BY <1>6
  <2>3. j \in DOMAIN s.claim /\ step.hi \in Nat /\ sofar + 1 \in Nat
    BY <1>2, <1>7, <1>8, <1>10
  <2> HIDE DEF step, sofar
  <2> QED
    BY <2>1, <2>2, <2>3
<1>16. s.got \in Seq(Batch(g, c)) /\ Append(s.got, b) \in Seq(Batch(g, c))
  <2>1. s.got \in Seq(Batch(g, c))
    BY <1>1 DEF StreamTyped
  <2> HIDE DEF b
  <2> QED
    BY <1>13, <2>1, AppendProperties
<1> DEFINE l == Len(s.got)
<1>17. /\ l \in Nat /\ DOMAIN s.got = 1..l /\ DOMAIN t.got = 1..(l + 1) /\ t.got[l + 1] = b
       /\ \A i \in 1..l : t.got[i] = s.got[i]
  <2> HIDE DEF b, t
  <2> QED
    BY <1>14, <1>16, <1>13, AppendProperties, LenProperties
<1>18. \A i \in 1..l : s.got[i].lo \in Nat /\ s.got[i].hi \in Nat /\ s.got[i].index \in Int
  <2>1. \A i \in 1..l : s.got[i] \in Batch(g, c)
    BY <1>16, ElementOfSeq
  <2>2. \A i \in 1..l : s.got[i].hi \in 0..g.n
    BY <2>1 DEF Batch
  <2> QED
    BY <2>1, <2>2, SplitIs DEF Batch
<1> HIDE DEF step, b, t, from, sofar, l, m, x, lo, hi
<1>19. StreamTyped(g, c, t)
  <2>1. lo(j) <= step.hi
    <3>1. lo(j) \in Nat
      BY <1>4, <1>7
    <3> QED
      BY <1>8, <1>10, <3>1
  <2>2. t.state.idx = j /\ t.state.cur = step.hi
    BY <1>14, <1>15
  <2>3. lo(t.state.idx) <= t.state.cur /\ t.state.cur <= hi(t.state.idx)
    BY <1>10, <2>1, <2>2
  <2>4. t.state \in [claimed : {[i \in DOMAIN t.claim |-> Whole(g)[t.claim[i]]]},
                     idx : DOMAIN t.claim, cur : Nat, emitted : Nat]
    BY <1>14, <1>15
  <2>5. t.got \in Seq(Batch(g, c))
    BY <1>14, <1>16
  <2> QED
    BY <1>1, <1>14, <2>3, <2>4, <2>5, Zenon DEF StreamTyped, lo, hi
<1>20. \A i \in 1..(l + 1) : i # l + 1 => i \in 1..l
  BY <1>17
\* What was emitted is before the batch.
<1>21. \A i \in 1..l : s.got[i].hi <= s.state.cur /\ s.got[i].reader = r
                       /\ \E k \in 1..x : Of(g, s.got[i], s.claim[k])
  BY <1>1, <1>17 DEF Emitted, x
<1>22. Numbered(g) => step.index = (s.claim[j] - 1) * Stride + sofar
  BY <1>3, <1>4, <1>6, <1>7 DEF Numbered, sofar, step
<1>23. Numbered(g) /\ from < hi(j) => from = lo(j) + sofar * g.batch
  <2>1. CASE j = x
    BY <1>1, <1>8, <2>1 DEF InOrder, x, lo, hi
  <2>2. CASE j # x
    <3>1. lo(j) \in Nat /\ 0 * g.batch = 0
      BY <1>4, <1>7
    <3> QED
      BY <1>8, <2>2, <3>1
  <2> QED
    BY <2>1, <2>2
<1>24. Numbered(g) => sofar < Stride
  <2>1. SUFFICES ASSUME Numbered(g), Stride <= sofar
                 PROVE  FALSE
    BY <1>7, <1>8
  <2>2. hi(j) - lo(j) <= Stride * g.batch /\ lo(j) \in Nat /\ hi(j) \in Nat
    <3>1. s.claim[j] \in DOMAIN Whole(g)
      BY <1>3, <1>7
    <3> QED
      BY <1>4, <1>7, <2>1, <3>1, WithinStride DEF lo, hi
  <2>3. from < hi(j)
    BY <1>8, <1>10, <2>2
  <2>4. from = lo(j) + sofar * g.batch
    BY <1>23, <2>1, <2>3
  <2>5. sofar * g.batch \in Nat /\ Stride * g.batch \in Nat /\ Stride * g.batch <= sofar * g.batch
    BY <1>7, <1>8, <2>1, TimesAscends
  <2> QED
    BY <1>8, <2>2, <2>3, <2>4, <2>5
<1>25. Of(g, b, s.claim[j])
  <2>1. Numbered(g) => (s.claim[j] - 1) * Stride <= b.index /\ b.index < s.claim[j] * Stride
    <3>1. (s.claim[j] - 1) * Stride \in Int /\ s.claim[j] * Stride = (s.claim[j] - 1) * Stride + Stride
      BY <1>4, <1>7
    <3> QED
      BY <1>7, <1>8, <1>13, <1>22, <1>24, <3>1
  <2> QED
    BY <1>10, <1>13, <2>1 DEF Of, lo, hi
<1>26. Emitted(g, r, t)
  <2>1. ASSUME NEW i \in 1..(l + 1)
        PROVE  /\ \E k \in 1..j : Of(g, t.got[i], s.claim[k])
               /\ t.got[i].hi <= step.hi /\ t.got[i].reader = r
    <3>1. CASE i = l + 1
      BY <1>7, <1>10, <1>13, <1>17, <1>25, <3>1
    <3>2. CASE i # l + 1
      <4>1. i \in 1..l
        BY <1>20, <3>2
      <4>2. t.got[i] = s.got[i] /\ s.got[i].hi \in Nat
        BY <1>17, <1>18, <4>1
      <4>3. PICK k \in 1..x : Of(g, s.got[i], s.claim[k])
        BY <1>21, <4>1
      <4>4. k \in 1..j
        BY <1>3, <1>7
      <4> QED
        BY <1>3, <1>8, <1>10, <1>11, <1>21, <4>1, <4>2, <4>3, <4>4
    <3> QED
      BY <3>1, <3>2
  <2>2. ASSUME NEW i \in 1..(l + 1), NEW k \in 1..(l + 1), i < k
        PROVE  t.got[i].hi <= t.got[k].lo
    <3>1. i \in 1..l /\ t.got[i] = s.got[i]
      BY <1>17, <2>2
    <3>2. CASE k = l + 1
      <4>1. t.got[k].lo = from
        BY <1>13, <1>17, <3>2
      <4>2. s.got[i].hi \in Nat /\ s.got[i].hi <= s.state.cur
        BY <1>18, <1>21, <3>1
      <4> QED
        BY <1>3, <1>8, <1>11, <3>1, <4>1, <4>2
    <3>3. CASE k # l + 1
      BY <1>1, <1>17, <1>20, <2>2, <3>1, <3>3 DEF Emitted
    <3> QED
      BY <3>2, <3>3
  <2>3. ASSUME NEW k \in 1..(j - 1)
        PROVE  Cover(s.got, lo(k), hi(k))
    <3>0. k \in 1..m /\ lo(k) \in Nat /\ hi(k) \in Nat /\ lo(k) <= hi(k)
      <4>1. k \in 1..m
        BY <1>2, <1>7
      <4> QED
        BY <1>4, <4>1
    <3>1. CASE k < x
      BY <1>1, <1>3, <3>1 DEF Emitted, x, lo, hi
    <3>2. CASE k >= x
      <4>1. k \in x..(j - 1)
        BY <1>3, <3>2
      <4>2. hi(k) <= From(s.state, k)
        BY <1>3, <1>6, <3>0, <4>1 DEF hi
      <4>3. CASE k = x
        <5>1. s.state.cur = hi(k)
          BY <1>3, <1>9, <3>0, <4>2, <4>3 DEF From, x
        <5> QED
          BY <1>1, <4>3, <5>1 DEF Emitted, x, lo, hi
      <4>4. CASE k # x
        <5>1. hi(k) <= lo(k)
          BY <1>3, <3>0, <4>2, <4>4 DEF From, x, lo
        <5> QED
          BY <3>0, <5>1 DEF Cover
      <4> QED
        BY <4>3, <4>4
    <3> QED
      BY <1>3, <3>1, <3>2
  <2>4. ASSUME NEW row \in lo(j)..(step.hi - 1)
        PROVE  \E i \in DOMAIN t.got : t.got[i].lo <= row /\ row < t.got[i].hi
    <3>1. CASE from <= row
      <4>1. l + 1 \in DOMAIN t.got
        BY <1>17
      <4>2. t.got[l + 1].lo = from /\ t.got[l + 1].hi = step.hi
        BY <1>13, <1>17
      <4>3. row < step.hi
        <5>1. lo(j) \in Nat /\ step.hi \in Nat
          BY <1>4, <1>7, <1>10
        <5> HIDE DEF step, lo
        <5> QED
          BY <5>1
      <4> HIDE DEF from, step, t
      <4> QED
        BY <3>1, <4>1, <4>2, <4>3
    <3>2. CASE ~(from <= row)
      <4>1. j = x /\ row < s.state.cur
        <5>1. lo(j) \in Nat
          BY <1>4, <1>7
        <5> QED
          BY <1>3, <1>8, <1>10, <3>2, <5>1
      <4>2. row \in lo(x)..(s.state.cur - 1)
        <5>1. lo(j) \in Nat
          BY <1>4, <1>7
        <5> QED
          BY <1>3, <1>10, <4>1, <5>1
      <4>3. PICK i \in 1..l : s.got[i].lo <= row /\ row < s.got[i].hi
        BY <1>1, <1>17, <4>2 DEF Emitted, Cover, x, lo
      <4>4. i \in DOMAIN t.got /\ t.got[i] = s.got[i]
        BY <1>17
      <4> QED
        BY <4>3, <4>4
    <3> QED
      BY <3>1, <3>2
  <2>5. \A k \in 1..(j - 1) : Cover(t.got, lo(k), hi(k))
    BY <1>13, <1>14, <1>16, <2>3, CoverMore
  <2>6. Cover(t.got, lo(j), step.hi)
    BY <2>4 DEF Cover
  <2>7. t.state.idx = j /\ t.state.cur = step.hi /\ t.claim = s.claim
    BY <1>14, <1>15
  <2> QED
    BY <1>17, <2>1, <2>2, <2>5, <2>6, <2>7 DEF Emitted, lo, hi
<1>27. ASSUME Numbered(g)
       PROVE  InOrder(g, t)
  <2>1. \A i \in 1..l : s.got[i].index < step.index
    <3>1. ASSUME NEW i \in 1..l
          PROVE  s.got[i].index < step.index
      <4>1. CASE j = x
        BY <1>1, <1>8, <1>17, <1>22, <1>27, <4>1 DEF InOrder, x
      <4>2. CASE j # x
        <5>1. PICK k \in 1..x : Of(g, s.got[i], s.claim[k])
          BY <1>21
        <5>2. s.got[i].index < s.claim[k] * Stride /\ s.got[i].index \in Int
          BY <1>18, <1>27, <5>1 DEF Of
        <5>3. k \in 1..m /\ k < j
          BY <1>2, <1>3, <1>7, <4>2
        <5>4. s.claim[k] \in Nat /\ s.claim[j] \in Nat /\ s.claim[k] <= s.claim[j] - 1
          BY <1>4, <1>5, <1>7, <5>3
        <5>5. s.claim[k] * Stride <= (s.claim[j] - 1) * Stride /\ s.claim[k] * Stride \in Nat
              /\ (s.claim[j] - 1) * Stride \in Nat
          <6>1. s.claim[j] - 1 \in Nat
            BY <1>4, <1>7
          <6> QED
            BY <1>7, <5>4, <6>1, TimesAscends
        <5> QED
          BY <1>8, <1>22, <1>27, <5>2, <5>5
      <4> QED
        BY <4>1, <4>2
    <3> QED
      BY <3>1
  <2>2. step.index \in Int /\ step.index < (s.claim[j] - 1) * Stride + (sofar + 1)
        /\ (s.claim[j] - 1) * Stride + (sofar + 1) \in Int
    <3>1. (s.claim[j] - 1) * Stride \in Int
      BY <1>4, <1>7
    <3> QED
      BY <1>8, <1>12, <1>22, <1>27, <3>1
  <2>3. \A i \in 1..(l + 1) : t.got[i].index < (s.claim[j] - 1) * Stride + (sofar + 1)
    BY <1>13, <1>17, <1>18, <1>20, <2>1, <2>2
  <2>4. \A i, k \in 1..(l + 1) : i < k => t.got[i].index < t.got[k].index
    <3>1. ASSUME NEW i \in 1..(l + 1), NEW k \in 1..(l + 1), i < k
          PROVE  t.got[i].index < t.got[k].index
      <4>1. i \in 1..l /\ t.got[i] = s.got[i]
        BY <1>17, <3>1
      <4>2. CASE k = l + 1
        BY <1>13, <1>17, <2>1, <4>1, <4>2
      <4>3. CASE k # l + 1
        BY <1>1, <1>17, <1>20, <1>27, <3>1, <4>1, <4>3 DEF InOrder
      <4> QED
        BY <4>2, <4>3
    <3> QED
      BY <3>1
  <2>5. step.hi < hi(j) => step.hi = lo(j) + (sofar + 1) * g.batch
    <3>1. lo(j) \in Nat /\ hi(j) \in Nat
      BY <1>4, <1>7
    <3>2. \A u, v \in Nat : u * v \in Nat /\ (u + 1) * v = u * v + v
      OBVIOUS
    <3>3. PICK p \in Nat : p = sofar * g.batch /\ (sofar + 1) * g.batch = p + g.batch
      BY <1>7, <1>8, <3>2
    <3>4. ASSUME step.hi < hi(j)
          PROVE  from < hi(j) /\ step.hi = from + g.batch
      BY <1>8, <1>10, <3>1, <3>4
    <3>5. from < hi(j) => from = lo(j) + p
      BY <1>23, <1>27, <3>3
    <3> QED
      BY <1>7, <3>1, <3>3, <3>4, <3>5
  <2>6. t.state.idx = j /\ t.state.cur = step.hi /\ t.claim = s.claim /\ t.state.emitted = sofar + 1
    BY <1>14, <1>15
  <2> QED
    BY <1>17, <2>3, <2>4, <2>5, <2>6 DEF InOrder, lo, hi
<1> QED
  BY <1>19, <1>26, <1>27 DEF StreamOK, t, step

-----------------------------------------------------------------------------
(* What a query has of its splits                                          *)

\* A plan is a part of the splits, and when it is scanned all of them.
PlanOK(g, x) ==
    /\ g.name = "split_endless_cursor" => x.phase \in {"planning", "failed"}
    /\ g.name # "split_endless_cursor" =>
        /\ Len(x.splits) <= Len(Whole(g))
        /\ g.name # "plain" => \A i \in DOMAIN x.splits : x.splits[i].payload = Whole(g)[i]
        /\ x.phase = "scanning" => Len(x.splits) = Len(Whole(g))
        /\ x.phase = "planning" =>
              IF g.name = "split_paginated" THEN Len(x.splits) = x.page * PerPage ELSE x.splits = <<>>
    /\ x.phase = "planning" => x.claimed = 0 /\ x.batches = <<>>
    /\ x.claimed <= Len(x.splits)

Apart(bs) == \A i, j \in DOMAIN bs : i < j => bs[i].hi <= bs[j].lo \/ bs[j].hi <= bs[i].lo

Ascend(bs) ==
    \A i, j \in DOMAIN bs :
        i < j => /\ bs[i].index # bs[j].index
                 /\ bs[i].reader = bs[j].reader => bs[i].index < bs[j].index

AnswerOK(g, c, x) ==
    /\ x.batches \in Seq(Batch(g, c))
    /\ Apart(x.batches)
    /\ Numbered(g) => Ascend(x.batches)
    /\ x.phase = "done" /\ AllPlanned(g) => Cover(x.batches, 0, g.n)

\* The readers rd that are on a query, and the splits one has claimed.
On(q, rd) == {r \in Readers : rd[r] # Idle /\ rd[r].query = q}
Claims(s) == {s.claim[i] : i \in DOMAIN s.claim}

\* The splits whose attempts have finished.
Scanned(q, x, rd) == {d \in 1..x.claimed : \A r \in On(q, rd) : d \notin Claims(rd[r])}

\* A batch of split d, later splits than which reader r is on.
Past(g, q, rd, b, d) ==
    /\ Of(g, b, d)
    /\ \A r \in On(q, rd) : b.reader = r => \A e \in Claims(rd[r]) : d < e

\* The readers have splits of their own, and a query has all the rows of the
\* splits that have finished and no others.
ScanOK(g, c, q, x, rd) ==
    /\ \A r \in On(q, rd) : StreamOK(g, c, r, rd[r]) /\ Claims(rd[r]) \subseteq 1..x.claimed
    /\ \A r, t \in On(q, rd) : r # t => Claims(rd[r]) \cap Claims(rd[t]) = {}
    /\ x.phase = "scanning" =>
        /\ \A i \in DOMAIN x.batches : \E d \in Scanned(q, x, rd) : Past(g, q, rd, x.batches[i], d)
        /\ \A d \in Scanned(q, x, rd) : Cover(x.batches, Whole(g)[d].lo, Whole(g)[d].hi)

LEMMA ScanElsewhere ==
  ASSUME NEW g, NEW c, NEW q, NEW x, NEW rd, NEW rd2, ScanOK(g, c, q, x, rd),
         On(q, rd2) = On(q, rd), \A r \in On(q, rd) : rd2[r] = rd[r]
  PROVE  ScanOK(g, c, q, x, rd2)
<1>1. Scanned(q, x, rd2) = Scanned(q, x, rd)
  BY DEF Scanned
<1>2. \A b, d : Past(g, q, rd, b, d) => Past(g, q, rd2, b, d)
  BY DEF Past
<1> QED
  BY <1>1, <1>2 DEF ScanOK

IsMap(rd) == rd = [r \in Readers |-> rd[r]]

\* A turn that emits a batch.
LEMMA ScanEmits ==
  ASSUME NEW g \in Functions, NEW c, NEW q, NEW x, NEW rd, IsMap(rd),
         ScanOK(g, c, q, x, rd), NEW r \in On(q, rd), NEW s, IsStream(s), s.query = q,
         StreamOK(g, c, r, s), s.claim = rd[r].claim
  PROVE  ScanOK(g, c, q, x, [rd EXCEPT ![r] = s])
<1> DEFINE rd2 == [rd EXCEPT ![r] = s]
<1>1. r \in Readers /\ rd2[r] = s /\ \A t \in Readers : t # r => rd2[t] = rd[t]
  BY DEF On, IsMap
<1>2. s # Idle
  BY DEF IsStream, Idle
<1> HIDE DEF rd2
<1>3. On(q, rd2) = On(q, rd)
  BY <1>1, <1>2 DEF On
<1>4. \A t \in On(q, rd) : Claims(rd2[t]) = Claims(rd[t]) /\ t \in Readers
  BY <1>1 DEF Claims, On
<1>5. Scanned(q, x, rd2) = Scanned(q, x, rd)
  BY <1>3, <1>4 DEF Scanned
<1>6. \A b, d : Past(g, q, rd, b, d) => Past(g, q, rd2, b, d)
  BY <1>3, <1>4 DEF Past
<1>7. \A t \in On(q, rd2) : StreamOK(g, c, t, rd2[t])
  BY <1>1, <1>3, <1>4 DEF ScanOK
<1> QED
  BY <1>3, <1>4, <1>5, <1>6, <1>7 DEF ScanOK, rd2

LEMMA CoverJoins ==
  ASSUME NEW T, NEW bs \in Seq(T), NEW cs \in Seq(T), NEW lo, NEW hi, Cover(bs, lo, hi) \/ Cover(cs, lo, hi)
  PROVE  Cover(bs \o cs, lo, hi)
<1> DEFINE l == Len(bs)
           k == Len(cs)
<1>1. DOMAIN bs = 1..l /\ l \in Nat /\ DOMAIN cs = 1..k /\ k \in Nat
  BY LenProperties
<1>2. DOMAIN (bs \o cs) = 1..(l + k) /\ \A i \in 1..(l + k) : (bs \o cs)[i] = IF i <= l THEN bs[i] ELSE cs[i - l]
  BY ConcatProperties, LenProperties
<1> HIDE DEF l, k
<1>3. ASSUME NEW row \in lo..(hi - 1)
      PROVE  \E i \in DOMAIN (bs \o cs) : (bs \o cs)[i].lo <= row /\ row < (bs \o cs)[i].hi
  <2>1. CASE Cover(bs, lo, hi)
    <3>1. PICK i \in 1..l : bs[i].lo <= row /\ row < bs[i].hi
      BY <1>1, <2>1 DEF Cover
    <3>2. i \in 1..(l + k) /\ i <= l
      BY <1>1
    <3> QED
      BY <1>2, <3>1, <3>2
  <2>2. CASE Cover(cs, lo, hi)
    <3>1. PICK i \in 1..k : cs[i].lo <= row /\ row < cs[i].hi
      BY <1>1, <2>2 DEF Cover
    <3>2. l + i \in 1..(l + k) /\ ~(l + i <= l) /\ (l + i) - l = i
      BY <1>1
    <3> QED
      BY <1>2, <3>1, <3>2
  <2> QED
    BY <2>1, <2>2
<1> QED
  BY <1>3 DEF Cover

\* Batches of two splits have no row in common, and each its own index.
LEMMA SplitsApart ==
  ASSUME NEW g \in Functions, NEW d \in DOMAIN Whole(g), NEW e \in DOMAIN Whole(g), d # e,
         NEW a, NEW b, Of(g, a, d), Of(g, b, e), a.lo \in Nat, a.hi \in Nat, b.lo \in Nat, b.hi \in Nat,
         a.index \in Int, b.index \in Int
  PROVE  /\ a.hi <= b.lo \/ b.hi <= a.lo
         /\ Numbered(g) => a.index # b.index /\ (d < e => a.index < b.index)
<1>1. d \in Nat \ {0} /\ e \in Nat \ {0} /\ Whole(g)[d].lo \in Nat /\ Whole(g)[d].hi \in Nat
      /\ Whole(g)[e].lo \in Nat /\ Whole(g)[e].hi \in Nat
  BY SplitIs
<1>2. d < e => Whole(g)[d].hi <= Whole(g)[e].lo
  BY SplitIs
<1>3. e < d => Whole(g)[e].hi <= Whole(g)[d].lo
  BY SplitIs
<1>4. d < e \/ e < d
  BY <1>1
<1>5. a.hi <= b.lo \/ b.hi <= a.lo
  <2>1. CASE d < e
    BY <1>1, <1>2, <2>1 DEF Of
  <2>2. CASE e < d
    BY <1>1, <1>3, <2>2 DEF Of
  <2> QED
    BY <1>4, <2>1, <2>2
<1>6. ASSUME Numbered(g)
      PROVE  a.index # b.index /\ (d < e => a.index < b.index)
  <2>1. Stride \in Nat /\ (d - 1) * Stride <= a.index /\ a.index < d * Stride
        /\ (e - 1) * Stride <= b.index /\ b.index < e * Stride
    BY <1>6, StrideAssumption DEF Of
  <2>2. CASE d < e
    <3>1. d * Stride <= (e - 1) * Stride /\ d * Stride \in Nat /\ (e - 1) * Stride \in Nat
      <4>1. e - 1 \in Nat /\ d \in Nat /\ d <= e - 1
        BY <1>1, <2>2
      <4> QED
        BY <2>1, <4>1, TimesAscends
    <3> QED
      BY <2>1, <3>1
  <2>3. CASE e < d
    <3>1. e * Stride <= (d - 1) * Stride /\ e * Stride \in Nat /\ (d - 1) * Stride \in Nat
      <4>1. d - 1 \in Nat /\ e \in Nat /\ e <= d - 1
        BY <1>1, <2>3
      <4> QED
        BY <2>1, <4>1, TimesAscends
    <3> QED
      BY <1>1, <2>1, <2>3, <3>1
  <2> QED
    BY <1>4, <2>2, <2>3
<1> QED
  BY <1>5, <1>6

Joined(y, x, s) == y.batches = x.batches \o s.got

JoinedTo(T, y, x, s, l, k) ==
    /\ y.batches \in Seq(T) /\ DOMAIN y.batches = 1..(l + k)
    /\ \A i \in 1..(l + k) : i <= l => i \in 1..l /\ y.batches[i] = x.batches[i]
    /\ \A i \in 1..(l + k) : ~(i <= l) => i - l \in 1..k /\ y.batches[i] = s.got[i - l]

LEMMA JoinedIs ==
  ASSUME NEW T, NEW x, NEW y, NEW s, x.batches \in Seq(T), s.got \in Seq(T), Joined(y, x, s)
  PROVE  JoinedTo(T, y, x, s, Len(x.batches), Len(s.got))
<1> DEFINE l == Len(x.batches)
           k == Len(s.got)
<1>1. l \in Nat /\ k \in Nat
  BY LenProperties
<1>2. y.batches \in Seq(T) /\ Len(y.batches) = l + k
  BY ConcatProperties DEF Joined
<1>3. DOMAIN y.batches = 1..(l + k)
  BY <1>2, LenProperties
<1>4. \A i \in 1..(l + k) : y.batches[i] = IF i <= l THEN x.batches[i] ELSE s.got[i - l]
  BY ConcatProperties DEF Joined
<1> HIDE DEF l, k
<1>5. /\ y.batches \in Seq(T) /\ DOMAIN y.batches = 1..(l + k)
      /\ \A i \in 1..(l + k) : i <= l => i \in 1..l /\ y.batches[i] = x.batches[i]
      /\ \A i \in 1..(l + k) : ~(i <= l) => i - l \in 1..k /\ y.batches[i] = s.got[i - l]
  BY <1>1, <1>2, <1>3, <1>4
<1> QED
  BY <1>5 DEF l, k, JoinedTo

\* A turn that finishes an attempt: the query has its batches.
LEMMA ScanFinishes ==
  ASSUME NEW g \in Functions, NEW c, NEW q, NEW x, NEW y, NEW rd, IsMap(rd),
         AnswerOK(g, c, x), ScanOK(g, c, q, x, rd), x.phase = "scanning", x.claimed \in 0..Len(Whole(g)),
         NEW r \in On(q, rd), IsStream(rd[r]), emitNext(g, rd[r].state).out = "finished",
         y.phase = x.phase, y.claimed = x.claimed, Joined(y, x, rd[r])
  PROVE  AnswerOK(g, c, y) /\ ScanOK(g, c, q, y, [rd EXCEPT ![r] = Idle])
<1> DEFINE s == rd[r]
           rd2 == [rd EXCEPT ![r] = Idle]
           l == Len(x.batches)
           k == Len(s.got)
           B == Batch(g, c)
<1>1. r \in Readers /\ rd2[r] = Idle /\ \A t \in Readers : t # r => rd2[t] = rd[t]
  BY DEF On, IsMap
<1>2. StreamOK(g, c, r, s) /\ StreamTyped(g, c, s) /\ Emitted(g, r, s) /\ Claims(s) \subseteq 1..x.claimed
  BY DEF ScanOK, StreamOK
<1>3. x.batches \in Seq(B) /\ s.got \in Seq(B)
  BY <1>2, Zenon DEF AnswerOK, StreamTyped
<1> HIDE DEF rd2, s, B
<1>4. /\ DOMAIN x.batches = 1..l /\ l \in Nat /\ DOMAIN s.got = 1..k /\ k \in Nat
      /\ \A i \in 1..l : x.batches[i] \in B
      /\ \A i \in 1..k : s.got[i] \in B
  BY <1>3, LenProperties, ElementOfSeq
<1>5. /\ y.batches \in Seq(B) /\ DOMAIN y.batches = 1..(l + k)
      /\ \A i \in 1..(l + k) : i <= l => i \in 1..l /\ y.batches[i] = x.batches[i]
      /\ \A i \in 1..(l + k) : ~(i <= l) => i - l \in 1..k /\ y.batches[i] = s.got[i - l]
  <2>1. Joined(y, x, s)
    BY DEF s
  <2>2. JoinedTo(B, y, x, s, l, k)
    BY <1>3, <2>1, JoinedIs
  <2> HIDE DEF l, k
  <2> QED
    BY <2>2 DEF JoinedTo
<1>5a. \A i \in 1..(l + k) : i <= l => i \in 1..l /\ y.batches[i] = x.batches[i]
  BY <1>5
<1>5b. \A i \in 1..(l + k) : ~(i <= l) => i - l \in 1..k /\ y.batches[i] = s.got[i - l]
  BY <1>5
<1>6. \A b \in B : b.lo \in Nat /\ b.hi \in Nat /\ b.index \in Int
  BY SplitIs DEF Batch, B
<1> HIDE DEF l, k
<1>7. On(q, rd2) = On(q, rd) \ {r}
  BY <1>1 DEF On
<1>8. \A t \in On(q, rd2) : t \in Readers /\ t # r /\ rd2[t] = rd[t] /\ t \in On(q, rd)
  BY <1>1, <1>7 DEF On
<1>9. \A t \in On(q, rd2) : Claims(rd[t]) \cap Claims(s) = {}
  BY <1>8 DEF ScanOK, s
<1>10. Scanned(q, y, rd2) = Scanned(q, x, rd) \cup Claims(s)
  <2>1. \A d \in Scanned(q, y, rd2) : d \in Scanned(q, x, rd) \/ d \in Claims(s)
    BY <1>7, <1>8 DEF Scanned, s
  <2>2. \A d \in Scanned(q, x, rd) : d \in Scanned(q, y, rd2)
    BY <1>8 DEF Scanned
  <2>3. \A d \in Claims(s) : d \in Scanned(q, y, rd2)
    BY <1>2, <1>8, <1>9 DEF Scanned
  <2> QED
    BY <2>1, <2>2, <2>3
<1>11. Scanned(q, x, rd) \cap Claims(s) = {} /\ Scanned(q, x, rd) \subseteq DOMAIN Whole(g)
       /\ Claims(s) \subseteq DOMAIN Whole(g)
  <2>1. 1..x.claimed \subseteq DOMAIN Whole(g)
    BY SplitIs
  <2> QED
    BY <1>2, <2>1 DEF Scanned, s
\* The batches the query has, and those of the attempt.
<1>12. \A i \in 1..l : \E d \in Scanned(q, x, rd) : Past(g, q, rd, x.batches[i], d)
  BY <1>4 DEF ScanOK
<1>13. \A i \in 1..k : s.got[i].reader = r /\ \E d \in Claims(s) : Of(g, s.got[i], d)
  <2>1. ASSUME NEW i \in 1..k
        PROVE  s.got[i].reader = r /\ \E d \in Claims(s) : Of(g, s.got[i], d)
    <3>1. s.got[i].reader = r /\ \E j \in 1..s.state.idx : Of(g, s.got[i], s.claim[j])
      BY <1>2, <1>4 DEF Emitted
    <3>2. DOMAIN s.claim = 1..Len(s.claim) /\ s.state.idx \in DOMAIN s.claim
      <4>1. s.claim \in Seq(Nat)
        BY DEF IsStream, s
      <4>2. DOMAIN s.claim = 1..Len(s.claim) /\ Len(s.claim) \in Nat
        BY <4>1, LenProperties
      <4> QED
        BY <1>2, <4>2, ClaimedIs
    <3>3. \A j \in 1..s.state.idx : s.claim[j] \in Claims(s)
      BY <3>2 DEF Claims
    <3> QED
      BY <3>1, <3>3
  <2> QED
    BY <2>1
<1>14. ASSUME NEW i \in 1..l, NEW j \in 1..k
       PROVE  /\ x.batches[i].hi <= s.got[j].lo \/ s.got[j].hi <= x.batches[i].lo
              /\ Numbered(g) => /\ x.batches[i].index # s.got[j].index
                                /\ x.batches[i].reader = r => x.batches[i].index < s.got[j].index
  <2>1. PICK d \in Scanned(q, x, rd) : Past(g, q, rd, x.batches[i], d)
    BY <1>12
  <2>2. PICK e \in Claims(s) : Of(g, s.got[j], e)
    BY <1>13
  <2>3. d \in DOMAIN Whole(g) /\ e \in DOMAIN Whole(g) /\ d # e
    BY <1>11
  <2>4. Of(g, x.batches[i], d) /\ (x.batches[i].reader = r => d < e)
    BY <2>1 DEF Past, s
  <2>5. /\ x.batches[i].lo \in Nat /\ x.batches[i].hi \in Nat /\ x.batches[i].index \in Int
        /\ s.got[j].lo \in Nat /\ s.got[j].hi \in Nat /\ s.got[j].index \in Int
    BY <1>4, <1>6
  <2> QED
    BY <2>2, <2>3, <2>4, <2>5, SplitsApart
<1>15. \A i \in 1..(l + k) : i > l => i - l \in 1..k
  BY <1>4
<1>16. \A i, j \in 1..k : i < j => s.got[i].hi <= s.got[j].lo
  BY <1>2, <1>4 DEF Emitted
<1>17. \A i, j \in 1..l : i < j => x.batches[i].hi <= x.batches[j].lo \/ x.batches[j].hi <= x.batches[i].lo
  BY <1>4 DEF AnswerOK, Apart
<1>18. Apart(y.batches)
  <2>1. ASSUME NEW i \in 1..(l + k), NEW j \in 1..(l + k), i < j
        PROVE  y.batches[i].hi <= y.batches[j].lo \/ y.batches[j].hi <= y.batches[i].lo
    <3>1. CASE j <= l
      <4>1. i \in 1..l /\ j \in 1..l /\ i <= l
        BY <1>4, <2>1, <3>1
      <4> QED
        BY <1>5, <1>17, <2>1, <3>1, <4>1
    <3>2. CASE i <= l /\ ~(j <= l)
      <4>1. i \in 1..l /\ j - l \in 1..k
        BY <1>4, <1>15, <3>2
      <4>2. y.batches[i] = x.batches[i] /\ y.batches[j] = s.got[j - l]
        BY <1>5a, <1>5b, <3>2
      <4> QED
        BY <1>14, <4>1, <4>2
    <3>3. CASE ~(i <= l)
      <4>1. i - l \in 1..k /\ j - l \in 1..k /\ i - l < j - l /\ ~(j <= l)
        BY <1>4, <1>15, <2>1, <3>3
      <4> QED
        BY <1>5, <1>16, <3>3, <4>1
    <3> QED
      BY <1>4, <3>1, <3>2, <3>3
  <2> QED
    BY <1>5, <2>1 DEF Apart
<1>19. ASSUME Numbered(g)
       PROVE  Ascend(y.batches)
  <2>1. \A i, j \in 1..k : i < j => s.got[i].index < s.got[j].index
    BY <1>2, <1>4, <1>19 DEF StreamOK, InOrder
  <2>2. \A i, j \in 1..l : i < j => /\ x.batches[i].index # x.batches[j].index
                                    /\ x.batches[i].reader = x.batches[j].reader =>
                                          x.batches[i].index < x.batches[j].index
    BY <1>4, <1>19 DEF AnswerOK, Ascend
  <2>3. \A i \in 1..k : s.got[i].index \in Int
    BY <1>4, <1>6
  <2>4. ASSUME NEW i \in 1..(l + k), NEW j \in 1..(l + k), i < j
        PROVE  /\ y.batches[i].index # y.batches[j].index
               /\ y.batches[i].reader = y.batches[j].reader => y.batches[i].index < y.batches[j].index
    <3>1. CASE j <= l
      <4>1. i \in 1..l /\ j \in 1..l /\ i <= l
        BY <1>4, <2>4, <3>1
      <4>2. y.batches[i] = x.batches[i] /\ y.batches[j] = x.batches[j]
        BY <1>5a, <3>1, <4>1
      <4>3. /\ x.batches[i].index # x.batches[j].index
            /\ x.batches[i].reader = x.batches[j].reader => x.batches[i].index < x.batches[j].index
        BY <2>2, <2>4, <4>1
      <4> QED
        BY <4>2, <4>3
    <3>2. CASE i <= l /\ ~(j <= l)
      <4>1. i \in 1..l /\ j - l \in 1..k
        BY <1>4, <1>15, <3>2
      <4>2. y.batches[i] = x.batches[i] /\ y.batches[j] = s.got[j - l] /\ s.got[j - l].reader = r
        BY <1>5a, <1>5b, <1>13, <3>2, <4>1
      <4> QED
        BY <1>14, <1>19, <4>1, <4>2
    <3>3. CASE ~(i <= l)
      <4>1. i - l \in 1..k /\ j - l \in 1..k /\ i - l < j - l /\ ~(j <= l)
        BY <1>4, <1>15, <2>4, <3>3
      <4>2. s.got[i - l].index < s.got[j - l].index /\ s.got[i - l].index \in Int /\ s.got[j - l].index \in Int
        BY <2>1, <2>3, <4>1
      <4>3. y.batches[i] = s.got[i - l] /\ y.batches[j] = s.got[j - l]
        BY <1>5b, <3>3, <4>1
      <4>4. y.batches[i].index = s.got[i - l].index /\ y.batches[j].index = s.got[j - l].index
        BY <4>3
      <4> QED
        BY <4>2, <4>4
    <3> QED
      BY <1>4, <3>1, <3>2, <3>3
  <2> QED
    BY <1>5, <2>4 DEF Ascend
<1>20. AnswerOK(g, c, y)
  BY <1>5, <1>18, <1>19 DEF AnswerOK, B
<1>21. \A i \in 1..(l + k) : \E d \in Scanned(q, y, rd2) : Past(g, q, rd2, y.batches[i], d)
  <2>1. ASSUME NEW i \in 1..(l + k)
        PROVE  \E d \in Scanned(q, y, rd2) : Past(g, q, rd2, y.batches[i], d)
    <3>1. CASE i <= l
      <4>1. i \in 1..l /\ y.batches[i] = x.batches[i]
        BY <1>5a, <3>1
      <4>2. PICK d \in Scanned(q, x, rd) : Past(g, q, rd, x.batches[i], d)
        BY <1>12, <4>1
      <4>3. Past(g, q, rd2, y.batches[i], d)
        BY <1>8, <4>1, <4>2 DEF Past
      <4> QED
        BY <1>10, <4>3
    <3>2. CASE ~(i <= l)
      <4>1. i - l \in 1..k /\ y.batches[i] = s.got[i - l]
        BY <1>5b, <3>2
      <4>2. PICK d \in Claims(s) : Of(g, s.got[i - l], d)
        BY <1>13, <4>1
      <4>3. s.got[i - l].reader = r
        BY <1>13, <4>1
      <4>4. Past(g, q, rd2, y.batches[i], d)
        BY <1>8, <4>1, <4>2, <4>3 DEF Past
      <4> QED
        BY <1>10, <4>4
    <3> QED
      BY <3>1, <3>2
  <2> QED
    BY <2>1
<1>22. ASSUME NEW d \in Scanned(q, y, rd2)
       PROVE  Cover(y.batches, Whole(g)[d].lo, Whole(g)[d].hi)
  <2>1. y.batches = x.batches \o s.got
    BY DEF Joined, s
  <2>2. CASE d \in Scanned(q, x, rd)
    <3>1. Cover(x.batches, Whole(g)[d].lo, Whole(g)[d].hi)
      BY <2>2 DEF ScanOK
    <3> QED
      BY <1>3, <2>1, <3>1, CoverJoins
  <2>3. CASE d \in Claims(s)
    <3>1. s.claim \in Seq(Nat)
      BY DEF IsStream, s
    <3>2. DOMAIN s.claim = 1..Len(s.claim) /\ Len(s.claim) \in Nat
      BY <3>1, LenProperties
    <3>3. PICK j \in 1..Len(s.claim) : d = s.claim[j]
      BY <2>3, <3>2 DEF Claims
    <3>4. emitNext(g, s.state).out = "finished"
      BY DEF s
    <3>5. Cover(s.got, Whole(g)[d].lo, Whole(g)[d].hi)
      BY <1>1, <1>2, <3>2, <3>3, <3>4, FinishedCovers
    <3> QED
      BY <1>3, <2>1, <3>5, CoverJoins
  <2> QED
    BY <1>10, <2>2, <2>3
<1>23. /\ \A t \in On(q, rd2) : StreamOK(g, c, t, rd2[t]) /\ Claims(rd2[t]) \subseteq 1..y.claimed
       /\ \A t, u \in On(q, rd2) : t # u => Claims(rd2[t]) \cap Claims(rd2[u]) = {}
  BY <1>8 DEF ScanOK
<1>24. ScanOK(g, c, q, y, rd2)
  BY <1>5, <1>21, <1>22, <1>23 DEF ScanOK
<1> QED
  BY <1>20, <1>24 DEF rd2

\* An attempt is opened: on the next splits, or again on those of the attempt it
\* takes the place of.
LEMMA ScanOpens ==
  ASSUME NEW g \in Functions, NEW c, NEW q, NEW x, NEW y, NEW rd, IsMap(rd), ScanOK(g, c, q, x, rd),
         NEW r \in Readers, NEW s, IsStream(s), s.query = q, StreamOK(g, c, r, s),
         x.claimed \in Nat, y.claimed \in Nat, y.phase = x.phase, y.batches = x.batches,
         \/ rd[r] = Idle /\ x.claimed <= y.claimed /\ Claims(s) = (x.claimed + 1)..y.claimed
         \/ r \in On(q, rd) /\ s.claim = rd[r].claim /\ y.claimed = x.claimed
  PROVE  ScanOK(g, c, q, y, [rd EXCEPT ![r] = s])
<1> DEFINE rd2 == [rd EXCEPT ![r] = s]
<1>1. CASE rd[r] = Idle /\ x.claimed <= y.claimed /\ Claims(s) = (x.claimed + 1)..y.claimed
  <2>1. rd2[r] = s /\ \A t \in Readers : t # r => rd2[t] = rd[t]
    BY DEF IsMap
  <2>2. s # Idle
    BY DEF IsStream, Idle
  <2> HIDE DEF rd2
  <2>3. On(q, rd2) = On(q, rd) \cup {r} /\ r \notin On(q, rd) /\ On(q, rd) \subseteq Readers
    BY <1>1, <2>1, <2>2 DEF On
  <2>4. \A t \in On(q, rd) : t # r /\ rd2[t] = rd[t] /\ Claims(rd[t]) \subseteq 1..x.claimed
                             /\ StreamOK(g, c, t, rd2[t])
    BY <2>1, <2>3 DEF ScanOK
  <2>5. 1..x.claimed \subseteq 1..y.claimed /\ Claims(s) \subseteq 1..y.claimed
        /\ (1..x.claimed) \cap Claims(s) = {} /\ 1..y.claimed = (1..x.claimed) \cup Claims(s)
    BY <1>1
  <2>6. Scanned(q, y, rd2) = Scanned(q, x, rd)
    <3>1. \A d \in Scanned(q, y, rd2) : d \in Scanned(q, x, rd)
      BY <2>1, <2>3, <2>4, <2>5 DEF Scanned
    <3>2. \A d \in Scanned(q, x, rd) : d \in Scanned(q, y, rd2)
      BY <2>1, <2>3, <2>4, <2>5 DEF Scanned
    <3> QED
      BY <3>1, <3>2
  <2>7. ASSUME NEW b, NEW d \in Scanned(q, x, rd), Past(g, q, rd, b, d)
        PROVE  Past(g, q, rd2, b, d)
    <3>1. d \in 1..x.claimed
      BY DEF Scanned
    <3>2. \A e \in Claims(s) : d < e
      BY <1>1, <3>1
    <3> QED
      BY <2>1, <2>3, <2>4, <2>7, <3>2 DEF Past
  <2>8. \A t \in On(q, rd2) : StreamOK(g, c, t, rd2[t]) /\ Claims(rd2[t]) \subseteq 1..y.claimed
    BY <2>1, <2>3, <2>4, <2>5
  <2>9. \A t, u \in On(q, rd2) : t # u => Claims(rd2[t]) \cap Claims(rd2[u]) = {}
    <3>1. \A t, u \in On(q, rd) : t # u => Claims(rd[t]) \cap Claims(rd[u]) = {}
      BY DEF ScanOK
    <3>2. \A t \in On(q, rd) : Claims(rd2[t]) \cap Claims(rd2[r]) = {}
      BY <2>1, <2>4, <2>5
    <3> QED
      BY <2>3, <2>4, <3>1, <3>2
  <2>10. ASSUME x.phase = "scanning"
         PROVE  /\ \A i \in DOMAIN x.batches : \E d \in Scanned(q, y, rd2) : Past(g, q, rd2, x.batches[i], d)
                /\ \A d \in Scanned(q, y, rd2) : Cover(x.batches, Whole(g)[d].lo, Whole(g)[d].hi)
    BY <2>6, <2>7, <2>10 DEF ScanOK
  <2> QED
    BY <2>8, <2>9, <2>10 DEF ScanOK, rd2
<1>2. CASE r \in On(q, rd) /\ s.claim = rd[r].claim /\ y.claimed = x.claimed
  <2>1. ScanOK(g, c, q, y, rd)
    <3>1. Scanned(q, y, rd) = Scanned(q, x, rd)
      BY <1>2 DEF Scanned
    <3> QED
      BY <1>2, <3>1 DEF ScanOK
  <2> QED
    BY <1>2, <2>1, ScanEmits
<1> QED
  BY <1>1, <1>2

\* Where an attempt on the splits claimed begins.
Seed(g, claim) ==
    [claimed |-> [i \in DOMAIN claim |-> Whole(g)[claim[i]]], idx |-> 1,
     cur |-> Whole(g)[claim[1]].lo, emitted |-> 0]

\* What the tokens of a plan carry is what the attempt goes by.
LEMMA SeedIs ==
  ASSUME NEW g \in Functions, NEW splits, NEW claim \in Seq(Nat), claim # <<>>,
         \A i \in DOMAIN claim : claim[i] \in DOMAIN Whole(g) /\ claim[i] \in DOMAIN splits,
         \A i, j \in DOMAIN claim : i < j => claim[i] < claim[j],
         g.name # "plain" => \A i \in DOMAIN splits : splits[i].payload = Whole(g)[i],
         NEW x, DOMAIN x.tokens = DOMAIN claim, \A i \in DOMAIN claim : x.tokens[i] = splits[claim[i]]
  PROVE  seedState(g, Payloads(x)) = Seed(g, claim)
<1> DEFINE ps == Payloads(x)
           whole == [i \in DOMAIN claim |-> Whole(g)[claim[i]]]
<1>1. DOMAIN claim = 1..Len(claim) /\ Len(claim) \in Nat \ {0}
  BY EmptySeq, LenProperties
<1>2. 1 \in DOMAIN claim
  BY <1>1
<1>3. ps = [i \in DOMAIN claim |-> x.tokens[i].payload]
  BY DEF Payloads
<1>4. whole[1] = Whole(g)[claim[1]] /\ whole # <<>> /\ Head(whole) = whole[1]
  <2>1. DOMAIN whole = 1..Len(claim)
    BY <1>1
  <2>2. \A d \in DOMAIN Whole(g) : Whole(g)[d] \in WholeOf(g)
    BY WholeDivides, SplitIs, ElementOfSeq
  <2>3. whole \in Seq(WholeOf(g))
    BY <1>1, <2>2, IsASeq
  <2>4. whole # <<>>
    BY <1>2
  <2>5. whole[1] = Whole(g)[claim[1]]
    BY <1>2
  <2> HIDE DEF whole
  <2> QED
    BY <2>3, <2>4, <2>5, HeadTailProperties
<1>5. Seed(g, claim) = [claimed |-> whole, idx |-> 1, cur |-> Whole(g)[claim[1]].lo, emitted |-> 0]
  BY DEF Seed
<1>6. CASE g.name = "plain"
  <2>1. Whole(g) = <<[ordinal |-> 0, lo |-> 0, hi |-> g.n]>> /\ DOMAIN Whole(g) = {1}
    BY <1>6 DEF Whole
  <2>2. \A i \in DOMAIN claim : claim[i] = 1
    BY <2>1
  <2>3. Len(claim) = 1
    <3>1. SUFFICES ASSUME 2 \in DOMAIN claim
                   PROVE  FALSE
      BY <1>1
    <3>2. claim[1] < claim[2]
      BY <1>2, <3>1
    <3> QED
      BY <1>2, <2>2, <3>1, <3>2
  <2>4. DOMAIN claim = {1}
    BY <1>1, <2>3
  <2>5. whole = <<[ordinal |-> 0, lo |-> 0, hi |-> g.n]>>
    BY <2>1, <2>2, <2>4
  <2>6. seedState(g, ps) = [claimed |-> <<[ordinal |-> 0, lo |-> 0, hi |-> g.n]>>, idx |-> 1,
                            cur |-> Head(<<[ordinal |-> 0, lo |-> 0, hi |-> g.n]>>).lo, emitted |-> 0]
    BY <1>6 DEF seedState
  <2> HIDE DEF ps
  <2>7. Head(whole).lo = Whole(g)[claim[1]].lo
    BY <1>4
  <2> HIDE DEF whole
  <2> QED
    BY <1>5, <2>5, <2>6, <2>7 DEF ps
<1>7. CASE g.name # "plain"
  <2>1. \A i \in DOMAIN claim : x.tokens[i].payload = Whole(g)[claim[i]]
    BY <1>7
  <2>2. ps = whole
    BY <1>3, <2>1
  <2>3. seedState(g, ps) = [claimed |-> ps, idx |-> 1,
                            cur |-> IF ps = <<>> THEN 0 ELSE Head(ps).lo, emitted |-> 0]
    BY <1>7 DEF seedState
  <2> HIDE DEF ps, whole
  <2> QED
    BY <1>4, <1>5, <2>2, <2>3 DEF ps
<1> QED
  BY <1>6, <1>7

-----------------------------------------------------------------------------
(* The steps of the queries                                                *)

Columns(q) == site.queries[q].columns

Good(g, c, q, x, rd) == PlanOK(g, x) /\ AnswerOK(g, c, x) /\ ScanOK(g, c, q, x, rd)

RInv == \A q \in Queries : Good(f(q), Columns(q), q, query[q], reader)

\* The readers that are on the other queries go on as they were.
OthersAsTheyWere(q) ==
    \A p \in Queries : p # q =>
        On(p, reader') = On(p, reader) /\ \A r \in On(p, reader) : reader'[r] = reader[r]

LEMMA RowStep ==
  ASSUME IInv, RInv, NEW q \in Queries, NEW x, query' = [query EXCEPT ![q] = x], site' = site,
         Good(f(q), Columns(q), q, x, reader'), OthersAsTheyWere(q)
  PROVE  RInv'
<1>1. query'[q] = x /\ \A p \in Queries : p # q => query'[p] = query[p]
  BY DEF IInv, Typed
<1>2. ASSUME NEW p \in Queries
      PROVE  Good(f(p), Columns(p), p, query'[p], reader')
  <2>1. CASE p = q
    BY <1>1, <2>1
  <2>2. CASE p # q
    <3>1. Good(f(p), Columns(p), p, query[p], reader)
      BY DEF RInv
    <3>2. ScanOK(f(p), Columns(p), p, query[p], reader')
      <4>1. ScanOK(f(p), Columns(p), p, query[p], reader)
        BY <3>1 DEF Good
      <4>2. On(p, reader') = On(p, reader) /\ \A r \in On(p, reader) : reader'[r] = reader[r]
        BY <2>2 DEF OthersAsTheyWere
      <4> QED
        BY <4>1, <4>2, ScanElsewhere
    <3> QED
      BY <1>1, <2>2, <3>1, <3>2 DEF Good
  <2> QED
    BY <2>1, <2>2
<1>3. \A p \in Queries : f(p)' = f(p) /\ Columns(p)' = Columns(p)
  BY DEF f, Columns
<1> QED
  BY <1>2, <1>3 DEF RInv

LEMMA OneReader ==
  ASSUME IInv, NEW q \in Queries, NEW r \in Readers, NEW s,
         reader[r] = Idle \/ reader[r].query = q, s = Idle \/ s.query = q,
         reader' = [reader EXCEPT ![r] = s]
  PROVE  OthersAsTheyWere(q)
<1>1. reader'[r] = s /\ \A t \in Readers : t # r => reader'[t] = reader[t]
  BY DEF IInv, Typed
<1> QED
  BY <1>1 DEF OthersAsTheyWere, On

LEMMA NoneOn ==
  ASSUME NEW g, NEW c, NEW q, NEW x, NEW rd, On(q, rd) = {}, x.phase # "scanning"
  PROVE  ScanOK(g, c, q, x, rd)
BY DEF ScanOK

LEMMA AllIdleOn ==
  ASSUME IInv, NEW q \in Queries, reader' = AllIdle(q)
  PROVE  On(q, reader') = {} /\ OthersAsTheyWere(q)
<1>1. \A r \in Readers : reader[r] # Idle => reader[r].phase = "open"
  BY DEF IInv, Typed, IsStream
<1>2. \A r \in Readers : reader'[r] = IF reader[r] # Idle /\ reader[r].query = q THEN Idle ELSE reader[r]
  BY <1>1 DEF AllIdle, Idle
<1> QED
  BY <1>2 DEF OthersAsTheyWere, On

LEMMA FailRows ==
  ASSUME IInv, RInv, NEW q \in Queries, Fail(q), site' = site
  PROVE  RInv'
<1> DEFINE x == [query[q] EXCEPT !.phase = "failed"]
<1>1. IsRun(query[q]) /\ Good(f(q), Columns(q), q, query[q], reader)
  BY DEF IInv, Typed, RInv
<1>2. x.phase = "failed" /\ x.splits = query[q].splits /\ x.claimed = query[q].claimed
      /\ x.batches = query[q].batches
  BY <1>1 DEF IsRun
<1>3. query' = [query EXCEPT ![q] = x] /\ reader' = AllIdle(q)
  BY DEF Fail, Failed
<1> HIDE DEF x
<1>4. On(q, reader') = {} /\ OthersAsTheyWere(q)
  BY <1>3, AllIdleOn
<1>5. PlanOK(f(q), x) /\ AnswerOK(f(q), Columns(q), x)
  BY <1>1, <1>2 DEF Good, PlanOK, AnswerOK
<1>6. ScanOK(f(q), Columns(q), q, x, reader')
  BY <1>2, <1>4, NoneOn
<1>7. Good(f(q), Columns(q), q, x, reader')
  BY <1>5, <1>6 DEF Good
<1> QED
  BY <1>3, <1>4, <1>7, RowStep

\* A run that begins has nothing yet.
LEMMA NewRunGood ==
  ASSUME NEW g \in Functions, NEW c, NEW n
  PROVE  PlanOK(g, NewRun(n)) /\ AnswerOK(g, c, NewRun(n))
<1> DEFINE x == NewRun(n)
<1>1. x.phase = "planning" /\ x.page = 0 /\ x.splits = <<>> /\ x.claimed = 0 /\ x.batches = <<>>
  BY DEF NewRun
<1>2. 0 * PerPage = 0 /\ Len(Whole(g)) \in Nat
  BY PerPageAssumption, SplitIs
<1> HIDE DEF x
<1>3. PlanOK(g, x)
  <2>1. Len(x.splits) = 0 /\ DOMAIN x.splits = {} /\ x.page * PerPage = 0
    BY <1>1, <1>2
  <2> QED
    BY <1>1, <1>2, <2>1 DEF PlanOK
<1>4. AnswerOK(g, c, x)
  <2>1. <<>> \in Seq(Batch(g, c)) /\ DOMAIN x.batches = {}
    BY <1>1
  <2> QED
    BY <1>1, <2>1 DEF AnswerOK, Apart, Ascend
<1> QED
  BY <1>3, <1>4 DEF x

LEMMA RunAgainRows ==
  ASSUME IInv, RInv, NEW q \in Queries, RunAgain(q), site' = site
  PROVE  RInv'
<1> DEFINE n == Min({query[q].reruns + 1, site.bounds.reruns})
           x == NewRun(n)
<1>1. query' = [query EXCEPT ![q] = x] /\ reader' = AllIdle(q)
  BY DEF RunAgain
<1> HIDE DEF n
<1>2. x.phase = "planning"
  BY DEF NewRun
<1>3. PlanOK(f(q), x) /\ AnswerOK(f(q), Columns(q), x)
  BY SiteType, NewRunGood DEF IInv
<1> HIDE DEF x
<1>4. On(q, reader') = {} /\ OthersAsTheyWere(q)
  BY <1>1, AllIdleOn
<1>5. ScanOK(f(q), Columns(q), q, x, reader')
  BY <1>2, <1>4, NoneOn
<1>6. Good(f(q), Columns(q), q, x, reader')
  BY <1>3, <1>5 DEF Good
<1> QED
  BY <1>1, <1>4, <1>6, RowStep

\* A turn: a batch more, the last of an attempt, or a failure.
\* (process, emitNext: splits.ts:189)
LEMMA ProduceRows ==
  ASSUME IInv, RInv, NEW q \in Queries, NEW r \in Readers, NEW stream, NEW parsed, NEW x,
         IsStream(stream), stream.query = q, IsRun(x), x.phase = "scanning",
         parsed.bind = f(q), parsed.columns = Columns(q),
         reader[r] = Idle \/ reader[r].query = q,
         Good(f(q), Columns(q), q, x, [reader EXCEPT ![r] = stream]),
         Produce(r, stream, parsed, x), site' = site
  PROVE  RInv'
<1> DEFINE g == f(q)
           c == Columns(q)
           rd == [reader EXCEPT ![r] = stream]
           step == emitNext(g, stream.state)
           s == Further(stream, step, c, r)
           y == [x EXCEPT !.batches = @ \o stream.got]
<1>1. g \in Functions
  BY SiteType DEF IInv
<1>2. reader = [t \in Readers |-> reader[t]]
  BY DEF IInv, Typed
<1>3. rd[r] = stream /\ IsMap(rd)
  BY <1>2 DEF IsMap
<1>4. \A z : [rd EXCEPT ![r] = z] = [reader EXCEPT ![r] = z]
  BY <1>2
<1>5. PlanOK(g, x) /\ AnswerOK(g, c, x) /\ ScanOK(g, c, q, x, rd)
  BY DEF Good
<1>6. stream # Idle /\ IsRun(x) /\ IsStream(rd[r])
  BY <1>3 DEF IsStream, Idle
<1>7. r \in On(q, rd)
  BY <1>3, <1>6 DEF On
<1>8. StreamOK(g, c, r, stream)
  BY <1>3, <1>5, <1>7 DEF ScanOK
<1>9. x.claimed \in 0..Len(Whole(g))
  <2>1. x.claimed \in Nat /\ Len(x.splits) \in Nat /\ Len(Whole(g)) \in Nat
    BY <1>1, <1>6, SplitIs, LenProperties DEF IsRun
  <2>2. x.claimed <= Len(x.splits) /\ Len(x.splits) <= Len(Whole(g))
    BY <1>5 DEF PlanOK
  <2> QED
    BY <2>1, <2>2
<1>10. \/ /\ step.out = "batch"
          /\ reader' = [reader EXCEPT ![r] = s] /\ query' = [query EXCEPT ![q] = x]
       \/ /\ step.out = "finished"
          /\ reader' = [reader EXCEPT ![r] = Idle] /\ query' = [query EXCEPT ![q] = y]
       \/ Fail(q)
  BY DEF Produce, Further
<1>11. CASE /\ step.out = "batch"
            /\ reader' = [reader EXCEPT ![r] = s] /\ query' = [query EXCEPT ![q] = x]
  <2>1. StreamOK(g, c, r, s)
    BY <1>1, <1>8, <1>11, EmitKeeps
  <2>2. IsStream(s) /\ s.query = q /\ s.claim = stream.claim
    BY DEF IsStream, Further
  <2> HIDE DEF s, rd, g, c
  <2>3. ScanOK(g, c, q, x, [rd EXCEPT ![r] = s])
    BY <1>1, <1>3, <1>5, <1>7, <2>1, <2>2, ScanEmits
  <2>4. ScanOK(g, c, q, x, reader')
    BY <1>4, <1>11, <2>3
  <2>5. Good(g, c, q, x, reader')
    BY <1>5, <2>4 DEF Good
  <2>6. OthersAsTheyWere(q)
    BY <1>11, <2>2, OneReader
  <2> QED
    BY <1>11, <2>5, <2>6, RowStep DEF g, c
<1>12. CASE /\ step.out = "finished"
            /\ reader' = [reader EXCEPT ![r] = Idle] /\ query' = [query EXCEPT ![q] = y]
  <2>1. y.batches = x.batches \o stream.got /\ y.phase = x.phase /\ y.claimed = x.claimed
        /\ y.splits = x.splits
    BY <1>6 DEF IsRun
  <2>2. Joined(y, x, rd[r])
    BY <1>3, <2>1 DEF Joined
  <2>3. emitNext(g, rd[r].state).out = "finished"
    BY <1>3, <1>12
  <2>4. PlanOK(g, y)
    BY <1>5, <2>1 DEF PlanOK
  <2>5. y.phase = x.phase /\ y.claimed = x.claimed
    BY <2>1
  <2> HIDE DEF rd, y, g, c, step
  <2>6. AnswerOK(g, c, y) /\ ScanOK(g, c, q, y, [rd EXCEPT ![r] = Idle])
    BY <1>1, <1>3, <1>5, <1>6, <1>7, <1>9, <2>2, <2>3, <2>5, ScanFinishes
  <2>7. ScanOK(g, c, q, y, reader')
    BY <1>4, <1>12, <2>6
  <2>8. Good(g, c, q, y, reader')
    BY <2>4, <2>6, <2>7 DEF Good
  <2>9. OthersAsTheyWere(q)
    BY <1>12, OneReader
  <2> QED
    BY <1>12, <2>8, <2>9, RowStep DEF g, c
<1>13. CASE Fail(q)
  BY <1>13, FailRows
<1> QED
  BY <1>10, <1>11, <1>12, <1>13

LEMMA MaxIs ==
  ASSUME NEW i \in Nat, NEW j \in Nat
  PROVE  Max({i, j}) = IF i <= j THEN j ELSE i
<1>1. \E x \in {i, j} : \A y \in {i, j} : x >= y
  OBVIOUS
<1>2. Max({i, j}) \in {i, j} /\ \A y \in {i, j} : Max({i, j}) >= y
  BY <1>1 DEF Max
<1> QED
  BY <1>2

\* An attempt goes by the splits it claims, and no other goes by them.
\* (init: function.ts:301; seedState: splits.ts:160)
LEMMA OpenStreamRows ==
  ASSUME IInv, RInv, NEW q \in Queries, NEW r \in Readers, NEW w \in Workers, NEW claim \in Seq(Nat),
         claim # <<>>, \A i \in DOMAIN claim : claim[i] \in DOMAIN query[q].splits,
         \A i, j \in DOMAIN claim : i < j => claim[i] < claim[j],
         query[q].phase = "scanning",
         \/ /\ reader[r] = Idle /\ query[q].claimed <= Last(claim)
            /\ {claim[i] : i \in DOMAIN claim} = (query[q].claimed + 1)..Last(claim)
         \/ r \in On(q, reader) /\ claim = reader[r].claim,
         OpenStream(q, r, w, claim), UNCHANGED <<site, memo>>
  PROVE  RInv'
<1> DEFINE g == f(q)
           c == Columns(q)
           request == InitRequest(q, claim)
           stream == Stream(q, request, w, claim)
           entered == [query[q] EXCEPT !.claimed = Max({@, Last(claim)}),
                                       !.admitted = @ \cup {InitVersion}]
<1>1. IsRun(query[q]) /\ PlanOK(g, query[q]) /\ AnswerOK(g, c, query[q])
      /\ ScanOK(g, c, q, query[q], reader)
  BY DEF IInv, Typed, RInv, Good
<1>2. g \in Functions
  BY SiteType DEF IInv
<1>3. query[q].splits \in Seq(Token) /\ query[q].claimed \in Nat
  BY <1>1 DEF IsRun
<1>4. claim = [i \in 1..Len(claim) |-> claim[i]] /\ Len(claim) \in Nat \ {0}
      /\ DOMAIN claim = 1..Len(claim)
  BY EmptySeq, LenProperties
<1>5. Last(claim) = claim[Len(claim)] /\ Len(claim) \in DOMAIN claim /\ Last(claim) \in Nat
  BY <1>4, ElementOfSeq DEF Last
<1>6. g.name # "split_endless_cursor" /\ Len(query[q].splits) = Len(Whole(g))
      /\ (g.name # "plain" => \A i \in DOMAIN query[q].splits : query[q].splits[i].payload = Whole(g)[i])
  BY <1>1 DEF PlanOK
<1>7. DOMAIN query[q].splits = DOMAIN Whole(g) /\ DOMAIN query[q].splits = 1..Len(query[q].splits)
      /\ Len(query[q].splits) \in Nat
  BY <1>2, <1>3, <1>6, SplitIs, LenProperties
<1>8. Last(claim) <= Len(query[q].splits)
  BY <1>5, <1>7
<1>9. request.bind = g /\ request.columns = c /\ DOMAIN request.tokens = DOMAIN claim
      /\ \A i \in DOMAIN claim : request.tokens[i] = query[q].splits[claim[i]]
  BY DEF InitRequest, Columns
<1>10. stream.phase = "open" /\ stream.query = q /\ stream.request = request /\ stream.got = <<>>
       /\ stream.claim = claim /\ stream.state = seedState(g, Payloads(request))
       /\ stream.key = key[w] /\ stream.at = w
  BY <1>9 DEF Stream
<1>11. entered.claimed = Max({query[q].claimed, Last(claim)}) /\ entered.phase = "scanning"
       /\ entered.batches = query[q].batches /\ entered.splits = query[q].splits
  BY <1>1 DEF IsRun
<1>12. Fail(q) \/ RunAgain(q) \/ Produce(r, stream, request, entered)
  BY DEF OpenStream
<1>13. CASE Fail(q)
  BY <1>13, FailRows
<1>14. CASE RunAgain(q)
  BY <1>14, RunAgainRows
<1>15. CASE Produce(r, stream, request, entered)
  <2>1. IsStream(stream)
    <3>1. request.tokens \in Seq(Token)
      <4>1. \A i \in DOMAIN claim : query[q].splits[claim[i]] \in Token
        BY <1>3, ElementOfSeq, LenProperties
      <4>2. request.tokens = [i \in 1..Len(claim) |-> query[q].splits[claim[i]]]
        BY <1>4 DEF InitRequest
      <4> QED
        BY <1>4, <4>1, <4>2, IsASeq
    <3>2. request \in Request
      BY <3>1, SiteType DEF IInv, InitRequest, Request
    <3>3. key[w] \in Keys \cup {NoKey}
      BY DEF IInv, Typed
    <3> HIDE DEF request
    <3> QED
      BY <1>10, <3>2, <3>3 DEF Stream, IsStream
  <2>2. IsRun(entered)
    <3>1. InitVersion \in Nat \cup {NoVersion}
      BY CurrentVersion DEF IInv
    <3>2. Max({query[q].claimed, Last(claim)}) \in Nat
      BY <1>3, <1>5, MaxPair
    <3> QED
      BY <1>1, <3>1, <3>2 DEF IsRun
  <2>3. seedState(g, Payloads(request)) = Seed(g, claim)
    <3> DEFINE splits == query[q].splits
    <3> HIDE DEF request, g
    <3>1. \A i \in DOMAIN claim : claim[i] \in DOMAIN Whole(g) /\ claim[i] \in DOMAIN splits
      BY <1>7
    <3>2. g.name # "plain" => \A i \in DOMAIN splits : splits[i].payload = Whole(g)[i]
      BY <1>6
    <3>3. DOMAIN request.tokens = DOMAIN claim /\ \A i \in DOMAIN claim : request.tokens[i] = splits[claim[i]]
      BY <1>9
    <3> HIDE DEF splits
    <3> QED
      BY <1>2, <3>1, <3>2, <3>3, SeedIs
  <2> HIDE DEF request, stream, entered
  <2>4. StreamOK(g, c, r, stream)
    <3>1. stream.request.bind = g /\ stream.request.columns = c /\ DOMAIN stream.claim = 1..Len(claim)
          /\ stream.claim # <<>> /\ stream.got = <<>>
      BY <1>4, <1>9, <1>10
    <3>2. \A i \in DOMAIN stream.claim : stream.claim[i] \in DOMAIN Whole(g)
      BY <1>7, <1>10
    <3>3. \A i, j \in DOMAIN stream.claim : i < j => stream.claim[i] < stream.claim[j]
      BY <1>10
    <3>4. stream.state = [claimed |-> [i \in DOMAIN stream.claim |-> Whole(g)[stream.claim[i]]], idx |-> 1,
                          cur |-> Whole(g)[stream.claim[1]].lo, emitted |-> 0]
      BY <1>10, <2>3 DEF Seed
    <3> HIDE DEF g, c
    <3> QED
      BY <1>2, <1>4, <3>1, <3>2, <3>3, <3>4, SeedStands
  <2>5. entered.claimed = IF query[q].claimed <= Last(claim) THEN Last(claim) ELSE query[q].claimed
    BY <1>3, <1>5, <1>11, MaxIs
  <2>6. IsMap(reader)
    BY DEF IInv, Typed, IsMap
  <2>7. \/ reader[r] = Idle /\ query[q].claimed <= entered.claimed
           /\ Claims(stream) = (query[q].claimed + 1)..entered.claimed
        \/ r \in On(q, reader) /\ stream.claim = reader[r].claim /\ entered.claimed = query[q].claimed
    <3>1. CASE /\ reader[r] = Idle /\ query[q].claimed <= Last(claim)
               /\ {claim[i] : i \in DOMAIN claim} = (query[q].claimed + 1)..Last(claim)
      BY <1>10, <2>5, <3>1 DEF Claims
    <3>2. CASE r \in On(q, reader) /\ claim = reader[r].claim
      <4>1. Claims(reader[r]) \subseteq 1..query[q].claimed
        BY <1>1, <3>2 DEF ScanOK
      <4>2. Last(claim) \in Claims(reader[r])
        BY <1>5, <3>2 DEF Claims
      <4>3. Last(claim) <= query[q].claimed
        BY <4>1, <4>2
      <4> QED
        BY <1>3, <1>5, <1>10, <2>5, <3>2, <4>3
    <3> QED
      BY <3>1, <3>2
  <2>8. ScanOK(g, c, q, entered, [reader EXCEPT ![r] = stream])
    <3>1. entered.phase = query[q].phase /\ entered.claimed \in Nat
      BY <1>3, <1>5, <1>11, <2>5
    <3> HIDE DEF g, c
    <3> QED
      BY <1>1, <1>2, <1>3, <1>10, <1>11, <2>1, <2>4, <2>6, <2>7, <3>1, ScanOpens
  <2>9. PlanOK(g, entered) /\ AnswerOK(g, c, entered)
    <3>1. entered.claimed <= Len(query[q].splits)
      BY <1>1, <1>8, <2>5 DEF PlanOK
    <3>2. PlanOK(g, entered)
      BY <1>1, <1>11, <3>1 DEF PlanOK
    <3> QED
      BY <1>1, <1>11, <3>2 DEF AnswerOK
  <2>10. Good(g, c, q, entered, [reader EXCEPT ![r] = stream])
    BY <2>8, <2>9 DEF Good
  <2>11. reader[r] = Idle \/ reader[r].query = q
    BY DEF On
  <2> QED
    BY <1>9, <1>10, <1>11, <1>15, <2>1, <2>2, <2>10, <2>11, ProduceRows
<1> QED
  BY <1>12, <1>13, <1>14, <1>15

-----------------------------------------------------------------------------
(* The actions, and the rows                                               *)

LEMMA NobodyOn ==
  ASSUME IInv, NEW q \in Queries, query[q].phase # "scanning"
  PROVE  On(q, reader) = {}
BY NotScanned DEF On

\* A step of a query that leaves the readers alone.
LEMMA AloneStep ==
  ASSUME IInv, RInv, NEW q \in Queries, NEW x, query' = [query EXCEPT ![q] = x],
         UNCHANGED <<site, reader>>, Good(f(q), Columns(q), q, x, reader)
  PROVE  RInv'
<1>1. OthersAsTheyWere(q)
  BY DEF OthersAsTheyWere
<1>2. Good(f(q), Columns(q), q, x, reader')
  OBVIOUS
<1> QED
  BY <1>1, <1>2, RowStep

\* y is the run x with the n splits of a page more.
Paged(y, x, plan, n) ==
    /\ DOMAIN plan.payloads = 1..n
    /\ Len(y.splits) = Len(x.splits) + n /\ DOMAIN y.splits = 1..(Len(x.splits) + n)
    /\ \A i \in 1..Len(x.splits) : y.splits[i] = x.splits[i]
    /\ \A i \in 1..(Len(x.splits) + n) :
          ~(i <= Len(x.splits)) =>
              i - Len(x.splits) \in 1..n /\ y.splits[i].payload = plan.payloads[i - Len(x.splits)]
    /\ y.page = x.page + 1 /\ y.claimed = x.claimed /\ y.batches = x.batches
    /\ y.phase = IF plan.more THEN x.phase ELSE "scanning"

\* A page more is a part more of the splits, and the last page the rest of them.
\* (tableFunctionPlan: function.ts:510)
LEMMA PageGood ==
  ASSUME NEW g \in Functions, NEW x, IsRun(x), PlanOK(g, x), x.phase = "planning",
         NEW y, NEW n \in Nat, Paged(y, x, Plan(g, x.page), n)
  PROVE  PlanOK(g, y)
<1> DEFINE m == Len(x.splits)
           plan == Plan(g, x.page)
<1>1. x.splits \in Seq(Token) /\ x.page \in Nat /\ x.claimed = 0 /\ x.batches = <<>>
  BY DEF IsRun, PlanOK
<1>2. m \in Nat /\ DOMAIN x.splits = 1..m /\ Len(Whole(g)) \in Nat
  BY <1>1, SplitIs, LenProperties
<1>3. y.claimed = 0 /\ y.batches = <<>> /\ y.claimed <= Len(y.splits) /\ Len(y.splits) = m + n
  BY <1>1, <1>2 DEF Paged
<1>4. CASE g.name = "split_endless_cursor"
  <2>1. plan.more = TRUE
    BY <1>4 DEF Plan
  <2>2. y.phase = "planning"
    BY <2>1 DEF Paged
  <2> QED
    BY <1>3, <1>4, <2>2 DEF PlanOK
<1>5. CASE g.name = "plain"
  <2>1. plan = [payloads |-> <<[ordinal |-> 0, lo |-> 0, hi |-> 0]>>, more |-> FALSE]
    BY <1>5 DEF Plan
  <2>2. DOMAIN plan.payloads = 1..1 /\ plan.more = FALSE
    BY <2>1
  <2>3. n = 1 /\ y.phase = "scanning"
    <3>1. 1..n = 1..1 /\ y.phase = "scanning"
      BY <2>2 DEF Paged
    <3>2. 1 \in 1..n /\ (n > 1 => n \in 1..n)
      BY <3>1
    <3> QED
      BY <3>1, <3>2
  <2>4. m = 0
    BY <1>5 DEF PlanOK
  <2>5. Len(Whole(g)) = 1
    BY <1>5 DEF Whole
  <2> QED
    BY <1>3, <1>5, <2>3, <2>4, <2>5 DEF PlanOK
<1>6. CASE g.name \notin {"plain", "split_endless_cursor"}
  <2>1. m <= Len(Whole(g)) /\ (g.name = "split_paginated" => m = x.page * PerPage)
        /\ (g.name # "split_paginated" => m = 0)
    BY <1>6 DEF PlanOK
  <2> HIDE DEF m, plan
  <2>2. PICK l \in Nat : PageOf(plan, g, m, l)
    BY <1>1, <1>2, <1>6, <2>1, PlanIsWhole DEF plan
  <2>3. l = n
    BY <2>2 DEF PageOf, Paged, plan
  <2>4. ASSUME NEW i \in 1..(m + n)
        PROVE  y.splits[i].payload = Whole(g)[i]
    <3>1. CASE i <= m
      <4>1. i \in 1..m /\ x.splits[i].payload = Whole(g)[i]
        BY <1>2, <1>6, <3>1 DEF PlanOK
      <4> QED
        BY <4>1 DEF Paged, m
    <3>2. CASE ~(i <= m)
      <4>1. i - m \in 1..n /\ y.splits[i].payload = plan.payloads[i - m]
        BY <3>2 DEF Paged, m, plan
      <4>2. plan.payloads[i - m] = Whole(g)[m + (i - m)]
        BY <2>2, <2>3, <4>1 DEF PageOf
      <4>3. m + (i - m) = i
        BY <1>2
      <4> QED
        BY <4>1, <4>2, <4>3
    <3> QED
      BY <3>1, <3>2
  <2>5. DOMAIN y.splits = 1..(m + n)
    BY DEF Paged, m
  <2>6. m + n <= Len(Whole(g))
    BY <2>2, <2>3 DEF PageOf
  <2>7. CASE plan.more
    <3>1. y.phase = "planning" /\ g.name = "split_paginated" /\ n = PerPage
      BY <2>2, <2>3, <2>7 DEF Paged, PageOf, plan
    <3>2. (x.page + 1) * PerPage = x.page * PerPage + PerPage
      BY <1>1, PerPageAssumption
    <3>3. Len(y.splits) = y.page * PerPage
      BY <1>3, <2>1, <3>1, <3>2 DEF Paged
    <3> QED
      BY <1>3, <1>6, <2>4, <2>5, <2>6, <3>1, <3>3 DEF PlanOK
  <2>8. CASE ~plan.more
    <3>1. y.phase = "scanning" /\ m + n = Len(Whole(g))
      BY <2>2, <2>3, <2>8 DEF Paged, PageOf, plan
    <3> QED
      BY <1>3, <1>6, <2>4, <2>5, <2>6, <3>1 DEF PlanOK
  <2> QED
    BY <2>7, <2>8
<1> QED
  BY <1>4, <1>5, <1>6

LEMMA PlanPageRows ==
  ASSUME IInv, RInv, NEW q \in Queries, NEW w \in Workers, PlanPage(q, w)
  PROVE  RInv'
<1> DEFINE g == f(q)
           c == Columns(q)
           plan == Plan(f(q), query[q].page)
           tokens == [i \in DOMAIN plan.payloads |->
                         buildSplitToken(plan.payloads[i], f(q), planAnchor(q), key[w])]
           x == [query[q] EXCEPT !.splits = @ \o tokens, !.page = @ + 1,
                                 !.phase = IF plan.more THEN @ ELSE "scanning"]
           y == [query[q] EXCEPT !.phase = "failed"]
<1>1. IsRun(query[q]) /\ query[q].phase = "planning"
      /\ PlanOK(g, query[q]) /\ AnswerOK(g, c, query[q])
  BY DEF IInv, Typed, PlanPage, RInv, Good
<1>2. UNCHANGED <<site, reader>> /\ On(q, reader) = {}
  BY <1>1, NobodyOn DEF PlanPage
<1>3. g \in Functions /\ query[q].page \in Nat /\ query[q].splits \in Seq(Token)
      /\ query[q].claimed = 0 /\ query[q].batches = <<>>
  BY <1>1, SiteType DEF IInv, IsRun, PlanOK
<1>4. PICK n \in Nat : DOMAIN plan.payloads = 1..n
  BY <1>3, PlanList DEF IsList
<1>5. CASE query' = Failed(q)
  <2>1. y.phase = "failed" /\ y.splits = query[q].splits /\ y.claimed = query[q].claimed
        /\ y.batches = query[q].batches
    BY <1>1 DEF IsRun
  <2>2. query' = [query EXCEPT ![q] = y]
    BY <1>5 DEF Failed
  <2> HIDE DEF y
  <2>3. PlanOK(g, y) /\ AnswerOK(g, c, y)
    BY <1>1, <2>1 DEF PlanOK, AnswerOK
  <2>4. ScanOK(g, c, q, y, reader)
    BY <1>2, <2>1, NoneOn
  <2> QED
    BY <1>2, <2>2, <2>3, <2>4, AloneStep DEF Good
<1>6. CASE query' = [query EXCEPT ![q].splits = @ \o tokens, ![q].page = @ + 1,
                                 ![q].phase = IF plan.more THEN @ ELSE "scanning"]
  <2> DEFINE S == Token \cup {tokens[i] : i \in 1..n}
             m == Len(query[q].splits)
  <2>1. m \in Nat /\ DOMAIN query[q].splits = 1..m /\ query[q].splits \in Seq(S)
    <3>1. m \in Nat /\ DOMAIN query[q].splits = 1..m /\ query[q].splits = [i \in 1..m |-> query[q].splits[i]]
      BY <1>3, LenProperties
    <3>2. \A i \in 1..m : query[q].splits[i] \in S
      BY <1>3, <3>1, ElementOfSeq
    <3> HIDE DEF S, m
    <3> QED
      BY <3>1, <3>2, IsASeq
  <2>2. tokens \in Seq(S) /\ Len(tokens) = n
    <3>1. tokens = [i \in 1..n |-> tokens[i]]
      BY <1>4
    <3>2. \A i \in 1..n : tokens[i] \in S
      OBVIOUS
    <3> HIDE DEF tokens, S
    <3> QED
      BY <3>1, <3>2, IsASeq
  <2>3. \A i \in 1..n : tokens[i].payload = plan.payloads[i]
    <3>1. ASSUME NEW i \in 1..n
          PROVE  tokens[i].payload = plan.payloads[i]
      <4>1. tokens[i] = buildSplitToken(plan.payloads[i], f(q), planAnchor(q), key[w])
        BY <1>4
      <4> HIDE DEF tokens, plan
      <4> QED
        BY <4>1 DEF buildSplitToken
    <3> QED
      BY <3>1
  <2>4. /\ x.splits = query[q].splits \o tokens /\ x.page = query[q].page + 1
        /\ x.phase = IF plan.more THEN query[q].phase ELSE "scanning"
        /\ x.claimed = query[q].claimed /\ x.batches = query[q].batches
    <3> HIDE DEF tokens, plan
    <3> QED
      BY <1>1 DEF IsRun
  <2>5. query' = [query EXCEPT ![q] = x]
    BY <1>6
  <2> HIDE DEF x, S, tokens
  <2>6. Len(x.splits) = m + n /\ DOMAIN x.splits = 1..(m + n)
        /\ \A i \in 1..(m + n) : x.splits[i] = IF i <= m THEN query[q].splits[i] ELSE tokens[i - m]
    <3> DEFINE all == query[q].splits \o tokens
    <3>1. all \in Seq(S) /\ Len(all) = m + n
          /\ \A i \in 1..(m + n) : all[i] = IF i <= m THEN query[q].splits[i] ELSE tokens[i - m]
      BY <2>1, <2>2, ConcatProperties
    <3>2. x.splits = all
      BY <2>4
    <3> HIDE DEF all, m
    <3> QED
      BY <2>1, <3>1, <3>2, LenProperties
  <2>7. \A i \in 1..m : x.splits[i] = query[q].splits[i]
    BY <2>1, <2>6
  <2>8. \A i \in 1..(m + n) : ~(i <= m) => i - m \in 1..n /\ x.splits[i].payload = plan.payloads[i - m]
    <3> HIDE DEF plan, m
    <3> QED
      BY <2>1, <2>3, <2>6
  <2>9. Paged(x, query[q], plan, n)
    <3> HIDE DEF plan
    <3> QED
      BY <1>4, <2>4, <2>6, <2>7, <2>8 DEF Paged
  <2>10. PlanOK(g, x)
    <3> HIDE DEF m
    <3> QED
      BY <1>1, <1>3, <2>9, PageGood
  <2>11. AnswerOK(g, c, x)
    <3>1. x.phase # "done" /\ x.batches = query[q].batches
      BY <1>1, <2>4
    <3> QED
      BY <1>1, <3>1 DEF AnswerOK
  <2>12. ScanOK(g, c, q, x, reader)
    <3>1. DOMAIN x.batches = {} /\ 1..x.claimed = {}
      BY <1>3, <2>4
    <3>2. Scanned(q, x, reader) = {}
      BY <3>1 DEF Scanned
    <3> QED
      BY <1>2, <3>1, <3>2 DEF ScanOK
  <2> QED
    BY <1>2, <2>5, <2>10, <2>11, <2>12, AloneStep DEF Good
<1> QED
  BY <1>5, <1>6 DEF PlanPage

\* A plain function scanned without a plan is one batch of all its rows.
LEMMA ScanUnplannedRows ==
  ASSUME IInv, RInv, NEW q \in Queries, NEW w \in Workers, ScanUnplanned(q, w)
  PROVE  RInv'
<1> DEFINE g == f(q)
           c == Columns(q)
           batch == [lo |-> 0, hi |-> g.n, index |-> NoIndex, columns |-> c, reader |-> w]
           x == [query[q] EXCEPT !.phase = "done", !.batches = <<batch>>]
           y == [query[q] EXCEPT !.phase = "failed"]
<1>1. IsRun(query[q]) /\ query[q].phase = "planning"
      /\ PlanOK(g, query[q]) /\ AnswerOK(g, c, query[q])
  BY DEF IInv, Typed, ScanUnplanned, RInv, Good
<1>2. UNCHANGED <<site, reader>> /\ On(q, reader) = {}
  BY <1>1, NobodyOn DEF ScanUnplanned
<1>3. g \in Functions /\ g.n \in Nat
  BY SiteType, SplitIs DEF IInv
<1>4. (g.name = "plain" /\ query' = [query EXCEPT ![q] = x]) \/ query' = [query EXCEPT ![q] = y]
  BY DEF ScanUnplanned, Failed, Columns
<1>5. CASE query' = [query EXCEPT ![q] = y]
  <2>1. y.phase = "failed" /\ y.splits = query[q].splits /\ y.claimed = query[q].claimed
        /\ y.batches = query[q].batches
    BY <1>1 DEF IsRun
  <2> HIDE DEF y
  <2>2. PlanOK(g, y) /\ AnswerOK(g, c, y)
    BY <1>1, <2>1 DEF PlanOK, AnswerOK
  <2>3. ScanOK(g, c, q, y, reader)
    BY <1>2, <2>1, NoneOn
  <2> QED
    BY <1>2, <1>5, <2>2, <2>3, AloneStep DEF Good
<1>6. CASE g.name = "plain" /\ query' = [query EXCEPT ![q] = x]
  <2>1. x.phase = "done" /\ x.splits = query[q].splits /\ x.claimed = query[q].claimed
        /\ x.batches = <<batch>>
    <3> HIDE DEF batch
    <3> QED
      BY <1>1 DEF IsRun
  <2>2. batch \in Batch(g, c) /\ batch.lo = 0 /\ batch.hi = g.n
    BY <1>3 DEF Batch, NoIndex
  <2> HIDE DEF x, batch
  <2>3. PlanOK(g, x)
    BY <1>1, <1>6, <2>1 DEF PlanOK
  <2>4. <<batch>> \in Seq(Batch(g, c)) /\ DOMAIN <<batch>> = {1} /\ <<batch>>[1] = batch
    <3> HIDE DEF g, c
    <3> QED
      BY <2>2
  <2>5. Cover(x.batches, 0, g.n)
    BY <1>3, <2>1, <2>2, <2>4 DEF Cover
  <2>6. Apart(x.batches) /\ ~Numbered(g)
    BY <1>6, <2>1, <2>4 DEF Apart, Numbered
  <2>7. AnswerOK(g, c, x)
    BY <2>1, <2>4, <2>5, <2>6 DEF AnswerOK
  <2>8. ScanOK(g, c, q, x, reader)
    BY <1>2, <2>1, NoneOn
  <2> QED
    BY <1>2, <1>6, <2>3, <2>7, <2>8, AloneStep DEF Good
<1> QED
  BY <1>4, <1>5, <1>6

LEMMA ClaimRows ==
  ASSUME IInv, RInv, NEW q \in Queries, NEW r \in Readers, NEW w \in Workers, Claim(q, r, w)
  PROVE  RInv'
<1> DEFINE have == query[q].claimed
           last == Min({have + site.claim, Len(query[q].splits)})
           claim == [i \in 1..(last - have) |-> have + 1 + i - 1]
<1>1. IsRun(query[q]) /\ have \in Nat /\ query[q].splits \in Seq(Token)
  BY DEF IInv, Typed, IsRun
<1>2. have < Len(query[q].splits) /\ query[q].phase = "scanning"
  BY DEF Claim
<1>3. site.claim \in Nat \ {0} /\ Len(query[q].splits) \in Nat
      /\ DOMAIN query[q].splits = 1..Len(query[q].splits)
  BY <1>1, SiteType, LenProperties DEF IInv
<1>4. last \in {have + site.claim, Len(query[q].splits)} /\ last <= Len(query[q].splits)
  <2>1. have + site.claim \in Int /\ Len(query[q].splits) \in Int
    BY <1>1, <1>3
  <2> QED
    BY <2>1, MinPair
<1> DEFINE k == last - have
<1>5. k \in Nat \ {0} /\ last \in Nat /\ have + k = last
  <2> HIDE DEF last
  <2> QED
    BY <1>1, <1>2, <1>3, <1>4
<1>6. OpenStream(q, r, w, claim) /\ reader[r].phase = "idle" /\ UNCHANGED <<site, memo>>
  BY DEF Claim
<1> HIDE DEF last
<1>7. claim = [i \in 1..k |-> have + i]
  <2>1. \A i \in 1..k : have + 1 + i - 1 = have + i
    BY <1>1
  <2> HIDE DEF have
  <2> QED
    BY <2>1
<1>8. claim \in Seq(Nat) /\ Len(claim) = k /\ DOMAIN claim = 1..k /\ \A i \in 1..k : claim[i] = have + i
  <2>1. \A i \in 1..k : have + i \in Nat
    BY <1>1
  <2> HIDE DEF have, k, claim
  <2>2. claim \in Seq(Nat) /\ DOMAIN claim = 1..k /\ \A i \in 1..k : claim[i] = have + i
    BY <1>5, <1>7, <2>1, IsASeq
  <2> QED
    BY <1>5, <2>2, LenProperties
<1> HIDE DEF claim, k, have
<1>9. claim # <<>> /\ Last(claim) = last
  BY <1>5, <1>8 DEF Last
<1>10. \A i \in DOMAIN claim : claim[i] \in DOMAIN query[q].splits
  BY <1>1, <1>3, <1>4, <1>5, <1>8
<1>11. \A i, j \in DOMAIN claim : i < j => claim[i] < claim[j]
  BY <1>1, <1>8
<1>12. {claim[i] : i \in DOMAIN claim} = (have + 1)..last
  <2>1. \A d \in (have + 1)..last : d - have \in 1..k /\ have + (d - have) = d
    BY <1>1, <1>5
  <2>2. \A i \in 1..k : have + i \in (have + 1)..last
    BY <1>1, <1>5
  <2> QED
    BY <1>8, <2>1, <2>2
<1>13. reader[r] = Idle /\ query[q].claimed <= Last(claim)
       /\ {claim[i] : i \in DOMAIN claim} = (query[q].claimed + 1)..Last(claim)
  <2>1. reader[r] = Idle
    BY <1>6 DEF IInv, Typed, IsStream
  <2> QED
    BY <1>1, <1>5, <1>9, <1>12, <2>1 DEF have
<1> QED
  BY <1>2, <1>6, <1>8, <1>9, <1>10, <1>11, <1>13, OpenStreamRows

\* A reader's stream on a query that keeps its rows.
LEMMA ReaderOn ==
  ASSUME IInv, RInv, NEW q \in Queries, NEW r \in Readers, reader[r].phase = "open", reader[r].query = q
  PROVE  /\ r \in On(q, reader) /\ IsStream(reader[r]) /\ query[q].phase = "scanning"
         /\ StreamOK(f(q), Columns(q), r, reader[r])
         /\ reader[r].claim \in Seq(Nat) /\ reader[r].claim # <<>>
         /\ \A i \in DOMAIN reader[r].claim : reader[r].claim[i] \in DOMAIN query[q].splits
<1>1. IsStream(reader[r]) /\ StreamStands(reader[r], query[q])
  BY OpenReader
<1>2. reader[r] # Idle
  BY DEF Idle
<1>3. r \in On(q, reader)
  BY <1>2 DEF On
<1>4. StreamOK(f(q), Columns(q), r, reader[r])
  BY <1>3 DEF RInv, Good, ScanOK
<1> QED
  BY <1>1, <1>3, <1>4 DEF StreamStands, IsStream

LEMMA RetryRows ==
  ASSUME IInv, RInv, NEW q \in Queries, NEW r \in Readers, NEW w \in Workers, Retry(q, r, w)
  PROVE  RInv'
<1>1. /\ r \in On(q, reader) /\ IsStream(reader[r]) /\ query[q].phase = "scanning"
      /\ StreamOK(f(q), Columns(q), r, reader[r])
      /\ reader[r].claim \in Seq(Nat) /\ reader[r].claim # <<>>
      /\ \A i \in DOMAIN reader[r].claim : reader[r].claim[i] \in DOMAIN query[q].splits
  BY ReaderOn DEF Retry
<1>2. \A i, j \in DOMAIN reader[r].claim : i < j => reader[r].claim[i] < reader[r].claim[j]
  BY <1>1 DEF StreamOK, StreamTyped
<1>3. OpenStream(q, r, w, reader[r].claim) /\ UNCHANGED <<site, memo>>
  BY DEF Retry
<1> QED
  BY <1>1, <1>2, <1>3, OpenStreamRows

\* A turn goes by the request of the stream, and goes on from its state.
LEMMA TurnRows ==
  ASSUME IInv, RInv, NEW q \in Queries, NEW r \in Readers, NEW w \in Workers, Turn(q, r, w)
  PROVE  RInv'
<1>1. /\ r \in On(q, reader) /\ IsStream(reader[r]) /\ query[q].phase = "scanning"
      /\ StreamOK(f(q), Columns(q), r, reader[r])
  BY ReaderOn DEF Turn
<1>2. reader[r].query = q /\ site' = site /\ IsRun(query[q])
  BY DEF Turn, IInv, Typed
<1>3. Parsed(w, reader[r].request) = reader[r].request
  BY ParsedIsCarried DEF IInv
<1>4. Fail(q) \/ Produce(r, reader[r], reader[r].request, query[q])
  BY <1>3 DEF Turn
<1>5. reader[r].request.bind = f(q) /\ reader[r].request.columns = Columns(q)
  BY <1>1 DEF StreamOK, StreamTyped
<1>6. reader = [reader EXCEPT ![r] = reader[r]]
  BY DEF IInv, Typed
<1>7. Good(f(q), Columns(q), q, query[q], [reader EXCEPT ![r] = reader[r]])
  BY <1>6 DEF RInv
<1>8. CASE Fail(q)
  BY <1>2, <1>8, FailRows
<1>9. CASE Produce(r, reader[r], reader[r].request, query[q])
  BY <1>1, <1>2, <1>5, <1>7, <1>9, ProduceRows
<1> QED
  BY <1>4, <1>8, <1>9

\* A cursor that has grown old has the rows it had.
LEMMA OutliveRows ==
  ASSUME IInv, RInv, NEW r \in Readers, Outlive(r)
  PROVE  RInv'
<1> DEFINE q == reader[r].query
           s == [reader[r] EXCEPT !.old = TRUE]
<1>1. IsStream(reader[r]) /\ q \in Queries
  BY DEF Outlive, IInv, Typed, IsStream, Idle
<1>2. /\ r \in On(q, reader) /\ StreamOK(f(q), Columns(q), r, reader[r])
  BY <1>1, ReaderOn DEF Outlive
<1>3. /\ IsStream(s) /\ s.query = q /\ s.claim = reader[r].claim
      /\ s.request = reader[r].request /\ s.state = reader[r].state /\ s.got = reader[r].got
  BY <1>1 DEF IsStream
<1>4. reader' = [reader EXCEPT ![r] = s] /\ UNCHANGED <<site, query>>
  BY DEF Outlive
<1>5. PlanOK(f(q), query[q]) /\ AnswerOK(f(q), Columns(q), query[q])
      /\ ScanOK(f(q), Columns(q), q, query[q], reader)
  BY <1>1 DEF RInv, Good
<1>6. f(q) \in Functions /\ IsMap(reader) /\ query' = [query EXCEPT ![q] = query[q]]
  BY <1>1, <1>4, SiteType DEF IInv, Typed, IsMap
<1> HIDE DEF s, q
<1>7. StreamOK(f(q), Columns(q), r, s)
  BY <1>2, <1>3 DEF StreamOK, StreamTyped, Emitted, InOrder
<1>8. ScanOK(f(q), Columns(q), q, query[q], reader')
  BY <1>2, <1>3, <1>4, <1>5, <1>6, <1>7, ScanEmits
<1>9. OthersAsTheyWere(q)
  BY <1>1, <1>3, <1>4, OneReader DEF q
<1> QED
  BY <1>1, <1>4, <1>5, <1>6, <1>8, <1>9, RowStep DEF Good

\* Every split has been claimed and every attempt has finished.
LEMMA FinishRows ==
  ASSUME IInv, RInv, NEW q \in Queries, Finish(q)
  PROVE  RInv'
<1> DEFINE g == f(q)
           c == Columns(q)
           x == [query[q] EXCEPT !.phase = "done"]
<1>1. /\ IsRun(query[q]) /\ query[q].phase = "scanning" /\ query[q].claimed = Len(query[q].splits)
      /\ PlanOK(g, query[q]) /\ AnswerOK(g, c, query[q]) /\ ScanOK(g, c, q, query[q], reader)
  BY DEF IInv, Typed, Finish, RInv, Good
<1>2. query' = [query EXCEPT ![q] = x] /\ UNCHANGED <<site, reader>>
  BY DEF Finish
<1>3. On(q, reader) = {}
  BY DEF IInv, Typed, IsStream, Finish, On
<1>4. g \in Functions /\ g.n \in Nat
  BY SiteType, SplitIs DEF IInv
<1>5. x.phase = "done" /\ x.splits = query[q].splits /\ x.claimed = query[q].claimed
      /\ x.batches = query[q].batches
  BY <1>1 DEF IsRun
<1> HIDE DEF x
<1>6. g.name # "split_endless_cursor" /\ query[q].claimed = Len(Whole(g))
  BY <1>1 DEF PlanOK
<1>7. PlanOK(g, x)
  BY <1>1, <1>5, <1>6 DEF PlanOK
<1>8. Scanned(q, query[q], reader) = DOMAIN Whole(g)
  BY <1>3, <1>4, <1>6, SplitIs DEF Scanned
<1>9. \A d \in DOMAIN Whole(g) : Cover(x.batches, Whole(g)[d].lo, Whole(g)[d].hi)
  BY <1>1, <1>5, <1>8 DEF ScanOK
<1>10. ASSUME AllPlanned(g), NEW row \in 0..(g.n - 1)
       PROVE  \E i \in DOMAIN x.batches : x.batches[i].lo <= row /\ row < x.batches[i].hi
  <2>1. HasRows(Whole(g), g.n)
    BY <1>4, <1>10, WholeDivides
  <2>2. PICK d \in DOMAIN Whole(g) : Whole(g)[d].lo <= row /\ row < Whole(g)[d].hi
    BY <2>1 DEF HasRows
  <2>3. Whole(g)[d].lo \in Nat /\ Whole(g)[d].hi \in Nat
    BY <1>4, SplitIs
  <2>4. row \in Whole(g)[d].lo..(Whole(g)[d].hi - 1)
    BY <1>4, <2>2, <2>3
  <2> QED
    BY <1>9, <2>4 DEF Cover
<1>11. AllPlanned(g) => Cover(x.batches, 0, g.n)
  BY <1>10 DEF Cover
<1>12. AnswerOK(g, c, x)
  BY <1>1, <1>5, <1>11 DEF AnswerOK
<1>13. ScanOK(g, c, q, x, reader)
  BY <1>3, <1>5, NoneOn
<1> QED
  BY <1>2, <1>7, <1>12, <1>13, AloneStep DEF Good

LEMMA InitRows ==
  ASSUME Init
  PROVE  RInv
<1>1. IInv
  BY InitStands
<1>2. ASSUME NEW q \in Queries
      PROVE  Good(f(q), Columns(q), q, query[q], reader)
  <2>1. query[q] = NewRun(0) /\ On(q, reader) = {}
    BY DEF Init, On
  <2>2. f(q) \in Functions
    BY <1>1, SiteType DEF IInv
  <2>3. PlanOK(f(q), query[q]) /\ AnswerOK(f(q), Columns(q), query[q])
    BY <2>1, <2>2, NewRunGood
  <2>4. query[q].phase # "scanning"
    BY <2>1 DEF NewRun
  <2>5. ScanOK(f(q), Columns(q), q, query[q], reader)
    BY <2>1, <2>4, NoneOn
  <2> QED
    BY <2>3, <2>5 DEF Good
<1> QED
  BY <1>2 DEF RInv

LEMMA StepRows ==
  ASSUME IInv, RInv, [Next]_vars
  PROVE  RInv'
<1>1. ASSUME UNCHANGED <<site, query, reader>>
      PROVE  RInv'
  <2>1. \A q \in Queries : f(q)' = f(q) /\ Columns(q)' = Columns(q)
    BY <1>1 DEF f, Columns
  <2> QED
    BY <1>1, <2>1 DEF RInv
<1>2. ASSUME NEW q \in Queries, Progress(q)
      PROVE  RInv'
  BY <1>2, PlanPageRows, ScanUnplannedRows, ClaimRows, TurnRows, FinishRows DEF Progress
<1>3. ASSUME NEW q \in Queries, NEW r \in Readers, NEW w \in Workers, Retry(q, r, w) \/ TurnLost(q, r, w)
      PROVE  RInv'
  BY <1>1, <1>3, RetryRows DEF TurnLost
<1>4. ASSUME NEW b \in DOMAIN site.backends, Publish(b)
      PROVE  RInv'
  BY <1>1, <1>4 DEF Publish
<1>5. ASSUME NEW w \in Workers, Rotate(w)
      PROVE  RInv'
  BY <1>1, <1>5 DEF Rotate
<1>6. CASE UNCHANGED vars
  BY <1>1, <1>6 DEF vars
<1> QED
  BY <1>2, <1>3, <1>4, <1>5, <1>6, OutliveRows DEF Next

LEMMA RowsStand ==
  ASSUME AttachKeptApart
  PROVE  Spec => [](IInv /\ RInv)
<1>1. Init => IInv /\ RInv
  BY InitStands, InitRows
<1>2. IInv /\ RInv /\ [Next]_vars => IInv' /\ RInv'
  BY StepStands, StepRows
<1> QED
  BY <1>1, <1>2, PTL DEF Spec

\* The functions of a deployment are asked for splits that have all their rows.
SplitsAskedFor ==
    \A s \in Sites, q \in Queries :
        LET g == s.queries[q].f
        IN  g.name = "split_zero" \/ g.name = "split_endless_cursor" \/ g.n = 0 \/ AllPlanned(g)

LEMMA CoveredOnce ==
  ASSUME NEW T, NEW bs \in Seq(T), Apart(bs), \A i \in DOMAIN bs : bs[i].lo \in Nat /\ bs[i].hi \in Nat,
         NEW row \in Nat
  PROVE  Cardinality(Covers(bs, row)) <= 1
<1>1. \A i, j \in Covers(bs, row) : i = j
  <2>1. SUFFICES ASSUME NEW i \in Covers(bs, row), NEW j \in Covers(bs, row), i < j
                 PROVE  FALSE
    <3>1. Covers(bs, row) \subseteq Nat
      BY LenProperties DEF Covers
    <3> QED
      BY <3>1
  <2>2. i \in DOMAIN bs /\ bs[i].lo <= row /\ row < bs[i].hi
    BY DEF Covers
  <2>3. j \in DOMAIN bs /\ bs[j].lo <= row /\ row < bs[j].hi
    BY DEF Covers
  <2>4. bs[i].hi <= bs[j].lo \/ bs[j].hi <= bs[i].lo
    BY <2>1, <2>2, <2>3 DEF Apart
  <2> QED
    BY <2>2, <2>3, <2>4
<1>2. CASE Covers(bs, row) = {}
  BY <1>2, FS_EmptySet
<1>3. CASE Covers(bs, row) # {}
  <2>1. PICK i \in Covers(bs, row) : TRUE
    BY <1>3
  <2>2. Covers(bs, row) = {i}
    BY <1>1, <2>1
  <2>3. Cardinality({i}) = 1
    BY FS_Singleton
  <2> QED
    BY <2>2, <2>3
<1> QED
  BY <1>2, <1>3

\* A query that is answered has every row of its function, each once: whatever
\* was opened again, sent again or taken by another worker, the attempts that
\* finish have the rows of the splits they claimed, and no two claim the same.
\* (emitNext, resolveSplitPayloads, parseCarriedInitRequest: splits.ts:189,
\* function.ts:156, carried-init-request.ts:112)
THEOREM RowsExactlyOnceHolds ==
  ASSUME AttachKeptApart, SplitsAskedFor
  PROVE  Spec => []RowsExactlyOnce
<1>1. ASSUME IInv, RInv, NEW q \in Queries
      PROVE  /\ \A i \in DOMAIN query[q].batches :
                    /\ 0 <= query[q].batches[i].lo /\ query[q].batches[i].hi <= f(q).n
                    /\ query[q].batches[i].columns = site.queries[q].columns
             /\ \A row \in 0..(f(q).n - 1) :
                    /\ Cardinality(Covers(query[q].batches, row)) <= 1
                    /\ (query[q].phase = "done" /\ f(q).name # "split_zero") =>
                            Covers(query[q].batches, row) # {}
  <2> DEFINE g == f(q)
             bs == query[q].batches
  <2>1. g \in Functions /\ g.n \in Nat
    BY <1>1, SiteType, SplitIs DEF IInv
  <2>2. PlanOK(g, query[q]) /\ AnswerOK(g, Columns(q), query[q])
    BY <1>1 DEF RInv, Good
  <2>3. bs \in Seq(Batch(g, Columns(q))) /\ Apart(bs)
    BY <2>2 DEF AnswerOK
  <2>4. \A i \in DOMAIN bs : bs[i] \in Batch(g, Columns(q))
    BY <2>3, ElementOfSeq, LenProperties
  <2>5. \A i \in DOMAIN bs : bs[i].lo \in Nat /\ bs[i].hi \in 0..g.n /\ bs[i].columns = Columns(q)
    BY <2>4 DEF Batch
  <2>6. \A row \in Nat : Cardinality(Covers(bs, row)) <= 1
    <3>1. \A i \in DOMAIN bs : bs[i].lo \in Nat /\ bs[i].hi \in Nat
      BY <2>1, <2>5
    <3> HIDE DEF bs, g
    <3> QED
      BY <2>3, <3>1, CoveredOnce
  <2>7. ASSUME query[q].phase = "done", g.name # "split_zero", NEW row \in 0..(g.n - 1)
        PROVE  Covers(bs, row) # {}
    <3>1. g.name # "split_endless_cursor"
      BY <2>2, <2>7 DEF PlanOK
    <3>2. g.n # 0
      BY <2>7
    <3>3. site \in Sites
      BY <1>1 DEF IInv, Typed
    <3>4. AllPlanned(g)
      BY <2>7, <3>1, <3>2, <3>3 DEF SplitsAskedFor, f
    <3>5. Cover(bs, 0, g.n)
      BY <2>2, <2>7, <3>4 DEF AnswerOK
    <3> QED
      BY <2>7, <3>5 DEF Cover, Covers
  <2> QED
    BY <2>1, <2>5, <2>6, <2>7 DEF Columns
<1>2. IInv /\ RInv => RowsExactlyOnce
  BY <1>1 DEF RowsExactlyOnce
<1> QED
  BY <1>2, RowsStand, PTL

\* The functions with batch indices have enough of them for their splits: as
\* many as a split has batches.
IndicesSuffice ==
    \A s \in Sites, q \in Queries :
        LET g == s.queries[q].f
        IN  g.name = "split_batch_index" => g.n <= g.splits * (Stride * g.batch)

\* The indices of a query's batches are all different, and those of one reader
\* ascend in the order it finishes: the splits it claims later are later ones.
\* (emitNext: splits.ts:222)
THEOREM IndexAscendsHolds ==
  ASSUME AttachKeptApart, IndicesSuffice
  PROVE  Spec => []IndexAscends
<1>1. ASSUME IInv, RInv, NEW q \in Queries, f(q).name = "split_batch_index"
      PROVE  Ascend(query[q].batches)
  <2>1. site \in Sites
    BY <1>1 DEF IInv, Typed
  <2>2. Numbered(f(q))
    BY <1>1, <2>1 DEF IndicesSuffice, Numbered, f
  <2> QED
    BY <1>1, <2>2 DEF RInv, Good, AnswerOK
<1>2. IInv /\ RInv => IndexAscends
  BY <1>1 DEF IndexAscends, Ascend
<1> QED
  BY <1>2, RowsStand, PTL
=============================================================================
