------------------------ MODULE CatalogSessionsProofs ------------------------
(***************************************************************************)
(* What an attachment, a transaction and a ticket are good for, for any    *)
(* callers, workers, catalogs, keys, clocks within the allowance, and any  *)
(* number of attaches, tickets, changes and restarts.                      *)
(*                                                                         *)
(* Every value given out is the seal of what was attached, and no two      *)
(* attachments share their random bytes; a worker's memory holds exactly   *)
(* the attachments made at it since it started and not detached.  What a   *)
(* seal is opened by and what is found in memory follow from these.        *)
(***************************************************************************)
EXTENDS CatalogSessions, FiniteSetTheorems, TLAPS

\* The random bytes of an attachment's value.
Uuid(a) == a.value.payload.uuid

Plaintext(a) == [uuid |-> Uuid(a), bytes |-> Bytes(a.catalog, Uuid(a), a.options)]

\* An attachment's value seals what was attached.
Sealed(a) ==
    /\ a.value = sealAttach(Plaintext(a), a.by, a.key)
    /\ Uuid(a) \in Nat
    /\ a.name = site.catalogs[a.catalog].name
    /\ a.key \in IF site.http THEN Keys ELSE {NoKey}
    /\ a.life <= life[a.at]

\* Made at this start of its worker, and not detached.
Standing(a) == a.life = life[a.at] /\ a.value \notin detached

AttachedStand ==
    /\ \A a \in attached : Sealed(a) /\ Uuid(a) <= Cardinality(attached)
    /\ \A a, b \in attached : Uuid(a) = Uuid(b) => a = b

\* Memory and the attachments standing are the same.
MemoryStands ==
    /\ \A a \in attached :
          Standing(a) /\ site.catalogs[a.catalog].kind \in InMemoryKinds =>
              Uuid(a) \in DOMAIN states[a.at] /\ states[a.at][Uuid(a)].catalog = a.catalog
    /\ \A w \in Workers : \A id \in DOMAIN states[w] :
          /\ DOMAIN states[w][id] = {"catalog", "version", "schemas"}
          /\ site.catalogs[states[w][id].catalog].kind \in InMemoryKinds
          /\ \E a \in attached : /\ Uuid(a) = id /\ a.at = w /\ Standing(a)
                                 /\ a.catalog = states[w][id].catalog

BegunStand ==
    \A t \in begun : site.http => t.value.aad = transactionAad(t.by, t.parent)

\* What a ticket's claims are.
Granted(t) ==
    LET claims == t.token.payload
    IN  /\ t.token = sealBytes(claims, t.key, attachTicketAad(callerPrincipal(t.by)))
        /\ claims.catalogName = t.name /\ claims.options = t.options
        /\ claims.issuedAt \in Nat /\ claims.expiresAt \in Nat
        /\ 2 * claims.issuedAt <= Clock(t.at)
        /\ t.ttl # 0 => claims.expiresAt # 0 /\ 2 * (claims.expiresAt - claims.issuedAt) <= t.ttl
        /\ site.ceiling # 0 => /\ claims.expiresAt # 0
                               /\ claims.expiresAt - claims.issuedAt <= site.ceiling

TicketsStand == \A t \in tickets : Granted(t)

IInv ==
    /\ TypeOK /\ Start <= now
    /\ AttachedStand /\ MemoryStands /\ BegunStand /\ TicketsStand /\ TicketRestoresAttach

-----------------------------------------------------------------------------
(* The deployment                                                          *)

LEMMA SiteType ==
  ASSUME TypeOK
  PROVE  /\ site.http \in BOOLEAN /\ site.scope \in BOOLEAN /\ site.composite \in BOOLEAN
         /\ site.catalogs \in Seq(Catalogs) /\ site.ceiling \in Nat
         /\ site.callers \subseteq Callers
         /\ site.drifts \subseteq Nat
         /\ site.composite \/ Len(site.catalogs) = 1
         /\ \A d, e \in site.drifts : d - e <= 2 * Skew
BY SitesAssumption DEF TypeOK, Bounds

LEMMA ClockType ==
  ASSUME TypeOK, Start <= now, NEW w \in Workers
  PROVE  Clock(w) \in Nat /\ Clock(w) >= Start
BY SiteType, TimeAssumption DEF TypeOK, Clock

\* The route of an attachment's value leads to the catalog attached.
LEMMA RouteOfAttached ==
  ASSUME TypeOK, NEW a, Sealed(a), a.catalog \in DOMAIN site.catalogs
  PROVE  /\ _route(a.value.payload.bytes) = a.catalog
         /\ site.catalogs[a.catalog].kind \in InMemoryKinds =>
               a.value.payload.bytes.id = Uuid(a)
<1>1. a.value.payload = Plaintext(a)
  BY DEF Sealed, sealAttach, sealBytes
<1>2. a.value.payload.bytes = Bytes(a.catalog, Uuid(a), a.options)
  BY <1>1 DEF Plaintext
<1>3. site.composite \/ a.catalog = 1
  BY SiteType
<1>4. _route(a.value.payload.bytes) = a.catalog
  BY <1>2, <1>3 DEF _route, Bytes, Stamp
<1>5. site.catalogs[a.catalog].kind \in InMemoryKinds => a.value.payload.bytes.id = Uuid(a)
  BY <1>2 DEF Bytes, Stamp, InMemoryKinds
<1>6. QED
  BY <1>4, <1>5

\* An attachment's value opens for the identity and the key of its seal.
LEMMA OpensForItsCaller ==
  ASSUME TypeOK, NEW a, Sealed(a), NEW c, NEW w \in Workers
  PROVE  /\ site.http => (UnwrapsAttach(a.value, c, w) <=> key[w] = a.key /\ SameCaller(c, a.by))
         /\ ~site.http => UnwrapsAttach(a.value, c, w)
<1>1. key[w] \in IF site.http THEN Keys ELSE {NoKey}
  BY DEF TypeOK
<1>2. site.http => key[w] # NoKey /\ a.key # NoKey
  BY <1>1, KeysAssumption DEF Sealed
<1>3. site.http => a.value.key = a.key /\ a.value.aad = identityTail(a.by)
  BY <1>2 DEF Sealed, sealAttach, sealBytes, attachAad
<1>4. QED
  BY <1>1, <1>2, <1>3 DEF UnwrapsAttach, Opens, attachAad, SameCaller

-----------------------------------------------------------------------------
(* The properties follow from the invariant                                *)

LEMMA IInvOwn == IInv => OwnAttachment
<1> SUFFICES ASSUME IInv, NEW c \in site.callers, NEW w \in Workers, NEW a \in attached,
                    "ok" \in {ReadAnswer(c, w, a.value), ScanAnswer(c, w, a.value)}
             PROVE  /\ site.http => SameCaller(c, a.by) /\ key[w] = a.key
                    /\ site.catalogs[_route(a.value.payload.bytes)].name = a.name
                    /\ site.catalogs[a.catalog].kind \in InMemoryKinds =>
                          a.value \notin detached /\ w = a.at /\ life[w] = a.life
  BY DEF OwnAttachment
<1>1. Sealed(a) /\ a.catalog \in DOMAIN site.catalogs
  BY DEF IInv, AttachedStand, TypeOK
<1>2. ReadAnswer(c, w, a.value) = "ok"
  BY DEF ScanAnswer
<1>3. UnwrapsAttach(a.value, c, w) /\ Reads(w, a.value.payload.bytes)
  BY <1>2 DEF ReadAnswer
<1>4. site.http => SameCaller(c, a.by) /\ key[w] = a.key
  BY <1>1, <1>3, OpensForItsCaller DEF IInv
<1>5. _route(a.value.payload.bytes) = a.catalog
  BY <1>1, RouteOfAttached DEF IInv
<1>6. ASSUME site.catalogs[a.catalog].kind \in InMemoryKinds
      PROVE  a.value \notin detached /\ w = a.at /\ life[w] = a.life
  <2>1. a.value.payload.bytes.id = Uuid(a)
    BY <1>1, <1>6, RouteOfAttached DEF IInv
  <2>2. Uuid(a) \in DOMAIN states[w]
    BY <1>3, <1>5, <1>6, <2>1 DEF Reads, Kept
  <2>3. PICK b \in attached : Uuid(b) = Uuid(a) /\ b.at = w /\ Standing(b)
    BY <2>2 DEF IInv, MemoryStands
  <2>4. b = a
    BY <2>3 DEF IInv, AttachedStand
  <2>5. QED
    BY <2>3, <2>4 DEF Standing
<1>7. QED
  BY <1>1, <1>4, <1>5, <1>6 DEF Sealed

LEMMA IInvNotRefused == IInv => OwnNotRefused
<1> SUFFICES ASSUME IInv, NEW c \in site.callers, NEW w \in Workers, NEW a \in attached,
                    SameCaller(c, a.by), key[w] = a.key
             PROVE  /\ ReadAnswer(c, w, a.value) # "opaque"
                    /\ (site.scope \/ ~c.authenticated) => ScanAnswer(c, w, a.value) # "opaque"
                    /\ (/\ w = a.at /\ life[w] = a.life /\ a.value \notin detached
                        /\ site.composite => site.catalogs[a.catalog].kind # "memory")
                       => ReadAnswer(c, w, a.value) = "ok"
  BY DEF OwnNotRefused
<1>1. Sealed(a) /\ a.catalog \in DOMAIN site.catalogs
  BY DEF IInv, AttachedStand, TypeOK
<1>2. UnwrapsAttach(a.value, c, w)
  BY <1>1, OpensForItsCaller, SiteType DEF IInv
<1>3. ReadAnswer(c, w, a.value) # "opaque"
  BY <1>2 DEF ReadAnswer
<1>4. (site.scope \/ ~c.authenticated) => SameCaller(currentRequestAuth(c), a.by)
  BY DEF currentRequestAuth, SameCaller, identityTail
<1>5. (site.scope \/ ~c.authenticated) => UnwrapsAttach(a.value, currentRequestAuth(c), w)
  BY <1>1, <1>4, OpensForItsCaller, SiteType DEF IInv
<1>6. (site.scope \/ ~c.authenticated) => ScanAnswer(c, w, a.value) # "opaque"
  BY <1>3, <1>5 DEF ScanAnswer
<1>7. ASSUME w = a.at, life[w] = a.life, a.value \notin detached,
             site.composite => site.catalogs[a.catalog].kind # "memory"
      PROVE  ReadAnswer(c, w, a.value) = "ok"
  <2>1. Standing(a)
    BY <1>7 DEF Standing
  <2>2. site.catalogs[a.catalog].kind \in InMemoryKinds =>
            Uuid(a) \in DOMAIN states[w] /\ states[w][Uuid(a)].catalog = a.catalog
    BY <1>7, <2>1 DEF IInv, MemoryStands
  <2>3. Reads(w, a.value.payload.bytes)
    BY <1>1, <1>7, <2>2, RouteOfAttached DEF IInv, Reads, Kept, KnowsItsValues
  <2>4. QED
    BY <1>2, <2>3 DEF ReadAnswer
<1>8. QED
  BY <1>3, <1>6, <1>7

LEMMA IInvTransaction == IInv => TransactionStaysWithAttach
<1> SUFFICES ASSUME IInv, site.http, NEW c \in site.callers, NEW w \in Workers,
                    NEW a \in attached, NEW t \in begun,
                    TransactionAnswer(c, w, a.value, t.value) = "ok"
             PROVE  a.value = t.parent /\ SameCaller(c, t.by)
  BY DEF TransactionStaysWithAttach
<1>1. key[w] # NoKey
  BY KeysAssumption DEF IInv, TypeOK
<1>2. Opens(t.value, key[w], transactionAad(c, a.value))
  BY <1>1 DEF TransactionAnswer, UnwrapsTransaction
<1>3. <<identityTail(c), a.value>> = <<identityTail(t.by), t.parent>>
  BY <1>2 DEF IInv, BegunStand, Opens, transactionAad
<1>4. QED
  BY <1>3 DEF SameCaller

LEMMA IInvTicketLife == IInv => TicketLife
<1> SUFFICES ASSUME IInv, NEW t \in tickets
             PROVE  LET claims == t.token.payload
                        granted == claims.expiresAt - claims.issuedAt
                        ends == 2 * claims.expiresAt
                        endless == claims.expiresAt = 0
                    IN  /\ t.ttl # 0 => ~endless /\ 2 * granted <= t.ttl
                        /\ site.ceiling # 0 => ~endless /\ granted <= site.ceiling
                        /\ \A c \in site.callers, w \in Workers :
                              /\ Redeemed(t, c, w) = "expired" => ~endless /\ Clock(t.at) >= ends
                              /\ Redeemed(t, c, w) = "restored" => endless \/ Clock(t.at) < ends + 4 * Skew
  BY DEF TicketLife
<1> DEFINE issuedAt == t.token.payload.issuedAt
           expiresAt == t.token.payload.expiresAt
<1>1. Granted(t) /\ t.at \in Workers
  BY DEF IInv, TicketsStand, TypeOK
<1>2. issuedAt \in Nat /\ expiresAt \in Nat /\ 2 * issuedAt <= Clock(t.at)
  BY <1>1 DEF Granted
<1>3. /\ t.ttl # 0 => expiresAt # 0 /\ 2 * (expiresAt - issuedAt) <= t.ttl
      /\ site.ceiling # 0 => expiresAt # 0 /\ expiresAt - issuedAt <= site.ceiling
  BY <1>1 DEF Granted
<1>4. ASSUME NEW c \in site.callers, NEW w \in Workers
      PROVE  /\ Redeemed(t, c, w) = "expired" => expiresAt # 0 /\ Clock(t.at) >= 2 * expiresAt
             /\ Redeemed(t, c, w) = "restored" => expiresAt = 0 \/ Clock(t.at) < 2 * expiresAt + 4 * Skew
  <2>1. /\ drift[w] \in Nat /\ drift[t.at] \in Nat /\ now \in Nat
        /\ drift[w] - drift[t.at] <= 2 * Skew /\ drift[t.at] - drift[w] <= 2 * Skew
    BY <1>1, SiteType DEF IInv, TypeOK
  <2>2. Clock(w) = now + drift[w] /\ Clock(t.at) = now + drift[t.at] /\ Skew \in Nat
    BY TimeAssumption DEF Clock
  <2>3. ~NotYetValid(t.token.payload, w)
    BY <1>2, <2>1, <2>2 DEF NotYetValid
  <2>4. Redeemed(t, c, w) = "expired" => Expired(t.token.payload, w)
    BY <2>3 DEF Redeemed
  <2>5. Redeemed(t, c, w) = "restored" => ~Expired(t.token.payload, w)
    BY DEF Redeemed
  <2>6. Expired(t.token.payload, w) => expiresAt # 0 /\ Clock(t.at) >= 2 * expiresAt
    BY <1>2, <2>1, <2>2 DEF Expired
  <2>7. ~Expired(t.token.payload, w) => expiresAt = 0 \/ Clock(t.at) < 2 * expiresAt + 4 * Skew
    BY <1>2, <2>1, <2>2 DEF Expired
  <2>8. QED
    BY <2>4, <2>5, <2>6, <2>7
<1>5. QED
  BY <1>3, <1>4

-----------------------------------------------------------------------------
(* The invariant holds at first, and every step keeps it                   *)

LEMMA InitIInv == Init => IInv
<1> SUFFICES ASSUME Init PROVE IInv
  OBVIOUS
<1>1. TypeOK
  <2>1. IsFiniteSet(attached)
    BY FS_EmptySet DEF Init
  <2>2. \A w \in Workers : DOMAIN states[w] = {}
    BY DEF Init, EmptyMap
  <2>3. key \in [Workers -> IF site.http THEN Keys ELSE {NoKey}]
    BY DEF Init
  <2>4. QED
    BY <2>1, <2>2, <2>3, TimeAssumption DEF Init, TypeOK
<1>2. Start <= now
  BY TimeAssumption DEF Init
<1>3. MemoryStands
  BY DEF Init, MemoryStands, EmptyMap
<1>4. AttachedStand /\ BegunStand /\ TicketsStand /\ TicketRestoresAttach
  BY DEF Init, AttachedStand, BegunStand, TicketsStand, TicketRestoresAttach
<1>5. QED
  BY <1>1, <1>2, <1>3, <1>4 DEF IInv

\* What stands when nothing of it is touched.
LEMMA AttachmentsUntouched ==
  ASSUME IInv, UNCHANGED <<site, life, states, attached, detached>>
  PROVE  AttachedStand' /\ MemoryStands'
<1>1. ASSUME NEW a PROVE Sealed(a) <=> Sealed(a)'
  BY DEF Sealed, Plaintext, Uuid, Bytes, Stamp, sealAttach, sealBytes, attachAad, identityTail
<1>2. AttachedStand'
  BY <1>1 DEF IInv, AttachedStand, Uuid
<1>3. MemoryStands'
  BY DEF IInv, MemoryStands, Standing, Uuid, InMemoryKinds
<1>4. QED
  BY <1>2, <1>3

LEMMA TicketsUntouched ==
  ASSUME IInv, site' = site, drift' = drift, now' \in Nat, now' >= now, tickets' = tickets
  PROVE  TicketsStand'
<1> SUFFICES ASSUME NEW t \in tickets PROVE Granted(t)'
  BY DEF TicketsStand
<1>1. Granted(t) /\ t.at \in Workers
  BY DEF IInv, TicketsStand, TypeOK
<1>2. drift[t.at] \in Nat /\ now \in Nat
  BY <1>1, SiteType DEF IInv, TypeOK
<1>3. Clock(t.at) <= Clock(t.at)' /\ Clock(t.at) \in Int /\ Clock(t.at)' \in Int
  BY <1>2 DEF Clock
<1>4. 2 * t.token.payload.issuedAt <= Clock(t.at)'
  BY <1>1, <1>3 DEF Granted
<1>5. QED
  BY <1>1, <1>4 DEF Granted

LEMMA BegunUntouched ==
  ASSUME IInv, site' = site, begun' = begun
  PROVE  BegunStand'
BY DEF IInv, BegunStand, transactionAad, identityTail

LEMMA RestoresUntouched ==
  ASSUME IInv, attached' = attached, tickets \subseteq tickets'
  PROVE  TicketRestoresAttach'
BY DEF IInv, TicketRestoresAttach, callerPrincipal

LEMMA TickStep == IInv /\ Tick => IInv'
<1> SUFFICES ASSUME IInv, Tick PROVE IInv'
  OBVIOUS
<1>1. now' = now + 1 /\ now \in Nat /\ Start <= now
      /\ UNCHANGED <<site, drift, key, life, states, version, attached, detached, begun, tickets>>
  BY DEF Tick, memory, issued, IInv, TypeOK
<1>2. TypeOK'
  BY <1>1 DEF IInv, TypeOK, Values
<1>3. QED
  BY <1>1, <1>2, AttachmentsUntouched, TicketsUntouched, BegunUntouched, RestoresUntouched,
     TimeAssumption DEF IInv

LEMMA RestartStep == ASSUME NEW w \in Workers PROVE IInv /\ Restart(w) => IInv'
<1> SUFFICES ASSUME IInv, Restart(w) PROVE IInv'
  OBVIOUS
<1>1. /\ UNCHANGED <<site, drift, now, attached, detached, begun, tickets>>
      /\ life' = [life EXCEPT ![w] = @ + 1]
      /\ states' = [states EXCEPT ![w] = EmptyMap]
      /\ version' = [version EXCEPT ![w] = 1]
  BY DEF Restart, clocks, issued
<1>2. key' \in [Workers -> IF site.http THEN Keys ELSE {NoKey}]
  BY DEF Restart, IInv, TypeOK
<1>3. TypeOK'
  <2>1. life' \in [Workers -> Nat] /\ version' \in [Workers -> Nat] /\ DOMAIN states' = Workers
    BY <1>1 DEF IInv, TypeOK
  <2>2. \A v \in Workers : \A id \in DOMAIN states'[v] :
            states'[v][id].catalog \in DOMAIN site.catalogs /\ states'[v][id].version \in Nat
    BY <1>1 DEF IInv, TypeOK, EmptyMap
  <2>3. QED
    BY <1>1, <1>2, <2>1, <2>2 DEF IInv, TypeOK, Values
<1>4. \A v \in Workers : life[v] \in Nat /\ life'[v] = IF v = w THEN life[v] + 1 ELSE life[v]
  BY <1>1 DEF IInv, TypeOK
<1>5. AttachedStand'
  <2>1. ASSUME NEW a \in attached PROVE Sealed(a)'
    BY <1>1, <1>4 DEF IInv, AttachedStand, TypeOK, Sealed, Plaintext, Uuid, Bytes, Stamp,
                      sealAttach, sealBytes, attachAad, identityTail
  <2>2. QED
    BY <1>1, <2>1 DEF IInv, AttachedStand, Uuid
<1>6. MemoryStands'
  <2>1. ASSUME NEW a \in attached PROVE Standing(a)' => a.at # w /\ Standing(a)
    BY <1>1, <1>4 DEF IInv, AttachedStand, Sealed, TypeOK, Standing
  <2>2. ASSUME NEW a \in attached, a.at # w, Standing(a) PROVE Standing(a)'
    BY <1>1, <2>2 DEF Standing, IInv, TypeOK
  <2>3. \A v \in Workers : v # w => states'[v] = states[v]
    BY <1>1 DEF IInv, TypeOK
  <2>4. DOMAIN states'[w] = {}
    BY <1>1 DEF IInv, TypeOK, EmptyMap
  <2>5. \A a \in attached :
          (Standing(a)' /\ site.catalogs[a.catalog].kind \in InMemoryKinds) =>
              Uuid(a) \in DOMAIN states'[a.at] /\ states'[a.at][Uuid(a)].catalog = a.catalog
    BY <2>1, <2>3 DEF IInv, TypeOK, MemoryStands
  <2>6. \A v \in Workers : \A id \in DOMAIN states'[v] :
          /\ DOMAIN states'[v][id] = {"catalog", "version", "schemas"}
          /\ site.catalogs[states'[v][id].catalog].kind \in InMemoryKinds
          /\ \E a \in attached : /\ Uuid(a) = id /\ a.at = v /\ Standing(a)'
                                 /\ a.catalog = states'[v][id].catalog
    BY <2>2, <2>3, <2>4 DEF IInv, MemoryStands
  <2>7. QED
    BY <1>1, <2>5, <2>6 DEF MemoryStands, Uuid, InMemoryKinds
<1>7. QED
  BY <1>1, <1>3, <1>5, <1>6, TicketsUntouched, BegunUntouched, RestoresUntouched
     DEF IInv, TypeOK

\* The name of the catalog attached is the one asked for; with a ticket, the
\* one sealed, and the request must then open the ticket.
LEMMA AttachStep ==
  ASSUME NEW c \in Callers, NEW w \in Workers, NEW name, NEW options,
         NEW ticket \in tickets \cup {NoTicket}
  PROVE  IInv /\ CatalogAttach(c, w, name, options, ticket) => IInv'
<1> SUFFICES ASSUME IInv, CatalogAttach(c, w, name, options, ticket) PROVE IInv'
  OBVIOUS
<1>1. UNCHANGED <<site, drift, now, key, life, version, detached, begun, tickets>>
  BY DEF CatalogAttach, clocks
<1>2. PICK request :
        /\ AttachTo(c, w, request, ticket)
        /\ ticket # NoTicket =>
              /\ Redeemed(ticket, c, w) = "restored"
              /\ request.name = ticket.token.payload.catalogName
              /\ request.options = ticket.token.payload.options
  BY DEF CatalogAttach, Restored
<1> DEFINE id == Cardinality(attached) + 1
<1>3. PICK i \in DOMAIN site.catalogs :
        LET plaintext == [uuid |-> id, bytes |-> Bytes(i, id, request.options)]
        IN  /\ Serves(i, request.name)
            /\ attached' = attached \cup
                  {[value |-> sealAttach(plaintext, c, key[w]), by |-> c, at |-> w,
                    life |-> life[w], key |-> key[w], name |-> request.name, catalog |-> i,
                    options |-> request.options, ticket |-> ticket]}
            /\ states' = [states EXCEPT ![w] =
                  IF site.catalogs[i].kind \in InMemoryKinds THEN Set(@, id, NewState(i)) ELSE @]
  BY <1>2 DEF AttachTo
<1> DEFINE new == [value |-> sealAttach([uuid |-> id, bytes |-> Bytes(i, id, request.options)], c, key[w]),
                   by |-> c, at |-> w, life |-> life[w], key |-> key[w], name |-> request.name,
                   catalog |-> i, options |-> request.options, ticket |-> ticket]
<1>4. /\ attached' = attached \cup {new}
      /\ states' = [states EXCEPT ![w] =
            IF site.catalogs[i].kind \in InMemoryKinds THEN Set(@, id, NewState(i)) ELSE @]
      /\ request.name = site.catalogs[i].name
  BY <1>3 DEF Serves
<1>5. IsFiniteSet(attached) /\ Cardinality(attached) \in Nat
  BY FS_CardinalityType DEF IInv, TypeOK
<1>6. Uuid(new) = id /\ id \in Nat /\ Plaintext(new) = [uuid |-> id, bytes |-> Bytes(i, id, request.options)]
  BY <1>5 DEF Uuid, Plaintext, sealAttach, sealBytes
<1>7. \A a \in attached : Uuid(a) \in Nat /\ Uuid(a) < id
  BY <1>5 DEF IInv, AttachedStand, Sealed
<1>8. new \notin attached
  BY <1>6, <1>7
<1>9. IsFiniteSet(attached') /\ Cardinality(attached') = id
  BY <1>4, <1>5, <1>8, FS_AddElement
<1>10. new.value \notin detached
  <2>1. \A v \in detached : v.payload.uuid \in Nat /\ v.payload.uuid < id
    BY <1>7 DEF IInv, TypeOK, Values, Uuid
  <2>2. new.value.payload.uuid = id
    BY <1>6 DEF Uuid
  <2>3. QED
    BY <1>6, <2>1, <2>2
<1>11. Sealed(new)
  <2>1. new.value = sealAttach(Plaintext(new), new.by, new.key)
    BY <1>6
  <2>2. QED
    BY <1>4, <1>6, <2>1 DEF Sealed, IInv, TypeOK
<1> HIDE DEF new, id
<1>12. new.at = w /\ new.by = c /\ new.life = life[w] /\ new.catalog = i
       /\ new.ticket = ticket /\ new.name = request.name /\ new.options = request.options
       /\ new.key = key[w]
  BY DEF new
<1>13. AttachedStand'
  <2>1. ASSUME NEW a \in attached' PROVE Sealed(a)'
    <3>1. Sealed(a)
      BY <1>4, <1>11 DEF IInv, AttachedStand
    <3>2. QED
      BY <1>1, <3>1 DEF Sealed, Plaintext, Uuid, Bytes, Stamp, sealAttach, sealBytes, attachAad,
                        identityTail
  <2>2. \A a \in attached' : Uuid(a) <= Cardinality(attached')
    BY <1>4, <1>6, <1>7, <1>9
  <2>3. \A a, b \in attached' : Uuid(a) = Uuid(b) => a = b
    BY <1>4, <1>6, <1>7 DEF IInv, AttachedStand
  <2>4. QED
    BY <2>1, <2>2, <2>3 DEF AttachedStand, Uuid
<1> DEFINE kept == site.catalogs[i].kind \in InMemoryKinds
<1>14. /\ DOMAIN states' = Workers
       /\ \A v \in Workers : v # w => states'[v] = states[v]
       /\ ~kept => states'[w] = states[w]
       /\ kept => /\ DOMAIN states'[w] = DOMAIN states[w] \cup {id}
                  /\ states'[w][id] = NewState(i)
                  /\ \A j \in DOMAIN states[w] : j # id => states'[w][j] = states[w][j]
  BY <1>4 DEF IInv, TypeOK, Set
<1>15. id \notin DOMAIN states[w]
  BY <1>6, <1>7 DEF IInv, MemoryStands
<1>16. /\ NewState(i).catalog = i /\ NewState(i).version = 1
       /\ DOMAIN NewState(i) = {"catalog", "version", "schemas"}
  BY DEF NewState
<1>17. MemoryStands'
  <2>1. \A a : Standing(a)' <=> Standing(a)
    BY <1>1 DEF Standing
  <2>2. \A a \in attached' :
          (Standing(a)' /\ site.catalogs[a.catalog].kind \in InMemoryKinds) =>
              Uuid(a) \in DOMAIN states'[a.at] /\ states'[a.at][Uuid(a)].catalog = a.catalog
    <3> SUFFICES ASSUME NEW a \in attached', Standing(a), site.catalogs[a.catalog].kind \in InMemoryKinds
                 PROVE  Uuid(a) \in DOMAIN states'[a.at] /\ states'[a.at][Uuid(a)].catalog = a.catalog
      BY <2>1
    <3>1. CASE a = new
      BY <1>6, <1>12, <1>14, <1>16, <3>1
    <3>2. CASE a \in attached
      BY <1>7, <1>14, <3>2 DEF IInv, MemoryStands, TypeOK
    <3>3. QED
      BY <1>4, <3>1, <3>2
  <2>3. Standing(new)
    BY <1>10, <1>12 DEF Standing, new
  <2>4. ASSUME NEW v \in Workers, NEW j \in DOMAIN states'[v]
        PROVE  /\ DOMAIN states'[v][j] = {"catalog", "version", "schemas"}
               /\ site.catalogs[states'[v][j].catalog].kind \in InMemoryKinds
               /\ \E a \in attached' : /\ Uuid(a) = j /\ a.at = v /\ Standing(a)
                                       /\ a.catalog = states'[v][j].catalog
    <3>1. CASE v = w /\ j = id
      <4>1. kept
        BY <1>14, <1>15, <3>1
      <4>2. states'[v][j] = NewState(i)
        BY <1>14, <3>1, <4>1
      <4>3. new \in attached'
        BY <1>4
      <4>4. QED
        BY <1>6, <1>12, <1>16, <2>3, <3>1, <4>1, <4>2, <4>3
    <3>2. CASE ~(v = w /\ j = id)
      <4>1. j \in DOMAIN states[v] /\ states'[v][j] = states[v][j]
        BY <1>14, <3>2
      <4>2. QED
        BY <1>4, <4>1 DEF IInv, MemoryStands
    <3>3. QED
      BY <3>1, <3>2
  <2>5. QED
    BY <1>1, <2>1, <2>2, <2>4 DEF MemoryStands, Uuid, InMemoryKinds
<1>18. TypeOK'
  <2>1. \A v \in Workers : \A j \in DOMAIN states'[v] :
            states'[v][j].catalog \in DOMAIN site.catalogs /\ states'[v][j].version \in Nat
    BY <1>14, <1>15, <1>16 DEF IInv, TypeOK
  <2>2. \A a \in attached' : /\ a.at \in Workers /\ a.by \in Callers /\ a.life \in Nat
                             /\ a.catalog \in DOMAIN site.catalogs
    BY <1>4, <1>12 DEF IInv, TypeOK
  <2>3. detached \subseteq {a.value : a \in attached'}
    BY <1>4 DEF IInv, TypeOK, Values
  <2>4. QED
    BY <1>1, <1>9, <1>14, <2>1, <2>2, <2>3 DEF IInv, TypeOK, Values
<1>19. TicketRestoresAttach'
  <2>1. ASSUME ticket # NoTicket
        PROVE  /\ ticket \in tickets
               /\ new.name = ticket.name /\ new.options = ticket.options
               /\ callerPrincipal(c) = callerPrincipal(ticket.by)
               /\ new.key = ticket.key
    <3>1. ticket \in tickets /\ Granted(ticket)
      BY <2>1 DEF IInv, TicketsStand
    <3>2. Opens(ticket.token, key[w], attachTicketAad(callerPrincipal(c)))
      BY <1>2, <2>1 DEF Redeemed
    <3>3. callerPrincipal(c) = callerPrincipal(ticket.by) /\ key[w] = ticket.key
      BY <3>1, <3>2 DEF Granted, Opens, attachTicketAad, sealBytes
    <3>4. QED
      BY <1>2, <1>12, <2>1, <3>1, <3>3 DEF Granted
  <2>2. \A a \in attached' : a.ticket # NoTicket =>
          /\ a.ticket \in tickets
          /\ a.name = a.ticket.name /\ a.options = a.ticket.options
          /\ callerPrincipal(a.by) = callerPrincipal(a.ticket.by)
          /\ a.key = a.ticket.key
    BY <1>4, <1>12, <2>1 DEF IInv, TicketRestoresAttach
  <2>3. QED
    BY <1>1, <2>2 DEF TicketRestoresAttach, callerPrincipal
<1>20. QED
  BY <1>1, <1>13, <1>17, <1>18, <1>19, TicketsUntouched, BegunUntouched DEF IInv, TypeOK

LEMMA DetachStep ==
  ASSUME NEW c, NEW w \in Workers, NEW value \in Values
  PROVE  IInv /\ Detach(c, w, value) => IInv'
<1> SUFFICES ASSUME IInv, Detach(c, w, value) PROVE IInv'
  OBVIOUS
<1> DEFINE id == value.payload.bytes.id
           found == Kept(w, _route(value.payload.bytes), id)
<1>1. UNCHANGED <<site, drift, now, key, life, version, attached, begun, tickets>>
  BY DEF Detach, clocks
<1>2. /\ states' = [states EXCEPT ![w] = IF found THEN Delete(@, id) ELSE @]
      /\ detached' = IF found THEN detached \cup {value} ELSE detached
  BY DEF Detach
<1>3. PICK a0 \in attached : value = a0.value
  BY DEF Values
<1>4. Sealed(a0) /\ a0.catalog \in DOMAIN site.catalogs
  BY DEF IInv, AttachedStand, TypeOK
<1>5. ASSUME found
      PROVE  id = Uuid(a0) /\ a0.at = w /\ id \in DOMAIN states[w]
  <2>1. id \in DOMAIN states[w] /\ states[w][id].catalog = a0.catalog
    BY <1>3, <1>4, <1>5, RouteOfAttached DEF Kept, IInv
  <2>2. PICK b \in attached : /\ Uuid(b) = id /\ b.at = w /\ b.catalog = a0.catalog
    BY <2>1 DEF IInv, MemoryStands
  <2>3. site.catalogs[a0.catalog].kind \in InMemoryKinds
    BY <2>1 DEF IInv, MemoryStands
  <2>4. id = Uuid(a0)
    BY <1>3, <1>4, <2>3, RouteOfAttached DEF IInv
  <2>5. b = a0
    BY <2>2, <2>4 DEF IInv, AttachedStand
  <2>6. QED
    BY <2>1, <2>2, <2>4, <2>5
<1> HIDE DEF id, found
<1>6. /\ DOMAIN states' = Workers
      /\ \A v \in Workers : ~(found /\ v = w) => states'[v] = states[v]
      /\ found => /\ DOMAIN states'[w] = DOMAIN states[w] \ {id}
                  /\ \A j \in DOMAIN states[w] \ {id} : states'[w][j] = states[w][j]
  BY <1>2 DEF IInv, TypeOK, Delete
<1>7. TypeOK'
  <2>1. \A v \in Workers : \A j \in DOMAIN states'[v] :
            states'[v][j].catalog \in DOMAIN site.catalogs /\ states'[v][j].version \in Nat
    BY <1>6 DEF IInv, TypeOK
  <2>2. detached' \subseteq Values
    BY <1>2 DEF IInv, TypeOK
  <2>3. QED
    BY <1>1, <1>6, <2>1, <2>2 DEF IInv, TypeOK, Values
<1>8. AttachedStand'
  BY <1>1 DEF IInv, AttachedStand, Sealed, Plaintext, Uuid, Bytes, Stamp, sealAttach, sealBytes,
              attachAad, identityTail
<1>9. MemoryStands'
  <2>1. \A a \in attached : Standing(a)' <=> Standing(a) /\ ~(found /\ a = a0)
    <3>1. \A a \in attached : a.value = value => a = a0
      BY <1>3 DEF IInv, AttachedStand, Uuid
    <3>2. QED
      BY <1>1, <1>2, <1>3, <3>1 DEF Standing
  <2>2. ASSUME NEW a \in attached, Standing(a)', site.catalogs[a.catalog].kind \in InMemoryKinds
        PROVE  Uuid(a) \in DOMAIN states'[a.at] /\ states'[a.at][Uuid(a)].catalog = a.catalog
    <3>1. Uuid(a) \in DOMAIN states[a.at] /\ states[a.at][Uuid(a)].catalog = a.catalog
          /\ a.at \in Workers
      BY <2>1, <2>2 DEF IInv, MemoryStands, TypeOK
    <3>2. found => Uuid(a) # id
      BY <1>5, <2>1, <2>2 DEF IInv, AttachedStand
    <3>3. QED
      BY <1>6, <3>1, <3>2
  <2>3. ASSUME NEW v \in Workers, NEW j \in DOMAIN states'[v]
        PROVE  /\ DOMAIN states'[v][j] = {"catalog", "version", "schemas"}
               /\ site.catalogs[states'[v][j].catalog].kind \in InMemoryKinds
               /\ \E a \in attached : /\ Uuid(a) = j /\ a.at = v /\ Standing(a)'
                                      /\ a.catalog = states'[v][j].catalog
    <3>1. /\ j \in DOMAIN states[v] /\ states'[v][j] = states[v][j]
          /\ found => v # w \/ j # id
      BY <1>6
    <3>2. PICK a \in attached : Uuid(a) = j /\ a.at = v /\ Standing(a) /\ a.catalog = states[v][j].catalog
      BY <3>1 DEF IInv, MemoryStands
    <3>3. Standing(a)'
      BY <1>5, <2>1, <3>1, <3>2
    <3>4. QED
      BY <3>1, <3>2, <3>3 DEF IInv, MemoryStands
  <2>4. QED
    BY <1>1, <2>2, <2>3 DEF MemoryStands, Uuid, InMemoryKinds
<1>10. QED
  BY <1>1, <1>7, <1>8, <1>9, TicketsUntouched, BegunUntouched, RestoresUntouched DEF IInv, TypeOK

LEMMA SealStep ==
  ASSUME NEW c \in Callers, NEW w \in Workers, NEW name, NEW options, NEW ttl \in Ttls
  PROVE  IInv /\ SealAttach(c, w, name, options, ttl) => IInv'
<1> SUFFICES ASSUME IInv, SealAttach(c, w, name, options, ttl) PROVE IInv'
  OBVIOUS
<1> DEFINE claims == [catalogName |-> name, options |-> options,
                      issuedAt |-> Seconds(Clock(w)), expiresAt |-> ExpiresAt(w, ttl)]
           new == [token |-> sealBytes(claims, key[w], attachTicketAad(callerPrincipal(c))),
                   by |-> c, at |-> w, key |-> key[w], name |-> name, options |-> options,
                   ttl |-> ttl]
<1>1. UNCHANGED <<site, drift, now, key, life, states, version, attached, detached, begun>>
  BY DEF SealAttach, clocks, memory
<1>2. tickets' = tickets \cup {new} /\ (claims.expiresAt = 0 \/ claims.expiresAt > claims.issuedAt)
  BY DEF SealAttach
<1>3. Clock(w) \in Nat /\ Clock(w) > 1 /\ ttl \in Nat /\ site.ceiling \in Nat
  BY ClockType, SiteType, TimeAssumption DEF IInv
<1>4. /\ Seconds(Clock(w)) \in Nat /\ Seconds(Clock(w)) > 0 /\ 2 * Seconds(Clock(w)) <= Clock(w)
      /\ Seconds(ttl) \in Nat /\ 2 * Seconds(ttl) <= ttl
  BY <1>3 DEF Seconds
<1>5. Granted(new)
  <2>1. Lifetime(ttl) \in Nat /\ (ttl # 0 => 2 * Lifetime(ttl) <= ttl)
        /\ (site.ceiling # 0 => Lifetime(ttl) <= site.ceiling)
    BY <1>3, <1>4 DEF Lifetime
  <2>2. ExpiresAt(w, ttl) = IF Endless(ttl) THEN 0 ELSE Seconds(Clock(w)) + Lifetime(ttl)
    BY DEF ExpiresAt
  <2>3. claims.issuedAt \in Nat /\ claims.expiresAt \in Nat /\ 2 * claims.issuedAt <= Clock(w)
    BY <1>4, <2>1, <2>2
  <2>4. ttl # 0 => claims.expiresAt # 0 /\ 2 * (claims.expiresAt - claims.issuedAt) <= ttl
    BY <1>4, <2>1, <2>2 DEF Endless
  <2>5. site.ceiling # 0 => claims.expiresAt # 0 /\ claims.expiresAt - claims.issuedAt <= site.ceiling
    BY <1>4, <2>1, <2>2 DEF Endless
  <2>6. new.token.payload = claims
    BY DEF sealBytes
  <2> HIDE DEF claims
  <2>7. QED
    BY <2>3, <2>4, <2>5, <2>6 DEF Granted, claims
<1>6. \A t : Granted(t)' <=> Granted(t)
  BY <1>1 DEF Granted, Clock, sealBytes, attachTicketAad, callerPrincipal
<1>7. TicketsStand'
  BY <1>2, <1>5, <1>6 DEF TicketsStand, IInv
<1>8. TypeOK'
  <2>1. \A t \in tickets' : t.at \in Workers /\ t.by \in Callers /\ t.ttl \in Ttls
    BY <1>2 DEF IInv, TypeOK
  <2>2. QED
    BY <1>1, <2>1 DEF IInv, TypeOK, Values
<1>9. QED
  BY <1>1, <1>2, <1>7, <1>8, AttachmentsUntouched, BegunUntouched, RestoresUntouched DEF IInv

LEMMA DdlStep ==
  ASSUME NEW c, NEW w \in Workers, NEW value \in Values, NEW r
  PROVE  IInv /\ CatalogDdl(c, w, value, r) => IInv'
<1> SUFFICES ASSUME IInv, CatalogDdl(c, w, value, r) PROVE IInv'
  OBVIOUS
<1> DEFINE id == value.payload.bytes.id
           kind == site.catalogs[_route(value.payload.bytes)].kind
           outcome == Applied(w, value.payload.bytes, r)
           moved == outcome.answer = "changed"
<1>1. UNCHANGED <<site, drift, now, key, life, attached, detached, begun, tickets>>
  BY DEF CatalogDdl, clocks, issued
<1>2. /\ states' = [states EXCEPT ![w][id].schemas = outcome.schemas,
                                  ![w][id].version = IF kind = "private" /\ moved THEN @ + 1 ELSE @]
      /\ version' = [version EXCEPT ![w] = IF kind = "memory" /\ moved THEN @ + 1 ELSE @]
  BY DEF CatalogDdl
<1>3. id \in DOMAIN states[w]
  BY DEF CatalogDdl, DdlAnswer, Kept
<1> DEFINE old == states[w][id]
           new == [[old EXCEPT !.schemas = outcome.schemas]
                       EXCEPT !.version = IF kind = "private" /\ moved THEN @ + 1 ELSE @]
<1> HIDE DEF outcome, kind, moved
<1>4. /\ DOMAIN states' = DOMAIN states
      /\ \A v \in Workers : DOMAIN states'[v] = DOMAIN states[v]
      /\ \A v \in Workers : \A j \in DOMAIN states[v] :
            states'[v][j] = IF v = w /\ j = id THEN new ELSE states[v][j]
  BY <1>2, <1>3 DEF IInv, TypeOK
<1>5. DOMAIN old = {"catalog", "version", "schemas"} /\ old.version \in Nat
  BY <1>3 DEF IInv, MemoryStands, TypeOK
<1>6. DOMAIN new = DOMAIN old /\ new.catalog = old.catalog /\ new.version \in Nat
  BY <1>5
<1> HIDE DEF new, old
<1>7. TypeOK'
  <2>1. version' \in [Workers -> Nat]
    BY <1>2 DEF IInv, TypeOK
  <2>2. \A v \in Workers : \A j \in DOMAIN states'[v] :
            states'[v][j].catalog \in DOMAIN site.catalogs /\ states'[v][j].version \in Nat
    <3>1. ASSUME NEW v \in Workers, NEW j \in DOMAIN states[v]
          PROVE  states'[v][j].catalog \in DOMAIN site.catalogs /\ states'[v][j].version \in Nat
      <4>1. CASE v = w /\ j = id
        BY <1>3, <1>4, <1>6, <4>1 DEF IInv, TypeOK, old
      <4>2. CASE ~(v = w /\ j = id)
        BY <1>4, <4>2 DEF IInv, TypeOK
      <4>3. QED
        BY <4>1, <4>2
    <3>2. QED
      BY <1>4, <3>1
  <2>3. QED
    BY <1>1, <1>4, <2>1, <2>2 DEF IInv, TypeOK, Values
<1>8. AttachedStand'
  BY <1>1 DEF IInv, AttachedStand, Sealed, Plaintext, Uuid, Bytes, Stamp, sealAttach, sealBytes,
              attachAad, identityTail
<1>9. MemoryStands'
  <2>1. \A v \in Workers : \A j \in DOMAIN states'[v] :
            j \in DOMAIN states[v] /\ DOMAIN states'[v][j] = DOMAIN states[v][j]
            /\ states'[v][j].catalog = states[v][j].catalog
    <3>1. ASSUME NEW v \in Workers, NEW j \in DOMAIN states[v]
          PROVE  /\ DOMAIN states'[v][j] = DOMAIN states[v][j]
                 /\ states'[v][j].catalog = states[v][j].catalog
      <4>1. CASE v = w /\ j = id
        BY <1>4, <1>6, <4>1 DEF old
      <4>2. CASE ~(v = w /\ j = id)
        BY <1>4, <4>2
      <4>3. QED
        BY <4>1, <4>2
    <3>2. QED
      BY <1>4, <3>1
  <2>2. \A a : Standing(a)' <=> Standing(a)
    BY <1>1 DEF Standing
  <2>3. \A a \in attached : (Standing(a) /\ site.catalogs[a.catalog].kind \in InMemoryKinds) =>
            Uuid(a) \in DOMAIN states'[a.at] /\ states'[a.at][Uuid(a)].catalog = a.catalog
    BY <1>4, <2>1 DEF IInv, MemoryStands, TypeOK
  <2>4. ASSUME NEW v \in Workers, NEW j \in DOMAIN states'[v]
        PROVE  /\ DOMAIN states'[v][j] = {"catalog", "version", "schemas"}
               /\ site.catalogs[states'[v][j].catalog].kind \in InMemoryKinds
               /\ \E a \in attached : /\ Uuid(a) = j /\ a.at = v /\ Standing(a)
                                      /\ a.catalog = states'[v][j].catalog
    BY <2>1 DEF IInv, MemoryStands
  <2>5. QED
    BY <1>1, <2>2, <2>3, <2>4 DEF MemoryStands, Uuid, InMemoryKinds
<1>10. QED
  BY <1>1, <1>7, <1>8, <1>9, TicketsUntouched, BegunUntouched, RestoresUntouched DEF IInv, TypeOK

LEMMA TransactionStep ==
  ASSUME NEW c, NEW w \in Workers, NEW value \in Values
  PROVE  IInv /\ TransactionBegin(c, w, value) => IInv'
<1> SUFFICES ASSUME IInv, TransactionBegin(c, w, value) PROVE IInv'
  OBVIOUS
<1>1. UNCHANGED <<site, drift, now, key, life, states, version, attached, detached, tickets>>
  BY DEF TransactionBegin, clocks, memory
<1>2. key[w] \in IF site.http THEN Keys ELSE {NoKey}
  BY DEF IInv, TypeOK
<1> DEFINE aad == IF key[w] = NoKey THEN Anonymous ELSE transactionAad(c, value)
           tx == [value |-> sealBytes(Cardinality(begun) + 1, key[w], aad), by |-> c, parent |-> value]
<1>3. /\ begun' = begun \cup {tx}
      /\ tx.value.aad = aad /\ tx.by = c /\ tx.parent = value
      /\ site.http => aad = transactionAad(c, value)
  BY <1>2, KeysAssumption DEF TransactionBegin, sealBytes
<1> HIDE DEF tx, aad
<1>4. BegunStand'
  BY <1>1, <1>3 DEF IInv, BegunStand, transactionAad, identityTail
<1>5. TypeOK'
  BY <1>1 DEF IInv, TypeOK, Values
<1>6. QED
  BY <1>1, <1>4, <1>5, AttachmentsUntouched, TicketsUntouched, RestoresUntouched DEF IInv, TypeOK

LEMMA IInvStep == IInv /\ [Next]_vars => IInv'
<1> SUFFICES ASSUME IInv, [Next]_vars PROVE IInv'
  OBVIOUS
<1>1. CASE Tick
  BY <1>1, TickStep
<1>2. ASSUME NEW w \in Workers, Restart(w) PROVE IInv'
  BY <1>2, RestartStep
<1>3. ASSUME NEW c \in Callers, NEW w \in Workers, NEW name \in Names, NEW options \in Options,
             NEW ticket \in tickets \cup {NoTicket}, CatalogAttach(c, w, name, options, ticket)
      PROVE  IInv'
  BY <1>3, AttachStep
<1>4. ASSUME NEW c \in Callers, NEW w \in Workers, NEW name \in Names, NEW options \in Options,
             NEW ttl \in Ttls, SealAttach(c, w, name, options, ttl)
      PROVE  IInv'
  BY <1>4, SealStep
<1>5. ASSUME NEW c \in Callers, NEW w \in Workers, NEW value \in Values, NEW r \in Changes,
             CatalogDdl(c, w, value, r)
      PROVE  IInv'
  BY <1>5, DdlStep
<1>6. ASSUME NEW c \in Callers, NEW w \in Workers, NEW value \in Values, Detach(c, w, value)
      PROVE  IInv'
  BY <1>6, DetachStep
<1>7. ASSUME NEW c \in Callers, NEW w \in Workers, NEW value \in Values, TransactionBegin(c, w, value)
      PROVE  IInv'
  BY <1>7, TransactionStep
<1>8. CASE UNCHANGED vars
  <2>1. UNCHANGED <<site, drift, now, key, life, states, version, attached, detached, begun, tickets>>
    BY <1>8 DEF vars, clocks, memory, issued
  <2>2. TypeOK'
    BY <2>1 DEF IInv, TypeOK, Values
  <2>3. QED
    BY <2>1, <2>2, AttachmentsUntouched, TicketsUntouched, BegunUntouched, RestoresUntouched
       DEF IInv, TypeOK
<1>9. QED
  BY <1>1, <1>2, <1>3, <1>4, <1>5, <1>6, <1>7, <1>8 DEF Next

LEMMA Inductive == Spec => []IInv
BY InitIInv, IInvStep, PTL DEF Spec

-----------------------------------------------------------------------------
(* Theorems                                                                *)

\* The state stays of its types through every attach, change and restart.
THEOREM Typed == Spec => []TypeOK
<1>1. IInv => TypeOK
  BY DEF IInv
<1>2. QED
  BY <1>1, Inductive, PTL

\* A value is answered for whom it was sealed, by the catalog it was attached
\* to, and from memory only by the process that holds the attachment.
THEOREM AnsweredToItsCaller == Spec => []OwnAttachment
BY IInvOwn, Inductive, PTL

\* What a caller attached is not refused it while the worker has the key of
\* then, except for the reasons OwnNotRefused names: no scope for a stream's init,
\* another process, a restart, a detach, or an InMemoryCatalog whose key a
\* composite has stamped over (examples/catalog.ts:485-494).
THEOREM NotRefusedOwn == Spec => []OwnNotRefused
BY IInvNotRefused, Inductive, PTL

\* An attach with a ticket is the one that was sealed.
THEOREM TicketRestores == Spec => []TicketRestoresAttach
<1>1. IInv => TicketRestoresAttach
  BY DEF IInv
<1>2. QED
  BY <1>1, Inductive, PTL

\* A ticket's life, by clocks that differ by no more than two allowances.
THEOREM TicketLives == Spec => []TicketLife
BY IInvTicketLife, Inductive, PTL

\* A transaction goes with its attachment and its identity.
THEOREM TransactionBound == Spec => []TransactionStaysWithAttach
BY IInvTransaction, Inductive, PTL

-----------------------------------------------------------------------------
(* Versions                                                                *)

\* A call that does not answer "changed" leaves the schemas as they are.
Honest(outcome, s) == outcome.answer # "changed" => outcome.schemas = s

LEMMA OutcomeHonest ==
  ASSUME NEW refused, NEW kept, NEW s, NEW changed
  PROVE  /\ Honest(InMemory!Outcome(refused, kept, s, changed), s)
         /\ Honest(Private!Outcome(refused, kept, s, changed), s)
BY DEF Honest, InMemory!Outcome, Private!Outcome

LEMMA InMemoryHonest == ASSUME NEW s, NEW r PROVE Honest(InMemory!Apply(s, r), s)
BY OutcomeHonest
   DEF InMemory!Apply, InMemory!Overridden, InMemory!schemaCreate, InMemory!schemaDrop,
       InMemory!tableCreate, InMemory!tableDrop, InMemory!tableCommentSet, InMemory!tableRename,
       InMemory!viewCreate, InMemory!viewDrop, InMemory!viewRename, InMemory!viewCommentSet,
       InMemory!viewColumnCommentSet

LEMMA PrivateHonest == ASSUME NEW s, NEW r PROVE Honest(Private!Apply(s, r), s)
BY OutcomeHonest
   DEF Private!Apply, Private!Overridden, Private!schemaCreate, Private!schemaDrop,
       Private!tableCreate, Private!tableDrop, Private!viewCreate, Private!viewDrop,
       Private!viewCommentSet, Private!viewColumnCommentSet

VersionMoves ==
    \A w \in Workers :
        life'[w] = life[w] =>
            \A id \in DOMAIN states[w] \cap DOMAIN states'[w] :
                states'[w][id].schemas # states[w][id].schemas => Label(w, id)' > Label(w, id)

LEMMA DdlMoves ==
  ASSUME IInv, NEW c, NEW v \in Workers, NEW value \in Values, NEW r, CatalogDdl(c, v, value, r)
  PROVE  VersionMoves
<1> DEFINE at == value.payload.bytes.id
           kind == site.catalogs[_route(value.payload.bytes)].kind
           outcome == Applied(v, value.payload.bytes, r)
           moved == outcome.answer = "changed"
<1>1. /\ site' = site
      /\ states' = [states EXCEPT ![v][at].schemas = outcome.schemas,
                                  ![v][at].version = IF kind = "private" /\ moved THEN @ + 1 ELSE @]
      /\ version' = [version EXCEPT ![v] = IF kind = "memory" /\ moved THEN @ + 1 ELSE @]
  BY DEF CatalogDdl
<1>2. /\ at \in DOMAIN states[v] /\ kind \in InMemoryKinds
      /\ states[v][at].catalog = _route(value.payload.bytes)
  BY DEF CatalogDdl, DdlAnswer, Kept
<1>3. Honest(outcome, states[v][at].schemas)
  BY InMemoryHonest, PrivateHonest DEF Applied
<1> HIDE DEF at, outcome
<1> DEFINE old == states[v][at]
           new == [[old EXCEPT !.schemas = outcome.schemas]
                       EXCEPT !.version = IF kind = "private" /\ moved THEN @ + 1 ELSE @]
<1>4. /\ \A w \in Workers : \A j \in DOMAIN states[w] :
            states'[w][j] = IF w = v /\ j = at THEN new ELSE states[w][j]
  BY <1>1, <1>2 DEF IInv, TypeOK
<1>5. /\ DOMAIN old = {"catalog", "version", "schemas"} /\ old.version \in Nat
      /\ old.catalog = _route(value.payload.bytes) /\ version[v] \in Nat
  BY <1>2 DEF IInv, MemoryStands, TypeOK
<1>6. /\ new.catalog = old.catalog /\ new.schemas = outcome.schemas
      /\ new.version = IF kind = "private" /\ moved THEN old.version + 1 ELSE old.version
      /\ version'[v] = IF kind = "memory" /\ moved THEN version[v] + 1 ELSE version[v]
  BY <1>1, <1>5 DEF IInv, TypeOK
<1>7. states'[v][at] = new
  BY <1>2, <1>4
<1>8. Label(v, at) = IF kind = "private" THEN old.version ELSE version[v]
  BY <1>5 DEF Label
<1>9. Label(v, at)' = IF kind = "private" THEN new.version ELSE version'[v]
  BY <1>1, <1>5, <1>6, <1>7 DEF Label
<1> HIDE DEF new, old, kind, moved
<1>10. outcome.schemas # states[v][at].schemas => Label(v, at)' > Label(v, at)
  BY <1>2, <1>3, <1>5, <1>6, <1>8, <1>9 DEF Honest, moved, InMemoryKinds
<1>11. ASSUME NEW w \in Workers, NEW id \in DOMAIN states[w],
              states'[w][id].schemas # states[w][id].schemas
       PROVE  Label(w, id)' > Label(w, id)
  <2>1. w = v /\ id = at
    BY <1>4, <1>11
  <2>2. QED
    BY <1>6, <1>7, <1>10, <1>11, <2>1
<1>12. QED
  BY <1>11 DEF VersionMoves

LEMMA StepMoves == IInv /\ [Next]_vars => VersionMoves
<1> SUFFICES ASSUME IInv, [Next]_vars PROVE VersionMoves
  OBVIOUS
<1>1. CASE UNCHANGED states
  BY <1>1 DEF VersionMoves
<1>2. ASSUME NEW w \in Workers, Restart(w) PROVE VersionMoves
  <2>1. \A v \in Workers : v = w \/ states'[v] = states[v]
    BY <1>2 DEF Restart, IInv, TypeOK
  <2>2. life[w] \in Nat /\ life' = [life EXCEPT ![w] = @ + 1] /\ DOMAIN life = Workers
    BY <1>2 DEF Restart, IInv, TypeOK
  <2>3. QED
    BY <2>1, <2>2 DEF VersionMoves
<1>3. ASSUME NEW c \in Callers, NEW w \in Workers, NEW request, NEW ticket, AttachTo(c, w, request, ticket)
      PROVE  VersionMoves
  <2> DEFINE id == Cardinality(attached) + 1
  <2>1. PICK i \in DOMAIN site.catalogs :
          states' = [states EXCEPT ![w] =
              IF site.catalogs[i].kind \in InMemoryKinds THEN Set(@, id, NewState(i)) ELSE @]
    BY <1>3 DEF AttachTo
  <2>2. id \notin DOMAIN states[w]
    <3>1. Cardinality(attached) \in Nat
      BY FS_CardinalityType DEF IInv, TypeOK
    <3>2. \A a \in attached : Uuid(a) \in Nat /\ Uuid(a) # id
      BY <3>1 DEF IInv, AttachedStand, Sealed
    <3>3. QED
      BY <3>2 DEF IInv, MemoryStands
  <2> HIDE DEF id
  <2>3. \A v \in Workers : \A j \in DOMAIN states[v] : states'[v][j] = states[v][j]
    BY <2>1, <2>2 DEF IInv, TypeOK, Set
  <2>4. QED
    BY <2>3 DEF VersionMoves
<1>4. ASSUME NEW c \in Callers, NEW w \in Workers, NEW value \in Values, Detach(c, w, value)
      PROVE  VersionMoves
  <2>1. \A v \in Workers : \A j \in DOMAIN states'[v] : states'[v][j] = states[v][j]
    BY <1>4 DEF Detach, Delete, IInv, TypeOK
  <2>2. QED
    BY <2>1 DEF VersionMoves
<1>5. ASSUME NEW c \in Callers, NEW w \in Workers, NEW name \in Names, NEW options \in Options,
             NEW ticket \in tickets \cup {NoTicket}, CatalogAttach(c, w, name, options, ticket)
      PROVE  VersionMoves
  BY <1>3, <1>5 DEF CatalogAttach
<1>6. CASE Tick
  BY <1>1, <1>6 DEF Tick, memory
<1>7. ASSUME NEW c \in Callers, NEW w \in Workers, NEW name \in Names, NEW options \in Options,
             NEW ttl \in Ttls, SealAttach(c, w, name, options, ttl)
      PROVE  VersionMoves
  BY <1>1, <1>7 DEF SealAttach, memory
<1>8. ASSUME NEW c \in Callers, NEW w \in Workers, NEW value \in Values, TransactionBegin(c, w, value)
      PROVE  VersionMoves
  BY <1>1, <1>8 DEF TransactionBegin, memory
<1>9. CASE UNCHANGED vars
  BY <1>1, <1>9 DEF vars, memory
<1>10. QED
  BY <1>2, <1>4, <1>5, <1>6, <1>7, <1>8, <1>9, DdlMoves DEF Next

\* Whatever call changes the schemas of an attachment moves its label on.
THEOREM VersionsMove == Spec => VersionMovesWithContents
<1>1. IInv /\ [Next]_vars => VersionMoves
  BY StepMoves
<1>2. [VersionMoves]_vars => [\A w \in Workers :
          life'[w] = life[w] =>
              \A id \in DOMAIN states[w] \cap DOMAIN states'[w] :
                  states'[w][id].schemas # states[w][id].schemas => Label(w, id)' > Label(w, id)]_vars
  BY DEF VersionMoves
<1>3. QED
  BY <1>1, <1>2, Inductive, PTL DEF Spec, VersionMovesWithContents
=============================================================================
