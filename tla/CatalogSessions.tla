--------------------------- MODULE CatalogSessions ---------------------------
(***************************************************************************)
(* Attachments of catalogs, and what a worker lets a caller do with one    *)
(* (protocol/handlers/catalog, crypto.ts, attach-ticket.ts,                *)
(* catalog/composite.ts).                                                  *)
(*                                                                         *)
(* catalog_attach answers with a value that every later call carries: 16   *)
(* random bytes of the framework and the bytes of the catalog, of which a  *)
(* composite catalog overwrites the first with the number of the catalog.  *)
(* Over HTTP the value is sealed with the worker's key for the caller's    *)
(* identity; a transaction is sealed for the identity and the attachment;  *)
(* and a ticket seals an attach of the caller, with a life, for any worker *)
(* of the same key.  Off HTTP nothing is sealed.                           *)
(*                                                                         *)
(* Any worker may serve any call.  A worker that restarts has lost what it *)
(* kept in memory, and may have another key.  Clocks differ.  Time is      *)
(* counted in ticks, which are halves of a second, since lives are counted *)
(* in whole seconds and clocks are not.                                    *)
(***************************************************************************)
EXTENDS Integers, Sequences, FiniteSets, CatalogSchemas

LOCAL INSTANCE Functions

InMemory == INSTANCE InMemoryCatalog
Private == INSTANCE PrivateMemoryCatalog

CONSTANTS
    Workers,
    Keys,        \* the keys a worker over HTTP may have
    Sites,       \* the deployments considered
    Callers,     \* [authenticated, domain, principal]
    Options,     \* the options an attach may carry, functions of names
    Ttls,        \* the lives asked for, in ticks
    Changes,     \* the DDL requests made
    Skew,        \* CLOCK_SKEW_SECONDS
    Start,       \* the first instant
    NoKey,
    NoTicket

\* Bounds of a deployment: how many attaches, tickets, transactions, changes
\* and restarts its run has, and until when it goes.
Bounds == [attaches : Nat, tickets : Nat, transactions : Nat, changes : Nat, restarts : Nat,
           until : Nat]

\* A catalog a worker serves.
Catalogs == [name : STRING, kind : {"private", "memory", "example", "options"},
             required : SUBSET STRING, declared : SUBSET STRING]

ASSUME TimeAssumption ==
    /\ Start \in Nat /\ Start > 1 /\ Skew \in Nat /\ Ttls \subseteq Nat
ASSUME KeysAssumption == NoKey \notin Keys
ASSUME CallersAssumption ==
    Callers \subseteq [authenticated : BOOLEAN, domain : STRING, principal : STRING]
ASSUME SitesAssumption ==
    /\ Sites \subseteq [http : BOOLEAN, scope : BOOLEAN, composite : BOOLEAN,
                        catalogs : Seq(Catalogs), callers : SUBSET Callers,
                        ceiling : Nat, drifts : SUBSET Nat, bounds : Bounds]
    /\ \A s \in Sites : s.composite \/ Len(s.catalogs) = 1
    /\ \A s \in Sites : \A d, e \in s.drifts : d - e <= 2 * Skew

VARIABLES
    site,        \* the deployment
    drift,       \* each worker's clock, as what it is ahead
    now,         \* real time
    key,         \* each worker's key
    life,        \* how often each worker was restarted
    states,      \* the attachments each worker keeps in memory
    version,     \* InMemoryCatalog._version of each worker
    attached,    \* the attachments made, each with the value given out
    detached,    \* the values whose attachment was found and dropped
    begun,       \* the transactions begun, each with its value
    tickets      \* the tickets sealed

clocks == <<drift, now>>
memory == <<states, version>>
issued == <<attached, detached, begun, tickets>>
vars == <<site, clocks, key, life, memory, issued>>

-----------------------------------------------------------------------------
(* Identities and seals. *)

Anonymous == <<"anonymous">>

\* identityTail: the identity a value is sealed for.
identityTail(c) == IF c.authenticated THEN <<c.domain, c.principal>> ELSE Anonymous

\* callerPrincipal: "" when the caller has none.
callerPrincipal(c) == IF c.authenticated THEN c.principal ELSE ""

\* sealBytes, and whether openBytes accepts: the key and all of the
\* associated data must be those of the seal.
sealBytes(payload, k, aad) == [key |-> k, aad |-> aad, payload |-> payload]
Opens(envelope, k, aad) == envelope.key = k /\ envelope.aad = aad

\* Mutant of attachAad: an attachment is sealed for nobody in particular.
attachAadUnbound(c) == Anonymous

attachAad(c) == identityTail(c)

\* Mutant of transactionAad: the attachment is not part of it.
transactionAadOfCaller(c, attach) == <<identityTail(c)>>

\* With the attachment's value in it, a transaction goes with its attachment.
transactionAad(c, attach) == <<identityTail(c), attach>>

\* attachTicketAad: the principal alone.
attachTicketAad(principal) == principal

\* sealAttach: sealed over HTTP, as it is elsewhere.
sealAttach(plaintext, c, k) ==
    IF k = NoKey THEN sealBytes(plaintext, NoKey, Anonymous)
    ELSE sealBytes(plaintext, k, attachAad(c))

\* unwrapParamsOpaque on the attachment's value, and on a transaction's.
UnwrapsAttach(value, c, w) == key[w] = NoKey \/ Opens(value, key[w], attachAad(c))
UnwrapsTransaction(value, tx, c, w) ==
    key[w] = NoKey \/ Opens(tx, key[w], transactionAad(c, value))

\* The caller stream init knows of: it has no call context, and reads the
\* scope the HTTP server opened for the request, where the host has one.
currentRequestAuth(c) ==
    IF site.scope THEN c ELSE [authenticated |-> FALSE, domain |-> "", principal |-> ""]

-----------------------------------------------------------------------------
(* Catalogs, and the attachments in memory. *)

\* CompositeCatalogInterface.attach takes the first catalog of that name.
Serves(i, name) ==
    /\ site.catalogs[i].name = name
    /\ \A j \in DOMAIN site.catalogs : site.catalogs[j].name = name => i <= j

\* The bytes of a catalog: the number of the catalog, stamped over the
\* first, and what the catalog put after it.
Stamp(i, id, options) ==
    [route |-> IF site.composite THEN i ELSE 0, id |-> id, options |-> options]

\* TicketProbeCatalog's bytes are the options, the others' are random.
Bytes(i, id, options) ==
    IF site.catalogs[i].kind = "options" THEN Stamp(i, 0, options) ELSE Stamp(i, id, EmptyMap)

\* _route; without a composite every value goes to the one catalog.
_route(bytes) == IF site.composite THEN bytes.route ELSE 1

\* validateRequiredAttachOptions
MissingOptions(catalog, options) == catalog.required \ DOMAIN options

\* What a new attachment keeps in memory, and nothing for the other kinds.
NewState(i) ==
    [catalog |-> i, version |-> 1,
     schemas |-> IF site.catalogs[i].kind = "private" THEN Private!Initial
                 ELSE InMemory!Initial]

InMemoryKinds == {"private", "memory"}

\* Mutant of Kept: a composite's stamp is part of the key.
KeptUnderAllBytes(w, i, id) == ~site.composite /\ id \in DOMAIN states[w] /\ states[w][id].catalog = i

\* _state leaves the first byte out of its key.  _getAttachment does not, so that
\* it does not know the value a composite has stamped (but for one in 256, whose
\* byte was the stamp's already; that chance is left out).
KnowsItsValues(i) == site.catalogs[i].kind = "memory" => ~site.composite

Kept(w, i, id) == id \in DOMAIN states[w] /\ states[w][id].catalog = i /\ KnowsItsValues(i)

\* A read of the catalog is answered: from memory only if it is there.
Reads(w, bytes) ==
    LET i == _route(bytes)
    IN  site.catalogs[i].kind \in InMemoryKinds => Kept(w, i, bytes.id)

-----------------------------------------------------------------------------
(* Tickets. *)

Seconds(ticks) == ticks \div 2
Clock(w) == now + drift[w]

\* declaredSpecs, and the violations sealAttach collects.
MayBeSealed(name, options) ==
    \E i \in DOMAIN site.catalogs :
        /\ Serves(i, name)
        /\ DOMAIN options \subseteq site.catalogs[i].declared
        /\ MissingOptions(site.catalogs[i], options) = {}

\* sealAttach: 0 asks for as long as allowed, and a ceiling of 0 is none.
Lifetime(ttl) ==
    LET ceiling == site.ceiling
    IN  IF ttl = 0 THEN ceiling
        ELSE IF ceiling # 0 /\ ceiling < Seconds(ttl) THEN ceiling
        ELSE Seconds(ttl)
Endless(ttl) == ttl = 0 /\ site.ceiling = 0
ExpiresAt(w, ttl) == IF Endless(ttl) THEN 0 ELSE Seconds(Clock(w)) + Lifetime(ttl)

\* Mutant of Expired: no allowance for clocks that differ.
ExpiredAtOnce(claims, w) == claims.expiresAt # 0 /\ Clock(w) >= 2 * claims.expiresAt

\* openAttachTicket, once the seal is open.
NotYetValid(claims, w) == 2 * claims.issuedAt > Clock(w) + 2 * Skew
Expired(claims, w) == claims.expiresAt # 0 /\ Clock(w) >= 2 * (claims.expiresAt + Skew)

\* Mutant of Restored: the request still names the catalog.
RestoredOptions(claims, name, options) == [name |-> name, options |-> claims.options]

\* The ticket's attach takes the place of the request.
Restored(claims, name, options) == [name |-> claims.catalogName, options |-> claims.options]

\* redeemAttachTicket: what comes of a ticket at this worker.
Redeemed(ticket, c, w) ==
    IF \/ key[w] = NoKey
       \/ callerPrincipal(c) = ""
       \/ ~Opens(ticket.token, key[w], attachTicketAad(callerPrincipal(c)))
    THEN "invalid"
    ELSE IF NotYetValid(ticket.token.payload, w) \/ Expired(ticket.token.payload, w)
    THEN "expired"
    ELSE "restored"

-----------------------------------------------------------------------------
(* What a worker answers to a call that carries an attachment. *)

\* A call that reads the catalog (catalogHandler, and the catalog's method).
ReadAnswer(c, w, value) ==
    CASE ~UnwrapsAttach(value, c, w) -> "opaque"
      [] UnwrapsAttach(value, c, w) ->
            IF Reads(w, value.payload.bytes) THEN "ok" ELSE "not attached"

\* bind knows its caller; the stream's init asks the scope of the request.
ScanAnswer(c, w, value) ==
    IF UnwrapsAttach(value, currentRequestAuth(c), w) THEN ReadAnswer(c, w, value)
    ELSE "opaque"

\* A call that carries a transaction too, its commit or rollback among them.
TransactionAnswer(c, w, value, tx) ==
    IF UnwrapsAttach(value, c, w) /\ UnwrapsTransaction(value, tx, c, w) THEN "ok"
    ELSE "opaque"

\* The catalog's outcome for a DDL call on an attachment it has.
Applied(w, bytes, r) ==
    IF site.catalogs[_route(bytes)].kind = "private"
    THEN Private!Apply(states[w][bytes.id].schemas, r)
    ELSE InMemory!Apply(states[w][bytes.id].schemas, r)

\* catalogHandler, the handler's own refusals, the route, and the catalog.
DdlAnswer(c, w, value, r) ==
    LET bytes == value.payload.bytes
        i == _route(bytes)
    IN  CASE ~UnwrapsAttach(value, c, w) -> "opaque"
          [] UnwrapsAttach(value, c, w) ->
                IF r.negotiated \/ site.catalogs[i].kind \notin InMemoryKinds THEN "refused"
                ELSE IF ~Kept(w, i, bytes.id) THEN "not attached"
                ELSE Applied(w, bytes, r).answer

-----------------------------------------------------------------------------
Init ==
    /\ site \in Sites
    /\ drift \in [Workers -> site.drifts]
    /\ now = Start
    /\ IF site.http THEN \E k \in Keys : key = [w \in Workers |-> k]
       ELSE key = [w \in Workers |-> NoKey]
    /\ life = [w \in Workers |-> 0]
    /\ states = [w \in Workers |-> EmptyMap]
    /\ version = [w \in Workers |-> 1]
    /\ attached = {} /\ detached = {} /\ begun = {} /\ tickets = {}

Tick ==
    /\ now < site.bounds.until
    /\ now' = now + 1
    /\ UNCHANGED <<site, drift, key, life, memory, issued>>

\* A worker starts again, with an empty memory and perhaps another key.
Restart(w) ==
    /\ FoldFunction(+, 0, life) < site.bounds.restarts
    /\ life' = [life EXCEPT ![w] = @ + 1]
    /\ IF site.http THEN \E k \in Keys : key' = [key EXCEPT ![w] = k]
       ELSE key' = key
    /\ states' = [states EXCEPT ![w] = EmptyMap]
    /\ version' = [version EXCEPT ![w] = 1]
    /\ UNCHANGED <<site, clocks, issued>>

\* cat.attach of a catalog the worker serves, and the value sealed for the
\* caller. One that lacks an option its catalog requires is refused.
AttachTo(c, w, request, ticket) ==
    \E i \in DOMAIN site.catalogs :
        LET id == Cardinality(attached) + 1
            plaintext == [uuid |-> id, bytes |-> Bytes(i, id, request.options)]
        IN  /\ Serves(i, request.name)
            /\ MissingOptions(site.catalogs[i], request.options) = {}
            /\ attached' = attached \cup
                  {[value |-> sealAttach(plaintext, c, key[w]), by |-> c, at |-> w,
                    life |-> life[w], key |-> key[w], name |-> request.name, catalog |-> i,
                    options |-> request.options, ticket |-> ticket]}
            /\ states' = [states EXCEPT ![w] =
                  IF site.catalogs[i].kind \in InMemoryKinds THEN Set(@, id, NewState(i)) ELSE @]

\* catalog_attach. A ticket must be the only option; it takes the place of
\* what the request names.
CatalogAttach(c, w, name, options, ticket) ==
    /\ c \in site.callers
    /\ Cardinality(attached) < site.bounds.attaches
    /\ \/ ticket = NoTicket /\ AttachTo(c, w, [name |-> name, options |-> options], NoTicket)
       \/ /\ ticket # NoTicket /\ DOMAIN options = {}
          /\ Redeemed(ticket, c, w) = "restored"
          /\ AttachTo(c, w, Restored(ticket.token.payload, name, options), ticket)
    /\ UNCHANGED <<site, clocks, key, life, version, detached, begun, tickets>>

\* seal_attach, which a worker hosts whose key was configured. No caller
\* without a principal, nothing that attach would refuse, and, in
\* mintAttachTicket, no life of no seconds.
SealAttach(c, w, name, options, ttl) ==
    /\ c \in site.callers /\ key[w] # NoKey
    /\ Cardinality(tickets) < site.bounds.tickets
    /\ callerPrincipal(c) # ""
    /\ MayBeSealed(name, options)
    /\ LET claims == [catalogName |-> name, options |-> options,
                      issuedAt |-> Seconds(Clock(w)), expiresAt |-> ExpiresAt(w, ttl)]
       IN  /\ claims.expiresAt = 0 \/ claims.expiresAt > claims.issuedAt
           /\ tickets' = tickets \cup
                 {[token |-> sealBytes(claims, key[w], attachTicketAad(callerPrincipal(c))),
                   by |-> c, at |-> w, key |-> key[w], name |-> name, options |-> options,
                   ttl |-> ttl]}
    /\ UNCHANGED <<site, clocks, key, life, memory, attached, detached, begun>>

\* A DDL call that changes the attachment's schemas, or leaves them.
CatalogDdl(c, w, value, r) ==
    /\ c \in site.callers
    /\ DdlAnswer(c, w, value, r) \in {"kept", "changed"}
    /\ LET bytes == value.payload.bytes
           kind == site.catalogs[_route(bytes)].kind
           outcome == Applied(w, bytes, r)
           moved == outcome.answer = "changed"
       IN  /\ version[w] + states[w][bytes.id].version < 2 + site.bounds.changes
           /\ states' = [states EXCEPT ![w][bytes.id].schemas = outcome.schemas,
                                       ![w][bytes.id].version =
                             IF kind = "private" /\ moved THEN @ + 1 ELSE @]
           /\ version' = [version EXCEPT ![w] = IF kind = "memory" /\ moved THEN @ + 1 ELSE @]
    /\ UNCHANGED <<site, clocks, key, life, issued>>

\* catalog_detach. A catalog that does not know the attachment says nothing.
Detach(c, w, value) ==
    /\ c \in site.callers
    /\ UnwrapsAttach(value, c, w)
    /\ LET bytes == value.payload.bytes
           found == Kept(w, _route(bytes), bytes.id)
       IN  /\ states' = [states EXCEPT ![w] = IF found THEN Delete(@, bytes.id) ELSE @]
           /\ detached' = IF found THEN detached \cup {value} ELSE detached
    /\ UNCHANGED <<site, clocks, key, life, version, attached, begun, tickets>>

\* catalog_transaction_begin, of the catalog that has transactions.
TransactionBegin(c, w, value) ==
    /\ c \in site.callers
    /\ Cardinality(begun) < site.bounds.transactions
    /\ UnwrapsAttach(value, c, w)
    /\ site.catalogs[_route(value.payload.bytes)].kind = "example"
    /\ LET aad == IF key[w] = NoKey THEN Anonymous ELSE transactionAad(c, value)
       IN  begun' = begun \cup
              {[value |-> sealBytes(Cardinality(begun) + 1, key[w], aad), by |-> c, parent |-> value]}
    /\ UNCHANGED <<site, clocks, key, life, memory, attached, detached, tickets>>

Names == {site.catalogs[i].name : i \in DOMAIN site.catalogs}
Values == {a.value : a \in attached}

Next ==
    \/ Tick
    \/ \E w \in Workers : Restart(w)
    \/ \E c \in Callers, w \in Workers :
          \/ \E name \in Names, options \in Options :
                \/ \E ticket \in tickets \cup {NoTicket} : CatalogAttach(c, w, name, options, ticket)
                \/ \E ttl \in Ttls : SealAttach(c, w, name, options, ttl)
          \/ \E value \in Values :
                \/ \E r \in Changes : CatalogDdl(c, w, value, r)
                \/ Detach(c, w, value)
                \/ TransactionBegin(c, w, value)

Spec == Init /\ [][Next]_vars

-----------------------------------------------------------------------------
(* Properties. *)

\* Types: what is issued names workers, callers and catalogs, a worker has a
\* key over HTTP and none elsewhere, and what it keeps is of an attach made.
TypeOK ==
    /\ site \in Sites
    /\ drift \in [Workers -> site.drifts] /\ now \in Nat
    /\ key \in [Workers -> IF site.http THEN Keys ELSE {NoKey}]
    /\ life \in [Workers -> Nat]
    /\ DOMAIN states = Workers
    /\ \A w \in Workers : \A id \in DOMAIN states[w] :
          /\ states[w][id].catalog \in DOMAIN site.catalogs
          /\ states[w][id].version \in Nat
    /\ version \in [Workers -> Nat]
    /\ IsFiniteSet(attached)
    /\ \A a \in attached :
          /\ a.at \in Workers /\ a.by \in Callers /\ a.life \in Nat
          /\ a.catalog \in DOMAIN site.catalogs
    /\ detached \subseteq Values
    /\ \A t \in tickets : t.at \in Workers /\ t.by \in Callers /\ t.ttl \in Ttls

SameCaller(c, d) == identityTail(c) = identityTail(d)

\* A call is answered for the caller that made the attachment, from what
\* that attach made: over HTTP under its identity and the key of then, and
\* by the catalog named then; from memory only by the process that has it.
\* (openBytes, _route, _state: crypto.ts:138, composite.ts:53,
\* catalog_contents.ts:342)
OwnAttachment ==
    \A c \in site.callers, w \in Workers, a \in attached :
        "ok" \in {ReadAnswer(c, w, a.value), ScanAnswer(c, w, a.value)} =>
            /\ site.http => SameCaller(c, a.by) /\ key[w] = a.key
            /\ site.catalogs[_route(a.value.payload.bytes)].name = a.name
            /\ site.catalogs[a.catalog].kind \in InMemoryKinds =>
                  a.value \notin detached /\ w = a.at /\ life[w] = a.life

\* What a caller attached is not refused it while the worker has the key of
\* then: "not recognized" only to a stream whose request has no scope, "not
\* attached" only elsewhere, after a restart, once detached, or from an
\* InMemoryCatalog behind a composite, which stamps over its key.
\* (shared.ts:137, request-auth.ts:71, catalog_contents.ts:337, catalog.ts:485)
OwnNotRefused ==
    \A c \in site.callers, w \in Workers, a \in attached :
        (SameCaller(c, a.by) /\ key[w] = a.key) =>
            /\ ReadAnswer(c, w, a.value) # "opaque"
            /\ (site.scope \/ ~c.authenticated) => ScanAnswer(c, w, a.value) # "opaque"
            /\ (/\ w = a.at /\ life[w] = a.life /\ a.value \notin detached
                /\ site.composite => site.catalogs[a.catalog].kind # "memory")
               => ReadAnswer(c, w, a.value) = "ok"

\* An attach with a ticket is the attach that was sealed, whatever the
\* request names, for the principal that sealed it and under that key.
\* (redeemAttachTicket and catalog_attach: attach-ticket.ts:409, admin.ts:83)
TicketRestoresAttach ==
    \A a \in attached : a.ticket # NoTicket =>
        /\ a.ticket \in tickets
        /\ a.name = a.ticket.name /\ a.options = a.ticket.options
        /\ callerPrincipal(a.by) = callerPrincipal(a.ticket.by)
        /\ a.key = a.ticket.key

\* A ticket's life is at most what was asked and what is allowed. It is not
\* refused as outside its life before the instant the sealing worker gave
\* back, by that worker's clock, and nowhere restored two allowances later.
\* (sealAttach, openAttachTicket: attach-ticket.ts:597, 370)
TicketLife ==
    \A t \in tickets :
        LET claims == t.token.payload
            granted == claims.expiresAt - claims.issuedAt
            ends == 2 * claims.expiresAt
            endless == claims.expiresAt = 0
        IN  /\ t.ttl # 0 => ~endless /\ 2 * granted <= t.ttl
            /\ site.ceiling # 0 => ~endless /\ granted <= site.ceiling
            /\ \A c \in site.callers, w \in Workers :
                  /\ Redeemed(t, c, w) = "expired" => ~endless /\ Clock(t.at) >= ends
                  /\ Redeemed(t, c, w) = "restored" => endless \/ Clock(t.at) < ends + 4 * Skew

\* Over HTTP a transaction is carried on only by the identity that began it,
\* with the very attachment it was begun under. (transactionAad:
\* crypto.ts:104)
TransactionStaysWithAttach ==
    site.http =>
        \A c \in site.callers, w \in Workers, a \in attached, t \in begun :
            TransactionAnswer(c, w, a.value, t.value) = "ok" =>
                a.value = t.parent /\ SameCaller(c, t.by)

\* The label a client keeps what it read under: the version of the
\* attachment, or of the catalog all attachments share.
Label(w, id) ==
    IF site.catalogs[states[w][id].catalog].kind = "private" THEN states[w][id].version
    ELSE version[w]

\* Whatever call changes an attachment's schemas moves its label on, so what
\* a client keeps under the label before is not taken for current.
\* (the version++ of each method; ContentsRevalCatalog's etag)
VersionMovesWithContents ==
    [][\A w \in Workers :
          life'[w] = life[w] =>
              \A id \in DOMAIN states[w] \cap DOMAIN states'[w] :
                  states'[w][id].schemas # states[w][id].schemas => Label(w, id)' > Label(w, id)]_vars
=============================================================================
