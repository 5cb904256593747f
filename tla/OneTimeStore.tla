---------------------------- MODULE OneTimeStore ----------------------------
(***************************************************************************)
(* What a vault store promises about its one-time records, as its callers  *)
(* see it: authorization transactions, exchange codes, the JTIs of logout  *)
(* tokens, DPoP proofs and logout tickets (OidcVaultStoreProvider in       *)
(* packages/express-oidc-vault/src/types.ts).                              *)
(*                                                                         *)
(* There is no lazy deletion here: a record is gone the instant it expires *)
(* or is consumed, and the reply to a call is a function of the records    *)
(* that are left.                                                          *)
(***************************************************************************)
EXTENDS Naturals, FiniteSets

CONSTANTS Ids,       \* kind -> IDs
          Records,   \* kind -> records
          Matches, Undefined,
          MaxProofs, MaxTickets, ProofWindow, TicketWindow

VARIABLES now,
          live,   \* kind -> ID -> the records that can still be obtained
          call    \* the last call and its reply

registryVars == <<now, live, call>>

Kinds == {"transaction", "code", "jti", "proof", "ticket"}

Unexpired(map, time) == [id \in {k \in DOMAIN map : map[k].expiresAt > time} |-> map[id]]

Stored(map, id, record) ==
  Unexpired([k \in DOMAIN map \cup {id} |-> IF k = id THEN record ELSE map[k]], now)

Removed(map, id) == [k \in DOMAIN map \ {id} |-> map[k]]

Lookup(map, id) == IF id \in DOMAIN map THEN map[id] ELSE Undefined

\* A consume names the binding it expects and, for a code, the session.
Agrees(record, match) ==
  /\ record.key = match.key
  /\ record.browser = match.browser
  /\ match.session \in {Undefined, record.session}

Took(kind, id, match) == id \in DOMAIN live[kind] /\ Agrees(live[kind][id], match)

Reply(op, kind, id, match, value) ==
  call' = [op |-> op, kind |-> kind, id |-> id, match |-> match, value |-> value]

Create(kind, id, record) ==
  /\ Reply("create", kind, id, Undefined, Undefined)
  /\ live' = [live EXCEPT ![kind] = Stored(@, id, record)]

Read(kind, id) ==
  /\ Reply("get", kind, id, Undefined, Lookup(live[kind], id))
  /\ UNCHANGED live

Consume(kind, id, match) ==
  IF Took(kind, id, match)
  THEN /\ Reply("consume", kind, id, match, live[kind][id])
       /\ live' = [live EXCEPT ![kind] = Removed(@, id)]
  ELSE /\ Reply("consume", kind, id, match, Undefined)
       /\ UNCHANGED live

\* The first presentation of a JTI owns it until the token would have expired.
Reserve(id, record) ==
  IF record.expiresAt > now /\ id \notin DOMAIN live["jti"]
  THEN /\ Reply("reserve", "jti", id, record, TRUE)
       /\ live' = [live EXCEPT !["jti"] = Stored(@, id, record)]
  ELSE /\ Reply("reserve", "jti", id, record, FALSE)
       /\ UNCHANGED live

\* A deadline that is ahead, and no further than the window.
Ahead(record, window) == record.expiresAt > now /\ record.expiresAt <= now + window

\* Proofs and tickets are limited in number: admitted, or told why not.
Admit(op, kind, id, record, limit, refusal, accepted) ==
  LET full == Cardinality(DOMAIN live[kind]) >= limit
      answer == IF refusal # "none" THEN refusal ELSE IF full THEN "full" ELSE accepted
  IN  /\ Reply(op, kind, id, record, answer)
      /\ live' = IF answer = accepted
                 THEN [live EXCEPT ![kind] = Stored(@, id, record)] ELSE live

ReserveProof(id, record) ==
  LET refusal == IF Ahead(record, ProofWindow) /\ id \notin DOMAIN live["proof"]
                 THEN "none" ELSE "refused"
  IN  Admit("reserve", "proof", id, record, MaxProofs, refusal, "reserved")

CreateTicket(id, record) ==
  LET refusal == IF ~Ahead(record, TicketWindow) THEN "invalid"
                 ELSE IF id \in DOMAIN live["ticket"] THEN "conflict" ELSE "none"
  IN  Admit("create", "ticket", id, record, MaxTickets, refusal, "created")

ConsumeTicket(id) ==
  /\ Reply("consume", "ticket", id, Undefined, Lookup(live["ticket"], id))
  /\ live' = [live EXCEPT !["ticket"] = Removed(@, id)]

TimePasses ==
  /\ now' = now + 1
  /\ live' = [kind \in Kinds |-> Unexpired(live[kind], now')]
  /\ UNCHANGED call

RegistryInit ==
  /\ now = 0
  /\ live = [kind \in Kinds |-> [id \in {} |-> Undefined]]
  /\ call = Undefined

RegistryNext ==
  \/ TimePasses
  \/ /\ UNCHANGED now
     /\ \/ \E kind \in {"transaction", "code"} : \E id \in Ids[kind] :
             \/ \E record \in Records[kind] : Create(kind, id, record)
             \/ Read(kind, id)
             \/ \E match \in Matches : Consume(kind, id, match)
        \/ \E id \in Ids["jti"], record \in Records["jti"] : Reserve(id, record)
        \/ \E id \in Ids["proof"], record \in Records["proof"] : ReserveProof(id, record)
        \/ \E id \in Ids["ticket"], record \in Records["ticket"] : CreateTicket(id, record)
        \/ \E id \in Ids["ticket"] : ConsumeTicket(id)

RegistrySpec == RegistryInit /\ [][RegistryNext]_registryVars
=============================================================================
