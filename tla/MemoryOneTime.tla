--------------------------- MODULE MemoryOneTime ---------------------------
(***************************************************************************)
(* The one-time records of the in-memory OIDC vault store                  *)
(* (packages/express-oidc-vault-memory-store/src/index.ts): authorization  *)
(* transactions, exchange codes, consumed logout-token JTIs, reservations  *)
(* of DPoP proofs and tickets for the navigation after a logout.           *)
(*                                                                         *)
(* Every method body runs without yielding and so is one action.  Expired  *)
(* records linger until a read of that very record, a sweep or the         *)
(* clean-up of a heap meets them.                                          *)
(***************************************************************************)
EXTENDS ExpiringMap, ExpiryHeap

CONSTANTS States, Codes, Jtis, ProofKeys, TicketIds,
          Records,     \* the records callers pass in
          Matches,     \* the expectations callers pass to a conditional consume
          MaxProofs,   \* dpopReplayMaxEntries
          MaxTickets,  \* logoutNavigationMaxEntries
          ProofWindow, \* the longest time a proof can be reserved for
          TicketWindow,\* the longest time a ticket can be valid for
          Undefined    \* an optional field or argument that is not given, or null

VARIABLES txns,        \* authorizationTransactions: state -> record
          codes,       \* exchangeCodes: code -> record
          jtis,        \* backchannelLogoutTokenJtis: replay key -> deadline
          proofs,      \* dpopProofs: the heap of reservations
          tickets,     \* logoutTickets: the heap of tickets
          call         \* the last call and its reply, as its caller saw them

oneTimeVars == <<txns, codes, jtis>>
heapVars == <<proofs, tickets>>

\* A record is bound to a key only if it is bound to a browser as well.
hasValidRecordBinding(record) == record.key # Undefined => record.browser # Undefined

ASSUME OneTimeAssumption ==
  /\ \A record \in Records : record.expiresAt \in Deadlines \cap Nat
  /\ \A record \in Records : hasValidRecordBinding(record)
  /\ \A match \in Matches : DOMAIN match = {"key", "browser", "session"}
  /\ MaxProofs \in Nat /\ MaxTickets \in Nat
  /\ ProofWindow \in Nat /\ TicketWindow \in Nat

\* A faulty match, which takes null for "any".
NullMatchesAnything(record, match) ==
  match.key \in {Undefined, record.key} /\ match.browser \in {Undefined, record.browser}

\* match.deviceBinding and match.browserBindingHash are exact: null demands absence.
matchesRecordBinding(record, match) ==
  record.key = match.key /\ record.browser = match.browser

(***************************************************************************)
(* readOneTimeRecord finds an unexpired record and deletes an expired one. *)
(***************************************************************************)
Found(map, id) == id \in LiveKeys(map)

AfterRead(map, id) == Without(map, {id} \cap ExpiredKeys(map))

FoundValue(map, id) == IF Found(map, id) THEN map[id] ELSE Undefined

(***************************************************************************)
(* createAuthorizationTransaction, createExchangeCode: sweep, then store   *)
(* over whatever the ID held.                                              *)
(***************************************************************************)
CreateIn(map, next, id, record) ==
  \E P \in Sweeps(map) : next = With(Without(map, P), id, record)

CreateAuthorizationTransaction(id, record) ==
  CreateIn(txns, txns', id, record) /\ UNCHANGED <<codes, jtis>>

CreateExchangeCode(id, record) ==
  CreateIn(codes, codes', id, record) /\ UNCHANGED <<txns, jtis>>

(***************************************************************************)
(* getAuthorizationTransaction, getExchangeCode.                           *)
(***************************************************************************)
GetAuthorizationTransaction(id) ==
  txns' = AfterRead(txns, id) /\ UNCHANGED <<codes, jtis>>

GetExchangeCode(id) ==
  codes' = AfterRead(codes, id) /\ UNCHANGED <<txns, jtis>>

(***************************************************************************)
(* consumeAuthorizationTransactionIfMatches and consumeExchangeRecord:     *)
(* sweep, read, and delete the record if it is the one expected.  The      *)
(* unconditional forms expect an unbound record.                           *)
(***************************************************************************)
CanConsumeTransaction(id, match) ==
  Found(txns, id) /\ matchesRecordBinding(txns[id], match)

CanConsumeCode(id, match) ==
  /\ Found(codes, id)
  /\ match.session \in {Undefined, codes[id].session}
  /\ matchesRecordBinding(codes[id], match)

ConsumeIn(map, next, id, granted) ==
  \E P \in Sweeps(map) :
    next = LET kept == Without(map, P)
           IN  IF granted THEN Without(kept, {id}) ELSE AfterRead(kept, id)

ConsumeAuthorizationTransactionIfMatches(id, match) ==
  /\ ConsumeIn(txns, txns', id, CanConsumeTransaction(id, match))
  /\ UNCHANGED <<codes, jtis>>

ConsumeExchangeCodeIfMatches(id, match) ==
  /\ ConsumeIn(codes, codes', id, CanConsumeCode(id, match))
  /\ UNCHANGED <<txns, jtis>>

LegacyMatch == [key |-> Undefined, browser |-> Undefined, session |-> Undefined]

(***************************************************************************)
(* consumeBackchannelLogoutTokenJti: sweep, then reserve the JTI for the   *)
(* first presentation of a token that has not expired.                     *)
(***************************************************************************)
FirstUse(jti, expiresAt) == expiresAt > now /\ jti \notin LiveKeys(jtis)

ConsumeBackchannelLogoutTokenJti(jti, expiresAt) ==
  /\ \E P \in Sweeps(jtis) :
       jtis' = LET kept == Without(jtis, P)
               IN  IF FirstUse(jti, expiresAt)
                   THEN With(kept, jti, [expiresAt |-> expiresAt])
                   ELSE kept
  /\ UNCHANGED <<txns, codes>>

(***************************************************************************)
(* reserveDpopProof: a proof that is fresh, not too far ahead and not      *)
(* reserved is reserved, after clean-up and if there is room.              *)
(***************************************************************************)
Within(expiresAt, window) == expiresAt > now /\ expiresAt <= now + window

HasLive(heap, id) == id \in IdsOf(heap) /\ NodeOf(heap, id).expiresAt > now

Cleaned(heap, id) == cleanup(RemoveId(heap, id), now)

reserve(id, expiresAt) ==
  LET kept == Cleaned(proofs, id)
      node == [id |-> id, expiresAt |-> expiresAt]
  IN  IF ~Within(expiresAt, ProofWindow) \/ HasLive(proofs, id)
      THEN [answer |-> "refused", heap |-> proofs]
      ELSE IF Len(kept) >= MaxProofs
      THEN [answer |-> "full", heap |-> kept]
      ELSE [answer |-> "reserved", heap |-> push(kept, node)]

(***************************************************************************)
(* createLogoutNavigationTicket and consumeLogoutNavigationTicket.  An     *)
(* unusable input and a ticket that is still live are errors before        *)
(* anything is cleaned up.  A consume removes the ticket whether or not it *)
(* has expired, and cleans up.                                             *)
(***************************************************************************)
createTicket(id, expiresAt) ==
  LET kept == Cleaned(tickets, id)
      node == [id |-> id, expiresAt |-> expiresAt]
  IN  IF ~Within(expiresAt, TicketWindow)
      THEN [answer |-> "invalid", heap |-> tickets]
      ELSE IF HasLive(tickets, id)
      THEN [answer |-> "conflict", heap |-> tickets]
      ELSE IF Len(kept) >= MaxTickets
      THEN [answer |-> "full", heap |-> kept]
      ELSE [answer |-> "created", heap |-> push(kept, node)]

consumeTicket(id) ==
  [answer |-> IF HasLive(tickets, id)
              THEN [expiresAt |-> NodeOf(tickets, id).expiresAt]
              ELSE Undefined,
   heap |-> Cleaned(tickets, id)]

----------------------------------------------------------------------------
(***************************************************************************)
(* The store on its own, with every call a caller can make.                *)
(***************************************************************************)
Replied(op, kind, id, match, value) ==
  call' = [op |-> op, kind |-> kind, id |-> id, match |-> match, value |-> value]

Init ==
  /\ now = 0
  /\ txns = EmptyMap
  /\ codes = EmptyMap
  /\ jtis = EmptyMap
  /\ proofs = << >>
  /\ tickets = << >>
  /\ call = Undefined

vars == <<now, oneTimeVars, heapVars, call>>

TransactionCall(id) ==
  \/ \E record \in Records :
       /\ CreateAuthorizationTransaction(id, record)
       /\ Replied("create", "transaction", id, Undefined, Undefined)
  \/ /\ GetAuthorizationTransaction(id)
     /\ Replied("get", "transaction", id, Undefined, FoundValue(txns, id))
  \/ \E match \in Matches \cup {LegacyMatch} :
       /\ ConsumeAuthorizationTransactionIfMatches(id, [match EXCEPT !.session = Undefined])
       /\ Replied("consume", "transaction", id, [match EXCEPT !.session = Undefined],
                  IF CanConsumeTransaction(id, match) THEN txns[id] ELSE Undefined)

CodeCall(id) ==
  \/ \E record \in Records :
       /\ CreateExchangeCode(id, record)
       /\ Replied("create", "code", id, Undefined, Undefined)
  \/ /\ GetExchangeCode(id)
     /\ Replied("get", "code", id, Undefined, FoundValue(codes, id))
  \/ \E match \in Matches \cup {LegacyMatch} :
       /\ ConsumeExchangeCodeIfMatches(id, match)
       /\ Replied("consume", "code", id, match,
                  IF CanConsumeCode(id, match) THEN codes[id] ELSE Undefined)

JtiCall(id) ==
  \E expiresAt \in Deadlines \cap Nat :
    /\ ConsumeBackchannelLogoutTokenJti(id, expiresAt)
    /\ Replied("reserve", "jti", id, [expiresAt |-> expiresAt], FirstUse(id, expiresAt))

ReserveDpopProof(id, expiresAt) ==
  LET result == reserve(id, expiresAt)
  IN  /\ proofs' = result.heap
      /\ Replied("reserve", "proof", id, [expiresAt |-> expiresAt], result.answer)

CreateLogoutNavigationTicket(id, expiresAt) ==
  LET result == createTicket(id, expiresAt)
  IN  /\ tickets' = result.heap
      /\ Replied("create", "ticket", id, [expiresAt |-> expiresAt], result.answer)

ConsumeLogoutNavigationTicket(id) ==
  LET result == consumeTicket(id)
  IN  /\ tickets' = result.heap
      /\ Replied("consume", "ticket", id, Undefined, result.answer)

ProofCall(id) ==
  \E expiresAt \in Deadlines \cap Nat : ReserveDpopProof(id, expiresAt)

TicketCall(id) ==
  \/ \E expiresAt \in Deadlines \cap Nat : CreateLogoutNavigationTicket(id, expiresAt)
  \/ ConsumeLogoutNavigationTicket(id)

Next ==
  \/ Tick /\ UNCHANGED <<oneTimeVars, heapVars, call>>
  \/ /\ UNCHANGED <<now, oneTimeVars>>
     /\ \/ \E id \in ProofKeys : ProofCall(id) /\ UNCHANGED tickets
        \/ \E id \in TicketIds : TicketCall(id) /\ UNCHANGED proofs
  \/ /\ UNCHANGED <<now, heapVars>>
     /\ \/ \E id \in States : TransactionCall(id)
        \/ \E id \in Codes : CodeCall(id)
        \/ \E id \in Jtis : JtiCall(id)

Spec == Init /\ [][Next]_vars

----------------------------------------------------------------------------
(***************************************************************************)
(* The Maps hold records callers passed in, under known IDs, and the heaps *)
(* stay in order and within their limits.                                  *)
(***************************************************************************)
TypeOK ==
  /\ now \in Nat
  /\ DOMAIN txns \subseteq States
  /\ DOMAIN codes \subseteq Codes
  /\ DOMAIN jtis \subseteq Jtis
  /\ \A map \in {txns, codes} : map \in [DOMAIN map -> Records]
  /\ jtis \in [DOMAIN jtis -> [expiresAt : Deadlines \cap Nat]]
  /\ IdsOf(proofs) \subseteq ProofKeys /\ Len(proofs) <= MaxProofs /\ InOrder(proofs)
  /\ IdsOf(tickets) \subseteq TicketIds /\ Len(tickets) <= MaxTickets /\ InOrder(tickets)

(***************************************************************************)
(* The store keeps its promise (module OneTimeStore): through lazy expiry, *)
(* sweeps that meet only some records, overwriting and refused consumes,   *)
(* every call is answered as if a record vanished the moment it expired or *)
(* was consumed, and only then.  At its limit a heap turns a call away     *)
(* exactly when all it holds is live: it evicts nothing, and what has      *)
(* expired never takes the room of a new entry.                            *)
(***************************************************************************)
Live(map) == Restrict(map, LiveKeys(map))

Map(heap) == [id \in IdsOf(heap) |-> [expiresAt |-> NodeOf(heap, id).expiresAt]]

Promise ==
  INSTANCE OneTimeStore WITH
    live <- [transaction |-> Live(txns), code |-> Live(codes), jti |-> Live(jtis),
             proof |-> Live(Map(proofs)), ticket |-> Live(Map(tickets))],
    Ids <- [transaction |-> States, code |-> Codes, jti |-> Jtis,
            proof |-> ProofKeys, ticket |-> TicketIds],
    Records <- [kind \in {"transaction", "code", "jti", "proof", "ticket"} |->
                  IF kind \in {"transaction", "code"}
                  THEN Records ELSE [expiresAt : Deadlines \cap Nat]],
    Matches <- Matches \cup {[m EXCEPT !.session = Undefined] : m \in Matches} \cup {LegacyMatch}

KeepsItsPromise == Promise!RegistrySpec
=============================================================================
