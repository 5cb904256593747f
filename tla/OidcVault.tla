----------------------------- MODULE OidcVault -----------------------------
(***************************************************************************)
(* The request handlers of the OIDC vault                                  *)
(* (packages/express-oidc-vault/src/index.ts) over the in-memory store.    *)
(*                                                                         *)
(* Every handler is an asynchronous function: it reads a record, waits for *)
(* a proof, the provider, a hook or the store, and goes on with what it    *)
(* read.  An action is what one request does from one await to the next,   *)
(* and the actions of different requests interleave freely.  A request is  *)
(* named by its element of one of the constant sets below, and the opaque  *)
(* IDs it mints (createOpaqueId) are that same element: the state and the  *)
(* browser secret of a login, the session ID and the exchange code of a    *)
(* callback, the rotated session ID of a refresh.                          *)
(***************************************************************************)
EXTENDS ExpiringMap

CONSTANTS Logins, Callbacks, Exchanges, Refreshes, Logouts, Backchannels,
          Subjects, Sids, Providers, Keys, Undefined,
          Config,      \* request -> policy and provider of the instance it reaches
          Token,       \* back-channel request -> the logout token it presents
          TxnTtl, CodeTtl, SessionTtl,  \* SessionTtl may be Never
          HookDeadlines   \* the expiresAt onBeforeSessionCreate may write

VARIABLES sessions, aliases,       \* the store: see MemorySessions
          txns, codes, jtis,       \* the store: see MemoryOneTime
          pc,                      \* request -> where its handler stands
          req                      \* request -> what its handler holds

SessionIds == Callbacks \cup Refreshes

Requests == Logins \cup Callbacks \cup Exchanges \cup Refreshes \cup Logouts \cup Backchannels

ASSUME VaultAssumption ==
  /\ Config \in [Requests -> [policy : {"disabled", "optional", "required"},
                              provider : Providers]]
  /\ Token \in [Backchannels -> [jti : Backchannels, subject : Subjects,
                                 sid : Sids \cup {Undefined}, expiresAt : Nat]]
  /\ TxnTtl \in Nat \ {0}
  /\ CodeTtl \in Nat \ {0}
  /\ SessionTtl \in (Nat \ {0}) \cup {Never}
  /\ HookDeadlines \subseteq Deadlines
  /\ \A b, d \in Backchannels :
       Config[b].provider = Config[d].provider /\ Token[b].jti = Token[d].jti
         => Token[b] = Token[d]

\* A request is of one kind; IDs and the authority of a session are defined.
ASSUME RequestAssumption ==
  /\ LET kinds == <<Logins, Callbacks, Exchanges, Refreshes, Logouts, Backchannels>>
     IN  \A i, j \in 1 .. 6 : i # j => kinds[i] \cap kinds[j] = {}
  /\ Undefined \notin SessionIds
  /\ Undefined \notin [logical : SessionIds, provider : Providers \cup {Undefined},
                      key : Keys \cup {Undefined}]

\* Deadlines has room for every lifetime that can start.
ASSUME LifetimeAssumption ==
  /\ SessionTtl = Never => Never \in Deadlines
  /\ \A ttl \in {TxnTtl, CodeTtl, SessionTtl} \ {Never}, t \in 0 .. MaxTime :
       t + ttl \in Deadlines

Sessions == INSTANCE MemorySessions WITH
              LogicalIds <- SessionIds, Inputs <- {}, closing <- {}

OneTime == INSTANCE MemoryOneTime WITH
             States <- Logins, Codes <- Callbacks, Jtis <- Providers \X Backchannels,
             Records <- {}, Matches <- {}, call <- Undefined,
             ProofKeys <- {}, TicketIds <- {}, proofs <- << >>, tickets <- << >>, CleanBatch <- 1,
             MaxProofs <- 0, MaxTickets <- 0, ProofWindow <- 0, TicketWindow <- 0

sessionVars == <<sessions, aliases>>
oneTimeVars == <<txns, codes, jtis>>
vars == <<now, sessionVars, oneTimeVars, pc, req>>

\* pc of a request that has been answered.
Final == {"done", "ok", "absent", "rejected", "refused", "failed", "lapsed"}

(***************************************************************************)
(* Moving on.  A request is refused before it has committed anything and   *)
(* fails after; an exchange lapses when it fails on the very code it has   *)
(* just spent.  All three answer with an error.                            *)
(***************************************************************************)
At(r, label) == pc[r] = label

Goto(r, label) == pc' = [pc EXCEPT ![r] = label] /\ UNCHANGED req

GotoWith(r, label, held) ==
  pc' = [pc EXCEPT ![r] = label] /\ req' = [req EXCEPT ![r] = held]

Proceed(r, condition, label, held) ==
  IF condition THEN GotoWith(r, label, held) ELSE Goto(r, "refused")

(***************************************************************************)
(* Checks shared by the handlers.                                          *)
(***************************************************************************)
\* computeExpiresAt, and a session without sessionTtlMs.
ExpiresIn(ttl) == IF ttl = Never THEN Never ELSE now + ttl

assertDeviceBindingPolicy(r, key) ==
  IF key = Undefined THEN Config[r].policy # "required" ELSE Config[r].policy # "disabled"

\* assertVaultSessionIdentity: what is known of the provider must be this one.
assertIdentity(r, provider) == provider \in {Undefined, Config[r].provider}

\* Faulty: any cookie of this server will do.
AnyCookie(browser, cookie) == browser = Undefined \/ cookie # Undefined

authenticateTransactionCookie(browser, cookie) == browser \in {Undefined, cookie}

\* The secret it returns, which the handler keeps.
CookieSecret(browser, cookie) == IF browser = Undefined THEN Undefined ELSE cookie

\* Faulty: any admitted proof will do.
AnyProof(r, key, proof) == key = Undefined \/ proof # Undefined

\* resolveVerifiedDeviceBinding of an admitted proof, or of none.
ProofAccepted(r, key, proof) ==
  \/ Config[r].policy = "disabled"
  \/ key = Undefined
  \/ proof = key

\* The keys a presenter may prove; a disabled instance does not look.
Proofs(r) == IF Config[r].policy = "disabled" THEN {Undefined} ELSE Keys \cup {Undefined}

(***************************************************************************)
(* A handler keeps a snapshot of what it first read, and goes on only if a *)
(* later read or consume returns the same record: the snapshot and match   *)
(* functions for transactions, exchange codes and sessions.                *)
(***************************************************************************)
SameTransaction(l, original) == OneTime!FoundValue(txns, l) = original

\* Some time after the store answered: the clock is read again.
Lapsed(record) == isExpiredRecord(record)

SameCode(returned, original) == returned = original

SameSession(id, original) == Sessions!IsLive(id) /\ sessions[id] = original

assertVaultExchangeSessionBinding(record, session) == record.key = session.key

assertVaultRevocationContextMatches(context, original) == context = original

DeleteLineage(logical) ==
  Sessions!DeleteSessionsByLogicalSessionId(logical) /\ UNCHANGED oneTimeVars

(***************************************************************************)
(* GET login starts an unbound transaction; POST login, which exists only  *)
(* if device binding is configured, ties it to the browser and to the key  *)
(* of an admitted proof.  onAuthorizationUrl may still fail afterwards: the *)
(* transaction stays, and nobody learns its state.                         *)
(***************************************************************************)
StartTransaction(l, key, browser, provider) ==
  /\ At(l, "idle")
  /\ \/ /\ ~assertDeviceBindingPolicy(l, key)
        /\ Goto(l, "refused")
        /\ UNCHANGED oneTimeVars
     \/ /\ assertDeviceBindingPolicy(l, key)
        /\ OneTime!CreateAuthorizationTransaction(l,
             [key |-> key, browser |-> browser, provider |-> provider,
              expiresAt |-> now + TxnTtl])
        /\ \E outcome \in {"done", "failed"} :
             GotoWith(l, outcome, [key |-> key, browser |-> browser])
  /\ UNCHANGED sessionVars

LoginGet(l) == StartTransaction(l, Undefined, Undefined, Undefined)

LoginPost(l) ==
  /\ Config[l].policy # "disabled"
  /\ \E key \in Keys \cup {Undefined} : StartTransaction(l, key, l, Config[l].provider)

(***************************************************************************)
(* Callback: look at the transaction, consume it, redeem the code with the *)
(* provider, create the session, create the exchange code.                 *)
(***************************************************************************)
CallbackRead(c) ==
  /\ At(c, "idle")
  /\ \E l \in Logins, cookie \in Logins \cup {Undefined} :
       /\ At(l, "done")
       /\ OneTime!GetAuthorizationTransaction(l)
       /\ Proceed(c,
            /\ OneTime!Found(txns, l)
            /\ assertIdentity(c, txns[l].provider)
            /\ assertDeviceBindingPolicy(c, txns[l].key)
            /\ authenticateTransactionCookie(txns[l].browser, cookie),
            "authorized",
            [login |-> l, txn |-> OneTime!FoundValue(txns, l),
             cookie |-> IF OneTime!Found(txns, l)
                        THEN CookieSecret(txns[l].browser, cookie) ELSE Undefined])
  /\ UNCHANGED sessionVars

\* A faulty callback, which trusts a second read instead of consuming.
CallbackConsumeByReading(c) ==
  /\ At(c, "authorized")
  /\ OneTime!GetAuthorizationTransaction(req[c].login)
  /\ Proceed(c, SameTransaction(req[c].login, req[c].txn), "consumed", req[c])
  /\ UNCHANGED sessionVars

CallbackConsume(c) ==
  /\ At(c, "authorized")
  /\ LET l == req[c].login
         match == [key |-> req[c].txn.key, browser |-> req[c].txn.browser]
     IN  /\ OneTime!ConsumeAuthorizationTransactionIfMatches(l, match)
         /\ Proceed(c, OneTime!CanConsumeTransaction(l, match) /\ SameTransaction(l, req[c].txn),
                    "consumed", req[c])
  /\ UNCHANGED sessionVars

\* Faulty: the verified subject does not reach the record.
NewSessionWithoutSubject(c, subject, sid) ==
  [logical |-> c, subject |-> Undefined, sid |-> sid, provider |-> Config[c].provider,
   key |-> req[c].txn.key, expiresAt |-> ExpiresIn(SessionTtl)]

\* The deadlines are fixed here, before the last hook has its say.
NewSession(c, subject, sid) ==
  [logical |-> c, subject |-> subject, sid |-> sid, provider |-> Config[c].provider,
   key |-> req[c].txn.key, expiresAt |-> ExpiresIn(SessionTtl)]

\* It fails if the provider, a check or a hook does, or if the transaction has
\* lapsed by the time the consume's answer is looked at.
CallbackTokens(c) ==
  /\ At(c, "consumed")
  /\ \/ Goto(c, "failed")
     \/ \E subject \in Subjects, sid \in Sids \cup {Undefined} :
          GotoWith(c, "tokens",
            [login |-> req[c].login, txn |-> req[c].txn, cookie |-> req[c].cookie,
             session |-> NewSession(c, subject, sid), codeExpiresAt |-> now + CodeTtl])
  /\ UNCHANGED <<sessionVars, oneTimeVars>>

\* Faulty: what the hook wrote is taken as it is.
Uncapped(proposed, cap) == proposed

\* onBeforeSessionCreate may write expiresAt, but not past a configured cap.
Capped(proposed, cap) ==
  IF cap = Never \/ (proposed # Never /\ proposed <= cap) THEN proposed ELSE cap

CallbackCreateSession(c) ==
  /\ At(c, "tokens")
  /\ \/ Goto(c, "failed") /\ UNCHANGED sessionVars
     \/ \E proposed \in HookDeadlines \cup {req[c].session.expiresAt} :
          LET session == [req[c].session EXCEPT !.expiresAt = Capped(proposed, @)]
          IN  /\ Sessions!CreateSession(c, session)
              /\ GotoWith(c, "created", [req[c] EXCEPT !.session = session])
  /\ UNCHANGED oneTimeVars

\* A faulty callback, which keeps the session when the code cannot be created.
CallbackCreateCodeWithoutRollback(c) ==
  /\ At(c, "created")
  /\ \/ /\ Goto(c, "failed")
        /\ UNCHANGED oneTimeVars
     \/ /\ OneTime!CreateExchangeCode(c,
             [session |-> c, key |-> req[c].txn.key, browser |-> req[c].txn.browser,
              expiresAt |-> req[c].codeExpiresAt])
        /\ Goto(c, "done")
  /\ UNCHANGED sessionVars

CallbackCreateCode(c) ==
  /\ At(c, "created")
  /\ \/ /\ Goto(c, "failed")
        /\ DeleteLineage(c)
     \/ /\ OneTime!CreateExchangeCode(c,
             [session |-> c, key |-> req[c].txn.key, browser |-> req[c].txn.browser,
              expiresAt |-> req[c].codeExpiresAt])
        /\ Goto(c, "done")
        /\ UNCHANGED sessionVars

(***************************************************************************)
(* Exchange: look at the code and its session, check the browser and the   *)
(* proof, consume the code, look at the session again, issue the token.    *)
(***************************************************************************)
ExchangeReadCode(e) ==
  /\ At(e, "idle")
  /\ \E c \in Callbacks :
       /\ At(c, "done")
       /\ OneTime!GetExchangeCode(c)
       /\ Proceed(e, OneTime!Found(codes, c) /\ assertDeviceBindingPolicy(e, codes[c].key),
                  "code", [code |-> c, record |-> OneTime!FoundValue(codes, c)])
  /\ UNCHANGED sessionVars

Protected(e) == Config[e].policy # "disabled" \/ req[e].record.browser # Undefined

ExchangeReadSession(e) ==
  /\ At(e, "code")
  /\ LET id == req[e].record.session
     IN  /\ Sessions!GetSession(id)
         /\ \E cookie \in Logins \cup {Undefined} :
              Proceed(e,
                /\ Sessions!IsLive(id)
                /\ assertDeviceBindingPolicy(e, sessions[id].key)
                /\ assertVaultExchangeSessionBinding(req[e].record, sessions[id])
                /\ Protected(e) => assertIdentity(e, sessions[id].provider)
                /\ authenticateTransactionCookie(req[e].record.browser, cookie),
                "session",
                [code |-> req[e].code, record |-> req[e].record,
                 cookie |-> CookieSecret(req[e].record.browser, cookie),
                 session |-> IF Sessions!IsLive(id) THEN sessions[id] ELSE Undefined])
  /\ UNCHANGED oneTimeVars

ExchangeSpend(e) ==
  /\ At(e, "session")
  /\ LET c == req[e].code
         match == [key |-> req[e].record.key, browser |-> req[e].record.browser,
                   session |-> IF Protected(e) THEN req[e].record.session ELSE Undefined]
     IN  \E proof \in Proofs(e) :
           \/ /\ ~ProofAccepted(e, req[e].session.key, proof)
              /\ Goto(e, "refused")
              /\ UNCHANGED oneTimeVars
           \/ /\ ProofAccepted(e, req[e].session.key, proof)
              /\ OneTime!ConsumeExchangeCodeIfMatches(c, match)
              /\ Proceed(e, OneTime!CanConsumeCode(c, match),
                   "spent", [code |-> c, record |-> req[e].record, cookie |-> req[e].cookie,
                             session |-> req[e].session, proof |-> proof,
                             returned |-> OneTime!FoundValue(codes, c)])
  /\ UNCHANGED sessionVars

\* What the consume returned is looked at when the await is over.  A code that
\* has lapsed by then is spent and the request ends; nothing is rolled back.
ExchangeRecheck(e) ==
  /\ At(e, "spent")
  /\ IF Lapsed(req[e].returned) \/ ~SameCode(req[e].returned, req[e].record)
     THEN Goto(e, "lapsed") /\ UNCHANGED sessionVars
     ELSE /\ Sessions!GetSession(req[e].record.session)
          /\ Goto(e, IF /\ SameSession(req[e].record.session, req[e].session)
                        /\ assertIdentity(e, req[e].session.provider)
                     THEN "checked" ELSE "failed")
  /\ UNCHANGED oneTimeVars

\* Faulty: the lineage survives an issuer that fails.
IssueWithoutRollback(r, logical) ==
  (Goto(r, "ok") \/ Goto(r, "failed")) /\ UNCHANGED <<sessionVars, oneTimeVars>>

\* withIssuedToken: an issuer that fails takes the whole lineage with it.
Issue(r, logical) ==
  \/ Goto(r, "ok") /\ UNCHANGED <<sessionVars, oneTimeVars>>
  \/ Goto(r, "failed") /\ DeleteLineage(logical)

ExchangeIssue(e) == At(e, "checked") /\ Issue(e, req[e].session.logical)

(***************************************************************************)
(* Session IDs that reached a client, in the response of an exchange or of *)
(* a refresh.                                                              *)
(***************************************************************************)
Delivered ==
  {req[e].code : e \in {x \in Exchanges : At(x, "ok")}} \cup {r \in Refreshes : At(r, "ok")}

(***************************************************************************)
(* Refresh: look at the session, check the proof, look again, go to the    *)
(* provider, rotate, confirm what was rotated, issue the token.            *)
(***************************************************************************)
RefreshRead(r) ==
  /\ At(r, "idle")
  /\ \E h \in Delivered :
       /\ Sessions!GetSession(h)
       /\ Proceed(r, /\ Sessions!IsLive(h)
                     /\ assertIdentity(r, sessions[h].provider)
                     /\ assertDeviceBindingPolicy(r, sessions[h].key),
                  "read",
                  [handle |-> h, session |-> IF Sessions!IsLive(h) THEN sessions[h] ELSE Undefined])
  /\ UNCHANGED oneTimeVars

RefreshCheck(r) ==
  /\ At(r, "read")
  /\ Config[r].policy # "disabled"
  /\ \E proof \in Proofs(r) :
       \/ /\ ~ProofAccepted(r, req[r].session.key, proof)
          /\ Goto(r, "refused")
          /\ UNCHANGED sessionVars
       \/ /\ ProofAccepted(r, req[r].session.key, proof)
          /\ Sessions!GetSession(req[r].handle)
          /\ Proceed(r, SameSession(req[r].handle, req[r].session), "checked",
                     [handle |-> req[r].handle, session |-> req[r].session, proof |-> proof])
  /\ UNCHANGED oneTimeVars

AtProvider(r) == At(r, "checked") \/ (At(r, "read") /\ Config[r].policy = "disabled")

\* Faulty: every refresh starts the lifetime anew.
SlidingSession(r, sid) ==
  [req[r].session EXCEPT !.sid = sid, !.expiresAt = ExpiresIn(SessionTtl)]

\* nextSession: everything but the provider's tokens and session ID is kept.
NextSession(r, sid) == [req[r].session EXCEPT !.sid = sid]

\* The provider grants the refresh, perhaps under a new provider session ID,
\* or fails.
RefreshUpstream(r) ==
  /\ AtProvider(r)
  /\ \/ Goto(r, "refused")
     \/ \E sid \in Sids \cup {req[r].session.sid} :
          GotoWith(r, "granted",
            [handle |-> req[r].handle, session |-> NextSession(r, sid),
             proof |-> IF At(r, "checked") THEN req[r].proof ELSE Undefined])
  /\ UNCHANGED <<sessionVars, oneTimeVars>>

\* The provider rejects the refresh token.  The answer tells the client to
\* give the session up only if the token is still the current one.
RefreshRejected(r) ==
  /\ AtProvider(r)
  /\ Sessions!GetSession(req[r].handle)
  /\ Goto(r, IF SameSession(req[r].handle, req[r].session) THEN "rejected" ELSE "refused")
  /\ UNCHANGED oneTimeVars

\* A faulty refresh, which creates its session when there is none to rotate.
RefreshRotateOrCreate(r) ==
  /\ At(r, "granted")
  /\ LET h == req[r].handle
         next == req[r].session
     IN  \/ Lapsed(next) /\ Goto(r, "refused") /\ UNCHANGED sessionVars
         \/ ~Lapsed(next) /\ Sessions!RotateSession(h, r, next) /\ Goto(r, "rotated")
         \/ /\ ~Lapsed(next)
            /\ ~Sessions!CanRotate(h, r, next)
            /\ Sessions!CreateSession(r, next)
            /\ Goto(r, "rotated")
  /\ UNCHANGED oneTimeVars

RefreshRotate(r) ==
  /\ At(r, "granted")
  /\ LET h == req[r].handle
         next == req[r].session
     IN  \/ Lapsed(next) /\ Goto(r, "refused") /\ UNCHANGED sessionVars
         \/ ~Lapsed(next) /\ Sessions!RotateSession(h, r, next) /\ Goto(r, "rotated")
         \/ ~Lapsed(next) /\ Sessions!RotateConflict(h, r, next) /\ Goto(r, "refused")
  /\ UNCHANGED oneTimeVars

RefreshConfirm(r) ==
  /\ At(r, "rotated")
  /\ IF Lapsed(req[r].session)
     THEN Goto(r, "failed") /\ DeleteLineage(req[r].session.logical)
     ELSE Goto(r, "confirmed") /\ UNCHANGED <<sessionVars, oneTimeVars>>

RefreshIssue(r) == At(r, "confirmed") /\ Issue(r, req[r].session.logical)

(***************************************************************************)
(* Logout: resolve the handle to its lineage, look at the session, check   *)
(* the proof, resolve again, delete the lineage.  Only a handle that was   *)
(* itself a session waits for onBeforeLogout, which may fail the request.  *)
(***************************************************************************)
LogoutResolve(o) ==
  /\ At(o, "idle")
  /\ \E h \in Delivered :
       Proceed(o, Sessions!SameLineageAuthority(Sessions!HandleLogical(h)), "context",
               [handle |-> h, context |-> Sessions!RevocationContext(h)])
  /\ UNCHANGED <<sessionVars, oneTimeVars>>

LogoutRead(o) ==
  /\ At(o, "context")
  /\ LET h == req[o].handle
         context == req[o].context
         live == Sessions!IsLive(h)
     IN  /\ Sessions!GetSession(h)
         /\ \/ context = Undefined /\ Goto(o, IF live THEN "refused" ELSE "absent")
            \/ /\ context # Undefined
               /\ Proceed(o,
                    /\ assertIdentity(o, context.provider)
                    /\ assertDeviceBindingPolicy(o, context.key)
                    /\ live => assertVaultRevocationContextMatches(
                               Sessions!sessionRevocationContext(sessions[h]), context),
                    "admitted", [handle |-> h, context |-> context, session |-> live])
  /\ UNCHANGED oneTimeVars

LogoutRecheck(o) ==
  /\ At(o, "admitted")
  /\ LET h == req[o].handle
         latest == Sessions!RevocationContext(h)
     IN  \E proof \in Proofs(o) :
           \/ /\ \/ ~ProofAccepted(o, req[o].context.key, proof)
                 \/ ~Sessions!SameLineageAuthority(Sessions!HandleLogical(h))
                 \/ /\ latest # Undefined
                    /\ ~assertVaultRevocationContextMatches(latest, req[o].context)
              /\ Goto(o, "refused")
              /\ UNCHANGED <<sessionVars, oneTimeVars>>
           \/ /\ ProofAccepted(o, req[o].context.key, proof)
              /\ latest = Undefined
              /\ Goto(o, "absent")
              /\ UNCHANGED <<sessionVars, oneTimeVars>>
           \/ /\ ProofAccepted(o, req[o].context.key, proof)
              /\ Sessions!SameLineageAuthority(Sessions!HandleLogical(h))
              /\ latest # Undefined
              /\ assertVaultRevocationContextMatches(latest, req[o].context)
              /\ GotoWith(o, "confirmed",
                   [handle |-> h, context |-> latest, session |-> req[o].session, proof |-> proof])
              /\ UNCHANGED <<sessionVars, oneTimeVars>>

\* A faulty logout, which deletes the session the handle named.
LogoutDeleteHandle(o) ==
  /\ At(o, "confirmed")
  /\ Sessions!DeleteMatching({req[o].handle} \cap DOMAIN sessions)
  /\ Goto(o, "done")
  /\ UNCHANGED oneTimeVars

LogoutDelete(o) ==
  /\ At(o, "confirmed")
  /\ \/ req[o].session /\ Goto(o, "refused") /\ UNCHANGED <<sessionVars, oneTimeVars>>
     \/ Goto(o, "done") /\ DeleteLineage(req[o].context.logical)

(***************************************************************************)
(* Back-channel logout: the first presentation of a token owns it, every   *)
(* presentation deletes, and onLogout is called by the owner and by anyone *)
(* who deleted something.  replay says that an earlier presentation had    *)
(* been answered when this one arrived.                                    *)
(***************************************************************************)
\* Faulty: one name space for the JTIs of all providers.
RawReplayKey(b) == <<CHOOSE p \in Providers : TRUE, Token[b].jti>>

buildBackchannelLogoutReplayKey(b) == <<Config[b].provider, Token[b].jti>>

\* The requests that present the same token.
Presentations(b) ==
  {d \in Backchannels : Config[d].provider = Config[b].provider /\ Token[d].jti = Token[b].jti}

BackchannelVerify(b) ==
  /\ At(b, "idle")
  /\ Proceed(b, now < Token[b].expiresAt, "verified",
             [replay |-> \E d \in Presentations(b) : At(d, "done")])
  /\ UNCHANGED <<sessionVars, oneTimeVars>>

BackchannelReserve(b) ==
  /\ At(b, "verified")
  /\ LET key == buildBackchannelLogoutReplayKey(b)
     IN  /\ OneTime!ConsumeBackchannelLogoutTokenJti(key, Token[b].expiresAt)
         /\ GotoWith(b, "reserved",
              [owner |-> OneTime!FirstUse(key, Token[b].expiresAt), replay |-> req[b].replay])
  /\ UNCHANGED sessionVars

Targets(b) ==
  IF Token[b].sid # Undefined
  THEN Sessions!ProviderSessionMatches(Token[b].sid, Config[b].provider)
  ELSE Sessions!SubjectMatches(Token[b].subject, Config[b].provider)

BackchannelRevoke(b) ==
  /\ At(b, "reserved")
  /\ \/ Goto(b, "failed") /\ UNCHANGED sessionVars
     \/ /\ Sessions!DeleteMatching(Targets(b))
        /\ GotoWith(b, "done",
             [owner |-> req[b].owner, replay |-> req[b].replay,
              revoked |-> Cardinality(Targets(b)),
              notified |-> req[b].owner \/ Targets(b) # {}])
  /\ UNCHANGED oneTimeVars

----------------------------------------------------------------------------
Init ==
  /\ now = 0
  /\ sessions = EmptyMap /\ aliases = EmptyMap
  /\ txns = EmptyMap /\ codes = EmptyMap /\ jtis = EmptyMap
  /\ pc = [r \in Requests |-> "idle"]
  /\ req = [r \in Requests |-> Undefined]

Login(l) == LoginGet(l) \/ LoginPost(l)

Callback(c) ==
  CallbackRead(c) \/ CallbackConsume(c) \/ CallbackTokens(c)
    \/ CallbackCreateSession(c) \/ CallbackCreateCode(c)

Exchange(e) ==
  ExchangeReadCode(e) \/ ExchangeReadSession(e) \/ ExchangeSpend(e)
    \/ ExchangeRecheck(e) \/ ExchangeIssue(e)

Refresh(r) ==
  RefreshRead(r) \/ RefreshCheck(r) \/ RefreshUpstream(r) \/ RefreshRejected(r)
    \/ RefreshRotate(r) \/ RefreshConfirm(r) \/ RefreshIssue(r)

Logout(o) == LogoutResolve(o) \/ LogoutRead(o) \/ LogoutRecheck(o) \/ LogoutDelete(o)

Backchannel(b) == BackchannelVerify(b) \/ BackchannelReserve(b) \/ BackchannelRevoke(b)

\* The server at rest: nothing is in flight.
Quiescent == (\A r \in Requests : pc[r] \in Final \cup {"idle"}) /\ UNCHANGED vars

Handler ==
  \/ \E l \in Logins : Login(l)
  \/ \E c \in Callbacks : Callback(c)
  \/ \E e \in Exchanges : Exchange(e)
  \/ \E r \in Refreshes : Refresh(r)
  \/ \E o \in Logouts : Logout(o)
  \/ \E b \in Backchannels : Backchannel(b)

Next ==
  \/ Tick /\ UNCHANGED <<sessionVars, oneTimeVars, pc, req>>
  \/ Handler /\ UNCHANGED now
  \/ Quiescent

Spec == Init /\ [][Next]_vars

----------------------------------------------------------------------------
(***************************************************************************)
(* The Maps of the store hold well-formed records under IDs this server    *)
(* minted, and every handler is where one of its awaits is.                *)
(***************************************************************************)
Txn ==
  [key : Keys \cup {Undefined}, browser : Logins \cup {Undefined},
   provider : Providers \cup {Undefined}, expiresAt : Deadlines]

Code ==
  [session : Callbacks, key : Keys \cup {Undefined}, browser : Logins \cup {Undefined},
   expiresAt : Deadlines]

TypeOK ==
  /\ now \in Nat
  /\ DOMAIN sessions \cup DOMAIN aliases \subseteq SessionIds
  /\ sessions \in [DOMAIN sessions -> Sessions!Session]
  /\ aliases \in [DOMAIN aliases -> Sessions!Alias]
  /\ DOMAIN txns \subseteq Logins
  /\ txns \in [DOMAIN txns -> Txn]
  /\ DOMAIN codes \subseteq Callbacks
  /\ codes \in [DOMAIN codes -> Code]
  /\ DOMAIN jtis \subseteq Providers \X Backchannels
  /\ \A r \in Requests :
       pc[r] \in Final \cup {"idle", "authorized", "consumed", "tokens", "created", "code",
                            "session", "spent", "checked", "read", "granted", "rotated",
                            "confirmed", "context", "admitted", "verified", "reserved"}

(***************************************************************************)
(* Callbacks that own their login, and exchanges that own their code.      *)
(***************************************************************************)
Redeeming == {c \in Callbacks : pc[c] \in {"consumed", "tokens", "created", "done", "failed"}}

Spending == {e \in Exchanges : pc[e] \in {"spent", "lapsed", "checked", "ok", "failed"}}

LoginOf(c) == req[c].login

(***************************************************************************)
(* A login is carried through once.  Callbacks of one login may all have   *)
(* read its transaction, and exchanges of one code may all have read the   *)
(* code and had their proofs admitted; only one of each goes to the        *)
(* provider and only one is given a session.                               *)
(***************************************************************************)
LoginIsCarriedThroughOnce ==
  /\ \A c, d \in Redeeming : LoginOf(c) = LoginOf(d) => c = d
  /\ \A e, f \in Spending : LoginOf(req[e].code) = LoginOf(req[f].code) => e = f

(***************************************************************************)
(* However refreshes race, a lineage is one session: rotation moves it and *)
(* never copies it.                                                        *)
(***************************************************************************)
OneSessionPerLineage ==
  \A s, t \in DOMAIN sessions : sessions[s].logical = sessions[t].logical => s = t

LineageIsLive(c) == \E s \in LiveKeys(sessions) : sessions[s].logical = c

(***************************************************************************)
(* A lineage that has ended (logout, back-channel logout, expiry, the      *)
(* rollback of a failed request) is never started again by a refresh, an   *)
(* exchange or a logout that was under way meanwhile.                      *)
(***************************************************************************)
EndedLineagesStayEnded ==
  [][\A c \in Callbacks :
       pc[c] \in {"created", "done", "failed"} /\ ~LineageIsLive(c) => ~LineageIsLive(c)']_vars

(***************************************************************************)
(* What a login was tied to stays tied to it.  Its device key is the key   *)
(* of its session through every rotation, its browser is the one that      *)
(* completes the callback and the exchange, and whoever is given the       *)
(* session or ends it, by a current or by a rotated-away handle, has       *)
(* proved possession of that key.                                          *)
(***************************************************************************)
HandleLineage(h) == IF h \in Callbacks THEN h ELSE req[h].session.logical

Proved(r, lineage) ==
  LET key == req[LoginOf(lineage)].key IN key # Undefined => req[r].proof = key

GrantMatchesLogin ==
  /\ \A s \in DOMAIN sessions : sessions[s].key = req[LoginOf(sessions[s].logical)].key
  /\ \A c \in Redeeming : req[c].cookie = req[LoginOf(c)].browser
  /\ \A e \in Spending :
       /\ req[e].cookie = req[LoginOf(req[e].code)].browser
       /\ Proved(e, req[e].code)
  /\ \A r \in Refreshes : At(r, "ok") => Proved(r, HandleLineage(r))
  /\ \A o \in Logouts : At(o, "done") => Proved(o, HandleLineage(req[o].handle))

(***************************************************************************)
(* The lifetime of a session is settled when it is created: hooks cannot   *)
(* push it past the configured cap, a refresh cannot extend it, and the    *)
(* aliases rotation leaves behind end with it.                             *)
(***************************************************************************)
LifetimeIsAbsolute ==
  \A s \in DOMAIN sessions :
    LET c == sessions[s].logical
    IN  /\ sessions[s].expiresAt = req[c].session.expiresAt
        /\ SessionTtl # Never =>
             /\ sessions[s].expiresAt # Never
             /\ sessions[s].expiresAt - SessionTtl <= req[c].codeExpiresAt - CodeTtl
        /\ \A a \in DOMAIN aliases :
             aliases[a].logical = c => aliases[a].expiresAt = sessions[s].expiresAt

(***************************************************************************)
(* A request that fails after it committed something leaves no session     *)
(* behind that anybody can use.  The lineage is dead when the exchange     *)
(* code cannot be created, the issuer fails, or the session lapses right   *)
(* after rotation, and no request under way revives it.  Two exchanges     *)
(* fail with their code spent and roll nothing back: one whose code lapses *)
(* between the consume and the look at its answer, and one at an instance  *)
(* of another provider, which without device binding spends the code       *)
(* before it looks at the provider.  Their session stays in the store      *)
(* until its own deadline, but no client is ever given a handle to it,     *)
(* then or later.                                                          *)
(***************************************************************************)
FailureLeavesNoSession ==
  /\ \A c \in Callbacks : At(c, "failed") => ~LineageIsLive(c) /\ c \notin DOMAIN codes
  /\ \A e \in Exchanges :
       At(e, "failed") /\ assertIdentity(e, req[e].session.provider)
         => ~LineageIsLive(req[e].session.logical)
  /\ \A e \in Exchanges :
       pc[e] \in {"failed", "lapsed"} => \A h \in Delivered : HandleLineage(h) # req[e].code
  /\ \A r \in Refreshes : At(r, "failed") => ~LineageIsLive(req[r].session.logical)

(***************************************************************************)
(* A logout that is answered with success, whether it deleted the lineage  *)
(* or found nothing to delete, leaves the lineage of its handle dead, also *)
(* when refreshes rotated the handle away before, between or after the     *)
(* handler's reads.                                                        *)
(***************************************************************************)
LogoutIsTotal ==
  \A o \in Logouts : pc[o] \in {"done", "absent"} => ~LineageIsLive(HandleLineage(req[o].handle))

(***************************************************************************)
(* Of the presentations of a logout token that get past verification       *)
(* exactly one owns the revocation, unless the token expired under way,    *)
(* and equal JTIs of different providers do not get in each other's way.   *)
(***************************************************************************)
OneRevocationOwner ==
  \A b \in Backchannels :
    LET presented == {d \in Presentations(b) : pc[d] \in {"reserved", "done", "failed"}}
        owners == {d \in presented : req[d].owner}
    IN  /\ Cardinality(owners) <= 1
        /\ presented # {} /\ now < Token[b].expiresAt => owners # {}

(***************************************************************************)
(* "A sequential replay after completed revocation deletes zero sessions   *)
(* and emits no hook": the comment on buildBackchannelLogoutReplayKey.  It *)
(* does not hold once the subject has logged in again.                     *)
(***************************************************************************)
SequentialReplayIsSilent ==
  \A b \in Backchannels :
    At(b, "done") /\ req[b].replay => req[b].revoked = 0 /\ ~req[b].notified
=============================================================================
