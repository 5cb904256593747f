-------------------------- MODULE OidcVaultProofs --------------------------
(***************************************************************************)
(* Proofs that the safety properties of OidcVault hold for any number of   *)
(* requests of every kind, any policies, providers, keys, lifetimes and    *)
(* clock bound.                                                            *)
(*                                                                         *)
(* The inductive invariant says of each request what it has committed so   *)
(* far and that what it holds still agrees with the login it descends      *)
(* from; and of each record in the store, which request put it there.      *)
(***************************************************************************)
EXTENDS OidcVault, FiniteSetTheorems, TLAPS

\* The device key and the browser of the login that lineage c descends from.
LoginKey(c) == req[LoginOf(c)].key
LoginBrowser(c) == req[LoginOf(c)].browser

Deadline(c) == req[c].session.expiresAt

Started(c) == pc[c] \in {"created", "done", "failed"}

\* Session IDs that are, or were, a session.
Born(h) ==
  \/ h \in Callbacks /\ pc[h] \in {"created", "done"}
  \/ h \in Refreshes /\ pc[h] \in {"rotated", "confirmed", "ok"}

\* Lineages a client holds a handle of.
Given(c) == \E e \in Exchanges : At(e, "ok") /\ req[e].code = c

Shape ==
  /\ now \in 0 .. MaxTime
  /\ pc = [r \in Requests |-> pc[r]]
  /\ req = [r \in Requests |-> req[r]]

----------------------------------------------------------------------------
(***************************************************************************)
(* The one-time records: a transaction is its login's, a code its          *)
(* callback's.                                                             *)
(***************************************************************************)
TxnsOK ==
  /\ DOMAIN txns \subseteq Logins
  /\ txns \in [DOMAIN txns -> Txn]
  /\ \A l \in DOMAIN txns :
       /\ pc[l] \in {"done", "failed"}
       /\ txns[l].key = req[l].key
       /\ txns[l].browser = req[l].browser

CodesOK ==
  /\ DOMAIN codes \subseteq Callbacks
  /\ codes \in [DOMAIN codes -> Code]
  /\ \A c \in DOMAIN codes :
       /\ pc[c] = "done"
       /\ codes[c].session = c
       /\ codes[c].key = LoginKey(c)
       /\ codes[c].browser = LoginBrowser(c)

\* The requests that hold a reservation of their token, or were told that
\* another has it.
Presented(b) == pc[b] \in {"reserved", "done", "failed"}

JtisOK ==
  /\ DOMAIN jtis \subseteq Providers \X Backchannels
  /\ \A b \in Backchannels :
       LET key == buildBackchannelLogoutReplayKey(b)
       IN  /\ key \in DOMAIN jtis =>
                /\ jtis[key].expiresAt = Token[b].expiresAt
                /\ \E d \in Presentations(b) : Presented(d) /\ req[d].owner
           /\ Presented(b) /\ now < Token[b].expiresAt => key \in DOMAIN jtis
  /\ \A b, d \in Backchannels :
       /\ d \in Presentations(b)
       /\ Presented(b) /\ req[b].owner
       /\ Presented(d) /\ req[d].owner
       => b = d

(***************************************************************************)
(* The sessions and aliases: what a lineage was given at its creation is   *)
(* what every session and every alias of it carries, and while the lineage *)
(* is live every ID it went through leads to it.                           *)
(***************************************************************************)
SessionOK(s) ==
  LET c == sessions[s].logical
  IN  /\ Born(s)
      /\ c = HandleLineage(s)
      /\ c \in Callbacks
      /\ pc[c] \in {"created", "done"}
      /\ sessions[s].key = LoginKey(c)
      /\ sessions[s].expiresAt = Deadline(c)

AliasOK(a) ==
  LET c == aliases[a].logical
  IN  /\ a \in Delivered
      /\ c = HandleLineage(a)
      /\ aliases[a].expiresAt = Deadline(c)

HandleOK(h) ==
  Born(h) /\ LineageIsLive(HandleLineage(h)) => h \in DOMAIN sessions \cup DOMAIN aliases

StoreOK ==
  /\ DOMAIN sessions \subseteq SessionIds
  /\ sessions \in [DOMAIN sessions -> Sessions!Session]
  /\ DOMAIN aliases \subseteq SessionIds
  /\ aliases \in [DOMAIN aliases -> Sessions!Alias]
  /\ \A s \in DOMAIN sessions : SessionOK(s)
  /\ \A a \in DOMAIN aliases : AliasOK(a)
  /\ \A h \in SessionIds : HandleOK(h)
  /\ OneSessionPerLineage

----------------------------------------------------------------------------
(***************************************************************************)
(* The requests.                                                           *)
(***************************************************************************)
LoginOK(l) ==
  /\ pc[l] \in {"idle", "refused", "done", "failed"}
  /\ pc[l] \in {"done", "failed"} =>
       req[l] \in [key : Keys \cup {Undefined}, browser : Logins \cup {Undefined}]

\* What a callback read and checked is what its login is tied to.
Authorized(c) ==
  /\ req[c].login \in Logins
  /\ pc[req[c].login] = "done"
  /\ req[c].txn \in Txn
  /\ req[c].txn.key = LoginKey(c)
  /\ req[c].txn.browser = LoginBrowser(c)
  /\ req[c].cookie = LoginBrowser(c)

Grant ==
  [login : Logins, txn : Txn, cookie : Logins \cup {Undefined},
   session : Sessions!Session, codeExpiresAt : Deadlines \cap Nat]

Granted(c) ==
  /\ req[c] \in Grant
  /\ req[c].session.logical = c
  /\ req[c].session.key = LoginKey(c)
  /\ SessionTtl # Never =>
       /\ Deadline(c) \in Nat
       /\ Deadline(c) + CodeTtl <= req[c].codeExpiresAt + SessionTtl

CallbackOK(c) ==
  /\ pc[c] \in {"idle", "refused", "authorized", "consumed", "tokens", "created", "done",
                "failed"}
  /\ pc[c] \notin {"idle", "refused"} => Authorized(c)
  /\ c \in Redeeming => req[c].login \notin DOMAIN txns
  /\ pc[c] \in {"tokens", "created", "done"} => Granted(c)
  /\ pc[c] = "failed" => ~LineageIsLive(c)

\* What an exchange read of the code is what the code's login is tied to.
CodeRead(e) ==
  LET c == req[e].code
  IN  /\ c \in Callbacks
      /\ pc[c] = "done"
      /\ req[e].record.session = c
      /\ req[e].record.key = LoginKey(c)
      /\ req[e].record.browser = LoginBrowser(c)

SessionRead(e) ==
  LET c == req[e].code
  IN  /\ req[e].session.logical = c
      /\ req[e].session.key = LoginKey(c)
      /\ req[e].cookie = LoginBrowser(c)
      /\ LoginKey(c) # Undefined => Config[e].policy # "disabled"
      /\ c \in DOMAIN sessions => sessions[c] = req[e].session

ExchangeOK(e) ==
  /\ pc[e] \in {"idle", "refused", "code", "session", "spent", "lapsed", "checked", "ok",
                "failed"}
  /\ pc[e] \notin {"idle", "refused"} => CodeRead(e)
  /\ pc[e] \in {"session", "spent", "lapsed", "checked", "ok", "failed"} => SessionRead(e)
  /\ e \in Spending =>
       /\ req[e].code \notin DOMAIN codes
       /\ LoginKey(req[e].code) # Undefined => req[e].proof = LoginKey(req[e].code)
  /\ pc[e] = "failed" /\ assertIdentity(e, req[e].session.provider)
       => ~LineageIsLive(req[e].code)

\* What a refresh holds of the session it read is what its lineage is tied to.
LineageRead(r) ==
  LET c == req[r].session.logical
  IN  /\ req[r].handle \in Delivered
      /\ c = HandleLineage(req[r].handle)
      /\ c \in Callbacks
      /\ Given(c)
      /\ req[r].session \in Sessions!Session
      /\ req[r].session.key = LoginKey(c)
      /\ req[r].session.expiresAt = Deadline(c)
      /\ LoginKey(c) # Undefined => Config[r].policy # "disabled"

RefreshOK(r) ==
  /\ pc[r] \in {"idle", "refused", "rejected", "read", "checked", "granted", "rotated",
                "confirmed", "ok", "failed"}
  /\ pc[r] \notin {"idle", "refused", "rejected"} => LineageRead(r)
  /\ pc[r] \in {"checked", "granted", "rotated", "confirmed", "ok", "failed"} =>
       LET key == LoginKey(req[r].session.logical) IN key # Undefined => req[r].proof = key
  /\ pc[r] = "failed" => ~LineageIsLive(req[r].session.logical)

\* The authority a logout resolved its handle to is that of its lineage.
ContextOK(o) ==
  LET c == HandleLineage(req[o].handle)
  IN  /\ req[o].context.logical = c
      /\ req[o].context.key = LoginKey(c)

LogoutOK(o) ==
  LET c == HandleLineage(req[o].handle)
  IN  /\ pc[o] \in {"idle", "refused", "context", "admitted", "confirmed", "done", "absent"}
      /\ pc[o] \notin {"idle", "refused"} => req[o].handle \in Delivered
      /\ pc[o] = "context" =>
           IF req[o].context = Undefined THEN ~LineageIsLive(c) ELSE ContextOK(o)
      /\ pc[o] \in {"admitted", "confirmed", "done"} =>
           ContextOK(o) /\ (LoginKey(c) # Undefined => Config[o].policy # "disabled")
      /\ pc[o] \in {"confirmed", "done"} =>
           (LoginKey(c) # Undefined => req[o].proof = LoginKey(c))
      /\ pc[o] \in {"done", "absent"} => ~LineageIsLive(c)

BackchannelOK(b) ==
  /\ pc[b] \in {"idle", "refused", "verified", "reserved", "done", "failed"}
  /\ Presented(b) => req[b].owner \in BOOLEAN

RequestsOK ==
  /\ \A l \in Logins : LoginOK(l)
  /\ \A c \in Callbacks : CallbackOK(c)
  /\ \A e \in Exchanges : ExchangeOK(e)
  /\ \A r \in Refreshes : RefreshOK(r)
  /\ \A o \in Logouts : LogoutOK(o)
  /\ \A b \in Backchannels : BackchannelOK(b)

Once ==
  /\ \A c, d \in Redeeming : LoginOf(c) = LoginOf(d) => c = d
  /\ \A e, f \in Spending : req[e].code = req[f].code => e = f

IInv == Shape /\ TxnsOK /\ CodesOK /\ JtisOK /\ StoreOK /\ RequestsOK /\ Once

----------------------------------------------------------------------------
(***************************************************************************)
(* The constants.                                                          *)
(***************************************************************************)
LEMMA Kinds ==
  /\ Logins \subseteq Requests /\ Callbacks \subseteq Requests /\ Exchanges \subseteq Requests
  /\ Refreshes \subseteq Requests /\ Logouts \subseteq Requests /\ Backchannels \subseteq Requests
  /\ \A r \in Logins : r \notin Callbacks /\ r \notin Exchanges /\ r \notin Refreshes
                       /\ r \notin Logouts /\ r \notin Backchannels
  /\ \A r \in Callbacks : r \notin Exchanges /\ r \notin Refreshes /\ r \notin Logouts
                          /\ r \notin Backchannels
  /\ \A r \in Exchanges : r \notin Refreshes /\ r \notin Logouts /\ r \notin Backchannels
  /\ \A r \in Refreshes : r \notin Logouts /\ r \notin Backchannels
  /\ \A r \in Logouts : r \notin Backchannels
<1> DEFINE kinds == <<Logins, Callbacks, Exchanges, Refreshes, Logouts, Backchannels>>
<1>1. \A i, j \in 1 .. 6 : i # j => kinds[i] \cap kinds[j] = {}
  BY RequestAssumption
<1>2. /\ kinds[1] = Logins /\ kinds[2] = Callbacks /\ kinds[3] = Exchanges
      /\ kinds[4] = Refreshes /\ kinds[5] = Logouts /\ kinds[6] = Backchannels
  OBVIOUS
<1> HIDE DEF kinds
<1>3. \A A, B : A \cap B = {} => \A r \in A : r \notin B
  OBVIOUS
<1>4. /\ kinds[1] \cap kinds[2] = {} /\ kinds[1] \cap kinds[3] = {}
      /\ kinds[1] \cap kinds[4] = {} /\ kinds[1] \cap kinds[5] = {}
      /\ kinds[1] \cap kinds[6] = {} /\ kinds[2] \cap kinds[3] = {}
      /\ kinds[2] \cap kinds[4] = {} /\ kinds[2] \cap kinds[5] = {}
      /\ kinds[2] \cap kinds[6] = {} /\ kinds[3] \cap kinds[4] = {}
      /\ kinds[3] \cap kinds[5] = {} /\ kinds[3] \cap kinds[6] = {}
      /\ kinds[4] \cap kinds[5] = {} /\ kinds[4] \cap kinds[6] = {}
      /\ kinds[5] \cap kinds[6] = {}
  BY <1>1
<1> QED
  BY <1>2, <1>3, <1>4 DEF Requests

----------------------------------------------------------------------------
(***************************************************************************)
(* The store.  Its modules and this one have their own copies of the       *)
(* operators on Maps; they are the same.                                   *)
(***************************************************************************)
LEMMA MapNames ==
  /\ \A m : Sessions!LiveKeys(m) = LiveKeys(m)
  /\ \A m : Sessions!ExpiredKeys(m) = ExpiredKeys(m)
  /\ \A m, K : Sessions!Without(m, K) = Without(m, K)
  /\ \A m, k, v : Sessions!With(m, k, v) = With(m, k, v)
  /\ \A m : OneTime!LiveKeys(m) = LiveKeys(m)
  /\ \A m : OneTime!ExpiredKeys(m) = ExpiredKeys(m)
  /\ \A m, K : OneTime!Without(m, K) = Without(m, K)
  /\ \A m, k, v : OneTime!With(m, k, v) = With(m, k, v)
  BY DEF LiveKeys, ExpiredKeys, isExpiredRecord, Without, With, Restrict,
         Sessions!LiveKeys, Sessions!ExpiredKeys, Sessions!isExpiredRecord,
         Sessions!Without, Sessions!With, Sessions!Restrict,
         OneTime!LiveKeys, OneTime!ExpiredKeys, OneTime!isExpiredRecord,
         OneTime!Without, OneTime!With, OneTime!Restrict

\* next is map with some records gone.
Shrinks(map, next) ==
  /\ DOMAIN next \subseteq DOMAIN map
  /\ next \in [DOMAIN next -> {map[k] : k \in DOMAIN map}]
  /\ \A k \in DOMAIN next : next[k] = map[k]

\* What a Map holds after keys are removed.
LEMMA WithoutFacts ==
  ASSUME NEW map, NEW keys
  PROVE  /\ Shrinks(map, Without(map, keys))
         /\ \A k : k \in DOMAIN Without(map, keys) <=> k \in DOMAIN map /\ k \notin keys
  BY DEF Without, Restrict, Shrinks

\* What a Map holds after a record is set.
LEMMA WithFacts ==
  ASSUME NEW map, NEW key, NEW value
  PROVE  /\ \A k : k \in DOMAIN With(map, key, value) <=> k \in DOMAIN map \/ k = key
         /\ With(map, key, value)[key] = value
         /\ \A k \in DOMAIN map : k # key => With(map, key, value)[k] = map[k]
  BY DEF With

\* Two removals in a row are a removal.
LEMMA ShrinksTwice ==
  ASSUME NEW f, NEW g, NEW h, Shrinks(f, g), Shrinks(g, h)
  PROVE  Shrinks(f, h)
<1>1. DOMAIN h \subseteq DOMAIN f /\ \A k \in DOMAIN h : h[k] = f[k]
  BY DEF Shrinks
<1>2. h \in [DOMAIN h -> {f[k] : k \in DOMAIN f}]
  BY <1>1 DEF Shrinks
<1> QED
  BY <1>1, <1>2 DEF Shrinks

(***************************************************************************)
(* Alias clean-up removes only aliases, and only those of lineages without *)
(* a live session.                                                         *)
(***************************************************************************)
HasLive(map, c) == \E s \in LiveKeys(map) : map[s].logical = c

\* The alias clean-up removes only aliases of lineages without a live session.
LEMMA CleanupFacts ==
  ASSUME NEW als, NEW map, NEW logicals,
         NEW R, R = Sessions!removeAliasesForInactiveLogicalSessions(als, map, logicals)
  PROVE  /\ Shrinks(als, R)
         /\ \A a \in DOMAIN als :
              a \in DOMAIN R \/ (als[a].logical \in logicals /\ ~HasLive(map, als[a].logical))
<1> DEFINE dead == {l \in logicals : ~HasLive(map, l)}
           K == {a \in DOMAIN als : als[a].logical \in dead}
<1>1. R = Without(als, K)
  BY MapNames
     DEF HasLive, Sessions!removeAliasesForInactiveLogicalSessions,
         Sessions!removeAliasesForLogicalSessions, Sessions!hasLiveSessionForLogicalSession
<1>2. \A a \in DOMAIN als : a \in K => als[a].logical \in logicals /\ ~HasLive(map, als[a].logical)
  OBVIOUS
<1> HIDE DEF K
<1> QED
  BY <1>1, <1>2, WithoutFacts

(***************************************************************************)
(* What the reads and deletions do to the sessions: records go, and an     *)
(* alias goes only with its lineage.                                       *)
(***************************************************************************)
Fades ==
  /\ Shrinks(sessions, sessions')
  /\ Shrinks(aliases, aliases')
  /\ \A a \in DOMAIN aliases :
       a \in DOMAIN aliases' \/ ~HasLive(sessions', aliases[a].logical)

\* A removal of sessions with its alias clean-up is a fading of the store.
LEMMA DropSessionsFade ==
  ASSUME NEW ids, sessions' = Sessions!Without(sessions, ids),
         aliases' = Sessions!DropSessions(aliases, sessions, ids)
  PROVE  Fades
<1>1. sessions' = Without(sessions, ids)
  BY MapNames
<1>2. aliases' = Sessions!removeAliasesForInactiveLogicalSessions(
                   aliases, sessions', Sessions!LogicalOf(sessions, ids))
  BY DEF Sessions!DropSessions
<1>3. /\ Shrinks(aliases, aliases')
      /\ \A a \in DOMAIN aliases :
           a \in DOMAIN aliases' \/ ~HasLive(sessions', aliases[a].logical)
  BY <1>2, CleanupFacts
<1> QED
  BY <1>1, <1>3, WithoutFacts DEF Fades

\* So is a read,
LEMMA GetSessionFades ==
  ASSUME NEW id, Sessions!GetSession(id)
  PROVE  Fades
<1> DEFINE gone == {id} \cap Sessions!ExpiredKeys(sessions)
<1>1. /\ sessions' = Sessions!Without(sessions, gone)
      /\ aliases' = Sessions!DropSessions(aliases, sessions, gone)
  BY DEF Sessions!GetSession
<1> HIDE DEF gone
<1> QED
  BY <1>1, DropSessionsFade

\* a deletion by subject or provider session ID,
LEMMA DeleteMatchingFades ==
  ASSUME NEW ids, Sessions!DeleteMatching(ids)
  PROVE  Fades
<1> DEFINE gone == Sessions!ExpiredKeys(sessions) \cup ids
<1>1. /\ sessions' = Sessions!Without(sessions, gone)
      /\ aliases' = Sessions!DropSessions(aliases, sessions, gone)
  BY DEF Sessions!DeleteMatching
<1> HIDE DEF gone
<1> QED
  BY <1>1, DropSessionsFade

\* and a step that leaves the store alone.
LEMMA SameStoreFades ==
  ASSUME UNCHANGED sessionVars, sessions \in [DOMAIN sessions -> Sessions!Session],
         aliases \in [DOMAIN aliases -> Sessions!Alias]
  PROVE  Fades
  BY DEF Fades, Shrinks, sessionVars

(***************************************************************************)
(* The deletion of a lineage leaves no session of it.                      *)
(***************************************************************************)
LEMMA DeleteLineageFades ==
  ASSUME NEW c, DeleteLineage(c)
  PROVE  /\ Fades
         /\ UNCHANGED oneTimeVars
         /\ \A s \in DOMAIN sessions' : sessions'[s].logical # c
<1> DEFINE expired == Sessions!ExpiredKeys(sessions)
           members == {s \in DOMAIN sessions : sessions[s].logical = c}
           kept    == Sessions!Without(sessions, expired \cup members)
           swept   == Sessions!removeAliasesForInactiveLogicalSessions(aliases, kept,
                        Sessions!LogicalOf(sessions, expired))
           K       == {a \in DOMAIN swept : swept[a].logical \in {c}}
<1>1. /\ sessions' = kept /\ aliases' = Sessions!Without(swept, K)
      /\ UNCHANGED oneTimeVars
  BY DEF DeleteLineage, Sessions!DeleteSessionsByLogicalSessionId, Sessions!DeleteLogical,
         Sessions!removeAliasesForLogicalSessions
<1>2. /\ Shrinks(sessions, sessions')
      /\ \A s \in DOMAIN sessions' : s \notin members
  <2> HIDE DEF members, expired
  <2> QED BY <1>1, MapNames, WithoutFacts
<1>3. \A s \in DOMAIN sessions' : sessions'[s].logical # c
  <2> HIDE DEF kept
  <2> QED BY <1>2 DEF Shrinks
<1>4. ~HasLive(sessions', c)
  BY <1>3 DEF HasLive, LiveKeys
<1>5. /\ Shrinks(aliases, swept)
      /\ \A a \in DOMAIN aliases :
           a \in DOMAIN swept \/ ~HasLive(sessions', aliases[a].logical)
  <2> HIDE DEF kept, expired
  <2> QED BY <1>1, CleanupFacts
<1> HIDE DEF kept, swept
<1>6. \A a \in DOMAIN swept : a \in K => aliases[a].logical = c
  BY <1>5 DEF Shrinks
<1>7. /\ Shrinks(swept, aliases')
      /\ \A a \in DOMAIN swept : a \in DOMAIN aliases' \/ a \in K
  <2> HIDE DEF K
  <2> QED BY <1>1, MapNames, WithoutFacts
<1>8. Shrinks(aliases, aliases')
  BY <1>5, <1>7, ShrinksTwice
<1> HIDE DEF K
<1>9. \A a \in DOMAIN aliases :
        a \in DOMAIN aliases' \/ ~HasLive(sessions', aliases[a].logical)
  BY <1>4, <1>5, <1>6, <1>7
<1> QED
  BY <1>1, <1>2, <1>3, <1>8, <1>9 DEF Fades

(***************************************************************************)
(* createSession under a new ID adds that session; expired records may go. *)
(***************************************************************************)
LEMMA CreateSessionAdds ==
  ASSUME NEW c, NEW record \in Sessions!Session, Sessions!CreateSession(c, record),
         sessions \in [DOMAIN sessions -> Sessions!Session]
  PROVE  /\ DOMAIN sessions' \subseteq DOMAIN sessions \cup {c}
         /\ sessions' \in [DOMAIN sessions' -> Sessions!Session]
         /\ c \in DOMAIN sessions' /\ sessions'[c] = record
         /\ \A s \in DOMAIN sessions' : s # c => sessions'[s] = sessions[s]
         /\ Shrinks(aliases, aliases')
         /\ \A a \in DOMAIN aliases :
              \/ a \in DOMAIN aliases' \/ a = c \/ isExpiredRecord(aliases[a])
              \/ ~HasLive(sessions, aliases[a].logical)
              \/ ~HasLive(sessions', aliases[a].logical)
<1>1. Sessions!WithLogical(record, c) = record
  <2>1. record.logical # Undefined
    BY RequestAssumption DEF Sessions!Session
  <2> QED
    BY <2>1 DEF Sessions!WithLogical, Sessions!Session
<1>2. PICK P \in Sessions!Sweeps(sessions) :
         LET kept  == Sessions!Without(sessions, P)
             swept == Sessions!DropSessions(aliases, sessions, P)
             next  == Sessions!With(kept, c, record)
             previous == Sessions!LogicalOf(kept, {c} \cap DOMAIN kept) \ {record.logical}
         IN  \E Q \in Sessions!Sweeps(swept) :
               /\ sessions' = next
               /\ aliases' = Sessions!removeAliasesForInactiveLogicalSessions(
                               Sessions!Without(swept, Q \cup {c}), next, previous)
  BY <1>1 DEF Sessions!CreateSession
<1> DEFINE kept  == Sessions!Without(sessions, P)
           swept == Sessions!DropSessions(aliases, sessions, P)
           next  == Sessions!With(kept, c, record)
           previous == Sessions!LogicalOf(kept, {c} \cap DOMAIN kept) \ {record.logical}
<1>3. PICK Q \in Sessions!Sweeps(swept) :
         /\ sessions' = next
         /\ aliases' = Sessions!removeAliasesForInactiveLogicalSessions(
                         Sessions!Without(swept, Q \cup {c}), next, previous)
  BY <1>2
<1> DEFINE als == Sessions!Without(swept, Q \cup {c})
<1>4. P \in SUBSET ExpiredKeys(sessions) /\ Q \subseteq ExpiredKeys(swept)
  BY MapNames DEF Sessions!Sweeps
<1>5. kept = Without(sessions, P) /\ next = With(kept, c, record)
  BY MapNames
<1>6. /\ Shrinks(aliases, swept)
      /\ \A a \in DOMAIN aliases : a \in DOMAIN swept \/ ~HasLive(kept, aliases[a].logical)
  BY CleanupFacts DEF Sessions!DropSessions
<1>7. Shrinks(sessions, kept)
  BY <1>5, WithoutFacts
<1> HIDE DEF kept, swept, previous
<1>8. /\ Shrinks(swept, als)
      /\ \A a \in DOMAIN swept : a \in DOMAIN als \/ a \in Q \/ a = c
  BY MapNames, WithoutFacts
<1> HIDE DEF als, next
<1>9. /\ Shrinks(als, aliases')
      /\ \A a \in DOMAIN als : a \in DOMAIN aliases' \/ ~HasLive(sessions', als[a].logical)
  BY <1>3, CleanupFacts DEF als
<1>10. Shrinks(aliases, aliases')
  BY <1>6, <1>8, <1>9, ShrinksTwice
<1>11. ASSUME NEW a \in DOMAIN aliases
       PROVE  \/ a \in DOMAIN aliases' \/ a = c \/ isExpiredRecord(aliases[a])
              \/ ~HasLive(sessions', aliases[a].logical) \/ ~HasLive(kept, aliases[a].logical)
  <2>1. CASE a \in DOMAIN swept /\ a \in Q
    <3>1. swept[a] = aliases[a] /\ isExpiredRecord(swept[a])
      BY <1>4, <1>6, <2>1 DEF Shrinks, ExpiredKeys
    <3> QED
      BY <3>1
  <2>2. CASE a \in DOMAIN als
    <3>1. als[a] = aliases[a]
      BY <1>6, <1>8, <2>2 DEF Shrinks
    <3> QED
      BY <1>9, <2>2, <3>1
  <2> QED
    BY <1>6, <1>8, <2>1, <2>2
<1>12. /\ DOMAIN sessions' \subseteq DOMAIN sessions \cup {c}
       /\ c \in DOMAIN sessions' /\ sessions'[c] = record
       /\ \A s \in DOMAIN sessions' : s # c => sessions'[s] = sessions[s]
  BY <1>3, <1>5, <1>7, WithFacts DEF Shrinks
<1>13. sessions' \in [DOMAIN sessions' -> Sessions!Session]
  <2>1. sessions' = [k \in DOMAIN sessions' |-> sessions'[k]]
    BY <1>3, <1>5 DEF With
  <2>2. \A k \in DOMAIN sessions' : sessions'[k] \in Sessions!Session
    BY <1>12
  <2> QED
    BY <2>1, <2>2
<1>14. ASSUME NEW d, HasLive(sessions, d)
       PROVE  HasLive(kept, d)
  <2>1. PICK s \in LiveKeys(sessions) : sessions[s].logical = d
    BY <1>14 DEF HasLive
  <2>2. s \in DOMAIN kept /\ kept[s] = sessions[s]
    BY <1>4, <1>5, <1>7, WithoutFacts DEF LiveKeys, Shrinks
  <2>3. s \in LiveKeys(kept)
    BY <2>2 DEF LiveKeys, ExpiredKeys
  <2> QED
    BY <2>1, <2>2, <2>3 DEF HasLive
<1> QED
  BY <1>10, <1>11, <1>12, <1>13, <1>14

(***************************************************************************)
(* rotateSession into a new ID moves the lineage there and leaves an alias *)
(* behind; nothing else changes.                                           *)
(***************************************************************************)
LEMMA RotateSessionMoves ==
  ASSUME NEW h, NEW r, NEW next \in Sessions!Session, Sessions!RotateSession(h, r, next),
         r \notin DOMAIN sessions, next.logical = sessions[h].logical,
         sessions \in [DOMAIN sessions -> Sessions!Session],
         aliases \in [DOMAIN aliases -> Sessions!Alias]
  PROVE  /\ h \in LiveKeys(sessions) /\ h # r
         /\ \A s : s \in DOMAIN sessions' <=> (s \in DOMAIN sessions /\ s # h) \/ s = r
         /\ \A s \in DOMAIN sessions' : s # r => sessions'[s] = sessions[s]
         /\ sessions' \in [DOMAIN sessions' -> Sessions!Session]
         /\ sessions'[r] = [next EXCEPT !.key = sessions[h].key]
         /\ \A a : a \in DOMAIN aliases' <=> (a \in DOMAIN aliases /\ a # r) \/ a = h
         /\ \A a \in DOMAIN aliases' : a # h => aliases'[a] = aliases[a]
         /\ aliases' \in [DOMAIN aliases' -> Sessions!Alias]
         /\ aliases'[h] = [logical |-> next.logical, expiresAt |-> next.expiresAt]
<1> DEFINE source  == sessions[h]
           stored  == [Sessions!WithLogical(next, source.logical) EXCEPT !.key = source.key]
           retired == {r} \cap DOMAIN sessions
           als     == Sessions!DropSessions(aliases, sessions, retired)
           rotated == Sessions!With(Sessions!Without(sessions, {h} \cup retired), r, stored)
           alias   == [logical |-> stored.logical, expiresAt |-> stored.expiresAt]
           handles == Sessions!With(Sessions!Without(als, {r}), h, alias)
<1>1. /\ sessions' = rotated
      /\ aliases' = Sessions!removeAliasesForInactiveLogicalSessions(handles, rotated,
                       {source.logical} \ {stored.logical})
      /\ h \in LiveKeys(sessions) /\ r # h
  BY MapNames DEF Sessions!RotateSession, Sessions!CanRotate, Sessions!IsLive
<1>2. h \in DOMAIN sessions /\ source \in Sessions!Session
  BY <1>1 DEF LiveKeys
<1>3. stored = [next EXCEPT !.key = source.key]
  <2>1. Sessions!WithLogical(next, source.logical) = next
    BY <1>2, RequestAssumption DEF Sessions!WithLogical, Sessions!Session
  <2> QED
    BY <2>1
<1>4. /\ stored \in Sessions!Session /\ stored.logical = next.logical
      /\ stored.expiresAt = next.expiresAt
  <2> HIDE DEF source
  <2> QED BY <1>2, <1>3 DEF Sessions!Session
<1>5. retired = {}
  OBVIOUS
<1>6. {source.logical} \ {stored.logical} = {}
  BY <1>4
<1>7. /\ Shrinks(aliases, als)
      /\ \A a \in DOMAIN aliases : a \in DOMAIN als
  <2>1. Sessions!LogicalOf(sessions, retired) = {}
    BY <1>5 DEF Sessions!LogicalOf
  <2> HIDE DEF retired
  <2> QED BY <2>1, CleanupFacts DEF Sessions!DropSessions
<1>8. rotated = With(Without(sessions, {h}), r, stored)
  BY <1>5, MapNames
<1>9. handles = With(Without(als, {r}), h, alias)
  BY MapNames
<1> HIDE DEF rotated, handles, als, stored, source
<1>10. /\ \A s : s \in DOMAIN sessions' <=> (s \in DOMAIN sessions /\ s # h) \/ s = r
       /\ \A s \in DOMAIN sessions' : s # r => sessions'[s] = sessions[s]
       /\ sessions'[r] = stored
  BY <1>1, <1>8, WithoutFacts, WithFacts DEF Shrinks
<1>11. /\ \A a : a \in DOMAIN handles <=> (a \in DOMAIN aliases /\ a # r) \/ a = h
       /\ \A a \in DOMAIN handles : a # h => handles[a] = aliases[a]
       /\ handles[h] = alias
  BY <1>7, <1>9, WithoutFacts, WithFacts DEF Shrinks
<1>12. /\ Shrinks(handles, aliases')
       /\ \A a \in DOMAIN handles : a \in DOMAIN aliases'
  BY <1>1, <1>6, CleanupFacts
<1>13. /\ \A a : a \in DOMAIN aliases' <=> (a \in DOMAIN aliases /\ a # r) \/ a = h
       /\ \A a \in DOMAIN aliases' : a # h => aliases'[a] = aliases[a]
       /\ aliases'[h] = alias
  BY <1>11, <1>12 DEF Shrinks
<1>14. alias \in Sessions!Alias
  BY <1>4 DEF Sessions!Session, Sessions!Alias
<1>15. aliases' \in [DOMAIN aliases' -> Sessions!Alias]
  <2>1. \A a \in DOMAIN aliases' : aliases'[a] \in Sessions!Alias
    BY <1>13, <1>14
  <2>2. aliases' = [a \in DOMAIN aliases' |-> aliases'[a]]
    BY <1>12 DEF Shrinks
  <2> QED
    BY <2>1, <2>2
<1>16. sessions' \in [DOMAIN sessions' -> Sessions!Session]
  <2>1. \A s \in DOMAIN sessions' : sessions'[s] \in Sessions!Session
    BY <1>4, <1>10
  <2>2. sessions' = [s \in DOMAIN sessions' |-> sessions'[s]]
    BY <1>1, <1>8 DEF With
  <2> QED
    BY <2>1, <2>2
<1>17. sessions'[r] = [next EXCEPT !.key = sessions[h].key]
  BY <1>3, <1>10 DEF source
<1>18. aliases'[h] = [logical |-> next.logical, expiresAt |-> next.expiresAt]
  BY <1>4, <1>13
<1> QED
  BY <1>1, <1>10, <1>13, <1>15, <1>16, <1>17, <1>18

----------------------------------------------------------------------------
(***************************************************************************)
(* Only one request moves in a step.                                       *)
(***************************************************************************)
Moved(r, label, held) ==
  /\ pc'[r] = label
  /\ req'[r] = held
  /\ \A q \in Requests : q # r => pc'[q] = pc[q] /\ req'[q] = req[q]
  /\ pc' = [q \in Requests |-> pc'[q]]
  /\ req' = [q \in Requests |-> req'[q]]

\* Goto and GotoWith move one request.
LEMMA MoveFacts ==
  ASSUME Shape, NEW r \in Requests, NEW label
  PROVE  /\ Goto(r, label) => Moved(r, label, req[r])
         /\ \A held : GotoWith(r, label, held) => Moved(r, label, held)
<1>1. /\ pc = [q \in Requests |-> pc[q]]
      /\ req = [q \in Requests |-> req[q]]
  BY DEF Shape
<1>2. \A f, x : f = [q \in Requests |-> f[q]] =>
         LET g == [f EXCEPT ![r] = x]
         IN  /\ g[r] = x
             /\ \A q \in Requests : q # r => g[q] = f[q]
             /\ g = [q \in Requests |-> g[q]]
  OBVIOUS
<1>3. ASSUME Goto(r, label)
      PROVE  Moved(r, label, req[r])
  <2>1. pc' = [pc EXCEPT ![r] = label] /\ req' = req
    BY <1>3 DEF Goto
  <2> QED
    BY <1>1, <1>2, <2>1 DEF Moved
<1>4. ASSUME NEW held, GotoWith(r, label, held)
      PROVE  Moved(r, label, held)
  <2>1. pc' = [pc EXCEPT ![r] = label] /\ req' = [req EXCEPT ![r] = held]
    BY <1>4 DEF GotoWith
  <2> QED
    BY <1>1, <1>2, <2>1 DEF Moved
<1> QED
  BY <1>3, <1>4

\* Proceed moves one request, to the label or to its refusal.
LEMMA ProceedFacts ==
  ASSUME Shape, NEW r \in Requests, NEW condition, NEW label, NEW held,
         Proceed(r, condition, label, held)
  PROVE  \/ condition /\ Moved(r, label, held)
         \/ Moved(r, "refused", req[r])
  BY MoveFacts DEF Proceed

(***************************************************************************)
(* What requests have committed stays so.                                  *)
(***************************************************************************)
Advances ==
  /\ \A l \in Logins : pc[l] \in {"done", "failed"} => pc'[l] = pc[l] /\ req'[l] = req[l]
  /\ \A c \in Callbacks :
       /\ pc[c] \in {"done", "failed"} => pc'[c] = pc[c]
       /\ pc[c] = "created" => pc'[c] \in {"created", "done", "failed"}
       /\ pc[c] \in {"created", "done", "failed"} => req'[c] = req[c]
  /\ \A e \in Exchanges : pc[e] \in {"ok", "failed"} => pc'[e] = pc[e] /\ req'[e] = req[e]
  /\ \A r \in Refreshes :
       /\ pc[r] \in {"ok", "failed"} => pc'[r] = pc[r]
       /\ pc[r] \in {"rotated", "confirmed", "ok", "failed"} => req'[r] = req[r]

\* The moves a handler can make.
MayMove(r, label, held) ==
  \/ r \in Logins /\ pc[r] = "idle"
  \/ r \in Callbacks /\ pc[r] \in {"idle", "authorized", "consumed", "tokens"}
  \/ r \in Callbacks /\ pc[r] = "created" /\ label \in {"done", "failed"} /\ held = req[r]
  \/ r \in Exchanges /\ pc[r] \notin {"ok", "failed"}
  \/ r \in Refreshes /\ pc[r] \in {"idle", "read", "checked", "granted"}
  \/ r \in Refreshes /\ pc[r] \in {"rotated", "confirmed"} /\ held = req[r]
  \/ r \in Logouts
  \/ r \in Backchannels

\* A permitted move undoes nothing that a request has committed.
LEMMA MovesAdvance ==
  ASSUME NEW r \in Requests, NEW label, NEW held, Moved(r, label, held), MayMove(r, label, held)
  PROVE  Advances
<1>1. \A l \in Logins : pc[l] \in {"done", "failed"} => pc'[l] = pc[l] /\ req'[l] = req[l]
  BY Kinds DEF Moved, MayMove
<1>2. ASSUME NEW c \in Callbacks
      PROVE  /\ pc[c] \in {"done", "failed"} => pc'[c] = pc[c]
             /\ pc[c] = "created" => pc'[c] \in {"created", "done", "failed"}
             /\ pc[c] \in {"created", "done", "failed"} => req'[c] = req[c]
  BY Kinds DEF Moved, MayMove
<1>3. \A e \in Exchanges : pc[e] \in {"ok", "failed"} => pc'[e] = pc[e] /\ req'[e] = req[e]
  BY Kinds DEF Moved, MayMove
<1>4. ASSUME NEW q \in Refreshes
      PROVE  /\ pc[q] \in {"ok", "failed"} => pc'[q] = pc[q]
             /\ pc[q] \in {"rotated", "confirmed", "ok", "failed"} => req'[q] = req[q]
  BY Kinds DEF Moved, MayMove
<1> QED
  BY <1>1, <1>2, <1>3, <1>4 DEF Advances

(***************************************************************************)
(* The handles clients hold are of lineages that have been given out.      *)
(***************************************************************************)
LEMMA GivenFacts ==
  ASSUME RequestsOK, NEW c, Given(c)
  PROVE  c \in Callbacks /\ pc[c] = "done"
  BY DEF Given, At, RequestsOK, ExchangeOK, CodeRead

\* An ID that was ever a session has a lineage, started by a callback.
LEMMA BornFacts ==
  ASSUME RequestsOK, NEW h, Born(h)
  PROVE  /\ h \in SessionIds
         /\ HandleLineage(h) \in Callbacks
         /\ pc[HandleLineage(h)] \in {"created", "done"}
         /\ h \in Refreshes => Given(HandleLineage(h))
<1>1. CASE h \in Callbacks /\ pc[h] \in {"created", "done"}
  BY <1>1, Kinds DEF HandleLineage, SessionIds
<1>2. CASE h \in Refreshes /\ pc[h] \in {"rotated", "confirmed", "ok"}
  <2>1. LineageRead(h) /\ h \notin Callbacks
    BY <1>2, Kinds DEF RequestsOK, RefreshOK
  <2>2. HandleLineage(h) = req[h].session.logical
    BY <2>1 DEF HandleLineage
  <2>3. HandleLineage(h) \in Callbacks /\ Given(HandleLineage(h))
    BY <2>1, <2>2 DEF LineageRead
  <2> QED
    BY <1>2, <2>3, GivenFacts DEF SessionIds
<1> QED
  BY <1>1, <1>2 DEF Born

\* A session ID a client was given was a session, of a lineage that was handed over.
LEMMA DeliveredFacts ==
  ASSUME RequestsOK, NEW h \in Delivered
  PROVE  Born(h) /\ Given(HandleLineage(h))
<1>1. CASE \E e \in Exchanges : At(e, "ok") /\ h = req[e].code
  <2>1. Given(h)
    BY <1>1 DEF Given
  <2> QED
    BY <2>1, GivenFacts DEF Born, HandleLineage
<1>2. CASE h \in Refreshes /\ At(h, "ok")
  BY <1>2, BornFacts DEF Born, At
<1> QED
  BY <1>1, <1>2 DEF Delivered

(***************************************************************************)
(* What a started lineage is tied to, and the lineage of an ID that is or  *)
(* was a session, never change.                                            *)
(***************************************************************************)
LEMMA LineageLasts ==
  ASSUME RequestsOK, Advances, NEW c \in Callbacks, pc[c] \in {"created", "done", "failed"}
  PROVE  /\ req'[c] = req[c] /\ LoginOf(c)' = LoginOf(c)
         /\ LoginOf(c) \in Logins /\ pc[LoginOf(c)] = "done" /\ pc'[LoginOf(c)] = "done"
         /\ req'[LoginOf(c)] = req[LoginOf(c)]
         /\ LoginKey(c)' = LoginKey(c)
         /\ LoginBrowser(c)' = LoginBrowser(c)
         /\ Deadline(c)' = Deadline(c)
         /\ pc'[c] \in {"created", "done", "failed"}
<1>1. req'[c] = req[c] /\ pc'[c] \in {"created", "done", "failed"}
  BY DEF Advances
<1>2. req[c].login \in Logins /\ pc[req[c].login] = "done"
  BY DEF RequestsOK, CallbackOK, Authorized
<1>3. req'[req[c].login] = req[req[c].login] /\ pc'[req[c].login] = "done"
  BY <1>2 DEF Advances
<1> QED
  BY <1>1, <1>2, <1>3 DEF LoginOf, LoginKey, LoginBrowser, Deadline

\* What was given and delivered stays so, and an ID keeps its lineage.
LEMMA HandleLasts ==
  ASSUME RequestsOK, Advances
  PROVE  /\ \A c : Given(c) => Given(c)'
         /\ \A h \in Delivered : h \in Delivered'
         /\ \A h : Born(h) => HandleLineage(h)' = HandleLineage(h)
<1>1. ASSUME NEW c, Given(c)
      PROVE  Given(c)'
  <2>1. PICK e \in Exchanges : pc[e] = "ok" /\ req[e].code = c
    BY <1>1 DEF Given, At
  <2>2. pc'[e] = "ok" /\ req'[e].code = c
    BY <2>1 DEF Advances
  <2> QED
    BY <2>2 DEF Given, At
<1>2. ASSUME NEW h \in Delivered
      PROVE  h \in Delivered'
  <2>1. CASE \E e \in Exchanges : pc[e] = "ok" /\ h = req[e].code
    <3>1. PICK e \in Exchanges : pc[e] = "ok" /\ h = req[e].code
      BY <2>1
    <3>2. pc'[e] = "ok" /\ h = req'[e].code
      BY <3>1 DEF Advances
    <3> QED
      BY <3>2 DEF Delivered, At
  <2>2. CASE h \in Refreshes /\ pc[h] = "ok"
    BY <2>2 DEF Delivered, At, Advances
  <2> QED
    BY <2>1, <2>2 DEF Delivered, At
<1>3. ASSUME NEW h, Born(h)
      PROVE  HandleLineage(h)' = HandleLineage(h)
  <2>1. CASE h \in Callbacks
    BY <2>1 DEF HandleLineage
  <2>2. CASE h \in Refreshes /\ pc[h] \in {"rotated", "confirmed", "ok"}
    <3>1. req'[h] = req[h]
      BY <2>2 DEF Advances
    <3> QED
      BY <3>1 DEF HandleLineage
  <2> QED
    BY <1>3, <2>1, <2>2 DEF Born
<1> QED
  BY <1>1, <1>2, <1>3

----------------------------------------------------------------------------
(***************************************************************************)
(* What has ended does not begin again: a lineage without a live session,  *)
(* a session record under the ID of a callback, a transaction and a code.  *)
(***************************************************************************)
LineagesEnd ==
  \A c \in Callbacks : Started(c) /\ ~LineageIsLive(c) => ~LineageIsLive(c)'

Ends ==
  /\ LineagesEnd
  /\ \A c \in Callbacks :
       pc[c] = "done" /\ c \in DOMAIN sessions' =>
         c \in DOMAIN sessions /\ sessions'[c] = sessions[c]
  /\ \A l \in Logins : pc[l] = "done" /\ l \in DOMAIN txns' => l \in DOMAIN txns
  /\ \A c \in Callbacks : pc[c] = "done" /\ c \in DOMAIN codes' => c \in DOMAIN codes

\* A request that does not move in the step.
Waits(q) == pc'[q] = pc[q] /\ req'[q] = req[q]

\* A request that does not move keeps its part, whatever another does to the store: a login,
LEMMA LoginWaits ==
  ASSUME NEW l \in Logins, Waits(l), LoginOK(l)
  PROVE  LoginOK(l)'
  BY DEF LoginOK, Waits

\* a callback,
LEMMA CallbackWaits ==
  ASSUME Advances, Ends, NEW c \in Callbacks, Waits(c), CallbackOK(c)
  PROVE  CallbackOK(c)'
<1>1. pc'[c] = pc[c] /\ req'[c] = req[c]
  BY DEF Waits
<1>2. ASSUME pc[c] \notin {"idle", "refused"}
      PROVE  /\ Authorized(c)'
             /\ LoginKey(c)' = LoginKey(c) /\ pc[req[c].login] = "done" /\ req[c].login \in Logins
  <2>1. Authorized(c)
    BY <1>2 DEF CallbackOK
  <2>2. req'[req[c].login] = req[req[c].login] /\ pc'[req[c].login] = "done"
    BY <2>1 DEF Authorized, Advances
  <2> QED
    BY <1>1, <2>1, <2>2 DEF Authorized, LoginKey, LoginBrowser, LoginOf
<1>3. (c \in Redeeming)' => (req[c].login \notin DOMAIN txns)'
  <2> SUFFICES ASSUME pc[c] \in {"consumed", "tokens", "created", "done", "failed"}
               PROVE  req[c].login \notin DOMAIN txns'
    BY <1>1 DEF Redeeming
  <2>1. req[c].login \notin DOMAIN txns
    BY DEF CallbackOK, Redeeming
  <2> QED
    BY <1>2, <2>1 DEF Ends
<1>4. (pc[c] \in {"tokens", "created", "done"} => Granted(c))'
  BY <1>1, <1>2 DEF CallbackOK, Granted, Deadline
<1>5. (pc[c] = "failed" => ~LineageIsLive(c))'
  BY <1>1 DEF CallbackOK, Ends, LineagesEnd, Started
<1> QED
  BY <1>1, <1>2, <1>3, <1>4, <1>5 DEF CallbackOK

\* an exchange,
LEMMA ExchangeWaits ==
  ASSUME RequestsOK, Advances, Ends, NEW e \in Exchanges, Waits(e)
  PROVE  ExchangeOK(e)'
<1>1. pc'[e] = pc[e] /\ req'[e] = req[e] /\ ExchangeOK(e)
  BY DEF Waits, RequestsOK
<1>0. PICK c : c = req[e].code
  OBVIOUS
<1>2. CASE pc[e] \in {"idle", "refused"}
  BY <1>1, <1>2 DEF ExchangeOK, Spending
<1>3. CASE pc[e] \notin {"idle", "refused"}
  <2>1. c \in Callbacks /\ pc[c] = "done" /\ CodeRead(e)
    BY <1>0, <1>1, <1>3 DEF ExchangeOK, CodeRead
  <2>2. /\ req'[c] = req[c] /\ LoginKey(c)' = LoginKey(c)
        /\ LoginBrowser(c)' = LoginBrowser(c)
    BY <1>0, <2>1, LineageLasts
  <2>3. pc'[c] = "done"
    BY <1>0, <2>1 DEF Advances
  <2> DEFINE key == LoginKey(c)
             browser == LoginBrowser(c)
  <2>4. key = LoginKey(req[e].code)' /\ browser = LoginBrowser(req[e].code)'
    BY <1>0, <1>1, <2>2 DEF LoginKey, LoginBrowser, LoginOf
  <2>5. CodeRead(e)'
    BY <1>0, <1>1, <2>1, <2>3, <2>4 DEF CodeRead
  <2>6. pc[e] \in {"session", "spent", "lapsed", "checked", "ok", "failed"} => SessionRead(e)'
    <3> SUFFICES ASSUME SessionRead(e)
                 PROVE  SessionRead(e)'
      BY <1>0, <1>1 DEF ExchangeOK
    <3>1. c \in DOMAIN sessions' => sessions'[c] = req[e].session
      BY <1>0, <2>1 DEF SessionRead, Ends
    <3> QED
      BY <1>0, <1>1, <2>4, <3>1 DEF SessionRead
  <2>7. e \in Spending => /\ req[e].code \notin DOMAIN codes'
                          /\ key # Undefined => req[e].proof = key
    BY <1>0, <1>1, <2>1 DEF ExchangeOK, Ends
  <2>8. ~LineageIsLive(c) => ~LineageIsLive(c)'
    BY <1>0, <2>1 DEF Ends, LineagesEnd, Started
  <2>9. (pc[e] = "failed" /\ assertIdentity(e, req[e].session.provider)
           => ~LineageIsLive(req[e].code))'
    <3>1. pc[e] = "failed" /\ assertIdentity(e, req[e].session.provider) => ~LineageIsLive(c)'
      BY <1>0, <1>1, <2>8 DEF ExchangeOK
    <3>2. c = req'[e].code
      BY <1>0, <1>1
    <3> QED
      BY <1>0, <1>1, <3>1, <3>2 DEF assertIdentity, LineageIsLive
  <2> HIDE DEF key, browser
  <2>10. (e \in Spending)' <=> e \in Spending
    BY <1>0, <1>1 DEF Spending
  <2>11. (e \in Spending =>
           /\ req[e].code \notin DOMAIN codes
           /\ LoginKey(req[e].code) # Undefined => req[e].proof = LoginKey(req[e].code))'
    BY <1>0, <1>1, <2>4, <2>7, <2>10
  <2>12. (pc[e] \in {"idle", "refused", "code", "session", "spent", "lapsed", "checked", "ok",
                     "failed"})'
    BY <1>0, <1>1 DEF ExchangeOK
  <2> QED
    BY <1>0, <1>1, <2>5, <2>6, <2>9, <2>11, <2>12 DEF ExchangeOK
<1> QED
  BY <1>2, <1>3

\* a refresh,
LEMMA RefreshWaits ==
  ASSUME RequestsOK, Advances, Ends, NEW r \in Refreshes, Waits(r)
  PROVE  RefreshOK(r)'
<1>1. pc'[r] = pc[r] /\ req'[r] = req[r] /\ RefreshOK(r)
  BY DEF Waits, RequestsOK
<1>0. PICK c : c = req[r].session.logical
  OBVIOUS
<1>2. CASE pc[r] \in {"idle", "refused", "rejected"}
  BY <1>1, <1>2 DEF RefreshOK
<1>3. CASE pc[r] \notin {"idle", "refused", "rejected"}
  <2>1. LineageRead(r)
    BY <1>0, <1>1, <1>3 DEF RefreshOK
  <2>2. /\ c \in Callbacks /\ Given(c) /\ pc[c] = "done"
        /\ req[r].handle \in Delivered /\ c = HandleLineage(req[r].handle)
    BY <1>0, <2>1, GivenFacts DEF LineageRead
  <2>3. /\ req'[c] = req[c] /\ LoginKey(c)' = LoginKey(c) /\ Deadline(c)' = Deadline(c)
    BY <1>0, <2>2, LineageLasts
  <2>4. /\ Given(c)' /\ req[r].handle \in Delivered'
    BY <1>0, <2>2, HandleLasts
  <2>5. c = HandleLineage(req[r].handle)'
    <3>1. ASSUME NEW h, h = req[r].handle
          PROVE  HandleLineage(h)' = c
      BY <1>0, <2>2, <3>1, DeliveredFacts, HandleLasts
    <3> QED
      BY <1>0, <1>1, <3>1 DEF HandleLineage
  <2> DEFINE key == LoginKey(c)
             deadline == Deadline(c)
  <2>6. key = LoginKey(req[r].session.logical)' /\ deadline = Deadline(req[r].session.logical)'
    BY <1>0, <1>1, <2>3 DEF LoginKey, Deadline, LoginOf
  <2>7. Given(req[r].session.logical)'
    BY <1>0, <1>1, <2>4 DEF Given, At
  <2>8. LineageRead(r)'
    <3>1. /\ req[r].session \in Sessions!Session /\ req[r].session.key = key
          /\ req[r].session.expiresAt = deadline
          /\ key # Undefined => Config[r].policy # "disabled"
      BY <1>0, <2>1 DEF LineageRead
    <3> HIDE DEF key, deadline
    <3> QED
      BY <1>0, <1>1, <2>2, <2>4, <2>5, <2>6, <2>7, <3>1 DEF LineageRead
  <2>9. pc[r] = "failed" => ~LineageIsLive(c)'
    BY <1>0, <1>1, <2>2 DEF Ends, LineagesEnd, RefreshOK, Started
  <2>10. (pc[r] = "failed" => ~LineageIsLive(req[r].session.logical))'
    BY <1>0, <1>1, <2>9 DEF LineageIsLive
  <2>11. pc[r] \in {"checked", "granted", "rotated", "confirmed", "ok", "failed"} =>
           (key # Undefined => req[r].proof = key)
    BY <1>0, <1>1 DEF RefreshOK
  <2> HIDE DEF key, deadline
  <2>12. (pc[r] \in {"checked", "granted", "rotated", "confirmed", "ok", "failed"} =>
            LET k == LoginKey(req[r].session.logical) IN k # Undefined => req[r].proof = k)'
    BY <1>0, <1>1, <2>6, <2>11
  <2>13. (pc[r] \in {"idle", "refused", "rejected", "read", "checked", "granted", "rotated",
                     "confirmed", "ok", "failed"})'
    BY <1>0, <1>1 DEF RefreshOK
  <2> QED
    BY <1>0, <2>8, <2>10, <2>12, <2>13 DEF RefreshOK
<1> QED
  BY <1>2, <1>3

\* a logout,
LEMMA LogoutWaits ==
  ASSUME RequestsOK, Advances, Ends, NEW o \in Logouts, Waits(o)
  PROVE  LogoutOK(o)'
<1>1. pc'[o] = pc[o] /\ req'[o] = req[o] /\ LogoutOK(o)
  BY DEF Waits, RequestsOK
<1>2. CASE pc[o] \in {"idle", "refused"}
  BY <1>1, <1>2 DEF LogoutOK
<1>3. CASE pc[o] \notin {"idle", "refused"}
  <2> DEFINE h == req[o].handle
             c == HandleLineage(h)
             key == LoginKey(c)
  <2>1. h \in Delivered
    BY <1>1, <1>3 DEF LogoutOK
  <2>2. Born(h) /\ Given(c) /\ c \in Callbacks /\ pc[c] = "done"
    BY <2>1, DeliveredFacts, GivenFacts
  <2>3. h \in Delivered'
    BY <2>1, HandleLasts
  <2>4. c = HandleLineage(req[o].handle)'
    <3>1. ASSUME NEW g, g = h
          PROVE  HandleLineage(g)' = c
      BY <2>2, <3>1, HandleLasts
    <3> QED
      BY <1>1, <3>1 DEF HandleLineage
  <2>5. key = LoginKey(HandleLineage(req[o].handle))'
    <3>1. ASSUME NEW d, d = c
          PROVE  LoginKey(d)' = key
      BY <2>2, <3>1, LineageLasts
    <3> HIDE DEF c
    <3>2. LoginKey(HandleLineage(req[o].handle))' = req'[req'[c].login].key
      BY <2>4 DEF LoginKey, LoginOf
    <3>3. req'[req'[c].login].key = key
      BY <3>1 DEF LoginKey, LoginOf
    <3> QED
      BY <3>2, <3>3
  <2>6. ~LineageIsLive(c) => ~LineageIsLive(HandleLineage(req[o].handle))'
    <3>1. ASSUME NEW d, d = c, ~LineageIsLive(d)
          PROVE  ~LineageIsLive(d)'
      BY <2>2, <3>1 DEF Ends, LineagesEnd, Started
    <3> HIDE DEF c
    <3> QED
      BY <2>4, <3>1 DEF LineageIsLive
  <2>7. ContextOK(o) => ContextOK(o)'
    BY <1>1, <2>4, <2>5 DEF ContextOK
  <2>8. /\ pc[o] \in {"idle", "refused", "context", "admitted", "confirmed", "done", "absent"}
        /\ pc[o] = "context" =>
             IF req[o].context = Undefined THEN ~LineageIsLive(c) ELSE ContextOK(o)
        /\ pc[o] \in {"admitted", "confirmed", "done"} =>
             ContextOK(o) /\ (key # Undefined => Config[o].policy # "disabled")
        /\ pc[o] \in {"confirmed", "done"} => (key # Undefined => req[o].proof = key)
        /\ pc[o] \in {"done", "absent"} => ~LineageIsLive(c)
    BY <1>1 DEF LogoutOK
  <2> HIDE DEF h, c, key
  <2> QED
    BY <1>1, <2>3, <2>5, <2>6, <2>7, <2>8 DEF LogoutOK, h
<1> QED
  BY <1>2, <1>3

\* a back-channel logout.
LEMMA BackchannelWaits ==
  ASSUME NEW b \in Backchannels, Waits(b), BackchannelOK(b)
  PROVE  BackchannelOK(b)'
  BY DEF BackchannelOK, Waits, Presented

(***************************************************************************)
(* The invariant of the store survives a step in which records only go.    *)
(***************************************************************************)
LEMMA LiveNames ==
  /\ \A c : HasLive(sessions, c) <=> LineageIsLive(c)
  /\ now' = now => \A c : HasLive(sessions', c) <=> LineageIsLive(c)'
  BY DEF HasLive, LineageIsLive, LiveKeys, ExpiredKeys, isExpiredRecord

\* The same as Fades, for a step in which the clock may move.
Wanes ==
  /\ now \in Nat /\ now' \in Nat /\ now <= now'
  /\ Shrinks(sessions, sessions')
  /\ Shrinks(aliases, aliases')
  /\ \A a \in DOMAIN aliases, c \in Callbacks :
       aliases[a].logical = c /\ LineageIsLive(c)' => a \in DOMAIN aliases'

\* A fading store is a waning one.
LEMMA FadesWanes ==
  ASSUME Shape, Fades, now' = now
  PROVE  Wanes
<1>1. now \in Nat /\ now <= now'
  BY ClockAssumption DEF Shape
<1> QED
  BY <1>1, LiveNames DEF Fades, Wanes

\* A lineage that is live in a waning store was live before, in the same session.
LEMMA WanesLive ==
  ASSUME StoreOK, Wanes, NEW c, LineageIsLive(c)'
  PROVE  \E s \in LiveKeys(sessions) : s \in DOMAIN sessions' /\ sessions[s].logical = c
<1>1. PICK s \in DOMAIN sessions' :
         /\ sessions'[s].logical = c
         /\ ~(sessions'[s].expiresAt # Never /\ sessions'[s].expiresAt <= now')
  BY DEF LineageIsLive, LiveKeys, ExpiredKeys, isExpiredRecord
<1>2. s \in DOMAIN sessions /\ sessions'[s] = sessions[s]
  BY <1>1 DEF Wanes, Shrinks
<1>3. sessions[s].expiresAt \in Nat \cup {Never}
  BY <1>2, ClockAssumption DEF StoreOK, Sessions!Session
<1>4. s \in LiveKeys(sessions)
  BY <1>1, <1>2, <1>3 DEF LiveKeys, ExpiredKeys, isExpiredRecord, Wanes
<1> QED
  BY <1>1, <1>2, <1>4

\* A waning store revives nothing.
LEMMA WanesEnds ==
  ASSUME StoreOK, Wanes
  PROVE  /\ LineagesEnd
         /\ \A c \in Callbacks :
              pc[c] = "done" /\ c \in DOMAIN sessions' =>
                c \in DOMAIN sessions /\ sessions'[c] = sessions[c]
<1>1. ASSUME NEW c \in Callbacks, LineageIsLive(c)'
      PROVE  LineageIsLive(c)
  BY <1>1, WanesLive DEF LineageIsLive
<1> QED
  BY <1>1 DEF LineagesEnd, Wanes, Shrinks

(***************************************************************************)
(* A session or alias that stays as it is stays well placed.               *)
(***************************************************************************)
LEMMA SessionLasts ==
  ASSUME RequestsOK, Advances, NEW s, SessionOK(s), sessions'[s] = sessions[s], Born(s)',
         pc'[sessions[s].logical] \in {"created", "done"}
  PROVE  SessionOK(s)'
<1>1. PICK c : c = sessions[s].logical
  OBVIOUS
<1>2. /\ Born(s) /\ c = HandleLineage(s) /\ c \in Callbacks /\ pc[c] \in {"created", "done"}
      /\ sessions[s].key = LoginKey(c) /\ sessions[s].expiresAt = Deadline(c)
  BY <1>1 DEF SessionOK
<1>3. /\ LoginKey(c)' = LoginKey(c) /\ Deadline(c)' = Deadline(c)
      /\ HandleLineage(s)' = c
  BY <1>2, LineageLasts, HandleLasts
<1>4. pc'[c] \in {"created", "done"} /\ c = sessions'[s].logical
  BY <1>1
<1>5. /\ LoginKey(sessions[s].logical)' = sessions'[s].key
      /\ Deadline(sessions[s].logical)' = sessions'[s].expiresAt
  BY <1>2, <1>3, <1>4 DEF LoginKey, LoginOf, Deadline
<1> QED
  BY <1>2, <1>3, <1>4, <1>5 DEF SessionOK

\* An alias that is kept still belongs to its lineage.
LEMMA AliasLasts ==
  ASSUME RequestsOK, Advances, NEW a, AliasOK(a), aliases'[a] = aliases[a]
  PROVE  AliasOK(a)'
<1>1. PICK c : c = aliases[a].logical
  OBVIOUS
<1>2. a \in Delivered /\ c = HandleLineage(a) /\ aliases[a].expiresAt = Deadline(c)
  BY <1>1 DEF AliasOK
<1>3. Born(a) /\ c \in Callbacks /\ pc[c] \in {"created", "done"}
  BY <1>2, DeliveredFacts, BornFacts
<1>4. a \in Delivered' /\ HandleLineage(a)' = c /\ Deadline(c)' = Deadline(c)
  BY <1>2, <1>3, HandleLasts, LineageLasts
<1>5. Deadline(aliases[a].logical)' = aliases'[a].expiresAt
  BY <1>1, <1>2, <1>4 DEF Deadline
<1> QED
  BY <1>1, <1>4, <1>5 DEF AliasOK

\* A waning store keeps its part of the invariant.
LEMMA StoreWanes ==
  ASSUME StoreOK, RequestsOK, Advances, Wanes,
         \A h : Born(h)' => Born(h),
         \A s \in DOMAIN sessions' : Born(s)',
         \A s \in DOMAIN sessions' : pc'[sessions'[s].logical] \in {"created", "done"}
  PROVE  StoreOK'
<1>1. /\ DOMAIN sessions' \subseteq DOMAIN sessions
      /\ \A s \in DOMAIN sessions' : sessions'[s] = sessions[s]
      /\ DOMAIN aliases' \subseteq DOMAIN aliases
      /\ \A a \in DOMAIN aliases' : aliases'[a] = aliases[a]
  BY DEF Wanes, Shrinks
<1>2. /\ sessions' \in [DOMAIN sessions' -> Sessions!Session]
      /\ aliases' \in [DOMAIN aliases' -> Sessions!Alias]
  <2>1. /\ sessions' = [s \in DOMAIN sessions' |-> sessions'[s]]
        /\ aliases' = [a \in DOMAIN aliases' |-> aliases'[a]]
    BY DEF Wanes, Shrinks
  <2>2. /\ \A s \in DOMAIN sessions' : sessions'[s] \in Sessions!Session
        /\ \A a \in DOMAIN aliases' : aliases'[a] \in Sessions!Alias
    BY <1>1 DEF StoreOK
  <2> QED
    BY <2>1, <2>2
<1>3. \A s \in DOMAIN sessions' : SessionOK(s)'
  BY <1>1, SessionLasts DEF StoreOK
<1>4. \A a \in DOMAIN aliases' : AliasOK(a)'
  BY <1>1, AliasLasts DEF StoreOK
<1>5. ASSUME NEW h \in SessionIds
      PROVE  HandleOK(h)'
  <2> SUFFICES ASSUME Born(h)', LineageIsLive(HandleLineage(h))'
               PROVE  h \in DOMAIN sessions' \cup DOMAIN aliases'
    BY DEF HandleOK
  <2>1. PICK c : c = HandleLineage(h)
    OBVIOUS
  <2>2. Born(h) /\ HandleLineage(h)' = c /\ c \in Callbacks
    BY <2>1, HandleLasts, BornFacts
  <2>3. LineageIsLive(c)'
    BY <2>2 DEF LineageIsLive
  <2>4. PICK s \in LiveKeys(sessions) : s \in DOMAIN sessions' /\ sessions[s].logical = c
    BY <2>3, WanesLive
  <2>5. LineageIsLive(c)
    BY <2>4 DEF LineageIsLive
  <2>6. h \in DOMAIN sessions \cup DOMAIN aliases
    BY <2>1, <2>2, <2>5 DEF StoreOK, HandleOK
  <2>7. CASE h \in DOMAIN sessions
    <3>1. sessions[h].logical = c /\ s \in DOMAIN sessions
      BY <1>1, <2>1, <2>4, <2>7 DEF StoreOK, SessionOK
    <3>2. s = h
      BY <2>4, <2>7, <3>1 DEF StoreOK, OneSessionPerLineage
    <3> QED
      BY <2>4, <3>2
  <2>8. CASE h \in DOMAIN aliases
    <3>1. aliases[h].logical = c
      BY <2>1, <2>8 DEF StoreOK, AliasOK
    <3> QED
      BY <2>2, <2>3, <2>8, <3>1 DEF Wanes
  <2> QED
    BY <2>6, <2>7, <2>8
<1>6. OneSessionPerLineage'
  BY <1>1 DEF StoreOK, OneSessionPerLineage
<1>7. DOMAIN sessions' \subseteq SessionIds /\ DOMAIN aliases' \subseteq SessionIds
  BY <1>1 DEF StoreOK
<1> QED
  BY <1>2, <1>3, <1>4, <1>5, <1>6, <1>7 DEF StoreOK

(***************************************************************************)
(* The one-time records survive a step in which they only go, and the      *)
(* reservations of logout tokens one in which no back-channel request      *)
(* moves.                                                                  *)
(***************************************************************************)
LEMMA TxnsShrink ==
  ASSUME TxnsOK, Advances, Shrinks(txns, txns')
  PROVE  TxnsOK'
<1>1. /\ DOMAIN txns' \subseteq DOMAIN txns
      /\ \A l \in DOMAIN txns' : txns'[l] = txns[l]
      /\ txns' = [l \in DOMAIN txns' |-> txns'[l]]
  BY DEF Shrinks
<1>2. \A l \in DOMAIN txns' : pc'[l] = pc[l] /\ req'[l] = req[l] /\ txns'[l] \in Txn
  BY <1>1 DEF TxnsOK, Advances
<1>3. txns' \in [DOMAIN txns' -> Txn]
  BY <1>1, <1>2
<1>4. Txn' = Txn
  BY DEF Txn
<1> QED
  BY <1>1, <1>2, <1>3, <1>4 DEF TxnsOK

\* The exchange codes that are left are still the codes of their callbacks.
LEMMA CodesShrink ==
  ASSUME CodesOK, RequestsOK, Advances, Shrinks(codes, codes')
  PROVE  CodesOK'
<1>1. /\ DOMAIN codes' \subseteq DOMAIN codes
      /\ \A c \in DOMAIN codes' : codes'[c] = codes[c]
      /\ codes' = [c \in DOMAIN codes' |-> codes'[c]]
  BY DEF Shrinks
<1>2. ASSUME NEW c \in DOMAIN codes'
      PROVE  /\ codes'[c] \in Code /\ pc'[c] = "done" /\ codes'[c].session = c
             /\ codes'[c].key = LoginKey(c)' /\ codes'[c].browser = LoginBrowser(c)'
  <2>1. /\ c \in Callbacks /\ pc[c] = "done" /\ codes[c] \in Code /\ codes[c].session = c
        /\ codes[c].key = LoginKey(c) /\ codes[c].browser = LoginBrowser(c)
    BY <1>1 DEF CodesOK
  <2>2. /\ LoginKey(c)' = LoginKey(c) /\ LoginBrowser(c)' = LoginBrowser(c)
    BY <2>1, LineageLasts
  <2>3. pc'[c] = "done"
    BY <2>1 DEF Advances
  <2> QED
    BY <1>1, <2>1, <2>2, <2>3
<1>3. codes' \in [DOMAIN codes' -> Code]
  BY <1>1, <1>2
<1>4. DOMAIN codes' \subseteq Callbacks
  BY <1>1 DEF CodesOK
<1> QED
  BY <1>2, <1>3, <1>4 DEF CodesOK

\* One-time records left alone have only shrunk.
LEMMA OneTimeSame ==
  ASSUME TxnsOK, CodesOK, UNCHANGED oneTimeVars
  PROVE  Shrinks(txns, txns') /\ Shrinks(codes, codes') /\ jtis' = jtis
  BY DEF TxnsOK, CodesOK, Shrinks, oneTimeVars

\* Reserved logout-token IDs keep their owners while no back-channel request moves.
LEMMA JtisWait ==
  ASSUME JtisOK, jtis' = jtis, now \in Nat, now' \in Nat, now <= now',
         \A b \in Backchannels : Waits(b)
  PROVE  JtisOK'
<1>1. \A b \in Backchannels : Presented(b)' = Presented(b) /\ req'[b] = req[b]
  BY DEF Waits, Presented
<1>2. \A b \in Backchannels :
        /\ Presentations(b)' = Presentations(b) /\ Presentations(b) \subseteq Backchannels
        /\ buildBackchannelLogoutReplayKey(b)' = buildBackchannelLogoutReplayKey(b)
        /\ Token[b].expiresAt \in Nat
  BY VaultAssumption DEF Presentations, buildBackchannelLogoutReplayKey
<1>3. \A b \in Backchannels : now' < Token[b].expiresAt => now < Token[b].expiresAt
  BY <1>2
<1>4. DOMAIN jtis' \subseteq Providers \X Backchannels
  BY DEF JtisOK
<1>5. ASSUME NEW b \in Backchannels, NEW key, key = buildBackchannelLogoutReplayKey(b)
      PROVE  /\ key \in DOMAIN jtis' =>
                  /\ jtis'[key].expiresAt = Token[b].expiresAt
                  /\ \E d \in Presentations(b) : Presented(d)' /\ req'[d].owner
             /\ Presented(b)' /\ now' < Token[b].expiresAt => key \in DOMAIN jtis'
  BY <1>1, <1>2, <1>3, <1>5 DEF JtisOK
<1>6. ASSUME NEW b \in Backchannels, NEW d \in Backchannels, d \in Presentations(b),
             Presented(b)', req'[b].owner, Presented(d)', req'[d].owner
      PROVE  b = d
  BY <1>1, <1>6 DEF JtisOK
<1> QED
  BY <1>2, <1>4, <1>5, <1>6 DEF JtisOK

(***************************************************************************)
(* Nobody newly owns a login or a code, or the one request that does is    *)
(* alone.                                                                  *)
(***************************************************************************)
LEMMA OnceKept ==
  ASSUME Once, NEW r \in Requests, NEW label, NEW held, Moved(r, label, held),
         (r \in Redeeming)' => \/ r \in Redeeming /\ held.login = req[r].login
                               \/ \A d \in Redeeming : req[d].login # held.login,
         (r \in Spending)' => \/ r \in Spending /\ held.code = req[r].code
                              \/ \A f \in Spending : req[f].code # held.code
  PROVE  Once'
<1>1. \A q \in Requests : q # r => /\ (q \in Redeeming)' <=> q \in Redeeming
                                   /\ (q \in Spending)' <=> q \in Spending
                                   /\ req'[q] = req[q]
  BY DEF Redeeming, Spending, Moved
<1>2. /\ Redeeming \subseteq Requests /\ Spending \subseteq Requests
      /\ Redeeming' \subseteq Requests /\ Spending' \subseteq Requests
  BY Kinds DEF Redeeming, Spending
<1>3. req'[r] = held
  BY DEF Moved
<1>4. ASSUME NEW c \in Redeeming', NEW d \in Redeeming', req'[c].login = req'[d].login
      PROVE  c = d
  BY <1>1, <1>2, <1>3, <1>4 DEF Once, LoginOf
<1>5. ASSUME NEW e \in Spending', NEW f \in Spending', req'[e].code = req'[f].code
      PROVE  e = f
  BY <1>1, <1>2, <1>3, <1>5 DEF Once
<1> QED
  BY <1>4, <1>5 DEF Once, LoginOf

(***************************************************************************)
(* The invariant after a step of request r: what is left to show is the    *)
(* store and r itself.                                                     *)
(***************************************************************************)
Own(r) ==
  /\ r \in Logins => LoginOK(r)
  /\ r \in Callbacks => CallbackOK(r)
  /\ r \in Exchanges => ExchangeOK(r)
  /\ r \in Refreshes => RefreshOK(r)
  /\ r \in Logouts => LogoutOK(r)
  /\ r \in Backchannels => BackchannelOK(r)

\* If the request that moves keeps its own part and the store its parts, the invariant is kept.
LEMMA OthersWait ==
  ASSUME IInv, NEW r \in Requests, NEW label, NEW held, Moved(r, label, held),
         now' = now, Advances, Ends, TxnsOK', CodesOK', JtisOK', StoreOK', Once', Own(r)'
  PROVE  IInv'
<1>1. \A q \in Requests : q # r => Waits(q)
  BY DEF Moved, Waits
<1>2. Shape'
  BY DEF IInv, Shape, Moved
<1>3. RequestsOK
  BY DEF IInv
<1>4. ASSUME NEW l \in Logins PROVE LoginOK(l)'
  BY <1>1, <1>3, Kinds, LoginWaits DEF Own, RequestsOK
<1>5. ASSUME NEW c \in Callbacks PROVE CallbackOK(c)'
  BY <1>1, <1>3, Kinds, CallbackWaits DEF Own, RequestsOK
<1>6. ASSUME NEW e \in Exchanges PROVE ExchangeOK(e)'
  BY <1>1, <1>3, Kinds, ExchangeWaits DEF Own
<1>7. ASSUME NEW q \in Refreshes PROVE RefreshOK(q)'
  BY <1>1, <1>3, Kinds, RefreshWaits DEF Own
<1>8. ASSUME NEW o \in Logouts PROVE LogoutOK(o)'
  BY <1>1, <1>3, Kinds, LogoutWaits DEF Own
<1>9. ASSUME NEW b \in Backchannels PROVE BackchannelOK(b)'
  BY <1>1, <1>3, Kinds, BackchannelWaits DEF Own, RequestsOK
<1>10. RequestsOK'
  BY <1>4, <1>5, <1>6, <1>7, <1>8, <1>9 DEF RequestsOK
<1> QED
  BY <1>2, <1>10 DEF IInv

(***************************************************************************)
(* The common case: no session is added, and no session ID is born or      *)
(* dies.                                                                   *)
(***************************************************************************)
Steady(r, label) ==
  /\ r \in Callbacks => (pc[r] = "created" <=> label \in {"created", "done"})
  /\ r \in Refreshes =>
       (pc[r] \in {"rotated", "confirmed"} <=> label \in {"rotated", "confirmed", "ok"})

\* A step that starts and ends no session keeps the store's part and revives nothing.
LEMMA QuietStore ==
  ASSUME IInv, NEW r \in Requests, NEW label, NEW held, Moved(r, label, held),
         MayMove(r, label, held), Steady(r, label), now' = now, Fades
  PROVE  /\ Advances /\ StoreOK' /\ LineagesEnd
         /\ \A c \in Callbacks :
              pc[c] = "done" /\ c \in DOMAIN sessions' =>
                c \in DOMAIN sessions /\ sessions'[c] = sessions[c]
<1>1. Advances
  BY MovesAdvance
<1>2. Wanes
  BY FadesWanes DEF IInv
<1>3. \A h : Born(h)' <=> Born(h)
  BY Kinds DEF Born, Moved, MayMove, Steady
<1>4. \A s \in DOMAIN sessions' : Born(s)' /\ pc'[sessions'[s].logical] \in {"created", "done"}
  <2> SUFFICES ASSUME NEW s \in DOMAIN sessions'
               PROVE  Born(s)' /\ pc'[sessions'[s].logical] \in {"created", "done"}
    OBVIOUS
  <2>1. /\ s \in DOMAIN sessions /\ sessions'[s] = sessions[s]
    BY <1>2 DEF Wanes, Shrinks
  <2>2. /\ Born(s) /\ sessions[s].logical \in Callbacks
        /\ pc[sessions[s].logical] \in {"created", "done"}
    BY <2>1 DEF IInv, StoreOK, SessionOK
  <2>3. pc'[sessions[s].logical] \in {"created", "done"}
    BY <2>2, Kinds DEF Moved, MayMove, Steady
  <2> QED
    BY <1>3, <2>1, <2>2, <2>3
<1>5. StoreOK'
  BY <1>1, <1>2, <1>3, <1>4, StoreWanes DEF IInv
<1> QED
  BY <1>1, <1>2, <1>5, WanesEnds DEF IInv

\* A step of any other kind of request leaves the logout-token IDs in order.
LEMMA JtisElsewhere ==
  ASSUME IInv, NEW r \in Requests, r \notin Backchannels, NEW label, NEW held,
         Moved(r, label, held), now' = now, jtis' = jtis
  PROVE  JtisOK'
<1>1. \A b \in Backchannels : Waits(b)
  BY Kinds DEF Moved, Waits
<1>2. now \in Nat
  BY ClockAssumption DEF IInv, Shape
<1> QED
  BY <1>1, <1>2, JtisWait DEF IInv

\* A step that starts no session keeps the invariant if its request keeps its own part.
LEMMA QuietStep ==
  ASSUME IInv, NEW r \in Requests, NEW label, NEW held, Moved(r, label, held),
         MayMove(r, label, held), Steady(r, label), now' = now, Fades,
         Shrinks(txns, txns'), Shrinks(codes, codes'), JtisOK', Once', Own(r)'
  PROVE  IInv' /\ Ends
<1>1. /\ Advances /\ StoreOK' /\ LineagesEnd
      /\ \A c \in Callbacks :
           pc[c] = "done" /\ c \in DOMAIN sessions' =>
             c \in DOMAIN sessions /\ sessions'[c] = sessions[c]
  BY QuietStore
<1>2. Ends
  BY <1>1 DEF Ends, Shrinks
<1>3. TxnsOK' /\ CodesOK'
  BY <1>1, TxnsShrink, CodesShrink DEF IInv
<1> QED
  BY <1>1, <1>2, <1>3, OthersWait

----------------------------------------------------------------------------
(***************************************************************************)
(* What the calls on one-time records do to their Maps.                    *)
(***************************************************************************)
LEMMA AfterReadShrinks ==
  ASSUME NEW map, NEW id
  PROVE  Shrinks(map, OneTime!AfterRead(map, id))
<1> DEFINE K == {id} \cap OneTime!ExpiredKeys(map)
<1>1. OneTime!AfterRead(map, id) = Without(map, K)
  BY MapNames DEF OneTime!AfterRead
<1> HIDE DEF K
<1> QED
  BY <1>1, WithoutFacts

\* A conditional consume only removes, and what it grants is gone.
LEMMA ConsumeShrinks ==
  ASSUME NEW map, NEW next, NEW id, NEW granted, OneTime!ConsumeIn(map, next, id, granted)
  PROVE  Shrinks(map, next) /\ (granted => id \notin DOMAIN next)
<1>1. PICK P : next = LET kept == OneTime!Without(map, P)
                      IN  IF granted THEN OneTime!Without(kept, {id})
                          ELSE OneTime!AfterRead(kept, id)
  BY DEF OneTime!ConsumeIn
<1> DEFINE kept == OneTime!Without(map, P)
<1>2. Shrinks(map, kept)
  BY MapNames, WithoutFacts
<1>3. next = IF granted THEN Without(kept, {id}) ELSE OneTime!AfterRead(kept, id)
  BY <1>1, MapNames
<1> HIDE DEF kept
<1>4. Shrinks(kept, next) /\ (granted => id \notin DOMAIN next)
  BY <1>3, AfterReadShrinks, WithoutFacts
<1> QED
  BY <1>2, <1>4, ShrinksTwice

\* A create adds its record at most, and sweeps.
LEMMA CreateAdds ==
  ASSUME NEW map, NEW next, NEW id, NEW record, OneTime!CreateIn(map, next, id, record)
  PROVE  /\ DOMAIN next \subseteq DOMAIN map \cup {id}
         /\ next = [k \in DOMAIN next |-> next[k]]
         /\ id \in DOMAIN next /\ next[id] = record
         /\ \A k \in DOMAIN next : k # id => next[k] = map[k]
<1>1. PICK P : next = OneTime!With(OneTime!Without(map, P), id, record)
  BY DEF OneTime!CreateIn
<1>2. next = With(Without(map, P), id, record)
  BY <1>1, MapNames
<1>3. next = [k \in DOMAIN next |-> next[k]]
  BY <1>2 DEF With
<1> QED
  BY <1>2, <1>3, WithoutFacts, WithFacts DEF Shrinks

\* What is found is in the Map.
LEMMA FoundFacts ==
  /\ \A map, id : OneTime!Found(map, id) => id \in DOMAIN map /\ OneTime!FoundValue(map, id) = map[id]
  BY MapNames DEF OneTime!Found, OneTime!FoundValue, LiveKeys

\* The one-time Maps a step leaves alone have only shrunk.
LEMMA OneTimeKept ==
  ASSUME IInv
  PROVE  /\ UNCHANGED oneTimeVars => Shrinks(txns, txns') /\ Shrinks(codes, codes') /\ jtis' = jtis
         /\ UNCHANGED txns => Shrinks(txns, txns')
         /\ UNCHANGED codes => Shrinks(codes, codes')
         /\ UNCHANGED sessionVars => Fades
<1>1. UNCHANGED txns => Shrinks(txns, txns')
  BY DEF IInv, TxnsOK, Shrinks
<1>2. UNCHANGED codes => Shrinks(codes, codes')
  BY DEF IInv, CodesOK, Shrinks
<1>3. UNCHANGED sessionVars => Fades
  BY SameStoreFades DEF IInv, StoreOK
<1> QED
  BY <1>1, <1>2, <1>3 DEF oneTimeVars

\* A refusal commits nothing.
LEMMA RefusedOwn ==
  ASSUME NEW r \in Requests, NEW held, Moved(r, "refused", held)
  PROVE  Own(r)' /\ ~(r \in Redeeming)' /\ ~(r \in Spending)'
<1>1. pc'[r] = "refused"
  BY DEF Moved
<1> QED
  BY <1>1 DEF Own, LoginOK, CallbackOK, ExchangeOK, RefreshOK, LogoutOK, BackchannelOK,
              Presented, Redeeming, Spending

\* A request refused before it committed anything keeps the invariant.
LEMMA RefusedStep ==
  ASSUME IInv, NEW r \in Requests, r \notin Backchannels, NEW held, Moved(r, "refused", held),
         MayMove(r, "refused", held), r \in Callbacks => pc[r] # "created",
         r \in Refreshes => pc[r] \notin {"rotated", "confirmed"},
         now' = now, Fades, Shrinks(txns, txns'), Shrinks(codes, codes'), jtis' = jtis
  PROVE  IInv' /\ Ends
<1>1. Steady(r, "refused")
  BY DEF Steady
<1>2. JtisOK'
  BY JtisElsewhere
<1>3. Own(r)' /\ ~(r \in Redeeming)' /\ ~(r \in Spending)'
  BY RefusedOwn
<1>4. Once'
  BY <1>3, OnceKept DEF IInv
<1> QED
  BY <1>1, <1>2, <1>3, <1>4, QuietStep

----------------------------------------------------------------------------
(***************************************************************************)
(* Login.                                                                  *)
(***************************************************************************)
LEMMA LoginStep ==
  ASSUME IInv, NEW l \in Logins, NEW key \in Keys \cup {Undefined},
         NEW browser \in Logins \cup {Undefined}, NEW provider \in Providers \cup {Undefined},
         StartTransaction(l, key, browser, provider), now' = now
  PROVE  IInv' /\ Ends
<1>1. l \in Requests /\ pc[l] = "idle" /\ Shape
  BY Kinds DEF StartTransaction, At, IInv
<1>2. Fades
  BY OneTimeKept DEF StartTransaction
<1>3. \A label, held : MayMove(l, label, held) /\ Steady(l, label)
  BY <1>1, Kinds DEF MayMove, Steady
<1>4. l \notin Callbacks /\ l \notin Exchanges /\ l \notin Refreshes /\ l \notin Logouts
      /\ l \notin Backchannels
  BY Kinds
<1>5. CASE Goto(l, "refused") /\ UNCHANGED oneTimeVars
  <2>1. Moved(l, "refused", req[l])
    BY <1>1, <1>5, MoveFacts
  <2>2. MayMove(l, "refused", req[l])
    BY <1>3
  <2> QED
    BY <1>1, <1>2, <1>4, <1>5, <2>1, <2>2, OneTimeKept, RefusedStep
<1>6. ASSUME NEW outcome \in {"done", "failed"}, NEW held, NEW record,
             held = [key |-> key, browser |-> browser],
             record = [key |-> key, browser |-> browser, provider |-> provider,
                       expiresAt |-> now + TxnTtl],
             OneTime!CreateAuthorizationTransaction(l, record), GotoWith(l, outcome, held)
      PROVE  IInv' /\ Ends
  <2>1. Moved(l, outcome, held)
    BY <1>1, <1>6, MoveFacts
  <2>2. /\ DOMAIN txns' \subseteq DOMAIN txns \cup {l}
        /\ txns' = [k \in DOMAIN txns' |-> txns'[k]]
        /\ l \in DOMAIN txns' /\ txns'[l] = record
        /\ \A k \in DOMAIN txns' : k # l => txns'[k] = txns[k]
        /\ UNCHANGED <<codes, jtis>>
    BY <1>6, CreateAdds DEF OneTime!CreateAuthorizationTransaction
  <2>3. /\ Advances /\ StoreOK' /\ LineagesEnd
        /\ \A c \in Callbacks :
             pc[c] = "done" /\ c \in DOMAIN sessions' =>
               c \in DOMAIN sessions /\ sessions'[c] = sessions[c]
    BY <1>1, <1>2, <1>3, <2>1, QuietStore
  <2>4. CodesOK' /\ JtisOK'
    BY <1>1, <1>4, <2>1, <2>2, <2>3, OneTimeKept, CodesShrink, JtisElsewhere DEF IInv
  <2>5. pc'[l] = outcome /\ req'[l] = held
    BY <2>1 DEF Moved
  <2>6. TxnsOK'
    <3>1. record \in Txn
      <4>1. now \in 0 .. MaxTime /\ TxnTtl \in Nat /\ TxnTtl # Never
        BY VaultAssumption, ClockAssumption DEF IInv, Shape
      <4>2. now + TxnTtl \in Deadlines
        BY <4>1, LifetimeAssumption
      <4> QED
        BY <1>6, <4>2 DEF Txn
    <3>2. \A k \in DOMAIN txns' : k # l => /\ k \in DOMAIN txns /\ txns'[k] = txns[k]
                                           /\ pc'[k] = pc[k] /\ req'[k] = req[k]
      BY <2>2, <2>3 DEF IInv, TxnsOK, Advances
    <3>3. \A k \in DOMAIN txns' : txns'[k] \in Txn /\ k \in Logins
      BY <2>2, <3>1, <3>2 DEF IInv, TxnsOK
    <3>4. txns' \in [DOMAIN txns' -> Txn]
      BY <2>2, <3>3
    <3>5. \A k \in DOMAIN txns' : /\ pc'[k] \in {"done", "failed"}
                                  /\ txns'[k].key = req'[k].key
                                  /\ txns'[k].browser = req'[k].browser
      <4>1. record.key = held.key /\ record.browser = held.browser
        BY <1>6
      <4> QED
        BY <1>6, <2>2, <2>5, <3>2, <4>1 DEF IInv, TxnsOK
    <3> QED
      BY <3>3, <3>4, <3>5 DEF TxnsOK
  <2>7. Ends
    <3>1. \A k \in Logins : pc[k] = "done" /\ k \in DOMAIN txns' => k \in DOMAIN txns
      BY <1>1, <2>2
    <3>2. codes' = codes
      BY <2>2
    <3> QED
      BY <2>3, <3>1, <3>2 DEF Ends
  <2>8. Own(l)' /\ ~(l \in Redeeming)' /\ ~(l \in Spending)'
    <3>1. LoginOK(l)'
      BY <1>6, <2>5 DEF LoginOK
    <3> QED
      BY <1>4, <3>1 DEF Own, Redeeming, Spending
  <2>9. Once'
    BY <1>1, <2>1, <2>8, OnceKept DEF IInv
  <2> QED
    BY <1>1, <2>1, <2>3, <2>4, <2>6, <2>7, <2>8, <2>9, OthersWait
<1>7. CASE \E outcome \in {"done", "failed"} :
             /\ OneTime!CreateAuthorizationTransaction(l,
                  [key |-> key, browser |-> browser, provider |-> provider,
                   expiresAt |-> now + TxnTtl])
             /\ GotoWith(l, outcome, [key |-> key, browser |-> browser])
  BY <1>6, <1>7
<1> QED
  BY <1>5, <1>7 DEF StartTransaction

(***************************************************************************)
(* Callback.  A lineage that has not been started is not live.             *)
(***************************************************************************)
LEMMA UnstartedIsDead ==
  ASSUME StoreOK, NEW c, pc[c] \notin {"created", "done"}
  PROVE  ~LineageIsLive(c) /\ \A s \in DOMAIN sessions : sessions[s].logical # c
  BY DEF StoreOK, SessionOK, LineageIsLive, LiveKeys

\* A callback that has no session yet may move.
LEMMA CallbackMoves ==
  ASSUME NEW c \in Callbacks, pc[c] \in {"idle", "authorized", "consumed", "tokens"}
  PROVE  /\ c \in Requests /\ c \notin Logins /\ c \notin Exchanges /\ c \notin Refreshes
         /\ c \notin Logouts /\ c \notin Backchannels
         /\ \A label, held : MayMove(c, label, held)
         /\ \A label : label \notin {"created", "done"} => Steady(c, label)
  BY Kinds DEF MayMove, Steady

\* CallbackRead keeps the invariant and revives nothing.
LEMMA CallbackReadStep ==
  ASSUME IInv, NEW c \in Callbacks, CallbackRead(c), now' = now
  PROVE  IInv' /\ Ends
<1>1. PICK l \in Logins, cookie \in Logins \cup {Undefined} :
        /\ pc[l] = "done"
        /\ OneTime!GetAuthorizationTransaction(l)
        /\ Proceed(c,
             /\ OneTime!Found(txns, l)
             /\ assertIdentity(c, txns[l].provider)
             /\ assertDeviceBindingPolicy(c, txns[l].key)
             /\ authenticateTransactionCookie(txns[l].browser, cookie),
             "authorized",
             [login |-> l, txn |-> OneTime!FoundValue(txns, l),
              cookie |-> IF OneTime!Found(txns, l)
                         THEN CookieSecret(txns[l].browser, cookie) ELSE Undefined])
  BY DEF CallbackRead, At
<1>2. /\ pc[c] = "idle" /\ Shape /\ Fades
      /\ Shrinks(txns, txns') /\ Shrinks(codes, codes') /\ jtis' = jtis
  BY <1>1, AfterReadShrinks, OneTimeKept
     DEF CallbackRead, At, IInv, OneTime!GetAuthorizationTransaction
<1>3. /\ c \in Requests /\ c \notin Logins /\ c \notin Exchanges /\ c \notin Refreshes
      /\ c \notin Logouts /\ c \notin Backchannels
      /\ \A label, held : MayMove(c, label, held)
      /\ \A label : label \notin {"created", "done"} => Steady(c, label)
  BY <1>2, CallbackMoves
<1>4. CASE Moved(c, "refused", req[c])
  BY <1>2, <1>3, <1>4, RefusedStep
<1>5. ASSUME NEW held, Moved(c, "authorized", held), OneTime!Found(txns, l),
             authenticateTransactionCookie(txns[l].browser, cookie),
             held = [login |-> l, txn |-> OneTime!FoundValue(txns, l),
                     cookie |-> IF OneTime!Found(txns, l)
                                THEN CookieSecret(txns[l].browser, cookie) ELSE Undefined]
      PROVE  IInv' /\ Ends
  <2>1. l \in DOMAIN txns /\ OneTime!FoundValue(txns, l) = txns[l]
    BY <1>5, FoundFacts
  <2>2. txns[l] \in Txn /\ txns[l].key = req[l].key /\ txns[l].browser = req[l].browser
    BY <2>1 DEF IInv, TxnsOK
  <2>3. held.login = l /\ held.txn = txns[l] /\ held.cookie = req[l].browser
    BY <1>5, <2>1, <2>2 DEF CookieSecret, authenticateTransactionCookie
  <2>4. pc'[c] = "authorized" /\ req'[c] = held /\ pc'[l] = "done" /\ req'[l] = req[l]
    BY <1>1, <1>3, <1>5, Kinds DEF Moved
  <2>5. Authorized(c)'
    BY <2>2, <2>3, <2>4 DEF Authorized, LoginKey, LoginBrowser, LoginOf, Txn
  <2>6. Own(c)' /\ ~(c \in Redeeming)' /\ ~(c \in Spending)'
    BY <1>3, <2>4, <2>5 DEF Own, CallbackOK, Redeeming, Spending
  <2>7. Once' /\ JtisOK'
    BY <1>2, <1>3, <1>5, <2>6, OnceKept, JtisElsewhere DEF IInv
  <2> QED
    BY <1>2, <1>3, <1>5, <2>6, <2>7, QuietStep
<1> QED
  BY <1>1, <1>2, <1>3, <1>4, <1>5, ProceedFacts

\* CallbackConsume keeps the invariant and revives nothing.
LEMMA CallbackConsumeStep ==
  ASSUME IInv, NEW c \in Callbacks, CallbackConsume(c), now' = now
  PROVE  IInv' /\ Ends
<1> DEFINE l == req[c].login
           match == [key |-> req[c].txn.key, browser |-> req[c].txn.browser]
           granted == OneTime!CanConsumeTransaction(l, match)
<1>1. /\ pc[c] = "authorized" /\ Shape /\ Fades
      /\ OneTime!ConsumeIn(txns, txns', l, granted)
      /\ UNCHANGED <<codes, jtis>>
      /\ Proceed(c, granted /\ SameTransaction(l, req[c].txn), "consumed", req[c])
  BY OneTimeKept
     DEF CallbackConsume, At, IInv, OneTime!ConsumeAuthorizationTransactionIfMatches
<1>2. /\ Shrinks(txns, txns') /\ Shrinks(codes, codes') /\ jtis' = jtis
      /\ granted => l \notin DOMAIN txns' /\ l \in DOMAIN txns
  <2>1. granted => l \in DOMAIN txns
    BY FoundFacts DEF OneTime!CanConsumeTransaction
  <2> HIDE DEF granted
  <2> QED
    BY <1>1, <2>1, ConsumeShrinks, OneTimeKept
<1>3. /\ c \in Requests /\ c \notin Logins /\ c \notin Exchanges /\ c \notin Refreshes
      /\ c \notin Logouts /\ c \notin Backchannels
      /\ \A label, held : MayMove(c, label, held)
      /\ \A label : label \notin {"created", "done"} => Steady(c, label)
  BY <1>1, CallbackMoves
<1>4. CASE Moved(c, "refused", req[c])
  BY <1>1, <1>2, <1>3, <1>4, RefusedStep
<1>5. CASE granted /\ Moved(c, "consumed", req[c])
  <2>1. Authorized(c) /\ RequestsOK
    BY <1>1 DEF IInv, RequestsOK, CallbackOK
  <2>2. pc'[c] = "consumed" /\ req'[c] = req[c] /\ pc'[l] = "done" /\ req'[l] = req[l]
    BY <1>3, <1>5, <2>1, Kinds DEF Moved, Authorized
  <2>3. Authorized(c)'
    BY <2>1, <2>2 DEF Authorized, LoginKey, LoginBrowser, LoginOf
  <2>4. Own(c)' /\ ~(c \in Spending)'
    BY <1>2, <1>3, <1>5, <2>2, <2>3 DEF Own, CallbackOK, Spending
  <2>5. \A d \in Redeeming : req[d].login # l
    BY <1>2, <1>5, <2>1 DEF RequestsOK, CallbackOK, Redeeming
  <2>6. Once' /\ JtisOK'
    BY <1>1, <1>2, <1>3, <1>5, <2>4, <2>5, OnceKept, JtisElsewhere DEF IInv
  <2> QED
    BY <1>1, <1>2, <1>3, <1>5, <2>4, <2>6, QuietStep
<1> QED
  BY <1>1, <1>3, <1>4, <1>5, ProceedFacts

(***************************************************************************)
(* A callback on its way keeps what it was authorized for.                 *)
(***************************************************************************)
LEMMA AuthorizedLasts ==
  ASSUME NEW c \in Callbacks, Authorized(c), NEW label, NEW held, Moved(c, label, held),
         held.login = req[c].login, held.txn = req[c].txn, held.cookie = req[c].cookie
  PROVE  Authorized(c)' /\ LoginKey(c)' = LoginKey(c)
<1>1. req'[c] = held
  BY DEF Moved
<1>2. /\ pc'[req[c].login] = pc[req[c].login] /\ req'[req[c].login] = req[req[c].login]
  BY Kinds DEF Moved, Authorized
<1> QED
  BY <1>1, <1>2 DEF Authorized, LoginKey, LoginBrowser, LoginOf, Txn

\* The callback fails before it has created a session.
LEMMA CallbackFails ==
  ASSUME IInv, NEW c \in Callbacks, pc[c] \in {"consumed", "tokens"}, Goto(c, "failed"),
         UNCHANGED <<sessionVars, oneTimeVars>>, now' = now
  PROVE  IInv' /\ Ends
<1>1. /\ c \in Requests /\ c \notin Logins /\ c \notin Exchanges /\ c \notin Refreshes
      /\ c \notin Logouts /\ c \notin Backchannels
      /\ \A label, held : MayMove(c, label, held)
      /\ \A label : label \notin {"created", "done"} => Steady(c, label)
  BY CallbackMoves
<1>2. Moved(c, "failed", req[c])
  BY <1>1, MoveFacts DEF IInv
<1>3. /\ Fades /\ Shrinks(txns, txns') /\ Shrinks(codes, codes') /\ jtis' = jtis
      /\ txns' = txns /\ sessions' = sessions
  BY OneTimeKept DEF sessionVars, oneTimeVars
<1>4. Authorized(c) /\ req[c].login \notin DOMAIN txns /\ c \in Redeeming
  BY DEF IInv, RequestsOK, CallbackOK, Redeeming
<1>5. pc'[c] = "failed" /\ req'[c] = req[c]
  BY <1>2 DEF Moved
<1>6. ~LineageIsLive(c)'
  <2>1. ~LineageIsLive(c)
    BY UnstartedIsDead DEF IInv
  <2> QED
    BY <1>3, <2>1, LiveNames
<1>7. Authorized(c)'
  BY <1>2, <1>4, AuthorizedLasts
<1>8. Own(c)' /\ ~(c \in Spending)'
  BY <1>1, <1>3, <1>4, <1>5, <1>6, <1>7 DEF Own, CallbackOK, Spending
<1>9. Once' /\ JtisOK'
  BY <1>1, <1>2, <1>3, <1>4, <1>8, OnceKept, JtisElsewhere DEF IInv
<1> QED
  BY <1>1, <1>2, <1>3, <1>8, <1>9, QuietStep

\* The session a callback makes has the key, browser and deadline of its login.
LEMMA NewSessionFacts ==
  ASSUME Shape, NEW c \in Callbacks, Authorized(c), NEW subject \in Subjects,
         NEW sid \in Sids \cup {Undefined}
  PROVE  /\ NewSession(c, subject, sid) \in Sessions!Session
         /\ NewSession(c, subject, sid).logical = c
         /\ NewSession(c, subject, sid).key = req[c].txn.key
         /\ SessionTtl # Never => NewSession(c, subject, sid).expiresAt = now + SessionTtl
         /\ now + CodeTtl \in Deadlines \cap Nat
<1>1. now \in 0 .. MaxTime /\ now \in Nat /\ CodeTtl \in Nat
  BY ClockAssumption, VaultAssumption DEF Shape
<1>2. now + CodeTtl \in Deadlines
  BY <1>1, ClockAssumption, LifetimeAssumption
<1>3. ExpiresIn(SessionTtl) \in Deadlines
  BY <1>1, LifetimeAssumption DEF ExpiresIn
<1>4. c \in SessionIds /\ Config[c].provider \in Providers
  BY Kinds, VaultAssumption DEF SessionIds
<1>5. req[c].txn.key \in Keys \cup {Undefined}
  BY DEF Authorized, Txn
<1> QED
  BY <1>1, <1>2, <1>3, <1>4, <1>5 DEF NewSession, Sessions!Session, ExpiresIn

\* CallbackTokens keeps the invariant and revives nothing.
LEMMA CallbackTokensStep ==
  ASSUME IInv, NEW c \in Callbacks, CallbackTokens(c), now' = now
  PROVE  IInv' /\ Ends
<1>1. pc[c] = "consumed" /\ UNCHANGED <<sessionVars, oneTimeVars>>
  BY DEF CallbackTokens, At
<1>2. /\ c \in Requests /\ c \notin Logins /\ c \notin Exchanges /\ c \notin Refreshes
      /\ c \notin Logouts /\ c \notin Backchannels
      /\ \A label, held : MayMove(c, label, held)
      /\ \A label : label \notin {"created", "done"} => Steady(c, label)
  BY <1>1, CallbackMoves
<1>3. CASE Goto(c, "failed")
  BY <1>1, <1>3, CallbackFails
<1>4. ASSUME NEW subject \in Subjects, NEW sid \in Sids \cup {Undefined}, NEW held,
             held = [login |-> req[c].login, txn |-> req[c].txn, cookie |-> req[c].cookie,
                     session |-> NewSession(c, subject, sid), codeExpiresAt |-> now + CodeTtl],
             GotoWith(c, "tokens", held)
      PROVE  IInv' /\ Ends
  <2>1. Moved(c, "tokens", held)
    BY <1>2, <1>4, MoveFacts DEF IInv
  <2>2. /\ Fades /\ Shrinks(txns, txns') /\ Shrinks(codes, codes') /\ jtis' = jtis
        /\ txns' = txns
    BY <1>1, OneTimeKept DEF oneTimeVars
  <2>3. Authorized(c) /\ req[c].login \notin DOMAIN txns /\ c \in Redeeming
    BY <1>1 DEF IInv, RequestsOK, CallbackOK, Redeeming
  <2>4. pc'[c] = "tokens" /\ req'[c] = held
    BY <2>1 DEF Moved
  <2>5. Authorized(c)' /\ LoginKey(c)' = LoginKey(c)
    BY <1>4, <2>1, <2>3, AuthorizedLasts
  <2> DEFINE session == NewSession(c, subject, sid)
  <2>6. /\ session \in Sessions!Session /\ session.logical = c /\ session.key = LoginKey(c)
        /\ SessionTtl # Never => session.expiresAt = now + SessionTtl
        /\ now + CodeTtl \in Deadlines \cap Nat
    BY <2>3, NewSessionFacts DEF Authorized, IInv
  <2> HIDE DEF session
  <2>7. req[c].login \in Logins /\ req[c].txn \in Txn /\ req[c].cookie \in Logins \cup {Undefined}
    BY <2>3 DEF Authorized, Txn
  <2>8. held.session = session /\ held.codeExpiresAt = now + CodeTtl /\ held.login = req[c].login
    BY <1>4 DEF session
  <2>9. held \in Grant
    BY <1>4, <2>6, <2>7 DEF Grant, session
  <2>10. SessionTtl # Never => /\ session.expiresAt \in Nat
                               /\ session.expiresAt + CodeTtl <= held.codeExpiresAt + SessionTtl
    <3>1. now \in Nat /\ CodeTtl \in Nat /\ (SessionTtl # Never => SessionTtl \in Nat)
      BY ClockAssumption, VaultAssumption DEF IInv, Shape
    <3> QED
      BY <2>6, <2>8, <3>1
  <2>11. Granted(c)'
    BY <2>4, <2>5, <2>6, <2>8, <2>9, <2>10 DEF Granted, Deadline, Grant, Txn
  <2>12. Own(c)' /\ ~(c \in Spending)'
    BY <1>2, <2>2, <2>3, <2>4, <2>5, <2>8, <2>11 DEF Own, CallbackOK, Spending
  <2>13. Once' /\ JtisOK'
    BY <1>2, <2>1, <2>2, <2>3, <2>8, <2>12, OnceKept, JtisElsewhere DEF IInv
  <2> QED
    BY <1>2, <2>1, <2>2, <2>12, <2>13, QuietStep
<1> QED
  BY <1>3, <1>4 DEF CallbackTokens

(***************************************************************************)
(* The hook's deadline is a deadline, and not past the cap.                *)
(***************************************************************************)
LEMMA CappedFacts ==
  ASSUME NEW proposed \in Deadlines, NEW cap \in Deadlines
  PROVE  /\ Capped(proposed, cap) \in Deadlines
         /\ cap \in Nat => Capped(proposed, cap) \in Nat /\ Capped(proposed, cap) <= cap
  BY ClockAssumption DEF Capped

\* CallbackCreateSession keeps the invariant and revives nothing.
LEMMA CallbackCreateSessionStep ==
  ASSUME IInv, NEW c \in Callbacks, CallbackCreateSession(c), now' = now
  PROVE  IInv' /\ Ends
<1>1. pc[c] = "tokens" /\ UNCHANGED oneTimeVars /\ RequestsOK /\ StoreOK
  BY DEF CallbackCreateSession, At, IInv
<1>2. /\ c \in Requests /\ c \notin Logins /\ c \notin Exchanges /\ c \notin Refreshes
      /\ c \notin Logouts /\ c \notin Backchannels
      /\ \A label, held : MayMove(c, label, held)
  BY <1>1, CallbackMoves
<1>3. CASE Goto(c, "failed") /\ UNCHANGED sessionVars
  BY <1>1, <1>3, CallbackFails
<1>4. ASSUME NEW proposed \in HookDeadlines \cup {req[c].session.expiresAt}, NEW session, NEW held,
             session = [req[c].session EXCEPT !.expiresAt = Capped(proposed, @)],
             held = [req[c] EXCEPT !.session = session],
             Sessions!CreateSession(c, session), GotoWith(c, "created", held)
      PROVE  IInv' /\ Ends
  <2>1. Moved(c, "created", held) /\ Advances
    BY <1>2, <1>4, MoveFacts, MovesAdvance DEF IInv
  <2>2. /\ Authorized(c) /\ Granted(c) /\ req[c].login \notin DOMAIN txns /\ c \in Redeeming
    BY <1>1 DEF RequestsOK, CallbackOK, Redeeming
  <2>3. pc'[c] = "created" /\ req'[c] = held
    BY <2>1 DEF Moved
  <2>4. req[c] \in Grant /\ req[c].session \in Sessions!Session /\ req[c].session.logical = c
        /\ req[c].session.key = LoginKey(c) /\ req[c].session.expiresAt \in Deadlines
    BY <2>2 DEF Granted, Grant, Sessions!Session
  <2>5. /\ held \in Grant /\ held.session = session /\ held.login = req[c].login
        /\ held.txn = req[c].txn /\ held.cookie = req[c].cookie
        /\ held.codeExpiresAt = req[c].codeExpiresAt
        /\ session \in Sessions!Session /\ session.logical = c /\ session.key = LoginKey(c)
        /\ session.expiresAt = Capped(proposed, req[c].session.expiresAt)
    <3>1. proposed \in Deadlines
      BY <2>4, VaultAssumption
    <3>2. Capped(proposed, req[c].session.expiresAt) \in Deadlines
      BY <2>4, <3>1, CappedFacts
    <3>3. /\ session \in Sessions!Session /\ session.logical = c /\ session.key = LoginKey(c)
          /\ session.expiresAt = Capped(proposed, req[c].session.expiresAt)
      BY <1>4, <2>4, <3>2 DEF Sessions!Session
    <3> QED
      BY <1>4, <2>4, <3>3 DEF Grant
  <2>6. Authorized(c)' /\ LoginKey(c)' = LoginKey(c)
    BY <2>1, <2>2, <2>5, AuthorizedLasts
  <2>7. Granted(c)'
    <3>1. SessionTtl # Never =>
            /\ session.expiresAt \in Nat
            /\ session.expiresAt + CodeTtl <= held.codeExpiresAt + SessionTtl
      <4>1. proposed \in Deadlines
        BY <2>4, VaultAssumption
      <4>2. CodeTtl \in Nat /\ (SessionTtl # Never => SessionTtl \in Nat)
            /\ held.codeExpiresAt \in Nat
        BY <2>5, VaultAssumption DEF Grant
      <4>3. SessionTtl # Never =>
              /\ req[c].session.expiresAt \in Nat
              /\ req[c].session.expiresAt + CodeTtl <= held.codeExpiresAt + SessionTtl
        BY <2>2, <2>5 DEF Granted, Deadline
      <4>4. SessionTtl # Never =>
              session.expiresAt \in Nat /\ session.expiresAt <= req[c].session.expiresAt
        BY <2>4, <2>5, <4>1, <4>3, CappedFacts
      <4> QED
        BY <4>2, <4>3, <4>4
    <3> QED
      BY <2>3, <2>5, <2>6, <3>1 DEF Granted, Deadline, Grant, Txn
  <2>8. Own(c)' /\ ~(c \in Spending)'
    BY <1>1, <1>2, <2>2, <2>3, <2>5, <2>6, <2>7 DEF Own, CallbackOK, Spending, oneTimeVars
  <2>9. /\ DOMAIN sessions' \subseteq DOMAIN sessions \cup {c}
        /\ sessions' \in [DOMAIN sessions' -> Sessions!Session]
        /\ c \in DOMAIN sessions' /\ sessions'[c] = session
        /\ \A s \in DOMAIN sessions' : s # c => sessions'[s] = sessions[s]
        /\ Shrinks(aliases, aliases')
        /\ \A a \in DOMAIN aliases :
             \/ a \in DOMAIN aliases' \/ a = c \/ isExpiredRecord(aliases[a])
             \/ ~HasLive(sessions, aliases[a].logical)
             \/ ~HasLive(sessions', aliases[a].logical)
    BY <1>1, <1>4, <2>5, CreateSessionAdds DEF StoreOK
  <2>10. \A s \in DOMAIN sessions : sessions[s].logical # c
    BY <1>1, UnstartedIsDead
  <2>11. ASSUME NEW d, d # c, LineageIsLive(d)'
         PROVE  \E s \in LiveKeys(sessions) : s \in DOMAIN sessions' /\ sessions[s].logical = d
    <3>1. PICK s \in DOMAIN sessions' : sessions'[s].logical = d /\ ~isExpiredRecord(sessions'[s])
      BY <2>11 DEF LineageIsLive, LiveKeys, ExpiredKeys, isExpiredRecord
    <3>2. s # c /\ s \in DOMAIN sessions /\ sessions'[s] = sessions[s]
      BY <2>5, <2>9, <2>11, <3>1
    <3> QED
      BY <3>1, <3>2 DEF LiveKeys, ExpiredKeys
  <2>12. StoreOK'
    <3>1. SessionOK(c)'
      <4>1. HandleLineage(c) = c /\ Born(c)'
        BY <2>3 DEF HandleLineage, Born
      <4>2. sessions'[c].logical = c /\ HandleLineage(c)' = c
        BY <2>5, <2>9 DEF HandleLineage
      <4>3. sessions'[c].key = LoginKey(c)' /\ sessions'[c].expiresAt = Deadline(c)'
        BY <2>3, <2>5, <2>6, <2>9 DEF Deadline
      <4>4. /\ LoginKey(sessions[c].logical)' = LoginKey(c)'
            /\ Deadline(sessions[c].logical)' = Deadline(c)'
        BY <4>2 DEF LoginKey, LoginOf, Deadline
      <4> QED
        BY <2>3, <4>1, <4>2, <4>3, <4>4 DEF SessionOK
    <3>2. ASSUME NEW s \in DOMAIN sessions', s # c
          PROVE  SessionOK(s)'
      <4>1. /\ s \in DOMAIN sessions /\ sessions'[s] = sessions[s] /\ SessionOK(s)
            /\ sessions[s].logical # c
        BY <1>1, <2>9, <2>10, <3>2 DEF StoreOK
      <4>2. /\ Born(s) /\ sessions[s].logical \in Callbacks
            /\ pc[sessions[s].logical] \in {"created", "done"}
        BY <4>1 DEF SessionOK
      <4>3. Born(s)' /\ pc'[sessions[s].logical] \in {"created", "done"}
        BY <2>1, <3>2, <4>1, <4>2, Kinds DEF Moved, Born
      <4> QED
        BY <1>1, <2>1, <4>1, <4>3, SessionLasts
    <3>3. ASSUME NEW a \in DOMAIN aliases'
          PROVE  AliasOK(a)'
      BY <1>1, <2>1, <2>9, AliasLasts DEF StoreOK, Shrinks
    <3>4. ASSUME NEW h \in SessionIds
          PROVE  HandleOK(h)'
      <4> SUFFICES ASSUME Born(h)', LineageIsLive(HandleLineage(h))', h # c
                   PROVE  h \in DOMAIN sessions' \cup DOMAIN aliases'
        BY <2>9 DEF HandleOK
      <4>1. PICK d : d = HandleLineage(h)
        OBVIOUS
      <4>2. Born(h)
        BY <2>1, Kinds DEF Born, Moved
      <4>3. d \in Callbacks /\ d # c /\ HandleLineage(h)' = d
        BY <1>1, <2>1, <4>1, <4>2, BornFacts, HandleLasts
      <4>4. LineageIsLive(d)'
        BY <4>3 DEF LineageIsLive
      <4>5. PICK s \in LiveKeys(sessions) : s \in DOMAIN sessions' /\ sessions[s].logical = d
        BY <2>11, <4>3, <4>4
      <4>6. LineageIsLive(d) /\ s \in DOMAIN sessions
        BY <4>5 DEF LineageIsLive, LiveKeys
      <4>7. h \in DOMAIN sessions \cup DOMAIN aliases
        BY <1>1, <4>1, <4>2, <4>6 DEF StoreOK, HandleOK
      <4>8. CASE h \in DOMAIN sessions
        <5>1. sessions[h].logical = d
          BY <1>1, <4>1, <4>8 DEF StoreOK, SessionOK
        <5>2. s = h
          BY <1>1, <4>5, <4>6, <4>8, <5>1 DEF StoreOK, OneSessionPerLineage
        <5> QED
          BY <4>5, <5>2
      <4>9. CASE h \in DOMAIN aliases
        <5>1. aliases[h].logical = d /\ aliases[h].expiresAt = Deadline(d)
          BY <1>1, <4>1, <4>9 DEF StoreOK, AliasOK
        <5>2. sessions[s].expiresAt = Deadline(d) /\ ~isExpiredRecord(sessions[s])
          BY <1>1, <4>5, <4>6 DEF StoreOK, SessionOK, LiveKeys, ExpiredKeys
        <5>3. ~isExpiredRecord(aliases[h])
          BY <5>1, <5>2 DEF isExpiredRecord
        <5>4. HasLive(sessions, d) /\ HasLive(sessions', d)
          BY <4>4, <4>6, LiveNames
        <5> QED
          BY <2>9, <4>9, <5>1, <5>3, <5>4
      <4> QED
        BY <4>7, <4>8, <4>9
    <3>5. OneSessionPerLineage'
      <4> SUFFICES ASSUME NEW s \in DOMAIN sessions', NEW t \in DOMAIN sessions',
                          sessions'[s].logical = sessions'[t].logical
                   PROVE  s = t
        BY DEF OneSessionPerLineage
      <4> QED
        BY <1>1, <2>5, <2>9, <2>10 DEF StoreOK, OneSessionPerLineage
    <3>6. DOMAIN sessions' \subseteq SessionIds /\ DOMAIN aliases' \subseteq SessionIds
      BY <1>1, <2>9 DEF StoreOK, Shrinks, SessionIds
    <3>7. aliases' \in [DOMAIN aliases' -> Sessions!Alias]
      <4>1. \A a \in DOMAIN aliases' : aliases'[a] \in Sessions!Alias
        BY <1>1, <2>9 DEF StoreOK, Shrinks
      <4>2. aliases' = [a \in DOMAIN aliases' |-> aliases'[a]]
        BY <2>9 DEF Shrinks
      <4> QED
        BY <4>1, <4>2
    <3> QED
      BY <2>9, <3>1, <3>2, <3>3, <3>4, <3>5, <3>6, <3>7 DEF StoreOK
  <2>13. Ends
    <3>1. LineagesEnd
      <4> SUFFICES ASSUME NEW d \in Callbacks, Started(d), LineageIsLive(d)'
                   PROVE  LineageIsLive(d)
        BY DEF LineagesEnd
      <4> QED
        BY <1>1, <2>11 DEF Started, LineageIsLive
    <3> QED
      BY <1>1, <2>9, <3>1 DEF Ends, oneTimeVars
  <2>14. Once' /\ JtisOK' /\ TxnsOK' /\ CodesOK'
    BY <1>1, <1>2, <2>1, <2>2, <2>5, <2>8, OneTimeKept, TxnsShrink, CodesShrink, OnceKept,
       JtisElsewhere DEF IInv
  <2> QED
    BY <1>2, <2>1, <2>8, <2>12, <2>13, <2>14, OthersWait
<1> QED
  BY <1>1, <1>3, <1>4 DEF CallbackCreateSession

(***************************************************************************)
(* A request that deletes a lineage: the one whose session this step ends, *)
(* if it has one, is of that lineage.                                      *)
(***************************************************************************)
LEMMA RollbackStore ==
  ASSUME IInv, NEW r \in Requests, NEW label, Moved(r, label, req[r]),
         MayMove(r, label, req[r]), NEW c, DeleteLineage(c), now' = now,
         r \in Callbacks => r = c /\ label = "failed",
         r \in Refreshes => label = "failed" /\ c = req[r].session.logical
  PROVE  /\ Advances /\ StoreOK' /\ Ends /\ TxnsOK' /\ CodesOK' /\ ~LineageIsLive(c)'
         /\ UNCHANGED <<txns, codes, jtis>>
<1>1. /\ Fades /\ UNCHANGED oneTimeVars
      /\ \A s \in DOMAIN sessions' : sessions'[s].logical # c
  BY DeleteLineageFades
<1>2. Advances /\ Wanes
  BY <1>1, MovesAdvance, FadesWanes DEF IInv
<1>3. \A h : Born(h)' => Born(h)
  <2> SUFFICES ASSUME NEW h, Born(h)' PROVE Born(h)
    OBVIOUS
  <2>1. h \in Requests /\ (h \in Callbacks \/ h \in Refreshes)
    BY Kinds DEF Born
  <2>2. h # r
    BY <2>1, Kinds DEF Born, Moved
  <2> QED
    BY <2>1, <2>2 DEF Born, Moved
<1>4. ASSUME NEW s \in DOMAIN sessions'
      PROVE  Born(s)' /\ pc'[sessions'[s].logical] \in {"created", "done"}
  <2>1. s \in DOMAIN sessions /\ sessions'[s] = sessions[s] /\ sessions[s].logical # c
    BY <1>1, <1>2 DEF Wanes, Shrinks
  <2>2. /\ Born(s) /\ sessions[s].logical \in Callbacks
        /\ pc[sessions[s].logical] \in {"created", "done"}
        /\ sessions[s].logical = HandleLineage(s)
    BY <2>1 DEF IInv, StoreOK, SessionOK
  <2>3. s # r
    <3>1. r \in Callbacks => HandleLineage(r) = c
      BY DEF HandleLineage
    <3>2. r \in Refreshes => HandleLineage(r) = c
      BY Kinds DEF HandleLineage
    <3>3. s \in Callbacks \/ s \in Refreshes
      BY <2>2 DEF Born
    <3> QED
      BY <2>1, <2>2, <3>1, <3>2, <3>3
  <2>4. sessions[s].logical # r
    BY <2>1, <2>2
  <2>5. s \in Requests /\ sessions[s].logical \in Requests
    BY <2>2, Kinds DEF Born
  <2> QED
    BY <2>1, <2>2, <2>3, <2>4, <2>5 DEF Moved, Born
<1>5. StoreOK'
  BY <1>2, <1>3, <1>4, StoreWanes DEF IInv
<1>6. /\ LineagesEnd
      /\ \A d \in Callbacks :
           pc[d] = "done" /\ d \in DOMAIN sessions' =>
             d \in DOMAIN sessions /\ sessions'[d] = sessions[d]
  BY <1>2, WanesEnds DEF IInv
<1>7. UNCHANGED <<txns, codes, jtis>>
  BY <1>1 DEF oneTimeVars
<1>8. Ends
  BY <1>6, <1>7 DEF Ends
<1>9. TxnsOK' /\ CodesOK'
  BY <1>2, <1>7, OneTimeKept, TxnsShrink, CodesShrink DEF IInv
<1>10. ~LineageIsLive(c)'
  BY <1>1 DEF LineageIsLive, LiveKeys
<1> QED
  BY <1>2, <1>5, <1>7, <1>8, <1>9, <1>10

\* CallbackCreateCode keeps the invariant and revives nothing.
LEMMA CallbackCreateCodeStep ==
  ASSUME IInv, NEW c \in Callbacks, CallbackCreateCode(c), now' = now
  PROVE  IInv' /\ Ends
<1>1. /\ c \in Requests /\ c \notin Logins /\ c \notin Exchanges /\ c \notin Refreshes
      /\ c \notin Logouts /\ c \notin Backchannels
      /\ pc[c] = "created" /\ Shape /\ RequestsOK
  BY Kinds DEF CallbackCreateCode, At, IInv
<1>2. /\ Authorized(c) /\ Granted(c) /\ c \in Redeeming /\ req[c].login \notin DOMAIN txns
  BY <1>1 DEF RequestsOK, CallbackOK, Redeeming
<1>3. \A label \in {"done", "failed"} :
        /\ MayMove(c, label, req[c])
        /\ Goto(c, label) => Moved(c, label, req[c])
  BY <1>1, MoveFacts DEF MayMove
<1>4. CASE Goto(c, "failed") /\ DeleteLineage(c)
  <2>1. Moved(c, "failed", req[c]) /\ MayMove(c, "failed", req[c])
    BY <1>3, <1>4
  <2>2. /\ Advances /\ StoreOK' /\ Ends /\ TxnsOK' /\ CodesOK' /\ ~LineageIsLive(c)'
        /\ UNCHANGED <<txns, codes, jtis>>
    BY <1>1, <1>4, <2>1, RollbackStore
  <2>3. pc'[c] = "failed" /\ req'[c] = req[c] /\ Authorized(c)'
    BY <1>2, <2>1, AuthorizedLasts DEF Moved
  <2>4. Own(c)' /\ ~(c \in Spending)'
    BY <1>1, <1>2, <2>2, <2>3 DEF Own, CallbackOK, Spending
  <2>5. Once' /\ JtisOK'
    BY <1>1, <1>2, <2>1, <2>2, <2>4, OnceKept, JtisElsewhere DEF IInv
  <2> QED
    BY <1>1, <2>1, <2>2, <2>4, <2>5, OthersWait
<1>5. ASSUME NEW record,
             record = [session |-> c, key |-> req[c].txn.key, browser |-> req[c].txn.browser,
                       expiresAt |-> req[c].codeExpiresAt],
             OneTime!CreateExchangeCode(c, record), Goto(c, "done"), UNCHANGED sessionVars
      PROVE  IInv' /\ Ends
  <2>1. Moved(c, "done", req[c]) /\ MayMove(c, "done", req[c]) /\ Steady(c, "done")
    BY <1>1, <1>3, <1>5 DEF Steady
  <2>2. /\ DOMAIN codes' \subseteq DOMAIN codes \cup {c}
        /\ codes' = [k \in DOMAIN codes' |-> codes'[k]]
        /\ c \in DOMAIN codes' /\ codes'[c] = record
        /\ \A k \in DOMAIN codes' : k # c => codes'[k] = codes[k]
        /\ UNCHANGED <<txns, jtis>>
    BY <1>5, CreateAdds DEF OneTime!CreateExchangeCode
  <2>3. /\ Advances /\ StoreOK' /\ LineagesEnd
        /\ \A d \in Callbacks :
             pc[d] = "done" /\ d \in DOMAIN sessions' =>
               d \in DOMAIN sessions /\ sessions'[d] = sessions[d]
    BY <1>1, <1>5, <2>1, OneTimeKept, QuietStore
  <2>4. TxnsOK' /\ JtisOK'
    BY <1>1, <2>1, <2>2, <2>3, OneTimeKept, TxnsShrink, JtisElsewhere DEF IInv
  <2>5. pc'[c] = "done" /\ req'[c] = req[c] /\ Authorized(c)' /\ LoginKey(c)' = LoginKey(c)
        /\ LoginBrowser(c)' = LoginBrowser(c)
    BY <1>1, <1>2, <2>1, <2>3, AuthorizedLasts, LineageLasts DEF Moved
  <2>6. /\ record \in Code /\ record.session = c /\ record.key = LoginKey(c)
        /\ record.browser = LoginBrowser(c)
    <3>1. /\ req[c].txn \in Txn /\ req[c].txn.key = LoginKey(c)
          /\ req[c].txn.browser = LoginBrowser(c) /\ req[c].codeExpiresAt \in Deadlines
      BY <1>2 DEF Authorized, Granted, Grant
    <3> QED
      BY <1>5, <3>1 DEF Code, Txn
  <2>7. ASSUME NEW k \in DOMAIN codes'
        PROVE  /\ k \in Callbacks /\ codes'[k] \in Code /\ pc'[k] = "done" /\ codes'[k].session = k
               /\ codes'[k].key = LoginKey(k)' /\ codes'[k].browser = LoginBrowser(k)'
    <3>1. CASE k = c
      BY <2>2, <2>5, <2>6, <3>1
    <3>2. CASE k # c
      <4>1. k \in DOMAIN codes /\ codes'[k] = codes[k]
        BY <2>2, <3>2
      <4>2. /\ k \in Callbacks /\ pc[k] = "done" /\ codes[k] \in Code /\ codes[k].session = k
            /\ codes[k].key = LoginKey(k) /\ codes[k].browser = LoginBrowser(k)
        BY <4>1 DEF IInv, CodesOK
      <4>3. LoginKey(k)' = LoginKey(k) /\ LoginBrowser(k)' = LoginBrowser(k)
        BY <1>1, <2>3, <4>2, LineageLasts
      <4>4. pc'[k] = "done"
        BY <2>3, <4>2 DEF Advances
      <4> QED
        BY <4>1, <4>2, <4>3, <4>4
    <3> QED
      BY <3>1, <3>2
  <2>8. CodesOK'
    <3>1. codes' \in [DOMAIN codes' -> Code]
      BY <2>2, <2>7
    <3> QED
      BY <2>7, <3>1 DEF CodesOK
  <2>9. Ends
    <3>1. txns' = txns
      BY <2>2
    <3>2. \A k \in Callbacks : pc[k] = "done" /\ k \in DOMAIN codes' => k \in DOMAIN codes
      BY <1>1, <2>2
    <3> QED
      BY <2>3, <3>1, <3>2 DEF Ends
  <2>10. Granted(c)'
    BY <1>2, <2>5 DEF Granted, Deadline
  <2>11. Own(c)' /\ ~(c \in Spending)'
    BY <1>1, <1>2, <2>2, <2>5, <2>10 DEF Own, CallbackOK, Spending
  <2>12. Once'
    BY <1>1, <1>2, <2>1, <2>11, OnceKept DEF IInv
  <2> QED
    BY <1>1, <2>1, <2>3, <2>4, <2>8, <2>9, <2>11, <2>12, OthersWait
<1>6. CASE /\ OneTime!CreateExchangeCode(c,
                [session |-> c, key |-> req[c].txn.key, browser |-> req[c].txn.browser,
                 expiresAt |-> req[c].codeExpiresAt])
           /\ Goto(c, "done") /\ UNCHANGED sessionVars
  BY <1>5, <1>6
<1> QED
  BY <1>4, <1>6 DEF CallbackCreateCode

----------------------------------------------------------------------------
(***************************************************************************)
(* Exchange.                                                               *)
(***************************************************************************)
LEMMA ExchangeMoves ==
  ASSUME NEW e \in Exchanges, pc[e] \notin {"ok", "failed"}
  PROVE  /\ e \in Requests /\ e \notin Logins /\ e \notin Callbacks /\ e \notin Refreshes
         /\ e \notin Logouts /\ e \notin Backchannels
         /\ \A label, held : MayMove(e, label, held)
         /\ \A label : Steady(e, label)
  BY Kinds DEF MayMove, Steady

\* An exchange that goes on keeps what it read.
LEMMA ExchangeHolds ==
  ASSUME RequestsOK, NEW e \in Exchanges, pc[e] \notin {"ok", "failed"}, CodeRead(e),
         NEW label, NEW held, Moved(e, label, held), NEW c, c = req[e].code,
         held.code = c, held.record = req[e].record
  PROVE  /\ CodeRead(e)' /\ c \in Callbacks /\ pc[c] = "done"
         /\ LoginKey(c)' = LoginKey(c) /\ LoginBrowser(c)' = LoginBrowser(c)
         /\ LoginKey(req[e].code)' = LoginKey(c)
         /\ (/\ SessionRead(e) /\ held.session = req[e].session /\ held.cookie = req[e].cookie
             /\ Shrinks(sessions, sessions')) => SessionRead(e)'
<1>1. Advances
  BY ExchangeMoves, MovesAdvance
<1>2. /\ c \in Callbacks /\ pc[c] = "done" /\ req[e].record.session = c
      /\ req[e].record.key = LoginKey(c) /\ req[e].record.browser = LoginBrowser(c)
  BY DEF CodeRead
<1>3. /\ LoginKey(c)' = LoginKey(c) /\ LoginBrowser(c)' = LoginBrowser(c) /\ pc'[c] = "done"
  BY <1>1, <1>2, LineageLasts DEF Advances
<1>4. req'[e] = held
  BY DEF Moved
<1>5. /\ LoginKey(req[e].code)' = LoginKey(c)
      /\ LoginBrowser(req[e].code)' = LoginBrowser(c)
  BY <1>3, <1>4 DEF LoginKey, LoginBrowser, LoginOf
<1>6. CodeRead(e)'
  BY <1>2, <1>3, <1>4, <1>5 DEF CodeRead
<1>7. ASSUME SessionRead(e), held.session = req[e].session, held.cookie = req[e].cookie,
             Shrinks(sessions, sessions')
      PROVE  SessionRead(e)'
  <2>1. c \in DOMAIN sessions' => sessions'[c] = held.session
    BY <1>7 DEF SessionRead, Shrinks
  <2> QED
    BY <1>4, <1>5, <1>7, <2>1 DEF SessionRead
<1> QED
  BY <1>2, <1>3, <1>5, <1>6, <1>7

\* A step of an exchange keeps the invariant if its own part is kept.
LEMMA ExchangeStep ==
  ASSUME IInv, NEW e \in Exchanges, pc[e] \notin {"ok", "failed"}, NEW label, NEW held,
         Moved(e, label, held), now' = now, Fades, Shrinks(txns, txns'), Shrinks(codes, codes'),
         jtis' = jtis, ExchangeOK(e)',
         label \in {"spent", "lapsed", "checked", "ok", "failed"} =>
           \/ e \in Spending /\ held.code = req[e].code
           \/ \A f \in Spending : req[f].code # held.code
  PROVE  IInv' /\ Ends
<1>1. /\ e \in Requests /\ e \notin Logins /\ e \notin Callbacks /\ e \notin Refreshes
      /\ e \notin Logouts /\ e \notin Backchannels
      /\ MayMove(e, label, held) /\ Steady(e, label)
  BY ExchangeMoves
<1>2. Own(e)' /\ ~(e \in Redeeming)'
  BY <1>1 DEF Own, Redeeming
<1>3. (e \in Spending)' => label \in {"spent", "lapsed", "checked", "ok", "failed"}
  BY DEF Spending, Moved
<1>4. Once' /\ JtisOK'
  BY <1>1, <1>2, <1>3, OnceKept, JtisElsewhere DEF IInv
<1> QED
  BY <1>1, <1>2, <1>4, QuietStep

\* A refused exchange keeps the invariant.
LEMMA ExchangeRefused ==
  ASSUME IInv, NEW e \in Exchanges, pc[e] \notin {"ok", "failed"}, NEW held,
         Moved(e, "refused", held), now' = now, Fades, Shrinks(txns, txns'),
         Shrinks(codes, codes'), jtis' = jtis
  PROVE  IInv' /\ Ends
<1>1. ExchangeOK(e)'
  BY ExchangeMoves, RefusedOwn DEF Own
<1> QED
  BY <1>1, ExchangeStep

\* ExchangeReadCode keeps the invariant and revives nothing.
LEMMA ExchangeReadCodeStep ==
  ASSUME IInv, NEW e \in Exchanges, ExchangeReadCode(e), now' = now
  PROVE  IInv' /\ Ends
<1>1. PICK c \in Callbacks :
        /\ pc[c] = "done"
        /\ OneTime!GetExchangeCode(c)
        /\ Proceed(e, OneTime!Found(codes, c) /\ assertDeviceBindingPolicy(e, codes[c].key),
                   "code", [code |-> c, record |-> OneTime!FoundValue(codes, c)])
  BY DEF ExchangeReadCode, At
<1>2. /\ pc[e] = "idle" /\ Shape /\ RequestsOK /\ Fades
      /\ Shrinks(txns, txns') /\ Shrinks(codes, codes') /\ jtis' = jtis /\ e \in Requests
  BY <1>1, AfterReadShrinks, OneTimeKept, Kinds
     DEF ExchangeReadCode, At, IInv, OneTime!GetExchangeCode
<1>3. CASE Moved(e, "refused", req[e])
  BY <1>2, <1>3, ExchangeRefused
<1>4. ASSUME NEW held, Moved(e, "code", held), OneTime!Found(codes, c),
             held = [code |-> c, record |-> OneTime!FoundValue(codes, c)]
      PROVE  IInv' /\ Ends
  <2>1. c \in DOMAIN codes /\ held.record = codes[c] /\ held.code = c
    BY <1>4, FoundFacts
  <2>2. /\ codes[c].session = c /\ codes[c].key = LoginKey(c)
        /\ codes[c].browser = LoginBrowser(c)
    BY <2>1 DEF IInv, CodesOK
  <2>3. Advances
    BY <1>2, <1>4, ExchangeMoves, MovesAdvance
  <2>4. /\ LoginKey(c)' = LoginKey(c) /\ LoginBrowser(c)' = LoginBrowser(c) /\ pc'[c] = "done"
    BY <1>1, <1>2, <2>3, LineageLasts DEF Advances
  <2>5. pc'[e] = "code" /\ req'[e] = held
    BY <1>4 DEF Moved
  <2>6. /\ LoginKey(req[e].code)' = LoginKey(c)
        /\ LoginBrowser(req[e].code)' = LoginBrowser(c)
    BY <2>1, <2>4, <2>5 DEF LoginKey, LoginBrowser, LoginOf
  <2>7. CodeRead(e)'
    BY <2>1, <2>2, <2>4, <2>5, <2>6 DEF CodeRead
  <2>8. ExchangeOK(e)'
    BY <2>5, <2>7 DEF ExchangeOK, Spending
  <2> QED
    BY <1>2, <1>4, <2>8, ExchangeStep
<1> QED
  BY <1>1, <1>2, <1>3, <1>4, ProceedFacts

\* ExchangeReadSession keeps the invariant and revives nothing.
LEMMA ExchangeReadSessionStep ==
  ASSUME IInv, NEW e \in Exchanges, ExchangeReadSession(e), now' = now
  PROVE  IInv' /\ Ends
<1>1. /\ pc[e] = "code" /\ Shape /\ RequestsOK /\ StoreOK /\ e \in Requests
      /\ UNCHANGED oneTimeVars /\ CodeRead(e)
  BY Kinds DEF ExchangeReadSession, At, IInv, RequestsOK, ExchangeOK
<1>2. PICK c : c = req[e].code
  OBVIOUS
<1>3. /\ c \in Callbacks /\ pc[c] = "done" /\ req[e].record.session = c
      /\ req[e].record.key = LoginKey(c) /\ req[e].record.browser = LoginBrowser(c)
  BY <1>1, <1>2 DEF CodeRead
<1>4. PICK cookie \in Logins \cup {Undefined} :
        /\ Sessions!GetSession(c)
        /\ Proceed(e,
             /\ Sessions!IsLive(c)
             /\ assertDeviceBindingPolicy(e, sessions[c].key)
             /\ assertVaultExchangeSessionBinding(req[e].record, sessions[c])
             /\ Protected(e) => assertIdentity(e, sessions[c].provider)
             /\ authenticateTransactionCookie(req[e].record.browser, cookie),
             "session",
             [code |-> req[e].code, record |-> req[e].record,
              cookie |-> CookieSecret(req[e].record.browser, cookie),
              session |-> IF Sessions!IsLive(c) THEN sessions[c] ELSE Undefined])
  BY <1>3 DEF ExchangeReadSession
<1>5. /\ Fades /\ Shrinks(sessions, sessions')
      /\ Shrinks(txns, txns') /\ Shrinks(codes, codes') /\ jtis' = jtis
  BY <1>1, <1>4, GetSessionFades, OneTimeKept DEF Fades
<1>6. CASE Moved(e, "refused", req[e])
  BY <1>1, <1>5, <1>6, ExchangeRefused
<1>7. ASSUME NEW held, Moved(e, "session", held), Sessions!IsLive(c),
             assertDeviceBindingPolicy(e, sessions[c].key),
             authenticateTransactionCookie(req[e].record.browser, cookie),
             held = [code |-> req[e].code, record |-> req[e].record,
                     cookie |-> CookieSecret(req[e].record.browser, cookie),
                     session |-> IF Sessions!IsLive(c) THEN sessions[c] ELSE Undefined]
      PROVE  IInv' /\ Ends
  <2>1. /\ held.code = c /\ held.record = req[e].record /\ held.session = sessions[c]
        /\ held.cookie = LoginBrowser(c)
    BY <1>2, <1>3, <1>7 DEF CookieSecret, authenticateTransactionCookie
  <2>2. c \in DOMAIN sessions
    BY <1>7, MapNames DEF Sessions!IsLive, LiveKeys
  <2>3. /\ sessions[c].logical = c /\ sessions[c].key = LoginKey(c)
    BY <1>1, <1>3, <2>2 DEF StoreOK, SessionOK, HandleLineage
  <2>4. LoginKey(c) # Undefined => Config[e].policy # "disabled"
    BY <1>7, <2>3 DEF assertDeviceBindingPolicy
  <2>5. /\ CodeRead(e)' /\ LoginKey(c)' = LoginKey(c) /\ LoginBrowser(c)' = LoginBrowser(c)
    BY <1>1, <1>2, <1>7, <2>1, ExchangeHolds
  <2>6. pc'[e] = "session" /\ req'[e] = held
    BY <1>7 DEF Moved
  <2>7. /\ LoginKey(req[e].code)' = LoginKey(c)
        /\ LoginBrowser(req[e].code)' = LoginBrowser(c)
    BY <2>1, <2>5, <2>6 DEF LoginKey, LoginBrowser, LoginOf
  <2>8. c \in DOMAIN sessions' => sessions'[c] = held.session
    BY <1>5, <2>1 DEF Shrinks
  <2>9. SessionRead(e)'
    BY <2>1, <2>3, <2>4, <2>6, <2>7, <2>8 DEF SessionRead
  <2>10. ExchangeOK(e)'
    BY <2>5, <2>6, <2>9 DEF ExchangeOK, Spending
  <2> QED
    BY <1>1, <1>5, <1>7, <2>10, ExchangeStep
<1> QED
  BY <1>1, <1>4, <1>6, <1>7, ProceedFacts

\* ExchangeSpend keeps the invariant and revives nothing.
LEMMA ExchangeSpendStep ==
  ASSUME IInv, NEW e \in Exchanges, ExchangeSpend(e), now' = now
  PROVE  IInv' /\ Ends
<1>1. /\ pc[e] = "session" /\ Shape /\ RequestsOK /\ e \in Requests /\ Fades
      /\ CodeRead(e) /\ SessionRead(e) /\ ExchangeOK(e)
  BY Kinds, OneTimeKept DEF ExchangeSpend, At, IInv, RequestsOK, ExchangeOK
<1>2. PICK c : c = req[e].code
  OBVIOUS
<1>3. PICK match :
        match = [key |-> req[e].record.key, browser |-> req[e].record.browser,
                 session |-> IF Protected(e) THEN req[e].record.session ELSE Undefined]
  OBVIOUS
<1>4. PICK proof \in Proofs(e) :
        \/ Goto(e, "refused") /\ UNCHANGED oneTimeVars
        \/ /\ ProofAccepted(e, req[e].session.key, proof)
           /\ OneTime!ConsumeExchangeCodeIfMatches(c, match)
           /\ Proceed(e, OneTime!CanConsumeCode(c, match),
                "spent", [code |-> c, record |-> req[e].record, cookie |-> req[e].cookie,
                          session |-> req[e].session, proof |-> proof,
                          returned |-> OneTime!FoundValue(codes, c)])
  BY <1>2, <1>3 DEF ExchangeSpend
<1>5. CASE Goto(e, "refused") /\ UNCHANGED oneTimeVars
  BY <1>1, <1>5, MoveFacts, OneTimeKept, ExchangeRefused
<1>6. ASSUME NEW held, ProofAccepted(e, req[e].session.key, proof),
             OneTime!ConsumeExchangeCodeIfMatches(c, match),
             held = [code |-> c, record |-> req[e].record, cookie |-> req[e].cookie,
                     session |-> req[e].session, proof |-> proof,
                     returned |-> OneTime!FoundValue(codes, c)],
             Proceed(e, OneTime!CanConsumeCode(c, match), "spent", held)
      PROVE  IInv' /\ Ends
  <2> DEFINE granted == OneTime!CanConsumeCode(c, match)
  <2>1. OneTime!ConsumeIn(codes, codes', c, granted) /\ UNCHANGED <<txns, jtis>>
    BY <1>6 DEF OneTime!ConsumeExchangeCodeIfMatches
  <2>2. /\ Shrinks(txns, txns') /\ Shrinks(codes, codes') /\ jtis' = jtis
        /\ granted => c \notin DOMAIN codes' /\ c \in DOMAIN codes
    <3>1. granted => c \in DOMAIN codes
      BY FoundFacts DEF OneTime!CanConsumeCode
    <3> HIDE DEF granted
    <3> QED
      BY <2>1, <3>1, ConsumeShrinks, OneTimeKept
  <2>3. CASE Moved(e, "refused", req[e])
    BY <1>1, <2>2, <2>3, ExchangeRefused
  <2>4. CASE granted /\ Moved(e, "spent", held)
    <3>1. /\ held.code = c /\ held.record = req[e].record /\ held.session = req[e].session
          /\ held.cookie = req[e].cookie /\ held.proof = proof
      BY <1>6
    <3>2. pc'[e] = "spent" /\ req'[e] = held
      BY <2>4 DEF Moved
    <3>3. CodeRead(e)' /\ SessionRead(e)' /\ LoginKey(req[e].code)' = LoginKey(c)
      BY <1>1, <1>2, <2>4, <3>1, ExchangeHolds DEF Fades
    <3>4. LoginKey(c) # Undefined => proof = LoginKey(c)
      BY <1>1, <1>2, <1>6 DEF SessionRead, ProofAccepted
    <3>5. ExchangeOK(e)'
      BY <2>2, <2>4, <3>1, <3>2, <3>3, <3>4 DEF ExchangeOK, Spending
    <3>6. \A f \in Spending : req[f].code # c
      BY <1>1, <2>2, <2>4 DEF RequestsOK, ExchangeOK, Spending
    <3> QED
      BY <1>1, <2>2, <2>4, <3>1, <3>5, <3>6, ExchangeStep
  <2> QED
    BY <1>1, <1>6, <2>3, <2>4, ProceedFacts
<1> QED
  BY <1>4, <1>5, <1>6

(***************************************************************************)
(* While the one exchange that spent the code is still under way nobody    *)
(* holds a handle of its lineage, so the session it read is the only one   *)
(* the lineage can have.                                                   *)
(***************************************************************************)
LEMMA UndeliveredIsUnrotated ==
  ASSUME IInv, NEW e \in Spending, pc[e] \in {"spent", "checked"}, NEW s \in DOMAIN sessions,
         sessions[s].logical = req[e].code
  PROVE  s = req[e].code
<1>1. Born(s) /\ HandleLineage(s) = req[e].code
  BY DEF IInv, StoreOK, SessionOK
<1>2. CASE s \in Callbacks
  BY <1>1, <1>2 DEF HandleLineage
<1>3. CASE s \in Refreshes
  <2>1. Given(req[e].code)
    BY <1>1, <1>3, BornFacts DEF IInv
  <2>2. PICK f \in Exchanges : pc[f] = "ok" /\ req[f].code = req[e].code
    BY <2>1 DEF Given, At
  <2>3. f \in Spending
    BY <2>2 DEF Spending
  <2> QED
    BY <2>2, <2>3 DEF IInv, Once
<1> QED
  BY <1>1, <1>2, <1>3 DEF Born

\* ExchangeRecheck keeps the invariant and revives nothing.
LEMMA ExchangeRecheckStep ==
  ASSUME IInv, NEW e \in Exchanges, ExchangeRecheck(e), now' = now
  PROVE  IInv' /\ Ends
<1>1. /\ pc[e] = "spent" /\ Shape /\ RequestsOK /\ StoreOK /\ e \in Requests
      /\ UNCHANGED oneTimeVars /\ CodeRead(e) /\ SessionRead(e) /\ ExchangeOK(e) /\ e \in Spending
  BY Kinds DEF ExchangeRecheck, At, IInv, RequestsOK, ExchangeOK, Spending
<1>2. PICK c : c = req[e].code
  OBVIOUS
<1>3. req[e].record.session = c
  BY <1>1, <1>2 DEF CodeRead
<1>4. PICK label :
        /\ Goto(e, label)
        /\ \/ label = "lapsed"
           \/ label = IF /\ SameSession(c, req[e].session)
                         /\ assertIdentity(e, req[e].session.provider)
                      THEN "checked" ELSE "failed"
  BY <1>3 DEF ExchangeRecheck
<1>5. /\ Fades /\ Shrinks(sessions, sessions') /\ codes' = codes
      /\ Shrinks(txns, txns') /\ Shrinks(codes, codes') /\ jtis' = jtis
  <2>1. UNCHANGED sessionVars \/ Sessions!GetSession(req[e].record.session)
    BY DEF ExchangeRecheck
  <2>2. Fades
    BY <1>1, <2>1, GetSessionFades, OneTimeKept
  <2> QED
    BY <1>1, <2>2, OneTimeKept DEF Fades, oneTimeVars
<1>6. Moved(e, label, req[e])
  BY <1>1, <1>4, MoveFacts
<1>7. pc'[e] = label /\ req'[e] = req[e] /\ label \in {"lapsed", "checked", "failed"}
  BY <1>4, <1>6 DEF Moved
<1>8. CodeRead(e)' /\ SessionRead(e)' /\ LoginKey(req[e].code)' = LoginKey(c)
  BY <1>1, <1>2, <1>5, <1>6, ExchangeHolds
<1>9. ASSUME label = "failed", assertIdentity(e, req[e].session.provider), LineageIsLive(c)'
      PROVE  FALSE
  <2>1. PICK s \in LiveKeys(sessions) : sessions[s].logical = c
    BY <1>1, <1>5, <1>9, FadesWanes, WanesLive
  <2>2. s = c /\ c \in DOMAIN sessions
    BY <1>1, <1>2, <2>1, UndeliveredIsUnrotated DEF LiveKeys
  <2>3. sessions[c] = req[e].session
    BY <1>1, <1>2, <2>2 DEF SessionRead
  <2>4. SameSession(c, req[e].session)
    BY <2>1, <2>2, <2>3, MapNames DEF SameSession, Sessions!IsLive
  <2> QED
    BY <1>4, <1>9, <2>4
<1>10. (pc[e] = "failed" /\ assertIdentity(e, req[e].session.provider)
          => ~LineageIsLive(req[e].code))'
  BY <1>2, <1>7, <1>9 DEF assertIdentity, LineageIsLive
<1>11. LoginKey(c) # Undefined => req[e].proof = LoginKey(c)
  BY <1>1, <1>2 DEF ExchangeOK
<1>12. ExchangeOK(e)'
  BY <1>1, <1>2, <1>5, <1>7, <1>8, <1>10, <1>11 DEF ExchangeOK
<1> QED
  BY <1>1, <1>5, <1>6, <1>12, ExchangeStep

\* ExchangeIssue keeps the invariant and revives nothing.
LEMMA ExchangeIssueStep ==
  ASSUME IInv, NEW e \in Exchanges, ExchangeIssue(e), now' = now
  PROVE  IInv' /\ Ends
<1>1. /\ pc[e] = "checked" /\ Shape /\ RequestsOK /\ e \in Requests
      /\ CodeRead(e) /\ SessionRead(e) /\ ExchangeOK(e) /\ e \in Spending
  BY Kinds DEF ExchangeIssue, At, IInv, RequestsOK, ExchangeOK, Spending
<1>2. PICK c : c = req[e].code
  OBVIOUS
<1>3. /\ req[e].session.logical = c /\ c \notin DOMAIN codes
      /\ LoginKey(c) # Undefined => req[e].proof = LoginKey(c)
  BY <1>1, <1>2 DEF SessionRead, ExchangeOK
<1>4. CASE Goto(e, "ok") /\ UNCHANGED <<sessionVars, oneTimeVars>>
  <2>1. /\ Fades /\ Shrinks(sessions, sessions') /\ codes' = codes
        /\ Shrinks(txns, txns') /\ Shrinks(codes, codes') /\ jtis' = jtis
    BY <1>4, OneTimeKept DEF Fades, oneTimeVars
  <2>2. Moved(e, "ok", req[e])
    BY <1>1, <1>4, MoveFacts
  <2>3. pc'[e] = "ok" /\ req'[e] = req[e]
    BY <2>2 DEF Moved
  <2>4. CodeRead(e)' /\ SessionRead(e)' /\ LoginKey(req[e].code)' = LoginKey(c)
    BY <1>1, <1>2, <2>1, <2>2, ExchangeHolds
  <2>5. ExchangeOK(e)'
    BY <1>2, <1>3, <2>1, <2>3, <2>4 DEF ExchangeOK
  <2> QED
    BY <1>1, <2>1, <2>2, <2>5, ExchangeStep
<1>5. CASE Goto(e, "failed") /\ DeleteLineage(c)
  <2>1. Moved(e, "failed", req[e])
    BY <1>1, <1>5, MoveFacts
  <2>2. /\ e \notin Logins /\ e \notin Callbacks /\ e \notin Refreshes
        /\ e \notin Logouts /\ e \notin Backchannels /\ MayMove(e, "failed", req[e])
    BY <1>1, ExchangeMoves
  <2>3. /\ Advances /\ StoreOK' /\ Ends /\ TxnsOK' /\ CodesOK' /\ ~LineageIsLive(c)'
        /\ UNCHANGED <<txns, codes, jtis>>
    BY <1>1, <1>5, <2>1, <2>2, RollbackStore
  <2>4. pc'[e] = "failed" /\ req'[e] = req[e]
    BY <2>1 DEF Moved
  <2>5. Shrinks(sessions, sessions')
    BY <1>5, DeleteLineageFades DEF Fades
  <2>6. CodeRead(e)' /\ SessionRead(e)' /\ LoginKey(req[e].code)' = LoginKey(c)
    BY <1>1, <1>2, <2>1, <2>5, ExchangeHolds
  <2>7. (~LineageIsLive(req[e].code))'
    BY <1>2, <2>3, <2>4 DEF LineageIsLive
  <2>8. ExchangeOK(e)'
    BY <1>2, <1>3, <2>3, <2>4, <2>6, <2>7 DEF ExchangeOK
  <2>9. Own(e)' /\ ~(e \in Redeeming)'
    BY <2>2, <2>8 DEF Own, Redeeming
  <2>10. Once' /\ JtisOK'
    BY <1>1, <2>1, <2>2, <2>3, <2>9, OnceKept, JtisElsewhere DEF IInv
  <2> QED
    BY <1>1, <2>1, <2>3, <2>9, <2>10, OthersWait
<1> QED
  BY <1>3, <1>4, <1>5 DEF ExchangeIssue, Issue

----------------------------------------------------------------------------
(***************************************************************************)
(* Refresh.                                                                *)
(***************************************************************************)
LEMMA RefreshMoves ==
  ASSUME NEW r \in Refreshes
  PROVE  /\ r \in Requests /\ r \notin Logins /\ r \notin Callbacks /\ r \notin Exchanges
         /\ r \notin Logouts /\ r \notin Backchannels
         /\ pc[r] \in {"idle", "read", "checked", "granted"} =>
              /\ \A label, held : MayMove(r, label, held)
              /\ \A label : label \notin {"rotated", "confirmed", "ok"} => Steady(r, label)
         /\ pc[r] \in {"rotated", "confirmed"} =>
              /\ \A label : MayMove(r, label, req[r])
              /\ \A label \in {"rotated", "confirmed", "ok"} : Steady(r, label)
  BY Kinds DEF MayMove, Steady

\* A session of the lineage of a handle that was given out, as a refresh may
\* hold it.
Readable(r, h, session) ==
  LET c == session.logical
  IN  /\ h \in Delivered
      /\ c = HandleLineage(h)
      /\ c \in Callbacks
      /\ Given(c)
      /\ session \in Sessions!Session
      /\ session.key = LoginKey(c)
      /\ session.expiresAt = Deadline(c)
      /\ LoginKey(c) # Undefined => Config[r].policy # "disabled"

\* A refresh that has read a live session holds what its lineage is tied to.
LEMMA RefreshHolds ==
  ASSUME RequestsOK, Advances, NEW r \in Refreshes, NEW h, NEW session, Readable(r, h, session),
         NEW label, NEW held, Moved(r, label, held), held.handle = h, held.session = session
  PROVE  /\ LineageRead(r)'
         /\ session.logical \in Callbacks /\ pc[session.logical] = "done"
         /\ LoginKey(req[r].session.logical)' = LoginKey(session.logical)
<1>1. PICK c : c = session.logical
  OBVIOUS
<1>2. /\ h \in Delivered /\ c = HandleLineage(h) /\ c \in Callbacks /\ Given(c)
      /\ session \in Sessions!Session /\ session.key = LoginKey(c)
      /\ session.expiresAt = Deadline(c)
      /\ LoginKey(c) # Undefined => Config[r].policy # "disabled"
  BY <1>1 DEF Readable
<1>3. pc[c] = "done"
  BY <1>2, GivenFacts
<1>4. /\ LoginKey(c)' = LoginKey(c) /\ Deadline(c)' = Deadline(c)
  BY <1>2, <1>3, LineageLasts
<1>5. /\ Given(c)' /\ h \in Delivered' /\ HandleLineage(h)' = c
  BY <1>2, DeliveredFacts, HandleLasts
<1>6. req'[r].handle = h /\ req'[r].session = session
  BY DEF Moved
<1>7. /\ LoginKey(req[r].session.logical)' = LoginKey(c)
      /\ Deadline(req[r].session.logical)' = Deadline(c)
      /\ Given(req[r].session.logical)'
      /\ HandleLineage(req[r].handle)' = c
  BY <1>1, <1>4, <1>5, <1>6 DEF LoginKey, LoginOf, Deadline, Given, At, HandleLineage
<1>8. LineageRead(r)'
  BY <1>1, <1>2, <1>5, <1>6, <1>7 DEF LineageRead
<1> QED
  BY <1>1, <1>2, <1>3, <1>7, <1>8

\* A step of a refresh that does not rotate keeps the invariant if its own part is kept.
LEMMA RefreshStep ==
  ASSUME IInv, NEW r \in Refreshes, NEW label, NEW held, Moved(r, label, held),
         MayMove(r, label, held), Steady(r, label), now' = now, Fades,
         UNCHANGED oneTimeVars, RefreshOK(r)'
  PROVE  IInv' /\ Ends
<1>1. /\ r \in Requests /\ r \notin Logins /\ r \notin Callbacks /\ r \notin Exchanges
      /\ r \notin Logouts /\ r \notin Backchannels
  BY RefreshMoves
<1>2. Own(r)' /\ ~(r \in Redeeming)' /\ ~(r \in Spending)'
  BY <1>1 DEF Own, Redeeming, Spending
<1>3. Shrinks(txns, txns') /\ Shrinks(codes, codes') /\ jtis' = jtis
  BY OneTimeKept
<1>4. Once' /\ JtisOK'
  BY <1>1, <1>2, <1>3, OnceKept, JtisElsewhere DEF IInv
<1> QED
  BY <1>1, <1>2, <1>3, <1>4, QuietStep

\* A refresh that is answered with an error before it rotated.
LEMMA RefreshRefused ==
  ASSUME IInv, NEW r \in Refreshes, pc[r] \in {"idle", "read", "checked", "granted"},
         NEW label \in {"refused", "rejected"}, Moved(r, label, req[r]), now' = now, Fades,
         UNCHANGED oneTimeVars
  PROVE  IInv' /\ Ends
<1>1. MayMove(r, label, req[r]) /\ Steady(r, label)
  BY RefreshMoves
<1>2. RefreshOK(r)'
  BY DEF RefreshOK, Moved
<1> QED
  BY <1>1, <1>2, RefreshStep

\* RefreshRead keeps the invariant and revives nothing.
LEMMA RefreshReadStep ==
  ASSUME IInv, NEW r \in Refreshes, RefreshRead(r), now' = now
  PROVE  IInv' /\ Ends
<1>1. PICK h \in Delivered :
        /\ Sessions!GetSession(h)
        /\ Proceed(r, /\ Sessions!IsLive(h)
                      /\ assertIdentity(r, sessions[h].provider)
                      /\ assertDeviceBindingPolicy(r, sessions[h].key),
                   "read",
                   [handle |-> h,
                    session |-> IF Sessions!IsLive(h) THEN sessions[h] ELSE Undefined])
  BY DEF RefreshRead
<1>2. /\ pc[r] = "idle" /\ Shape /\ RequestsOK /\ StoreOK /\ UNCHANGED oneTimeVars /\ Fades
      /\ r \in Requests
  BY <1>1, GetSessionFades, RefreshMoves DEF RefreshRead, At, IInv
<1>3. CASE Moved(r, "refused", req[r])
  BY <1>2, <1>3, RefreshRefused
<1>4. ASSUME NEW held, Moved(r, "read", held), Sessions!IsLive(h),
             assertDeviceBindingPolicy(r, sessions[h].key),
             held = [handle |-> h,
                     session |-> IF Sessions!IsLive(h) THEN sessions[h] ELSE Undefined]
      PROVE  IInv' /\ Ends
  <2>1. held.handle = h /\ held.session = sessions[h] /\ h \in DOMAIN sessions
    BY <1>4, MapNames DEF Sessions!IsLive, LiveKeys
  <2>2. SessionOK(h) /\ sessions[h] \in Sessions!Session /\ Given(HandleLineage(h))
    BY <1>2, <2>1, DeliveredFacts DEF StoreOK
  <2>3. Readable(r, h, sessions[h])
    BY <1>4, <2>2 DEF Readable, SessionOK, assertDeviceBindingPolicy
  <2>4. MayMove(r, "read", held) /\ Steady(r, "read")
    BY <1>2, RefreshMoves
  <2>5. Advances
    BY <1>2, <1>4, <2>4, MovesAdvance
  <2>6. LineageRead(r)' /\ pc'[r] = "read"
    BY <1>2, <1>4, <2>1, <2>3, <2>5, RefreshHolds DEF Moved
  <2>7. RefreshOK(r)'
    BY <2>6 DEF RefreshOK
  <2> QED
    BY <1>2, <1>4, <2>4, <2>7, RefreshStep
<1> QED
  BY <1>1, <1>2, <1>3, <1>4, ProceedFacts

\* RefreshCheck keeps the invariant and revives nothing.
LEMMA RefreshCheckStep ==
  ASSUME IInv, NEW r \in Refreshes, RefreshCheck(r), now' = now
  PROVE  IInv' /\ Ends
<1>1. /\ pc[r] = "read" /\ Shape /\ RequestsOK /\ r \in Requests /\ UNCHANGED oneTimeVars
      /\ LineageRead(r) /\ Config[r].policy # "disabled"
  BY RefreshMoves DEF RefreshCheck, At, IInv, RequestsOK, RefreshOK
<1>2. PICK proof \in Proofs(r) :
        \/ Goto(r, "refused") /\ UNCHANGED sessionVars
        \/ /\ ProofAccepted(r, req[r].session.key, proof)
           /\ Sessions!GetSession(req[r].handle)
           /\ Proceed(r, SameSession(req[r].handle, req[r].session), "checked",
                      [handle |-> req[r].handle, session |-> req[r].session, proof |-> proof])
  BY DEF RefreshCheck
<1>3. CASE Goto(r, "refused") /\ UNCHANGED sessionVars
  BY <1>1, <1>3, MoveFacts, OneTimeKept, RefreshRefused
<1>4. ASSUME NEW held, ProofAccepted(r, req[r].session.key, proof),
             Sessions!GetSession(req[r].handle),
             held = [handle |-> req[r].handle, session |-> req[r].session, proof |-> proof],
             Proceed(r, SameSession(req[r].handle, req[r].session), "checked", held)
      PROVE  IInv' /\ Ends
  <2>1. Fades
    BY <1>4, GetSessionFades
  <2>2. CASE Moved(r, "refused", req[r])
    BY <1>1, <2>1, <2>2, RefreshRefused
  <2>3. CASE Moved(r, "checked", held)
    <3>1. held.handle = req[r].handle /\ held.session = req[r].session /\ held.proof = proof
      BY <1>4
    <3>2. MayMove(r, "checked", held) /\ Steady(r, "checked")
      BY <1>1, RefreshMoves
    <3>3. Advances
      BY <1>1, <2>3, <3>2, MovesAdvance
    <3>4. Readable(r, req[r].handle, req[r].session)
      BY <1>1 DEF Readable, LineageRead
    <3>5. LineageRead(r)' /\ LoginKey(req[r].session.logical)' = LoginKey(req[r].session.logical)
      BY <1>1, <2>3, <3>1, <3>3, <3>4, RefreshHolds
    <3>6. LoginKey(req[r].session.logical) # Undefined =>
            proof = LoginKey(req[r].session.logical)
      BY <1>1, <1>4 DEF LineageRead, ProofAccepted
    <3>7. pc'[r] = "checked" /\ req'[r].proof = proof
      BY <2>3, <3>1 DEF Moved
    <3>8. RefreshOK(r)'
      BY <3>5, <3>6, <3>7 DEF RefreshOK
    <3> QED
      BY <1>1, <2>1, <2>3, <3>2, <3>8, RefreshStep
  <2> QED
    BY <1>1, <1>4, <2>2, <2>3, ProceedFacts
<1> QED
  BY <1>2, <1>3, <1>4

\* RefreshUpstream keeps the invariant and revives nothing.
LEMMA RefreshUpstreamStep ==
  ASSUME IInv, NEW r \in Refreshes, RefreshUpstream(r), now' = now
  PROVE  IInv' /\ Ends
<1>1. /\ pc[r] \in {"read", "checked"} /\ Shape /\ RequestsOK /\ r \in Requests
      /\ UNCHANGED oneTimeVars /\ Fades /\ LineageRead(r) /\ RefreshOK(r)
      /\ pc[r] = "read" => Config[r].policy = "disabled"
  BY RefreshMoves, OneTimeKept
     DEF RefreshUpstream, AtProvider, At, IInv, RequestsOK, RefreshOK
<1>2. CASE Goto(r, "refused")
  BY <1>1, <1>2, MoveFacts, RefreshRefused
<1>3. ASSUME NEW sid \in Sids \cup {req[r].session.sid}, NEW held, NEW proof,
             proof = (IF At(r, "checked") THEN req[r].proof ELSE Undefined),
             held = [handle |-> req[r].handle, session |-> NextSession(r, sid), proof |-> proof],
             GotoWith(r, "granted", held)
      PROVE  IInv' /\ Ends
  <2>1. Moved(r, "granted", held)
    BY <1>1, <1>3, MoveFacts
  <2>2. PICK session : session = NextSession(r, sid)
    OBVIOUS
  <2>3. held.handle = req[r].handle /\ held.session = session /\ held.proof = proof
    BY <1>3, <2>2
  <2>4. /\ req[r].session \in Sessions!Session
    BY <1>1 DEF LineageRead
  <2>5. /\ session \in Sessions!Session /\ session.logical = req[r].session.logical
        /\ session.key = req[r].session.key /\ session.expiresAt = req[r].session.expiresAt
    BY <1>3, <2>2, <2>4 DEF NextSession, Sessions!Session
  <2>6. Readable(r, req[r].handle, session)
    BY <1>1, <2>5 DEF Readable, LineageRead
  <2>7. MayMove(r, "granted", held) /\ Steady(r, "granted")
    BY <1>1, RefreshMoves
  <2>8. Advances
    BY <1>1, <2>1, <2>7, MovesAdvance
  <2>9. LineageRead(r)' /\ LoginKey(req[r].session.logical)' = LoginKey(req[r].session.logical)
    BY <1>1, <2>1, <2>3, <2>5, <2>6, <2>8, RefreshHolds
  <2>10. LoginKey(req[r].session.logical) # Undefined =>
           proof = LoginKey(req[r].session.logical)
    BY <1>1, <1>3 DEF LineageRead, RefreshOK, At
  <2>11. pc'[r] = "granted" /\ req'[r].proof = proof
    BY <2>1, <2>3 DEF Moved
  <2>12. RefreshOK(r)'
    BY <2>9, <2>10, <2>11 DEF RefreshOK
  <2> QED
    BY <1>1, <2>1, <2>7, <2>12, RefreshStep
<1> QED
  BY <1>2, <1>3 DEF RefreshUpstream

\* RefreshRejected keeps the invariant and revives nothing.
LEMMA RefreshRejectedStep ==
  ASSUME IInv, NEW r \in Refreshes, RefreshRejected(r), now' = now
  PROVE  IInv' /\ Ends
<1>1. /\ pc[r] \in {"read", "checked"} /\ Shape /\ r \in Requests
      /\ UNCHANGED oneTimeVars /\ Fades
  BY RefreshMoves, GetSessionFades DEF RefreshRejected, AtProvider, At, IInv
<1>2. PICK label \in {"refused", "rejected"} : Goto(r, label)
  BY DEF RefreshRejected
<1> QED
  BY <1>1, <1>2, MoveFacts, RefreshRefused

\* A rotation keeps the invariant: it moves the one session of the lineage to the new ID.
LEMMA RefreshRotates ==
  ASSUME IInv, NEW r \in Refreshes, pc[r] = "granted",
         Sessions!RotateSession(req[r].handle, r, req[r].session), Goto(r, "rotated"),
         UNCHANGED oneTimeVars, now' = now
  PROVE  IInv' /\ Ends
<1>1. /\ r \in Requests /\ r \notin Logins /\ r \notin Callbacks /\ r \notin Exchanges
      /\ r \notin Logouts /\ r \notin Backchannels
      /\ Shape /\ RequestsOK /\ StoreOK /\ LineageRead(r) /\ RefreshOK(r)
  BY RefreshMoves DEF IInv, RequestsOK, RefreshOK
<1>2. Moved(r, "rotated", req[r]) /\ Advances
  BY <1>1, MoveFacts, RefreshMoves, MovesAdvance
<1>3. PICK h, next, c : h = req[r].handle /\ next = req[r].session /\ c = next.logical
  OBVIOUS
<1>4. /\ h \in Delivered /\ c = HandleLineage(h) /\ c \in Callbacks /\ Given(c)
      /\ next \in Sessions!Session /\ next.key = LoginKey(c) /\ next.expiresAt = Deadline(c)
  BY <1>1, <1>3 DEF LineageRead
<1>5. r \notin DOMAIN sessions
  BY <1>1, Kinds DEF StoreOK, SessionOK, Born
<1>6. h \in LiveKeys(sessions) /\ h \in DOMAIN sessions
  BY <1>3, MapNames DEF Sessions!RotateSession, Sessions!CanRotate, Sessions!IsLive, LiveKeys
<1>7. sessions[h].logical = c /\ sessions[h].key = LoginKey(c)
  BY <1>1, <1>4, <1>6 DEF StoreOK, SessionOK
<1>8. /\ h # r
      /\ \A s : s \in DOMAIN sessions' <=> (s \in DOMAIN sessions /\ s # h) \/ s = r
      /\ \A s \in DOMAIN sessions' : s # r => sessions'[s] = sessions[s]
      /\ sessions' \in [DOMAIN sessions' -> Sessions!Session]
      /\ sessions'[r] = [next EXCEPT !.key = sessions[h].key]
      /\ \A a : a \in DOMAIN aliases' <=> (a \in DOMAIN aliases /\ a # r) \/ a = h
      /\ \A a \in DOMAIN aliases' : a # h => aliases'[a] = aliases[a]
      /\ aliases' \in [DOMAIN aliases' -> Sessions!Alias]
      /\ aliases'[h] = [logical |-> next.logical, expiresAt |-> next.expiresAt]
  <2>1. Sessions!RotateSession(h, r, next) /\ next.logical = sessions[h].logical
    BY <1>3, <1>7
  <2>2. /\ sessions \in [DOMAIN sessions -> Sessions!Session]
        /\ aliases \in [DOMAIN aliases -> Sessions!Alias]
    BY <1>1 DEF StoreOK
  <2> HIDE DEF Sessions!RotateSession
  <2> QED
    BY <1>4, <1>5, <2>1, <2>2, RotateSessionMoves
<1>9. /\ sessions'[r].logical = c /\ sessions'[r].key = LoginKey(c)
      /\ sessions'[r].expiresAt = Deadline(c)
  BY <1>3, <1>4, <1>7, <1>8 DEF Sessions!Session
<1>10. pc[c] = "done" /\ pc'[c] = "done"
  BY <1>1, <1>2, <1>4, GivenFacts DEF Advances
<1>11. LoginKey(c)' = LoginKey(c) /\ Deadline(c)' = Deadline(c)
  BY <1>1, <1>2, <1>4, <1>10, LineageLasts
<1>12. pc'[r] = "rotated" /\ req'[r] = req[r]
  BY <1>2 DEF Moved
<1>13. Born(h) /\ HandleLineage(h)' = c /\ h \in Delivered' /\ LineageIsLive(c)
  BY <1>1, <1>2, <1>4, <1>6, <1>7, DeliveredFacts, HandleLasts DEF LineageIsLive
<1>14. ASSUME NEW g, g # r, Born(g)'
       PROVE  Born(g)
  <2>1. g \in Requests
    BY <1>14, Kinds DEF Born
  <2> QED
    BY <1>2, <1>14, <2>1 DEF Born, Moved
<1>15. ASSUME NEW g, g # r, Born(g)
       PROVE  Born(g)'
  <2>1. g \in Requests
    BY <1>15, Kinds DEF Born
  <2> QED
    BY <1>2, <1>15, <2>1 DEF Born, Moved
<1>16. ASSUME NEW d, LineageIsLive(d)'
       PROVE  LineageIsLive(d)
  <2>1. PICK s \in DOMAIN sessions' : sessions'[s].logical = d /\ ~isExpiredRecord(sessions'[s])
    BY <1>16 DEF LineageIsLive, LiveKeys, ExpiredKeys, isExpiredRecord
  <2>2. CASE s = r
    BY <1>9, <1>13, <2>1, <2>2
  <2>3. CASE s # r
    BY <1>8, <2>1, <2>3 DEF LineageIsLive, LiveKeys, ExpiredKeys
  <2> QED
    BY <2>2, <2>3
<1>17. SessionOK(r)'
  <2>1. Born(r)' /\ HandleLineage(r)' = c
    BY <1>1, <1>3, <1>12 DEF Born, HandleLineage
  <2>2. /\ LoginKey(sessions[r].logical)' = LoginKey(c)
        /\ Deadline(sessions[r].logical)' = Deadline(c)
    BY <1>9, <1>11 DEF LoginKey, LoginOf, Deadline
  <2> QED
    BY <1>4, <1>9, <1>10, <2>1, <2>2 DEF SessionOK
<1>18. ASSUME NEW s \in DOMAIN sessions', s # r
       PROVE  SessionOK(s)'
  <2>1. s \in DOMAIN sessions /\ sessions'[s] = sessions[s] /\ SessionOK(s)
    BY <1>1, <1>8, <1>18 DEF StoreOK
  <2>2. /\ Born(s) /\ sessions[s].logical \in Callbacks
        /\ pc[sessions[s].logical] \in {"created", "done"}
    BY <2>1 DEF SessionOK
  <2>3. Born(s)' /\ pc'[sessions[s].logical] \in {"created", "done"}
    BY <1>1, <1>2, <1>15, <1>18, <2>2, Kinds DEF Moved
  <2> QED
    BY <1>1, <1>2, <2>1, <2>3, SessionLasts
<1>19. ASSUME NEW a \in DOMAIN aliases'
       PROVE  AliasOK(a)'
  <2>1. CASE a = h
    <3>1. aliases'[h].logical = c /\ aliases'[h].expiresAt = Deadline(c)
      <4>1. aliases'[h] = [logical |-> next.logical, expiresAt |-> next.expiresAt]
        BY <1>8
      <4>2. next.logical = c /\ next.expiresAt = Deadline(c)
        BY <1>3, <1>4
      <4>3. /\ aliases'[h].logical = next.logical
            /\ aliases'[h].expiresAt = next.expiresAt
        BY <4>1
      <4> QED
        BY <4>2, <4>3
    <3>2. Deadline(aliases[h].logical)' = Deadline(c)
      BY <1>11, <3>1 DEF Deadline
    <3> QED
      BY <1>13, <2>1, <3>1, <3>2 DEF AliasOK
  <2>2. CASE a # h
    BY <1>1, <1>2, <1>8, <2>2, AliasLasts DEF StoreOK
  <2> QED
    BY <2>1, <2>2
<1>20. ASSUME NEW g \in SessionIds
       PROVE  HandleOK(g)'
  <2> SUFFICES ASSUME Born(g)', LineageIsLive(HandleLineage(g))', g # r
               PROVE  g \in DOMAIN sessions' \cup DOMAIN aliases'
    BY <1>8 DEF HandleOK
  <2>1. PICK d : d = HandleLineage(g)
    OBVIOUS
  <2>2. Born(g) /\ HandleLineage(g)' = d
    BY <1>1, <1>2, <1>14, <2>1, HandleLasts
  <2>3. LineageIsLive(d)'
    BY <2>2 DEF LineageIsLive
  <2>4. g \in DOMAIN sessions \cup DOMAIN aliases
    BY <1>1, <1>16, <2>1, <2>2, <2>3 DEF StoreOK, HandleOK
  <2> QED
    BY <1>8, <2>4
<1>21. OneSessionPerLineage'
  <2> SUFFICES ASSUME NEW s \in DOMAIN sessions', NEW t \in DOMAIN sessions',
                      sessions'[s].logical = sessions'[t].logical
               PROVE  s = t
    BY DEF OneSessionPerLineage
  <2>1. \A u \in DOMAIN sessions' : u # r => sessions'[u].logical # c
    BY <1>1, <1>6, <1>7, <1>8 DEF StoreOK, OneSessionPerLineage
  <2>2. CASE s = r \/ t = r
    BY <1>9, <2>1, <2>2
  <2>3. CASE s # r /\ t # r
    <3>1. /\ s \in DOMAIN sessions /\ t \in DOMAIN sessions
          /\ sessions'[s] = sessions[s] /\ sessions'[t] = sessions[t]
      BY <1>8, <2>3
    <3> QED
      BY <1>1, <3>1 DEF StoreOK, OneSessionPerLineage
  <2> QED
    BY <2>2, <2>3
<1>22. DOMAIN sessions' \subseteq SessionIds /\ DOMAIN aliases' \subseteq SessionIds
  BY <1>1, <1>6, <1>8 DEF StoreOK, SessionIds
<1>23. StoreOK'
  BY <1>8, <1>17, <1>18, <1>19, <1>20, <1>21, <1>22 DEF StoreOK
<1>24. Ends
  <2>1. txns' = txns /\ codes' = codes
    BY DEF oneTimeVars
  <2>2. \A d \in Callbacks : d \in DOMAIN sessions' =>
          d \in DOMAIN sessions /\ sessions'[d] = sessions[d]
    BY <1>1, <1>8
  <2> QED
    BY <1>16, <2>1, <2>2 DEF Ends, LineagesEnd
<1>25. RefreshOK(r)'
  <2>1. Readable(r, h, next)
    BY <1>1, <1>3 DEF Readable, LineageRead
  <2>2. LineageRead(r)' /\ LoginKey(req[r].session.logical)' = LoginKey(c)
    BY <1>1, <1>2, <1>3, <2>1, RefreshHolds
  <2>3. LoginKey(c) # Undefined => req[r].proof = LoginKey(c)
    BY <1>1, <1>3 DEF RefreshOK
  <2> QED
    BY <1>12, <2>2, <2>3 DEF RefreshOK
<1>26. Own(r)' /\ ~(r \in Redeeming)' /\ ~(r \in Spending)'
  BY <1>1, <1>25 DEF Own, Redeeming, Spending
<1>27. Once' /\ JtisOK' /\ TxnsOK' /\ CodesOK'
  BY <1>1, <1>2, <1>26, OneTimeKept, TxnsShrink, CodesShrink, OnceKept, JtisElsewhere DEF IInv
<1> QED
  BY <1>1, <1>2, <1>23, <1>24, <1>26, <1>27, OthersWait

\* RefreshRotate keeps the invariant and revives nothing.
LEMMA RefreshRotateStep ==
  ASSUME IInv, NEW r \in Refreshes, RefreshRotate(r), now' = now
  PROVE  IInv' /\ Ends
<1>1. pc[r] = "granted" /\ Shape /\ r \in Requests /\ UNCHANGED oneTimeVars
  BY RefreshMoves DEF RefreshRotate, At, IInv
<1>2. CASE Goto(r, "refused") /\ UNCHANGED sessionVars
  BY <1>1, <1>2, MoveFacts, OneTimeKept, RefreshRefused
<1>3. CASE Sessions!RotateSession(req[r].handle, r, req[r].session) /\ Goto(r, "rotated")
  BY <1>1, <1>3, RefreshRotates
<1>4. CASE Sessions!RotateConflict(req[r].handle, r, req[r].session) /\ Goto(r, "refused")
  BY <1>1, <1>4, MoveFacts, GetSessionFades, RefreshRefused DEF Sessions!RotateConflict
<1> QED
  BY <1>2, <1>3, <1>4 DEF RefreshRotate

\* After the rotation a refresh goes on, or takes the lineage with it.
LEMMA RefreshGoesOn ==
  ASSUME IInv, NEW r \in Refreshes, pc[r] \in {"rotated", "confirmed"},
         NEW label \in {"confirmed", "ok"}, Goto(r, label),
         UNCHANGED <<sessionVars, oneTimeVars>>, now' = now
  PROVE  IInv' /\ Ends
<1>1. /\ r \in Requests /\ RequestsOK /\ LineageRead(r) /\ RefreshOK(r) /\ Fades
      /\ MayMove(r, label, req[r]) /\ Steady(r, label)
  BY RefreshMoves, OneTimeKept DEF IInv, RequestsOK, RefreshOK
<1>2. Moved(r, label, req[r])
  BY <1>1, MoveFacts DEF IInv
<1>3. Advances
  BY <1>1, <1>2, MovesAdvance
<1>4. Readable(r, req[r].handle, req[r].session)
  BY <1>1 DEF Readable, LineageRead
<1>5. LineageRead(r)' /\ LoginKey(req[r].session.logical)' = LoginKey(req[r].session.logical)
  BY <1>1, <1>2, <1>3, <1>4, RefreshHolds
<1>6. pc'[r] = label /\ req'[r] = req[r]
  BY <1>2 DEF Moved
<1>7. RefreshOK(r)'
  BY <1>1, <1>5, <1>6 DEF RefreshOK
<1> QED
  BY <1>1, <1>2, <1>7, RefreshStep

\* A refresh that fails after rotating deletes the lineage, which keeps the invariant.
LEMMA RefreshRollsBack ==
  ASSUME IInv, NEW r \in Refreshes, pc[r] \in {"rotated", "confirmed"}, Goto(r, "failed"),
         DeleteLineage(req[r].session.logical), now' = now
  PROVE  IInv' /\ Ends
<1>1. /\ r \in Requests /\ r \notin Logins /\ r \notin Callbacks /\ r \notin Exchanges
      /\ r \notin Logouts /\ r \notin Backchannels
      /\ RequestsOK /\ LineageRead(r) /\ RefreshOK(r) /\ MayMove(r, "failed", req[r])
  BY RefreshMoves DEF IInv, RequestsOK, RefreshOK
<1>2. Moved(r, "failed", req[r])
  BY <1>1, MoveFacts DEF IInv
<1>3. PICK c : c = req[r].session.logical
  OBVIOUS
<1>4. /\ Advances /\ StoreOK' /\ Ends /\ TxnsOK' /\ CodesOK' /\ ~LineageIsLive(c)'
      /\ UNCHANGED <<txns, codes, jtis>>
  BY <1>1, <1>2, <1>3, RollbackStore
<1>5. Readable(r, req[r].handle, req[r].session)
  BY <1>1 DEF Readable, LineageRead
<1>6. LineageRead(r)' /\ LoginKey(req[r].session.logical)' = LoginKey(c)
  BY <1>1, <1>2, <1>3, <1>4, <1>5, RefreshHolds
<1>7. pc'[r] = "failed" /\ req'[r] = req[r]
  BY <1>2 DEF Moved
<1>8. (~LineageIsLive(req[r].session.logical))'
  BY <1>3, <1>4, <1>7 DEF LineageIsLive
<1>9. LoginKey(c) # Undefined => req[r].proof = LoginKey(c)
  BY <1>1, <1>3 DEF RefreshOK
<1>10. RefreshOK(r)'
  BY <1>6, <1>7, <1>8, <1>9 DEF RefreshOK
<1>11. Own(r)' /\ ~(r \in Redeeming)' /\ ~(r \in Spending)'
  BY <1>1, <1>10 DEF Own, Redeeming, Spending
<1>12. Once' /\ JtisOK'
  BY <1>1, <1>2, <1>4, <1>11, OnceKept, JtisElsewhere DEF IInv
<1> QED
  BY <1>1, <1>2, <1>4, <1>11, <1>12, OthersWait

\* RefreshConfirm and RefreshIssue keep the invariant and revive nothing.
LEMMA RefreshEndStep ==
  ASSUME IInv, NEW r \in Refreshes, RefreshConfirm(r) \/ RefreshIssue(r), now' = now
  PROVE  IInv' /\ Ends
<1>1. pc[r] \in {"rotated", "confirmed"}
  BY DEF RefreshConfirm, RefreshIssue, At
<1>2. \/ Goto(r, "confirmed") /\ UNCHANGED <<sessionVars, oneTimeVars>>
      \/ Goto(r, "ok") /\ UNCHANGED <<sessionVars, oneTimeVars>>
      \/ Goto(r, "failed") /\ DeleteLineage(req[r].session.logical)
  BY DEF RefreshConfirm, RefreshIssue, Issue
<1> QED
  BY <1>1, <1>2, RefreshGoesOn, RefreshRollsBack

----------------------------------------------------------------------------
(***************************************************************************)
(* Logout.                                                                 *)
(***************************************************************************)
LEMMA LogoutMoves ==
  ASSUME NEW o \in Logouts
  PROVE  /\ o \in Requests /\ o \notin Logins /\ o \notin Callbacks /\ o \notin Exchanges
         /\ o \notin Refreshes /\ o \notin Backchannels
         /\ \A label, held : MayMove(o, label, held)
         /\ \A label : Steady(o, label)
  BY Kinds DEF MayMove, Steady

\* A step of a logout keeps the invariant if its own part is kept.
LEMMA LogoutStep ==
  ASSUME IInv, NEW o \in Logouts, NEW label, NEW held, Moved(o, label, held), now' = now,
         Fades, UNCHANGED oneTimeVars, LogoutOK(o)'
  PROVE  IInv' /\ Ends
<1>1. /\ o \in Requests /\ o \notin Logins /\ o \notin Callbacks /\ o \notin Exchanges
      /\ o \notin Refreshes /\ o \notin Backchannels
      /\ MayMove(o, label, held) /\ Steady(o, label)
  BY LogoutMoves
<1>2. Own(o)' /\ ~(o \in Redeeming)' /\ ~(o \in Spending)'
  BY <1>1 DEF Own, Redeeming, Spending
<1>3. Shrinks(txns, txns') /\ Shrinks(codes, codes') /\ jtis' = jtis
  BY OneTimeKept
<1>4. Once' /\ JtisOK'
  BY <1>1, <1>2, <1>3, OnceKept, JtisElsewhere DEF IInv
<1> QED
  BY <1>1, <1>2, <1>3, <1>4, QuietStep

\* A refused logout keeps the invariant.
LEMMA LogoutRefused ==
  ASSUME IInv, NEW o \in Logouts, Moved(o, "refused", req[o]), now' = now, Fades,
         UNCHANGED oneTimeVars
  PROVE  IInv' /\ Ends
<1>1. LogoutOK(o)'
  BY LogoutMoves, RefusedOwn DEF Own
<1> QED
  BY <1>1, LogoutStep

\* The handle a logout was given keeps its lineage.
LEMMA LogoutHolds ==
  ASSUME RequestsOK, NEW o \in Logouts, NEW h \in Delivered, NEW c, c = HandleLineage(h),
         NEW label, NEW held, Moved(o, label, held), held.handle = h
  PROVE  /\ Advances /\ c \in Callbacks /\ pc[c] = "done"
         /\ (req[o].handle \in Delivered)'
         /\ HandleLineage(req[o].handle)' = c
         /\ LoginKey(HandleLineage(req[o].handle))' = LoginKey(c)
<1>1. Advances
  BY LogoutMoves, MovesAdvance
<1>2. /\ Born(h) /\ c \in Callbacks /\ pc[c] = "done"
  BY DeliveredFacts, GivenFacts
<1>3. h \in Delivered' /\ HandleLineage(h)' = c /\ LoginKey(c)' = LoginKey(c)
  BY <1>1, <1>2, HandleLasts, LineageLasts
<1>4. req'[o].handle = h
  BY DEF Moved
<1>5. HandleLineage(req[o].handle)' = c
  BY <1>3, <1>4 DEF HandleLineage
<1>6. LoginKey(HandleLineage(req[o].handle))' = LoginKey(c)
  <2>1. LoginKey(HandleLineage(req[o].handle))' = req'[req'[c].login].key
    BY <1>5 DEF LoginKey, LoginOf
  <2> QED
    BY <1>3, <2>1 DEF LoginKey, LoginOf
<1> QED
  BY <1>1, <1>2, <1>3, <1>4, <1>5, <1>6

(***************************************************************************)
(* A handle that was given out resolves to its lineage as long as the      *)
(* lineage is live, and to nothing afterwards: alias and session have the  *)
(* same deadline.                                                          *)
(***************************************************************************)
LEMMA ResolveFacts ==
  ASSUME RequestsOK, StoreOK, NEW h \in Delivered, NEW c, c = HandleLineage(h),
         NEW context, context = Sessions!RevocationContext(h)
  PROVE  /\ context = Undefined => ~LineageIsLive(c)
         /\ context # Undefined => context.logical = c /\ context.key = LoginKey(c)
<1>1. /\ Born(h) /\ c \in Callbacks /\ h \in SessionIds
  BY DeliveredFacts, BornFacts
<1> DEFINE found == Sessions!HandleLogical(h)
           members == Sessions!LineageMembers(found)
<1>2. members = {s \in LiveKeys(sessions) : sessions[s].logical = found}
  BY MapNames DEF Sessions!LineageMembers
<1>3. found \in {c, Undefined}
  <2>1. h \in LiveKeys(sessions) => sessions[h].logical = c
    BY DEF StoreOK, SessionOK, LiveKeys
  <2>2. h \in LiveKeys(aliases) => aliases[h].logical = c
    BY DEF StoreOK, AliasOK, LiveKeys
  <2> QED
    BY <2>1, <2>2, MapNames DEF Sessions!HandleLogical, Sessions!IsLive
<1>4. ASSUME NEW s \in members
      PROVE  /\ s \in DOMAIN sessions /\ sessions[s] \in Sessions!Session
             /\ sessions[s].logical = c /\ sessions[s].key = LoginKey(c)
  <2>1. s \in DOMAIN sessions /\ sessions[s].logical = found /\ sessions[s] \in Sessions!Session
    BY <1>2, <1>4 DEF LiveKeys, StoreOK
  <2>2. sessions[s].logical # Undefined
    BY <2>1, RequestAssumption DEF Sessions!Session
  <2>3. sessions[s].logical = c
    BY <1>3, <2>1, <2>2
  <2> QED
    BY <2>1, <2>3 DEF StoreOK, SessionOK
<1>5. ASSUME LineageIsLive(c)
      PROVE  members # {}
  <2>1. PICK s \in LiveKeys(sessions) : sessions[s].logical = c
    BY <1>5 DEF LineageIsLive
  <2>2. s \in DOMAIN sessions /\ ~isExpiredRecord(sessions[s])
    BY <2>1 DEF LiveKeys, ExpiredKeys
  <2>3. h \in DOMAIN sessions \cup DOMAIN aliases
    BY <1>1, <1>5 DEF StoreOK, HandleOK
  <2>4. CASE h \in DOMAIN sessions
    <3>1. sessions[h].logical = c
      BY <2>4 DEF StoreOK, SessionOK
    <3>2. s = h
      BY <2>1, <2>2, <2>4, <3>1 DEF StoreOK, OneSessionPerLineage
    <3>3. found = c
      BY <2>1, <3>1, <3>2, MapNames DEF Sessions!HandleLogical, Sessions!IsLive
    <3> QED
      BY <1>2, <2>1, <3>3
  <2>5. CASE h \in DOMAIN aliases /\ h \notin DOMAIN sessions
    <3>1. aliases[h].logical = c /\ aliases[h].expiresAt = Deadline(c)
      BY <2>5 DEF StoreOK, AliasOK
    <3>2. sessions[s].expiresAt = Deadline(c)
      BY <2>1, <2>2 DEF StoreOK, SessionOK
    <3>3. ~isExpiredRecord(aliases[h])
      BY <2>2, <3>1, <3>2 DEF isExpiredRecord
    <3>4. h \in LiveKeys(aliases) /\ h \notin LiveKeys(sessions)
      BY <2>5, <3>3 DEF LiveKeys, ExpiredKeys
    <3>5. found = c
      BY <3>1, <3>4, MapNames DEF Sessions!HandleLogical, Sessions!IsLive
    <3> QED
      BY <1>2, <2>1, <3>5
  <2> QED
    BY <2>3, <2>4, <2>5
<1>6. CASE members = {}
  <2>1. context = Undefined
    BY <1>6 DEF Sessions!RevocationContext
  <2> QED
    BY <1>5, <1>6, <2>1
<1>7. CASE members # {}
  <2>1. PICK s \in members : context = Sessions!sessionRevocationContext(sessions[s])
    BY <1>7 DEF Sessions!RevocationContext
  <2>2. context = [logical |-> sessions[s].logical, provider |-> sessions[s].provider,
                   key |-> sessions[s].key]
    BY <2>1 DEF Sessions!sessionRevocationContext
  <2>3. context # Undefined
    <3>1. context \in [logical : SessionIds, provider : Providers \cup {Undefined},
                       key : Keys \cup {Undefined}]
      BY <1>4, <2>2 DEF Sessions!Session
    <3> QED
      BY <3>1, RequestAssumption
  <2> QED
    BY <1>4, <2>2, <2>3
<1> QED
  BY <1>6, <1>7

\* LogoutResolve keeps the invariant and revives nothing.
LEMMA LogoutResolveStep ==
  ASSUME IInv, NEW o \in Logouts, LogoutResolve(o), now' = now
  PROVE  IInv' /\ Ends
<1>1. /\ Shape /\ RequestsOK /\ StoreOK /\ o \in Requests /\ UNCHANGED oneTimeVars /\ Fades
      /\ sessions' = sessions
  BY LogoutMoves, OneTimeKept DEF LogoutResolve, IInv, sessionVars
<1>2. PICK h \in Delivered :
        Proceed(o, Sessions!SameLineageAuthority(Sessions!HandleLogical(h)), "context",
                [handle |-> h, context |-> Sessions!RevocationContext(h)])
  BY DEF LogoutResolve
<1>3. CASE Moved(o, "refused", req[o])
  BY <1>1, <1>3, LogoutRefused
<1>4. ASSUME NEW context, context = Sessions!RevocationContext(h), NEW held,
             held = [handle |-> h, context |-> context], Moved(o, "context", held)
      PROVE  IInv' /\ Ends
  <2>1. PICK c : c = HandleLineage(h)
    OBVIOUS
  <2>2. held.handle = h /\ held.context = context
    BY <1>4
  <2>3. /\ (req[o].handle \in Delivered)' /\ HandleLineage(req[o].handle)' = c
        /\ LoginKey(HandleLineage(req[o].handle))' = LoginKey(c)
    BY <1>1, <1>4, <2>1, <2>2, LogoutHolds
  <2>4. pc'[o] = "context" /\ req'[o] = held
    BY <1>4 DEF Moved
  <2>5. CASE context = Undefined
    <3>1. ~LineageIsLive(c)
      BY <1>1, <1>4, <2>1, <2>5, ResolveFacts
    <3>2. ~LineageIsLive(c)'
      BY <1>1, <3>1, LiveNames
    <3>3. ~LineageIsLive(HandleLineage(req[o].handle))'
      BY <2>3, <3>2 DEF LineageIsLive
    <3>4. LogoutOK(o)'
      BY <2>2, <2>3, <2>4, <2>5, <3>3 DEF LogoutOK
    <3> QED
      BY <1>1, <1>4, <3>4, LogoutStep
  <2>6. CASE context # Undefined
    <3>1. context.logical = c /\ context.key = LoginKey(c)
      BY <1>1, <1>4, <2>1, <2>6, ResolveFacts
    <3>2. ContextOK(o)'
      BY <2>2, <2>3, <2>4, <3>1 DEF ContextOK
    <3>3. LogoutOK(o)'
      BY <2>2, <2>3, <2>4, <2>6, <3>2 DEF LogoutOK
    <3> QED
      BY <1>1, <1>4, <3>3, LogoutStep
  <2> QED
    BY <2>5, <2>6
<1> QED
  BY <1>1, <1>2, <1>3, <1>4, ProceedFacts

\* LogoutRead keeps the invariant and revives nothing.
LEMMA LogoutReadStep ==
  ASSUME IInv, NEW o \in Logouts, LogoutRead(o), now' = now
  PROVE  IInv' /\ Ends
<1> DEFINE h == req[o].handle
           context == req[o].context
           live == Sessions!IsLive(h)
<1>1. /\ pc[o] = "context" /\ Shape /\ RequestsOK /\ StoreOK /\ o \in Requests
      /\ UNCHANGED oneTimeVars /\ Fades /\ LogoutOK(o) /\ h \in Delivered
  BY LogoutMoves, GetSessionFades DEF LogoutRead, At, IInv, RequestsOK, LogoutOK
<1>2. PICK c : c = HandleLineage(h)
  OBVIOUS
<1>3. CASE context = Undefined /\ Goto(o, IF live THEN "refused" ELSE "absent")
  <2>1. PICK label \in {"refused", "absent"} : Goto(o, label)
    BY <1>3
  <2>2. Moved(o, label, req[o])
    BY <1>1, <2>1, MoveFacts
  <2>3. CASE label = "refused"
    BY <1>1, <2>2, <2>3, LogoutRefused
  <2>4. CASE label = "absent"
    <3>1. /\ (req[o].handle \in Delivered)' /\ HandleLineage(req[o].handle)' = c
      BY <1>1, <1>2, <2>2, LogoutHolds
    <3>2. ~LineageIsLive(c)
      BY <1>1, <1>2, <1>3 DEF LogoutOK
    <3>3. ~LineageIsLive(c)'
      BY <1>1, <3>2, FadesWanes, WanesLive DEF LineageIsLive
    <3>4. ~LineageIsLive(HandleLineage(req[o].handle))'
      BY <3>1, <3>3 DEF LineageIsLive
    <3>5. pc'[o] = "absent"
      BY <2>2, <2>4 DEF Moved
    <3>6. LogoutOK(o)'
      BY <3>1, <3>4, <3>5 DEF LogoutOK
    <3> QED
      BY <1>1, <2>2, <3>6, LogoutStep
  <2> QED
    BY <2>3, <2>4
<1>4. CASE /\ context # Undefined
           /\ Proceed(o,
                /\ assertIdentity(o, context.provider)
                /\ assertDeviceBindingPolicy(o, context.key)
                /\ live => assertVaultRevocationContextMatches(
                             Sessions!sessionRevocationContext(sessions[h]), context),
                "admitted", [handle |-> h, context |-> context, session |-> live])
  <2>1. CASE Moved(o, "refused", req[o])
    BY <1>1, <2>1, LogoutRefused
  <2>2. ASSUME NEW held, held = [handle |-> h, context |-> context, session |-> live],
               Moved(o, "admitted", held), assertDeviceBindingPolicy(o, context.key)
        PROVE  IInv' /\ Ends
    <3>1. held.handle = h /\ held.context = context
      BY <2>2
    <3>2. /\ (req[o].handle \in Delivered)' /\ HandleLineage(req[o].handle)' = c
          /\ LoginKey(HandleLineage(req[o].handle))' = LoginKey(c)
      BY <1>1, <1>2, <2>2, <3>1, LogoutHolds
    <3>3. context.logical = c /\ context.key = LoginKey(c)
      BY <1>1, <1>2, <1>4 DEF LogoutOK, ContextOK
    <3>4. LoginKey(c) # Undefined => Config[o].policy # "disabled"
      BY <2>2, <3>3 DEF assertDeviceBindingPolicy
    <3>5. pc'[o] = "admitted" /\ req'[o].handle = h /\ req'[o].context = context
      BY <2>2, <3>1 DEF Moved
    <3>6. ContextOK(o)'
      BY <3>2, <3>3, <3>5 DEF ContextOK
    <3>7. LogoutOK(o)'
      BY <3>2, <3>4, <3>5, <3>6 DEF LogoutOK
    <3> QED
      BY <1>1, <2>2, <3>7, LogoutStep
  <2> QED
    BY <1>1, <1>4, <2>1, <2>2, ProceedFacts
<1> QED
  BY <1>3, <1>4 DEF LogoutRead

\* LogoutRecheck keeps the invariant and revives nothing.
LEMMA LogoutRecheckStep ==
  ASSUME IInv, NEW o \in Logouts, LogoutRecheck(o), now' = now
  PROVE  IInv' /\ Ends
<1>1. /\ pc[o] = "admitted" /\ Shape /\ RequestsOK /\ StoreOK /\ o \in Requests
      /\ LogoutOK(o) /\ req[o].handle \in Delivered
  BY LogoutMoves DEF LogoutRecheck, At, IInv, RequestsOK, LogoutOK
<1>2. PICK h, c, latest : /\ h = req[o].handle /\ c = HandleLineage(h)
                          /\ latest = Sessions!RevocationContext(h)
  OBVIOUS
<1>3. /\ req[o].context.logical = c /\ req[o].context.key = LoginKey(c)
      /\ LoginKey(c) # Undefined => Config[o].policy # "disabled"
  BY <1>1, <1>2 DEF LogoutOK, ContextOK
<1>4. PICK proof \in Proofs(o) :
        /\ UNCHANGED <<sessionVars, oneTimeVars>>
        /\ \/ Goto(o, "refused")
           \/ latest = Undefined /\ Goto(o, "absent")
           \/ /\ ProofAccepted(o, req[o].context.key, proof)
              /\ latest # Undefined
              /\ GotoWith(o, "confirmed",
                   [handle |-> h, context |-> latest, session |-> req[o].session,
                    proof |-> proof])
  BY <1>2 DEF LogoutRecheck
<1>5. /\ Fades /\ sessions' = sessions /\ UNCHANGED oneTimeVars
  BY <1>4, OneTimeKept DEF sessionVars
<1>6. CASE Goto(o, "refused")
  BY <1>1, <1>5, <1>6, MoveFacts, LogoutRefused
<1>7. CASE latest = Undefined /\ Goto(o, "absent")
  <2>1. Moved(o, "absent", req[o])
    BY <1>1, <1>7, MoveFacts
  <2>2. /\ (req[o].handle \in Delivered)' /\ HandleLineage(req[o].handle)' = c
    BY <1>1, <1>2, <2>1, LogoutHolds
  <2>3. ~LineageIsLive(c)
    BY <1>1, <1>2, <1>7, ResolveFacts
  <2>4. ~LineageIsLive(c)'
    BY <1>5, <2>3, LiveNames
  <2>5. ~LineageIsLive(HandleLineage(req[o].handle))'
    BY <2>2, <2>4 DEF LineageIsLive
  <2>6. pc'[o] = "absent"
    BY <2>1 DEF Moved
  <2>7. LogoutOK(o)'
    BY <2>2, <2>5, <2>6 DEF LogoutOK
  <2> QED
    BY <1>5, <2>1, <2>7, LogoutStep
<1>8. ASSUME ProofAccepted(o, req[o].context.key, proof), latest # Undefined, NEW held,
             held = [handle |-> h, context |-> latest, session |-> req[o].session,
                     proof |-> proof],
             GotoWith(o, "confirmed", held)
      PROVE  IInv' /\ Ends
  <2>1. Moved(o, "confirmed", held)
    BY <1>1, <1>8, MoveFacts
  <2>2. held.handle = h /\ held.context = latest /\ held.proof = proof
    BY <1>8
  <2>3. /\ (req[o].handle \in Delivered)' /\ HandleLineage(req[o].handle)' = c
        /\ LoginKey(HandleLineage(req[o].handle))' = LoginKey(c)
    BY <1>1, <1>2, <2>1, <2>2, LogoutHolds
  <2>4. latest.logical = c /\ latest.key = LoginKey(c)
    BY <1>1, <1>2, <1>8, ResolveFacts
  <2>5. LoginKey(c) # Undefined => proof = LoginKey(c)
    BY <1>3, <1>8 DEF ProofAccepted
  <2>6. pc'[o] = "confirmed" /\ req'[o].context = latest /\ req'[o].proof = proof
    BY <2>1, <2>2 DEF Moved
  <2>7. ContextOK(o)'
    BY <2>3, <2>4, <2>6 DEF ContextOK
  <2>8. LogoutOK(o)'
    BY <1>3, <2>3, <2>5, <2>6, <2>7 DEF LogoutOK
  <2> QED
    BY <1>5, <2>1, <2>8, LogoutStep
<1> QED
  BY <1>4, <1>6, <1>7, <1>8

\* LogoutDelete keeps the invariant and revives nothing.
LEMMA LogoutDeleteStep ==
  ASSUME IInv, NEW o \in Logouts, LogoutDelete(o), now' = now
  PROVE  IInv' /\ Ends
<1>1. /\ pc[o] = "confirmed" /\ Shape /\ RequestsOK /\ LogoutOK(o)
      /\ req[o].handle \in Delivered
      /\ o \in Requests /\ o \notin Logins /\ o \notin Callbacks /\ o \notin Exchanges
      /\ o \notin Refreshes /\ o \notin Backchannels
      /\ MayMove(o, "done", req[o])
  BY LogoutMoves DEF LogoutDelete, At, IInv, RequestsOK, LogoutOK
<1>2. PICK c : c = HandleLineage(req[o].handle)
  OBVIOUS
<1>3. /\ req[o].context.logical = c /\ req[o].context.key = LoginKey(c)
      /\ LoginKey(c) # Undefined => Config[o].policy # "disabled"
      /\ LoginKey(c) # Undefined => req[o].proof = LoginKey(c)
  BY <1>1, <1>2 DEF LogoutOK, ContextOK
<1>4. CASE Goto(o, "refused") /\ UNCHANGED <<sessionVars, oneTimeVars>>
  BY <1>1, <1>4, MoveFacts, OneTimeKept, LogoutRefused
<1>5. CASE Goto(o, "done") /\ DeleteLineage(req[o].context.logical)
  <2>1. Moved(o, "done", req[o]) /\ DeleteLineage(c)
    BY <1>1, <1>3, <1>5, MoveFacts
  <2>2. /\ Advances /\ StoreOK' /\ Ends /\ TxnsOK' /\ CodesOK' /\ ~LineageIsLive(c)'
        /\ UNCHANGED <<txns, codes, jtis>>
    BY <1>1, <2>1, RollbackStore
  <2>3. /\ (req[o].handle \in Delivered)' /\ HandleLineage(req[o].handle)' = c
        /\ LoginKey(HandleLineage(req[o].handle))' = LoginKey(c)
    BY <1>1, <1>2, <2>1, LogoutHolds
  <2>4. pc'[o] = "done" /\ req'[o] = req[o]
    BY <2>1 DEF Moved
  <2>5. ~LineageIsLive(HandleLineage(req[o].handle))'
    BY <2>2, <2>3 DEF LineageIsLive
  <2>6. ContextOK(o)'
    BY <1>3, <2>3, <2>4 DEF ContextOK
  <2>7. LogoutOK(o)'
    BY <1>3, <2>3, <2>4, <2>5, <2>6 DEF LogoutOK
  <2>8. Own(o)' /\ ~(o \in Redeeming)' /\ ~(o \in Spending)'
    BY <1>1, <2>7 DEF Own, Redeeming, Spending
  <2>9. Once' /\ JtisOK'
    BY <1>1, <2>1, <2>2, <2>8, OnceKept, JtisElsewhere DEF IInv
  <2> QED
    BY <1>1, <2>1, <2>2, <2>8, <2>9, OthersWait
<1> QED
  BY <1>4, <1>5 DEF LogoutDelete

----------------------------------------------------------------------------
(***************************************************************************)
(* Back-channel logout.                                                    *)
(***************************************************************************)
LEMMA BackchannelMoves ==
  ASSUME NEW b \in Backchannels
  PROVE  /\ b \in Requests /\ b \notin Logins /\ b \notin Callbacks /\ b \notin Exchanges
         /\ b \notin Refreshes /\ b \notin Logouts
         /\ \A label, held : MayMove(b, label, held)
         /\ \A label : Steady(b, label)
  BY Kinds DEF MayMove, Steady

\* A step of a back-channel logout keeps the invariant if its own part is kept.
LEMMA BackchannelStep ==
  ASSUME IInv, NEW b \in Backchannels, NEW label, NEW held, Moved(b, label, held), now' = now,
         Fades, UNCHANGED <<txns, codes>>, JtisOK', BackchannelOK(b)'
  PROVE  IInv' /\ Ends
<1>1. /\ b \in Requests /\ b \notin Logins /\ b \notin Callbacks /\ b \notin Exchanges
      /\ b \notin Refreshes /\ b \notin Logouts
      /\ MayMove(b, label, held) /\ Steady(b, label)
  BY BackchannelMoves
<1>2. Own(b)' /\ ~(b \in Redeeming)' /\ ~(b \in Spending)'
  BY <1>1 DEF Own, Redeeming, Spending
<1>3. Shrinks(txns, txns') /\ Shrinks(codes, codes')
  BY OneTimeKept
<1>4. Once'
  BY <1>1, <1>2, OnceKept DEF IInv
<1> QED
  BY <1>1, <1>2, <1>3, <1>4, QuietStep

\* Requests that present one token agree on it and on its key.
LEMMA PresentationFacts ==
  ASSUME NEW b \in Backchannels
  PROVE  /\ b \in Presentations(b) /\ Presentations(b) \subseteq Backchannels
         /\ buildBackchannelLogoutReplayKey(b) \in Providers \X Backchannels
         /\ Token[b].expiresAt \in Nat
         /\ \A d \in Backchannels :
              d \in Presentations(b) <=>
                buildBackchannelLogoutReplayKey(d) = buildBackchannelLogoutReplayKey(b)
         /\ \A d \in Presentations(b) :
              Token[d].expiresAt = Token[b].expiresAt /\ Presentations(d) = Presentations(b)
<1>1. b \in Presentations(b) /\ Presentations(b) \subseteq Backchannels
  BY DEF Presentations
<1>2. Config[b].provider \in Providers /\ Token[b].jti \in Backchannels /\ Token[b].expiresAt \in Nat
  BY Kinds, VaultAssumption
<1>3. \A d \in Backchannels :
        d \in Presentations(b) <=>
          buildBackchannelLogoutReplayKey(d) = buildBackchannelLogoutReplayKey(b)
  BY DEF Presentations, buildBackchannelLogoutReplayKey
<1>4. \A d \in Presentations(b) : Token[d] = Token[b]
  BY VaultAssumption DEF Presentations
<1>5. \A d \in Presentations(b) : Presentations(d) = Presentations(b)
  BY DEF Presentations
<1>6. buildBackchannelLogoutReplayKey(b) \in Providers \X Backchannels
  BY <1>2 DEF buildBackchannelLogoutReplayKey
<1> QED
  BY <1>1, <1>2, <1>3, <1>4, <1>5, <1>6

\* A step in which no token is reserved.
LEMMA JtisKept ==
  ASSUME IInv, NEW b \in Backchannels, NEW label, NEW held, Moved(b, label, held), now' = now,
         jtis' = jtis, Presented(b)' <=> Presented(b), Presented(b) => held.owner = req[b].owner
  PROVE  JtisOK'
<1>1. ASSUME NEW d \in Backchannels
      PROVE  /\ Presented(d)' <=> Presented(d)
             /\ Presented(d) => req'[d].owner = req[d].owner
  BY Kinds DEF Moved, Presented
<1>2. \A d \in Backchannels :
        /\ Presentations(d)' = Presentations(d) /\ Presentations(d) \subseteq Backchannels
        /\ buildBackchannelLogoutReplayKey(d)' = buildBackchannelLogoutReplayKey(d)
  BY DEF Presentations, buildBackchannelLogoutReplayKey
<1>3. DOMAIN jtis' \subseteq Providers \X Backchannels
  BY DEF IInv, JtisOK
<1>4. ASSUME NEW d \in Backchannels, NEW key, key = buildBackchannelLogoutReplayKey(d)
      PROVE  /\ key \in DOMAIN jtis' =>
                  /\ jtis'[key].expiresAt = Token[d].expiresAt
                  /\ \E x \in Presentations(d) : Presented(x)' /\ req'[x].owner
             /\ Presented(d)' /\ now' < Token[d].expiresAt => key \in DOMAIN jtis'
  BY <1>1, <1>2, <1>4 DEF IInv, JtisOK
<1>5. ASSUME NEW x \in Backchannels, NEW d \in Backchannels, d \in Presentations(x),
             Presented(x)', req'[x].owner, Presented(d)', req'[d].owner
      PROVE  x = d
  BY <1>1, <1>5 DEF IInv, JtisOK
<1> QED
  BY <1>2, <1>3, <1>4, <1>5 DEF JtisOK

\* BackchannelVerify keeps the invariant and revives nothing.
LEMMA BackchannelVerifyStep ==
  ASSUME IInv, NEW b \in Backchannels, BackchannelVerify(b), now' = now
  PROVE  IInv' /\ Ends
<1>1. /\ pc[b] = "idle" /\ Shape /\ b \in Requests /\ Fades /\ UNCHANGED <<txns, codes, jtis>>
  BY BackchannelMoves, OneTimeKept DEF BackchannelVerify, At, IInv, oneTimeVars
<1>2. PICK label, held : label \in {"refused", "verified"} /\ Moved(b, label, held)
  BY <1>1, ProceedFacts DEF BackchannelVerify
<1>3. ~Presented(b) /\ ~Presented(b)' /\ BackchannelOK(b)'
  BY <1>1, <1>2 DEF Presented, BackchannelOK, Moved
<1>4. JtisOK'
  BY <1>1, <1>2, <1>3, JtisKept
<1> QED
  BY <1>1, <1>2, <1>3, <1>4, BackchannelStep

(***************************************************************************)
(* The store tells the first presentation of a token that it is the first, *)
(* and keeps the reservation while the token could still be presented.     *)
(***************************************************************************)
LEMMA ReserveFacts ==
  ASSUME NEW key, NEW expiresAt,
         OneTime!ConsumeBackchannelLogoutTokenJti(key, expiresAt)
  PROVE  /\ UNCHANGED <<txns, codes>>
         /\ DOMAIN jtis' \subseteq DOMAIN jtis \cup {key}
         /\ LiveKeys(jtis) \subseteq DOMAIN jtis'
         /\ OneTime!FirstUse(key, expiresAt) =>
              key \in DOMAIN jtis' /\ jtis'[key].expiresAt = expiresAt
         /\ ~OneTime!FirstUse(key, expiresAt) => DOMAIN jtis' \subseteq DOMAIN jtis
         /\ \A k \in DOMAIN jtis' :
              k \in DOMAIN jtis => \/ jtis'[k] = jtis[k]
                                   \/ k = key /\ OneTime!FirstUse(key, expiresAt)
<1> DEFINE first == OneTime!FirstUse(key, expiresAt)
<1>1. PICK P \in OneTime!Sweeps(jtis) :
         jtis' = IF first THEN OneTime!With(OneTime!Without(jtis, P), key, [expiresAt |-> expiresAt])
                 ELSE OneTime!Without(jtis, P)
  BY DEF OneTime!ConsumeBackchannelLogoutTokenJti
<1>2. P \subseteq ExpiredKeys(jtis)
  BY MapNames DEF OneTime!Sweeps
<1> DEFINE kept == Without(jtis, P)
<1>3. jtis' = IF first THEN With(kept, key, [expiresAt |-> expiresAt]) ELSE kept
  BY <1>1, MapNames
<1>4. /\ Shrinks(jtis, kept)
      /\ \A k : k \in DOMAIN kept <=> k \in DOMAIN jtis /\ k \notin P
  BY WithoutFacts
<1>5. UNCHANGED <<txns, codes>>
  BY DEF OneTime!ConsumeBackchannelLogoutTokenJti
<1> HIDE DEF kept, first
<1>6. LiveKeys(jtis) \subseteq DOMAIN kept
  BY <1>2, <1>4 DEF LiveKeys
<1>7. CASE first
  <2>1. /\ \A k : k \in DOMAIN jtis' <=> k \in DOMAIN kept \/ k = key
        /\ jtis'[key] = [expiresAt |-> expiresAt]
        /\ \A k \in DOMAIN kept : k # key => jtis'[k] = kept[k]
    BY <1>3, <1>7, WithFacts
  <2> QED
    BY <1>4, <1>5, <1>6, <1>7, <2>1 DEF Shrinks, first
<1>8. CASE ~first
  BY <1>3, <1>4, <1>5, <1>6, <1>8 DEF Shrinks, first
<1> QED
  BY <1>7, <1>8

\* BackchannelReserve keeps the invariant and revives nothing.
LEMMA BackchannelReserveStep ==
  ASSUME IInv, NEW b \in Backchannels, BackchannelReserve(b), now' = now
  PROVE  IInv' /\ Ends
<1>1. /\ pc[b] = "verified" /\ Shape /\ JtisOK /\ b \in Requests /\ Fades
  BY BackchannelMoves, OneTimeKept DEF BackchannelReserve, At, IInv
<1>2. PICK key, first : /\ key = buildBackchannelLogoutReplayKey(b)
                        /\ first = OneTime!FirstUse(key, Token[b].expiresAt)
  OBVIOUS
<1>3. PICK held : /\ held = [owner |-> first, replay |-> req[b].replay]
                  /\ GotoWith(b, "reserved", held)
                  /\ OneTime!ConsumeBackchannelLogoutTokenJti(key, Token[b].expiresAt)
  BY <1>2 DEF BackchannelReserve
<1>4. Moved(b, "reserved", held)
  BY <1>1, <1>3, MoveFacts
<1>5. /\ pc'[b] = "reserved" /\ req'[b].owner = first
      /\ \A d \in Backchannels : d # b => pc'[d] = pc[d] /\ req'[d] = req[d]
  BY <1>3, <1>4, Kinds DEF Moved
<1>6. /\ UNCHANGED <<txns, codes>>
      /\ DOMAIN jtis' \subseteq DOMAIN jtis \cup {key}
      /\ LiveKeys(jtis) \subseteq DOMAIN jtis'
      /\ first => key \in DOMAIN jtis' /\ jtis'[key].expiresAt = Token[b].expiresAt
      /\ ~first => DOMAIN jtis' \subseteq DOMAIN jtis
      /\ \A k \in DOMAIN jtis' :
           k \in DOMAIN jtis => jtis'[k] = jtis[k] \/ (k = key /\ first)
  BY <1>2, <1>3, ReserveFacts
<1>7. first = (Token[b].expiresAt > now /\ key \notin LiveKeys(jtis))
  BY <1>2, MapNames DEF OneTime!FirstUse
<1>8. ~Presented(b) /\ Presented(b)' /\ BackchannelOK(b)'
  BY <1>1, <1>5, <1>7 DEF Presented, BackchannelOK
<1>9. \A d \in Backchannels : Presented(d) => d # b /\ Presented(d)' /\ req'[d] = req[d]
  BY <1>5, <1>8 DEF Presented
<1>10. \A d \in Backchannels : Presented(d)' => d = b \/ Presented(d)
  BY <1>5 DEF Presented
<1>11. \A d \in Backchannels :
         /\ Presentations(d)' = Presentations(d)
         /\ buildBackchannelLogoutReplayKey(d)' = buildBackchannelLogoutReplayKey(d)
  BY DEF Presentations, buildBackchannelLogoutReplayKey
<1>12. now \in Nat /\ now' = now
  BY <1>1, ClockAssumption DEF Shape
<1>13. ASSUME NEW d \in Backchannels, NEW k, k = buildBackchannelLogoutReplayKey(d),
              k \in DOMAIN jtis, now < Token[d].expiresAt
       PROVE  k \in LiveKeys(jtis)
  <2>1. jtis[k].expiresAt = Token[d].expiresAt /\ Token[d].expiresAt \in Nat
    BY <1>1, <1>13, PresentationFacts DEF JtisOK
  <2> QED
    BY <1>12, <1>13, <2>1 DEF LiveKeys, ExpiredKeys, isExpiredRecord
<1>14. DOMAIN jtis' \subseteq Providers \X Backchannels
  BY <1>1, <1>2, <1>6, PresentationFacts DEF JtisOK
<1>15. ASSUME NEW d \in Backchannels, NEW k, k = buildBackchannelLogoutReplayKey(d),
              k \in DOMAIN jtis'
       PROVE  /\ jtis'[k].expiresAt = Token[d].expiresAt
              /\ \E x \in Presentations(d) : Presented(x)' /\ req'[x].owner
  <2>1. CASE k = key /\ first
    <3>1. d \in Presentations(b) /\ b \in Presentations(d)
      BY <1>2, <1>15, <2>1, PresentationFacts
    <3>2. Token[d].expiresAt = Token[b].expiresAt
      BY <3>1, PresentationFacts
    <3> QED
      BY <1>5, <1>6, <1>8, <2>1, <3>1, <3>2
  <2>2. CASE ~(k = key /\ first)
    <3>1. k \in DOMAIN jtis /\ jtis'[k] = jtis[k]
      BY <1>6, <1>15, <2>2
    <3>2. /\ jtis[k].expiresAt = Token[d].expiresAt
          /\ \E x \in Presentations(d) : Presented(x) /\ req[x].owner
      BY <1>1, <1>15, <3>1 DEF JtisOK
    <3> QED
      BY <1>9, <3>1, <3>2, PresentationFacts
  <2> QED
    BY <2>1, <2>2
<1>16. ASSUME NEW d \in Backchannels, NEW k, k = buildBackchannelLogoutReplayKey(d),
              Presented(d)', now < Token[d].expiresAt
       PROVE  k \in DOMAIN jtis'
  <2>1. CASE d = b
    <3>1. Token[b].expiresAt \in Nat /\ Token[b].expiresAt > now /\ k = key
      BY <1>2, <1>12, <1>16, <2>1, PresentationFacts
    <3> QED
      BY <1>6, <1>7, <3>1
  <2>2. CASE d # b
    <3>1. k \in DOMAIN jtis
      BY <1>1, <1>10, <1>16, <2>2 DEF JtisOK
    <3> QED
      BY <1>6, <1>13, <1>16, <3>1
  <2> QED
    BY <2>1, <2>2
<1>17. ASSUME NEW d \in Backchannels, d \in Presentations(b), Presented(d), first
       PROVE  FALSE
  <2>1. /\ buildBackchannelLogoutReplayKey(d) = key /\ Token[d].expiresAt = Token[b].expiresAt
        /\ Token[b].expiresAt \in Nat
    BY <1>2, <1>17, PresentationFacts
  <2>2. now < Token[d].expiresAt /\ key \notin LiveKeys(jtis)
    BY <1>7, <1>12, <1>17, <2>1
  <2>3. key \in DOMAIN jtis
    BY <1>1, <1>17, <2>1, <2>2 DEF JtisOK
  <2> QED
    BY <1>13, <1>17, <2>1, <2>2, <2>3
<1>18. ASSUME NEW x \in Backchannels, NEW d \in Backchannels, d \in Presentations(x),
              Presented(x)', req'[x].owner, Presented(d)', req'[d].owner
       PROVE  x = d
  <2>1. x \in Presentations(d)
    BY <1>18, PresentationFacts
  <2>2. CASE x # b /\ d # b
    BY <1>1, <1>9, <1>10, <1>18, <2>2 DEF JtisOK
  <2>3. CASE x = b /\ d # b
    BY <1>5, <1>10, <1>17, <1>18, <2>3
  <2>4. CASE x # b /\ d = b
    BY <1>5, <1>10, <1>17, <1>18, <2>1, <2>4
  <2> QED
    BY <2>2, <2>3, <2>4
<1>19. JtisOK'
  BY <1>11, <1>12, <1>14, <1>15, <1>16, <1>18 DEF JtisOK
<1> QED
  BY <1>1, <1>4, <1>6, <1>8, <1>19, BackchannelStep

\* BackchannelRevoke keeps the invariant and revives nothing.
LEMMA BackchannelRevokeStep ==
  ASSUME IInv, NEW b \in Backchannels, BackchannelRevoke(b), now' = now
  PROVE  IInv' /\ Ends
<1>1. /\ pc[b] = "reserved" /\ Shape /\ b \in Requests /\ UNCHANGED <<txns, codes, jtis>>
      /\ Presented(b) /\ req[b].owner \in BOOLEAN
  BY BackchannelMoves
     DEF BackchannelRevoke, At, IInv, oneTimeVars, RequestsOK, BackchannelOK, Presented
<1>2. Fades
  BY DeleteMatchingFades, OneTimeKept DEF BackchannelRevoke
<1>3. PICK label, held :
        label \in {"failed", "done"} /\ Moved(b, label, held) /\ held.owner = req[b].owner
  <2>1. CASE Goto(b, "failed")
    BY <1>1, <2>1, MoveFacts
  <2>2. ASSUME NEW held, GotoWith(b, "done", held),
               held = [owner |-> req[b].owner, replay |-> req[b].replay,
                       revoked |-> Cardinality(Targets(b)),
                       notified |-> req[b].owner \/ Targets(b) # {}]
        PROVE  Moved(b, "done", held) /\ held.owner = req[b].owner
    BY <1>1, <2>2, MoveFacts
  <2> QED
    BY <2>1, <2>2 DEF BackchannelRevoke
<1>4. pc'[b] \in {"failed", "done"} /\ req'[b].owner = req[b].owner
  BY <1>3 DEF Moved
<1>5. Presented(b)' /\ BackchannelOK(b)'
  BY <1>1, <1>4 DEF Presented, BackchannelOK
<1>6. JtisOK'
  BY <1>1, <1>3, <1>5, JtisKept
<1> QED
  BY <1>1, <1>2, <1>3, <1>5, <1>6, BackchannelStep

----------------------------------------------------------------------------
(***************************************************************************)
(* Steps in which no request moves: the clock ticks, or nothing happens.   *)
(***************************************************************************)
LEMMA StillStep ==
  ASSUME IInv, UNCHANGED <<sessionVars, oneTimeVars, pc, req>>, now' \in 0 .. MaxTime,
         now <= now'
  PROVE  IInv' /\ Ends
<1>1. /\ pc' = pc /\ req' = req /\ UNCHANGED <<txns, codes, jtis>>
      /\ \A q \in Requests : Waits(q)
  BY DEF Waits, oneTimeVars
<1>2. now \in Nat /\ now' \in Nat
  BY ClockAssumption DEF IInv, Shape
<1>3. Advances
  BY <1>1 DEF Advances
<1>4. Wanes
  <2>1. Fades
    BY OneTimeKept
  <2>2. aliases' = aliases
    BY DEF sessionVars
  <2> QED
    BY <1>2, <2>1, <2>2 DEF Wanes, Fades
<1>5. StoreOK'
  <2>1. \A h : Born(h)' <=> Born(h)
    BY <1>1 DEF Born
  <2>2. \A s \in DOMAIN sessions' : Born(s)' /\ pc'[sessions'[s].logical] \in {"created", "done"}
    BY <1>1, <2>1 DEF IInv, StoreOK, SessionOK, sessionVars
  <2> QED
    BY <1>3, <1>4, <2>1, <2>2, StoreWanes DEF IInv
<1>6. Ends
  BY <1>1, <1>4, WanesEnds DEF IInv, Ends
<1>7. TxnsOK' /\ CodesOK'
  BY <1>1, <1>3, OneTimeKept, TxnsShrink, CodesShrink DEF IInv
<1>8. JtisOK'
  BY <1>1, <1>2, Kinds, JtisWait DEF IInv
<1>9. Once'
  BY <1>1 DEF IInv, Once, Redeeming, Spending, LoginOf
<1>10. RequestsOK'
  <2>1. RequestsOK
    BY DEF IInv
  <2>2. ASSUME NEW l \in Logins PROVE LoginOK(l)'
    BY <1>1, <2>1, Kinds, LoginWaits DEF RequestsOK
  <2>3. ASSUME NEW c \in Callbacks PROVE CallbackOK(c)'
    BY <1>1, <1>3, <1>6, <2>1, Kinds, CallbackWaits DEF RequestsOK
  <2>4. ASSUME NEW e \in Exchanges PROVE ExchangeOK(e)'
    BY <1>1, <1>3, <1>6, <2>1, Kinds, ExchangeWaits
  <2>5. ASSUME NEW r \in Refreshes PROVE RefreshOK(r)'
    BY <1>1, <1>3, <1>6, <2>1, Kinds, RefreshWaits
  <2>6. ASSUME NEW o \in Logouts PROVE LogoutOK(o)'
    BY <1>1, <1>3, <1>6, <2>1, Kinds, LogoutWaits
  <2>7. ASSUME NEW b \in Backchannels PROVE BackchannelOK(b)'
    BY <1>1, <2>1, Kinds, BackchannelWaits DEF RequestsOK
  <2> QED
    BY <2>2, <2>3, <2>4, <2>5, <2>6, <2>7 DEF RequestsOK
<1>11. Shape'
  BY <1>1 DEF IInv, Shape
<1> QED
  BY <1>5, <1>6, <1>7, <1>8, <1>9, <1>10, <1>11 DEF IInv

----------------------------------------------------------------------------
(***************************************************************************)
(* The invariant.                                                          *)
(***************************************************************************)
LEMMA InitHolds ==
  Init => IInv
<1> SUFFICES ASSUME Init PROVE IInv
  OBVIOUS
<1>1. /\ DOMAIN sessions = {} /\ DOMAIN aliases = {} /\ DOMAIN txns = {} /\ DOMAIN codes = {}
      /\ DOMAIN jtis = {}
      /\ \A S : sessions \in [{} -> S] /\ aliases \in [{} -> S] /\ txns \in [{} -> S]
                /\ codes \in [{} -> S]
  BY DEF Init, EmptyMap
<1>2. \A r \in Requests : pc[r] = "idle"
  BY DEF Init
<1>3. Shape
  BY ClockAssumption DEF Init, Shape
<1>4. TxnsOK /\ CodesOK
  BY <1>1 DEF TxnsOK, CodesOK
<1>5. JtisOK
  BY <1>1, <1>2, Kinds DEF JtisOK, Presented
<1>6. StoreOK
  <2>1. \A h \in SessionIds : HandleOK(h)
    BY <1>2, Kinds DEF HandleOK, Born, SessionIds
  <2> QED
    BY <1>1, <2>1 DEF StoreOK, OneSessionPerLineage
<1>7. Redeeming = {} /\ Spending = {}
  BY <1>2, Kinds DEF Redeeming, Spending
<1>8. RequestsOK
  BY <1>2, <1>7, Kinds
     DEF RequestsOK, LoginOK, CallbackOK, ExchangeOK, RefreshOK, LogoutOK, BackchannelOK, Presented
<1> QED
  BY <1>3, <1>4, <1>5, <1>6, <1>7, <1>8 DEF IInv, Once

\* The invariant is inductive, and no step revives what has ended.
LEMMA NextHolds ==
  ASSUME IInv, [Next]_vars
  PROVE  IInv' /\ Ends
<1>1. now \in 0 .. MaxTime /\ now \in Nat /\ MaxTime \in Nat
  BY ClockAssumption DEF IInv, Shape
<1>2. CASE Tick /\ UNCHANGED <<sessionVars, oneTimeVars, pc, req>>
  <2>1. now' \in 0 .. MaxTime /\ now <= now'
    BY <1>1, <1>2 DEF Tick
  <2> QED
    BY <1>2, <2>1, StillStep
<1>3. CASE UNCHANGED vars
  BY <1>1, <1>3, StillStep DEF vars
<1>4. CASE Handler /\ UNCHANGED now
  <2>1. ASSUME NEW l \in Logins, Login(l) PROVE IInv' /\ Ends
    <3>1. CASE LoginGet(l)
      BY <1>4, <3>1, LoginStep DEF LoginGet
    <3>2. CASE LoginPost(l)
      <4>1. Config[l].provider \in Providers
        BY VaultAssumption, Kinds
      <4> QED
        BY <1>4, <3>2, <4>1, LoginStep DEF LoginPost
    <3> QED
      BY <2>1, <3>1, <3>2 DEF Login
  <2>2. ASSUME NEW c \in Callbacks, Callback(c) PROVE IInv' /\ Ends
    BY <1>4, <2>2, CallbackReadStep, CallbackConsumeStep, CallbackTokensStep,
       CallbackCreateSessionStep, CallbackCreateCodeStep DEF Callback
  <2>3. ASSUME NEW e \in Exchanges, Exchange(e) PROVE IInv' /\ Ends
    BY <1>4, <2>3, ExchangeReadCodeStep, ExchangeReadSessionStep, ExchangeSpendStep,
       ExchangeRecheckStep, ExchangeIssueStep DEF Exchange
  <2>4. ASSUME NEW r \in Refreshes, Refresh(r) PROVE IInv' /\ Ends
    BY <1>4, <2>4, RefreshReadStep, RefreshCheckStep, RefreshUpstreamStep, RefreshRejectedStep,
       RefreshRotateStep, RefreshEndStep DEF Refresh
  <2>5. ASSUME NEW o \in Logouts, Logout(o) PROVE IInv' /\ Ends
    BY <1>4, <2>5, LogoutResolveStep, LogoutReadStep, LogoutRecheckStep, LogoutDeleteStep
       DEF Logout
  <2>6. ASSUME NEW b \in Backchannels, Backchannel(b) PROVE IInv' /\ Ends
    BY <1>4, <2>6, BackchannelVerifyStep, BackchannelReserveStep, BackchannelRevokeStep
       DEF Backchannel
  <2> QED
    BY <1>4, <2>1, <2>2, <2>3, <2>4, <2>5, <2>6 DEF Handler
<1> QED
  BY <1>2, <1>3, <1>4 DEF Next, Quiescent

\* The invariant above holds in every state the handlers reach.
THEOREM Invariance ==
  Spec => []IInv
<1>1. IInv /\ [Next]_vars => IInv'
  BY NextHolds
<1> QED
  BY <1>1, InitHolds, PTL DEF Spec

----------------------------------------------------------------------------
(***************************************************************************)
(* The properties.                                                         *)
(***************************************************************************)
\* The store's Maps hold well-formed records under IDs this server minted,
\* and every handler stands at one of its awaits.
THEOREM TypeCorrect ==
  Spec => []TypeOK
<1>1. IInv => TypeOK
  <2> SUFFICES ASSUME IInv PROVE TypeOK
    OBVIOUS
  <2>1. now \in Nat
    BY ClockAssumption DEF IInv, Shape
  <2>2. /\ DOMAIN sessions \cup DOMAIN aliases \subseteq SessionIds
        /\ sessions \in [DOMAIN sessions -> Sessions!Session]
        /\ aliases \in [DOMAIN aliases -> Sessions!Alias]
    BY DEF IInv, StoreOK
  <2>3. /\ DOMAIN txns \subseteq Logins /\ txns \in [DOMAIN txns -> Txn]
        /\ DOMAIN codes \subseteq Callbacks /\ codes \in [DOMAIN codes -> Code]
        /\ DOMAIN jtis \subseteq Providers \X Backchannels
    BY DEF IInv, TxnsOK, CodesOK, JtisOK
  <2>4. ASSUME NEW r \in Requests
        PROVE  pc[r] \in Final \cup {"idle", "authorized", "consumed", "tokens", "created", "code",
                            "session", "spent", "checked", "read", "granted", "rotated",
                            "confirmed", "context", "admitted", "verified", "reserved"}
    <3>1. r \in Logins \/ r \in Callbacks \/ r \in Exchanges \/ r \in Refreshes \/ r \in Logouts
          \/ r \in Backchannels
      BY DEF Requests
    <3> QED
      BY <3>1 DEF Final, IInv, RequestsOK, LoginOK, CallbackOK, ExchangeOK, RefreshOK, LogoutOK,
                  BackchannelOK
  <2> QED
    BY <2>1, <2>2, <2>3, <2>4 DEF TypeOK
<1> QED
  BY <1>1, Invariance, PTL

\* Of the callbacks that read one transaction one redeems the login, and of
\* the exchanges that read one code one is given the session.
THEOREM CarriedThroughOnce ==
  Spec => []LoginIsCarriedThroughOnce
<1>1. IInv => LoginIsCarriedThroughOnce
  <2> SUFFICES ASSUME IInv PROVE LoginIsCarriedThroughOnce
    OBVIOUS
  <2>1. ASSUME NEW e \in Spending, NEW f \in Spending,
               LoginOf(req[e].code) = LoginOf(req[f].code)
        PROVE  e = f
    <3>1. \A x \in Spending : req[x].code \in Redeeming
      BY DEF IInv, RequestsOK, ExchangeOK, CodeRead, Spending, Redeeming
    <3>2. req[e].code = req[f].code
      BY <2>1, <3>1 DEF IInv, Once
    <3> QED
      BY <3>2 DEF IInv, Once
  <2> QED
    BY <2>1 DEF IInv, Once, LoginIsCarriedThroughOnce
<1> QED
  BY <1>1, Invariance, PTL

\* Rotation moves a lineage from one session ID to the next; no race of
\* refreshes leaves it under two.
THEOREM LineagesAreSingle ==
  Spec => []OneSessionPerLineage
<1>1. IInv => OneSessionPerLineage
  BY DEF IInv, StoreOK
<1> QED
  BY <1>1, Invariance, PTL

\* The session, its browser and whoever is given it or ends it match what the
\* login was tied to.
THEOREM GrantsMatch ==
  Spec => []GrantMatchesLogin
<1>1. IInv => GrantMatchesLogin
  <2> SUFFICES ASSUME IInv PROVE GrantMatchesLogin
    OBVIOUS
  <2>1. RequestsOK /\ StoreOK
    BY DEF IInv
  <2>2. \A s \in DOMAIN sessions : sessions[s].key = req[LoginOf(sessions[s].logical)].key
    BY <2>1 DEF StoreOK, SessionOK, LoginKey
  <2>3. \A c \in Redeeming : req[c].cookie = req[LoginOf(c)].browser
    BY <2>1 DEF RequestsOK, CallbackOK, Authorized, LoginBrowser, Redeeming
  <2>4. ASSUME NEW e \in Spending
        PROVE  /\ req[e].cookie = req[LoginOf(req[e].code)].browser
               /\ Proved(e, req[e].code)
    <3>1. ExchangeOK(e) /\ SessionRead(e)
      BY <2>1 DEF RequestsOK, ExchangeOK, Spending
    <3> QED
      BY <3>1 DEF ExchangeOK, SessionRead, Proved, LoginKey, LoginBrowser
  <2>5. ASSUME NEW r \in Refreshes, At(r, "ok")
        PROVE  Proved(r, HandleLineage(r))
    BY <2>1, <2>5, Kinds DEF At, RequestsOK, RefreshOK, HandleLineage, Proved, LoginKey
  <2>6. ASSUME NEW o \in Logouts, At(o, "done")
        PROVE  Proved(o, HandleLineage(req[o].handle))
    BY <2>1, <2>6 DEF At, RequestsOK, LogoutOK, Proved, LoginKey
  <2> QED
    BY <2>2, <2>3, <2>4, <2>5, <2>6 DEF GrantMatchesLogin
<1> QED
  BY <1>1, Invariance, PTL

\* No hook and no refresh takes a session past the deadline it was created
\* with, and its aliases end with it.
THEOREM LifetimesAreAbsolute ==
  Spec => []LifetimeIsAbsolute
<1>1. IInv => LifetimeIsAbsolute
  <2> SUFFICES ASSUME IInv, NEW s \in DOMAIN sessions, NEW c, c = sessions[s].logical
               PROVE  /\ sessions[s].expiresAt = req[c].session.expiresAt
                      /\ SessionTtl # Never =>
                           /\ sessions[s].expiresAt # Never
                           /\ sessions[s].expiresAt - SessionTtl <= req[c].codeExpiresAt - CodeTtl
                      /\ \A a \in DOMAIN aliases :
                           aliases[a].logical = c => aliases[a].expiresAt = sessions[s].expiresAt
    BY DEF LifetimeIsAbsolute
  <2>1. /\ sessions[s].expiresAt = Deadline(c) /\ c \in Callbacks
        /\ pc[c] \in {"created", "done"}
    BY DEF IInv, StoreOK, SessionOK
  <2>2. \A a \in DOMAIN aliases : aliases[a].logical = c => aliases[a].expiresAt = Deadline(c)
    BY DEF IInv, StoreOK, AliasOK
  <2>3. Granted(c)
    BY <2>1 DEF IInv, RequestsOK, CallbackOK
  <2>4. ASSUME SessionTtl # Never
        PROVE  /\ Deadline(c) # Never
               /\ Deadline(c) - SessionTtl <= req[c].codeExpiresAt - CodeTtl
    <3>1. /\ SessionTtl \in Nat /\ CodeTtl \in Nat /\ Never \notin Nat
      BY <2>4, VaultAssumption, ClockAssumption
    <3>2. /\ Deadline(c) \in Nat /\ req[c].codeExpiresAt \in Nat
          /\ Deadline(c) + CodeTtl <= req[c].codeExpiresAt + SessionTtl
      BY <2>3, <2>4 DEF Granted, Grant
    <3> QED
      BY <3>1, <3>2
  <2> QED
    BY <2>1, <2>2, <2>4 DEF Deadline
<1> QED
  BY <1>1, Invariance, PTL

\* A request that fails after it committed something has taken the session
\* with it and nothing brings it back, or it is an exchange whose code is spent
\* and whose lineage no client has a handle of.
THEOREM FailuresRollBack ==
  Spec => []FailureLeavesNoSession
<1>1. IInv => FailureLeavesNoSession
  <2> SUFFICES ASSUME IInv PROVE FailureLeavesNoSession
    OBVIOUS
  <2>1. \A c \in Callbacks : At(c, "failed") => ~LineageIsLive(c) /\ c \notin DOMAIN codes
    BY DEF IInv, RequestsOK, CallbackOK, CodesOK, At
  <2>2. ASSUME NEW e \in Exchanges, At(e, "failed"), assertIdentity(e, req[e].session.provider)
        PROVE  ~LineageIsLive(req[e].session.logical)
    BY <2>2 DEF IInv, RequestsOK, ExchangeOK, SessionRead, At
  <2>3. \A r \in Refreshes : At(r, "failed") => ~LineageIsLive(req[r].session.logical)
    BY DEF IInv, RequestsOK, RefreshOK, At
  <2>4. ASSUME NEW e \in Exchanges, pc[e] \in {"failed", "lapsed"}, NEW h \in Delivered,
               HandleLineage(h) = req[e].code
        PROVE  FALSE
    <3>1. PICK f \in Exchanges : pc[f] = "ok" /\ req[f].code = req[e].code
      BY <2>4, DeliveredFacts DEF IInv, Given, At
    <3>2. e \in Spending /\ f \in Spending /\ e # f
      BY <2>4, <3>1 DEF Spending
    <3> QED
      BY <3>1, <3>2 DEF IInv, Once
  <2> QED
    BY <2>1, <2>2, <2>3, <2>4 DEF FailureLeavesNoSession
<1> QED
  BY <1>1, Invariance, PTL

\* A logout that was answered with success has ended the lineage of its
\* handle, whatever refreshes did to the handle meanwhile.
THEOREM LogoutEndsLineage ==
  Spec => []LogoutIsTotal
<1>1. IInv => LogoutIsTotal
  BY DEF IInv, RequestsOK, LogoutOK, LogoutIsTotal
<1> QED
  BY <1>1, Invariance, PTL

\* One presentation of a logout token owns the revocation, and while the
\* token is valid no presentation is answered without an owner.
THEOREM RevocationHasOneOwner ==
  Spec => []OneRevocationOwner
<1>1. IInv => OneRevocationOwner
  <2> SUFFICES ASSUME IInv, NEW b \in Backchannels, NEW presented, NEW owners,
                      presented = {d \in Presentations(b) :
                                     pc[d] \in {"reserved", "done", "failed"}},
                      owners = {d \in presented : req[d].owner}
               PROVE  /\ Cardinality(owners) <= 1
                      /\ presented # {} /\ now < Token[b].expiresAt => owners # {}
    BY DEF OneRevocationOwner
  <2>1. \A d \in presented : d \in Presentations(b) /\ d \in Backchannels /\ Presented(d)
    BY DEF Presentations, Presented
  <2>2. \A d, x \in owners : d = x
    <3> SUFFICES ASSUME NEW d \in owners, NEW x \in owners
                 PROVE  d = x
      OBVIOUS
    <3>1. /\ d \in Backchannels /\ Presented(d) /\ req[d].owner
          /\ x \in Backchannels /\ Presented(x) /\ req[x].owner
          /\ x \in Presentations(b) /\ Presentations(d) = Presentations(b)
      BY <2>1, PresentationFacts
    <3> QED
      BY <3>1 DEF IInv, JtisOK
  <2>3. Cardinality(owners) <= 1
    <3>1. CASE owners = {}
      BY <3>1, FS_EmptySet
    <3>2. CASE owners # {}
      <4>1. PICK d : d \in owners
        BY <3>2
      <4>2. owners = {d}
        BY <2>2, <4>1
      <4>3. Cardinality({d}) = 1
        BY FS_Singleton
      <4> QED
        BY <4>2, <4>3
    <3> QED
      BY <3>1, <3>2
  <2>4. ASSUME NEW d \in presented, now < Token[b].expiresAt
        PROVE  owners # {}
    <3>1. /\ d \in Backchannels /\ Presented(d) /\ now < Token[d].expiresAt
          /\ Presentations(d) = Presentations(b)
      BY <2>1, <2>4, PresentationFacts
    <3>2. \E x \in Presentations(b) : Presented(x) /\ req[x].owner
      BY <3>1 DEF IInv, JtisOK
    <3> QED
      BY <3>2 DEF Presented
  <2> QED
    BY <2>3, <2>4
<1> QED
  BY <1>1, Invariance, PTL

\* No step makes a lineage live again that has ended.
THEOREM EndedForGood ==
  Spec => EndedLineagesStayEnded
<1>1. IInv /\ [Next]_vars =>
        [\A c \in Callbacks :
           pc[c] \in {"created", "done", "failed"} /\ ~LineageIsLive(c) =>
             ~LineageIsLive(c)']_vars
  BY NextHolds DEF Ends, LineagesEnd, Started
<1> QED
  BY <1>1, Invariance, PTL DEF Spec, EndedLineagesStayEnded
=============================================================================
