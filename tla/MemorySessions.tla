--------------------------- MODULE MemorySessions ---------------------------
(***************************************************************************)
(* The sessions and rotated-session aliases of the in-memory OIDC vault    *)
(* store (packages/express-oidc-vault-memory-store/src/index.ts).          *)
(*                                                                         *)
(* A session belongs to a lineage, its logical session ID.  Rotation moves *)
(* a lineage to a new session ID and leaves an alias behind under the old  *)
(* one: an alias cannot be read as a session, it only lets the holder of   *)
(* the old ID revoke the lineage.  Every method body runs without yielding *)
(* and so is one action, except deleteSession through an alias, which      *)
(* awaits the lineage deletion and then deletes the alias again.           *)
(***************************************************************************)
EXTENDS ExpiringMap

CONSTANTS SessionIds, LogicalIds, Subjects, Sids, Providers, Keys,
          Undefined,   \* an optional field or argument that is not given
          Inputs       \* the records callers pass to createSession, rotateSession

VARIABLES sessions,    \* session ID -> session record
          aliases,     \* rotated-away session ID -> lineage and deadline
          closing      \* IDs whose deleteSession call awaits its last step

sessionVars == <<sessions, aliases, closing>>

\* logicalSessionId, providerSessionId, issuer and client ID, deviceBinding.jkt.
Session ==
  [logical   : LogicalIds,
   subject   : Subjects,
   sid       : Sids \cup {Undefined},
   provider  : Providers \cup {Undefined},
   key       : Keys \cup {Undefined},
   expiresAt : Deadlines]

\* A caller may leave the lineage out.
SessionInput ==
  [logical   : LogicalIds \cup {Undefined},
   subject   : Subjects,
   sid       : Sids \cup {Undefined},
   provider  : Providers \cup {Undefined},
   key       : Keys \cup {Undefined},
   expiresAt : Deadlines]

ASSUME SessionAssumption ==
  /\ Undefined \notin LogicalIds
  /\ SessionIds \subseteq LogicalIds
  /\ Inputs \subseteq SessionInput

Alias == [logical : LogicalIds, expiresAt : Deadlines]

(***************************************************************************)
(* Lineage bookkeeping.                                                    *)
(***************************************************************************)
LogicalOf(map, ids) == {map[s].logical : s \in ids}

hasLiveSessionForLogicalSession(map, logical) ==
  \E s \in LiveKeys(map) : map[s].logical = logical

removeAliasesForLogicalSessions(als, logicals) ==
  Without(als, {a \in DOMAIN als : als[a].logical \in logicals})

\* A faulty clean-up, without the test that the lineage is inactive.
CleanupWithoutLivenessTest(als, map, logicals) ==
  removeAliasesForLogicalSessions(als, logicals)

removeAliasesForInactiveLogicalSessions(als, map, logicals) ==
  removeAliasesForLogicalSessions(als,
    {l \in logicals : ~hasLiveSessionForLogicalSession(map, l)})

(***************************************************************************)
(* The aliases that remain once the sessions in ids are removed from map   *)
(* and the aliases of their lineages that became inactive are cleaned up.  *)
(***************************************************************************)
DropSessions(als, map, ids) ==
  removeAliasesForInactiveLogicalSessions(als, Without(map, ids), LogicalOf(map, ids))

\* Faulty: the record is stored as the caller passed it.
KeepLogicalAsGiven(input, default) == input

\* input.logicalSessionId ?? the given default
WithLogical(input, default) ==
  [input EXCEPT !.logical = IF input.logical = Undefined THEN default ELSE input.logical]

\* A faulty createSession, which leaves the alias under the ID it takes over.
CreateSessionKeepingAlias(id, input) ==
  /\ \E P \in Sweeps(sessions) :
       /\ sessions' = With(Without(sessions, P), id, WithLogical(input, id))
       /\ aliases' = DropSessions(aliases, sessions, P)
  /\ UNCHANGED closing

(***************************************************************************)
(* createSession: sweep both Maps, store the record over any previous one  *)
(* and take the ID away from the alias that held it.  A session that names *)
(* no lineage starts its own.                                              *)
(***************************************************************************)
CreateSession(id, input) ==
  /\ \E P \in Sweeps(sessions) :
       LET session == WithLogical(input, id)
           kept  == Without(sessions, P)
           swept == DropSessions(aliases, sessions, P)
           next  == With(kept, id, session)
           previous == LogicalOf(kept, {id} \cap DOMAIN kept) \ {session.logical}
       IN  \E Q \in Sweeps(swept) :
             /\ sessions' = next
             /\ aliases' = removeAliasesForInactiveLogicalSessions(
                             Without(swept, Q \cup {id}), next, previous)
  /\ UNCHANGED closing

(***************************************************************************)
(* getSession removes an expired record; whether it returns one is IsLive. *)
(***************************************************************************)
IsLive(id) == id \in LiveKeys(sessions)

\* A faulty getSession, which forgets the aliases of the record it removes.
GetSessionKeepingAliases(id) ==
  /\ sessions' = Without(sessions, {id} \cap ExpiredKeys(sessions))
  /\ UNCHANGED <<aliases, closing>>

GetSession(id) ==
  LET gone == {id} \cap ExpiredKeys(sessions)
  IN  /\ sessions' = Without(sessions, gone)
      /\ aliases' = DropSessions(aliases, sessions, gone)
      /\ UNCHANGED closing

(***************************************************************************)
(* getSessionRevocationContext resolves a live session or an unexpired     *)
(* alias to its lineage, provided the lineage has a live member.  It reads *)
(* only.  Undefined stands for null.                                       *)
(***************************************************************************)
HandleLogical(id) ==
  IF IsLive(id) THEN sessions[id].logical
  ELSE IF id \in LiveKeys(aliases) THEN aliases[id].logical
  ELSE Undefined

LineageMembers(logical) == {s \in LiveKeys(sessions) : sessions[s].logical = logical}

\* assertSameLineageAuthority: the call throws if live members disagree.
SameLineageAuthority(logical) ==
  \A s, t \in LineageMembers(logical) :
    /\ sessions[s].key = sessions[t].key
    /\ sessions[s].subject = sessions[t].subject
    /\ sessions[s].provider = sessions[t].provider

\* The authority a session record carries: lineage, provider identity and key.
sessionRevocationContext(session) ==
  [logical |-> session.logical, provider |-> session.provider, key |-> session.key]

RevocationContext(id) ==
  LET members == LineageMembers(HandleLogical(id))
  IN  IF members = {} THEN Undefined
      ELSE sessionRevocationContext(sessions[CHOOSE s \in members : TRUE])

(***************************************************************************)
(* rotateSession.  A conflict leaves everything alone but an expired       *)
(* source.  A rotation hands the source's device binding on, retires an    *)
(* expired record under the target ID, and leaves an alias under the       *)
(* source ID that lives as long as the successor.                          *)
(***************************************************************************)
CanRotate(id, to, next) ==
  /\ IsLive(id)
  /\ to # id
  /\ ~IsLive(to)
  /\ next.key \in {Undefined, sessions[id].key}

RotateConflict(id, to, next) ==
  /\ ~CanRotate(id, to, next)
  /\ GetSession(id)

\* A faulty rotateSession, which leaves the source in place.
RotateSessionKeepingSource(id, to, next) ==
  /\ CanRotate(id, to, next)
  /\ sessions' = With(sessions, to,
                   [WithLogical(next, sessions[id].logical) EXCEPT !.key = sessions[id].key])
  /\ aliases' = Without(aliases, {to})
  /\ UNCHANGED closing

RotateSession(id, to, next) ==
  /\ CanRotate(id, to, next)
  /\ LET source   == sessions[id]
         stored   == [WithLogical(next, source.logical) EXCEPT !.key = source.key]
         retired  == {to} \cap DOMAIN sessions
         rotated  == With(Without(sessions, {id} \cup retired), to, stored)
         handles  == With(Without(DropSessions(aliases, sessions, retired), {to}), id,
                          [logical |-> stored.logical, expiresAt |-> stored.expiresAt])
     IN  /\ sessions' = rotated
         /\ aliases' = removeAliasesForInactiveLogicalSessions(handles, rotated,
                         {source.logical} \ {stored.logical})
  /\ UNCHANGED closing

(***************************************************************************)
(* Bulk deletion scans every session and drops the expired ones on the     *)
(* way.  By lineage, all its aliases go; by subject or provider session    *)
(* ID, the aliases of a lineage stay while a live member survives.         *)
(***************************************************************************)
DeleteLogical(map, als, logical) ==
  LET expired == ExpiredKeys(map)
      kept == Without(map, expired \cup {s \in DOMAIN map : map[s].logical = logical})
  IN  /\ sessions' = kept
      /\ aliases' = removeAliasesForLogicalSessions(
                      removeAliasesForInactiveLogicalSessions(als, kept,
                        LogicalOf(map, expired)), {logical})

DeleteSessionsByLogicalSessionId(logical) ==
  /\ DeleteLogical(sessions, aliases, logical)
  /\ UNCHANGED closing

matchesProviderScope(session, scope) == scope \in {Undefined, session.provider}

DeleteMatching(matching) ==
  LET gone == ExpiredKeys(sessions) \cup matching
  IN  /\ sessions' = Without(sessions, gone)
      /\ aliases' = DropSessions(aliases, sessions, gone)
      /\ UNCHANGED closing

SubjectMatches(subject, scope) ==
  {s \in LiveKeys(sessions) : /\ sessions[s].subject = subject
                              /\ matchesProviderScope(sessions[s], scope)}

ProviderSessionMatches(sid, scope) ==
  {s \in LiveKeys(sessions) : /\ sessions[s].sid = sid
                              /\ matchesProviderScope(sessions[s], scope)}

DeleteSessionsBySubject(subject, scope) ==
  DeleteMatching(SubjectMatches(subject, scope))

DeleteSessionsByProviderSessionId(sid, scope) ==
  DeleteMatching(ProviderSessionMatches(sid, scope))

(***************************************************************************)
(* deleteSession: the session itself, or the lineage of an alias.  In the  *)
(* second case the call resumes after an await and deletes the alias.      *)
(***************************************************************************)
DeleteSession(id) ==
  \E P \in Sweeps(sessions) :
    LET kept  == Without(sessions, P)
        swept == DropSessions(aliases, sessions, P)
    IN  \E Q \in Sweeps(swept) :
          LET als == Without(swept, Q)
          IN  \/ /\ id \in DOMAIN kept
                 /\ sessions' = Without(kept, {id})
                 /\ aliases' = removeAliasesForInactiveLogicalSessions(
                                 Without(als, {id}), Without(kept, {id}), {kept[id].logical})
                 /\ UNCHANGED closing
              \/ /\ id \notin DOMAIN kept
                 /\ id \in LiveKeys(als)
                 /\ DeleteLogical(kept, als, als[id].logical)
                 /\ closing' = closing \cup {id}
              \/ /\ id \notin DOMAIN kept \cup LiveKeys(als)
                 /\ sessions' = kept
                 /\ aliases' = Without(als, {id})
                 /\ UNCHANGED closing

DeleteSessionResume(id) ==
  /\ id \in closing
  /\ aliases' = Without(aliases, {id})
  /\ closing' = closing \ {id}
  /\ UNCHANGED sessions

----------------------------------------------------------------------------
Init ==
  /\ now = 0
  /\ sessions = EmptyMap
  /\ aliases = EmptyMap
  /\ closing = {}

vars == <<now, sessionVars>>

StoreStep ==
  \/ \E id \in SessionIds, input \in Inputs : CreateSession(id, input)
  \/ \E id \in SessionIds : GetSession(id)
  \/ \E id, to \in SessionIds, next \in Inputs :
       RotateSession(id, to, next) \/ RotateConflict(id, to, next)
  \/ \E id \in SessionIds : DeleteSession(id) \/ DeleteSessionResume(id)
  \/ \E logical \in LogicalIds : DeleteSessionsByLogicalSessionId(logical)
  \/ \E subject \in Subjects, scope \in Providers \cup {Undefined} :
       DeleteSessionsBySubject(subject, scope)
  \/ \E sid \in Sids, scope \in Providers \cup {Undefined} :
       DeleteSessionsByProviderSessionId(sid, scope)

Next ==
  \/ Tick /\ UNCHANGED sessionVars
  \/ StoreStep /\ UNCHANGED now

Spec == Init /\ [][Next]_vars

----------------------------------------------------------------------------
(***************************************************************************)
(* The Maps hold well-formed records under known IDs.                      *)
(***************************************************************************)
TypeOK ==
  /\ now \in Nat
  /\ DOMAIN sessions \subseteq SessionIds
  /\ sessions \in [DOMAIN sessions -> Session]
  /\ DOMAIN aliases \subseteq SessionIds
  /\ aliases \in [DOMAIN aliases -> Alias]
  /\ closing \subseteq SessionIds

(***************************************************************************)
(* An ID is never both a session and an alias: whichever way an ID is      *)
(* reused (createSession over a retired ID, rotation back into one), the   *)
(* old meaning is gone, so deleteSession and getSessionRevocationContext   *)
(* cannot act on a lineage the ID no longer belongs to.                    *)
(***************************************************************************)
NoIdHasTwoMeanings == DOMAIN sessions \cap DOMAIN aliases = {}

(***************************************************************************)
(* No alias outlives its lineage: however the last session of a lineage    *)
(* leaves the Map (expiry met by a read, a sweep or a bulk deletion,       *)
(* replacement, rotation into another lineage, direct deletion), its       *)
(* aliases leave with it.  There is no other place that reclaims the       *)
(* aliases of sessions without expiresAt.                                  *)
(***************************************************************************)
EveryAliasHasItsLineage ==
  \A a \in DOMAIN aliases :
    \E s \in DOMAIN sessions : sessions[s].logical = aliases[a].logical

(***************************************************************************)
(* An unexpired alias keeps working, with its deadline unchanged, through  *)
(* every step its lineage survives: neither the clean-up after expiry and  *)
(* deletion nor a later rotation takes a retired handle away from a        *)
(* lineage that still has a live member.  The exceptions are reuse of the  *)
(* ID and the last step of a deleteSession call for that same ID.          *)
(***************************************************************************)
HandleSurvives(a) ==
  a \in DOMAIN aliases' /\ aliases'[a] = aliases[a]

RevocationHandlesSurvive ==
  [][\A a \in LiveKeys(aliases), logical \in LogicalIds :
       /\ aliases[a].logical = logical
       /\ hasLiveSessionForLogicalSession(sessions, logical)
       /\ hasLiveSessionForLogicalSession(sessions, logical)'
       /\ a \notin closing \cup DOMAIN sessions'
       => HandleSurvives(a)]_vars
=============================================================================
