------------------------ MODULE MemorySessionsProofs ------------------------
(***************************************************************************)
(* Proofs that the safety invariants of MemorySessions hold for every set  *)
(* of IDs, lineages and inputs, every clock bound and every sweep size.    *)
(***************************************************************************)
EXTENDS MemorySessions, TLAPS

SessionMap(map) == DOMAIN map \subseteq SessionIds /\ map \in [DOMAIN map -> Session]

AliasMap(als) == DOMAIN als \subseteq SessionIds /\ als \in [DOMAIN als -> Alias]

\* EveryAliasHasItsLineage, of any pair of Maps.
Held(als, map) ==
  \A a \in DOMAIN als : \E s \in DOMAIN map : map[s].logical = als[a].logical

\* What every method keeps true of the two Maps together.
Good(map, als) ==
  /\ SessionMap(map)
  /\ AliasMap(als)
  /\ Held(als, map)
  /\ \A a \in DOMAIN als : a \notin DOMAIN map

IInv == TypeOK /\ NoIdHasTwoMeanings /\ EveryAliasHasItsLineage

----------------------------------------------------------------------------
(***************************************************************************)
(* Map.delete and Map.set change the keys they name and nothing else.      *)
(***************************************************************************)
LEMMA WithoutFacts ==
  ASSUME NEW map, NEW keys
  PROVE  /\ \A k : k \in DOMAIN Without(map, keys) <=> k \in DOMAIN map /\ k \notin keys
         /\ \A k \in DOMAIN Without(map, keys) : Without(map, keys)[k] = map[k]
  BY DEF Without, Restrict

\* What a Map holds after a record is set.
LEMMA WithFacts ==
  ASSUME NEW map, NEW key, NEW value
  PROVE  /\ \A k : k \in DOMAIN With(map, key, value) <=> k \in DOMAIN map \/ k = key
         /\ With(map, key, value)[key] = value
         /\ \A k \in DOMAIN map : k # key => With(map, key, value)[k] = map[k]
  BY DEF With

(***************************************************************************)
(* Both keep a Map of sessions, or of aliases, well-formed.                *)
(***************************************************************************)
LEMMA SessionMapOps ==
  ASSUME NEW map, SessionMap(map), NEW keys
  PROVE  /\ SessionMap(Without(map, keys))
         /\ \A id \in SessionIds, value \in Session : SessionMap(With(map, id, value))
  BY DEF SessionMap, Without, Restrict, With

\* Removing aliases, and setting one, keeps a Map of aliases.
LEMMA AliasMapOps ==
  ASSUME NEW als, AliasMap(als), NEW keys
  PROVE  /\ AliasMap(Without(als, keys))
         /\ \A id \in SessionIds, value \in Alias : AliasMap(With(als, id, value))
  BY DEF AliasMap, Without, Restrict, With

(***************************************************************************)
(* The clean-up after a lineage may have ended only removes aliases, and   *)
(* those it leaves to the lineages it looked at do have a session.         *)
(***************************************************************************)
LEMMA CleanupFacts ==
  ASSUME NEW als, AliasMap(als), NEW map, NEW logicals,
         NEW R, R = removeAliasesForInactiveLogicalSessions(als, map, logicals)
  PROVE  /\ AliasMap(R)
         /\ \A a \in DOMAIN R :
              /\ a \in DOMAIN als
              /\ R[a] = als[a]
              /\ als[a].logical \in logicals =>
                   \E s \in DOMAIN map : map[s].logical = als[a].logical
<1> DEFINE dead == {l \in logicals : ~hasLiveSessionForLogicalSession(map, l)}
           K == {a \in DOMAIN als : als[a].logical \in dead}
<1>1. R = Without(als, K)
  BY DEF removeAliasesForInactiveLogicalSessions, removeAliasesForLogicalSessions
<1>2. AliasMap(R) /\ \A a \in DOMAIN R : a \in DOMAIN als /\ R[a] = als[a] /\ a \notin K
  <2> HIDE DEF K
  <2> QED BY <1>1, AliasMapOps, WithoutFacts
<1>3. ASSUME NEW a \in DOMAIN R, als[a].logical \in logicals
      PROVE  \E s \in DOMAIN map : map[s].logical = als[a].logical
  <2>1. hasLiveSessionForLogicalSession(map, als[a].logical)
    BY <1>2, <1>3
  <2> QED
    BY <2>1 DEF hasLiveSessionForLogicalSession, LiveKeys
<1> QED
  BY <1>2, <1>3

(***************************************************************************)
(* It restores Held if only the lineages it looked at had lost it.         *)
(***************************************************************************)
LEMMA CleanupGood ==
  ASSUME NEW map, SessionMap(map), NEW als, AliasMap(als), NEW logicals,
         \A a \in DOMAIN als : a \notin DOMAIN map,
         \A a \in DOMAIN als : \/ als[a].logical \in logicals
                               \/ \E s \in DOMAIN map : map[s].logical = als[a].logical
  PROVE  Good(map, removeAliasesForInactiveLogicalSessions(als, map, logicals))
<1> DEFINE R == removeAliasesForInactiveLogicalSessions(als, map, logicals)
<1>1. /\ AliasMap(R)
      /\ \A a \in DOMAIN R :
           /\ a \in DOMAIN als
           /\ R[a] = als[a]
           /\ als[a].logical \in logicals =>
                \E s \in DOMAIN map : map[s].logical = als[a].logical
  BY CleanupFacts
<1> HIDE DEF R
<1> SUFFICES Good(map, R)
  BY DEF R
<1> QED
  BY <1>1 DEF Good, Held

\* Removing sessions, with the alias clean-up that follows, keeps the invariant.
LEMMA DropSessionsGood ==
  ASSUME NEW map, NEW als, Good(map, als), NEW ids
  PROVE  Good(Without(map, ids), DropSessions(als, map, ids))
<1> DEFINE kept == Without(map, ids)
<1>1. SessionMap(kept) /\ AliasMap(als)
  BY SessionMapOps DEF Good
<1>2. \A a \in DOMAIN als : a \notin DOMAIN kept
  BY WithoutFacts DEF Good
<1>3. ASSUME NEW a \in DOMAIN als
      PROVE  \/ als[a].logical \in LogicalOf(map, ids)
             \/ \E s \in DOMAIN kept : kept[s].logical = als[a].logical
  <2>1. PICK s \in DOMAIN map : map[s].logical = als[a].logical
    BY DEF Good, Held
  <2>2. CASE s \in ids
    BY <2>1, <2>2 DEF LogicalOf
  <2>3. CASE s \notin ids
    BY <2>1, <2>3, WithoutFacts
  <2> QED
    BY <2>2, <2>3
<1> HIDE DEF kept
<1>4. Good(kept, removeAliasesForInactiveLogicalSessions(als, kept, LogicalOf(map, ids)))
  BY <1>1, <1>2, <1>3, CleanupGood
<1> QED
  BY <1>4 DEF DropSessions, kept

\* So does removing aliases.
LEMMA DropAliasesGood ==
  ASSUME NEW map, NEW als, Good(map, als), NEW keys
  PROVE  Good(map, Without(als, keys))
  BY AliasMapOps, WithoutFacts DEF Good, Held

(***************************************************************************)
(* A record completed with a default lineage is a stored record.           *)
(***************************************************************************)
LEMMA WithLogicalType ==
  ASSUME NEW input \in Inputs, NEW default \in LogicalIds
  PROVE  /\ WithLogical(input, default) \in Session
         /\ WithLogical(input, default).key = input.key
         /\ WithLogical(input, default).expiresAt = input.expiresAt
  BY SessionAssumption DEF WithLogical, SessionInput, Session

----------------------------------------------------------------------------
(***************************************************************************)
(* One lemma per method: it takes Good Maps to Good Maps.                  *)
(***************************************************************************)
LEMMA CreateSessionGood ==
  ASSUME Good(sessions, aliases), NEW id \in SessionIds, NEW input \in Inputs,
         CreateSession(id, input)
  PROVE  Good(sessions, aliases)'
<1> DEFINE session == WithLogical(input, id)
<1>1. PICK P \in Sweeps(sessions) :
         LET kept  == Without(sessions, P)
             swept == DropSessions(aliases, sessions, P)
             next  == With(kept, id, session)
             previous == LogicalOf(kept, {id} \cap DOMAIN kept) \ {session.logical}
         IN  \E Q \in Sweeps(swept) :
               /\ sessions' = next
               /\ aliases' = removeAliasesForInactiveLogicalSessions(
                               Without(swept, Q \cup {id}), next, previous)
  BY DEF CreateSession
<1> DEFINE kept  == Without(sessions, P)
           swept == DropSessions(aliases, sessions, P)
           next  == With(kept, id, session)
           previous == LogicalOf(kept, {id} \cap DOMAIN kept) \ {session.logical}
<1>2. PICK Q : /\ sessions' = next
               /\ aliases' = removeAliasesForInactiveLogicalSessions(
                               Without(swept, Q \cup {id}), next, previous)
  BY <1>1
<1> DEFINE als == Without(swept, Q \cup {id})
<1>3. session \in Session
  BY WithLogicalType, SessionAssumption
<1>4. Good(kept, swept)
  BY DropSessionsGood
<1> HIDE DEF session, kept, swept
<1>5. SessionMap(next) /\ AliasMap(als)
  BY <1>3, <1>4, SessionMapOps, AliasMapOps DEF Good
<1>6. \A a \in DOMAIN als : a \in DOMAIN swept /\ als[a] = swept[a] /\ a # id
  BY WithoutFacts
<1>7. \A a \in DOMAIN als : a \notin DOMAIN next
  BY <1>4, <1>6, WithFacts DEF Good
<1>8. ASSUME NEW a \in DOMAIN als
      PROVE  \/ als[a].logical \in previous
             \/ \E s \in DOMAIN next : next[s].logical = als[a].logical
  <2>1. PICK s \in DOMAIN kept : kept[s].logical = als[a].logical
    BY <1>4, <1>6 DEF Good, Held
  <2>2. CASE s # id
    <3>1. s \in DOMAIN next /\ next[s] = kept[s]
      BY <2>2, WithFacts
    <3> QED
      BY <2>1, <3>1
  <2>3. CASE s = id /\ als[a].logical = session.logical
    BY <2>3, WithFacts
  <2>4. CASE s = id /\ als[a].logical # session.logical
    BY <2>1, <2>4 DEF LogicalOf
  <2> QED
    BY <2>2, <2>3, <2>4
<1> HIDE DEF next, als, previous
<1>9. Good(next, removeAliasesForInactiveLogicalSessions(als, next, previous))
  BY <1>5, <1>7, <1>8, CleanupGood
<1> QED
  BY <1>2, <1>9 DEF als

\* A read, which removes the session it finds expired, keeps the invariant.
LEMMA GetSessionGood ==
  ASSUME Good(sessions, aliases), NEW id, GetSession(id)
  PROVE  Good(sessions, aliases)'
  BY DropSessionsGood DEF GetSession

\* So does a deletion by subject or by provider session ID.
LEMMA DeleteMatchingGood ==
  ASSUME Good(sessions, aliases), NEW ids, DeleteMatching(ids)
  PROVE  Good(sessions, aliases)'
  BY DropSessionsGood DEF DeleteMatching

\* A rotation keeps it: the old ID becomes an alias of the lineage the new one has.
LEMMA RotateSessionGood ==
  ASSUME Good(sessions, aliases), NEW id \in SessionIds, NEW to \in SessionIds,
         NEW next \in Inputs, RotateSession(id, to, next)
  PROVE  Good(sessions, aliases)'
<1> DEFINE source  == sessions[id]
           stored  == [WithLogical(next, source.logical) EXCEPT !.key = source.key]
           retired == {to} \cap DOMAIN sessions
           als     == DropSessions(aliases, sessions, retired)
           rest    == Without(sessions, {id} \cup retired)
           rotated == With(rest, to, stored)
           alias   == [logical |-> stored.logical, expiresAt |-> stored.expiresAt]
           others  == Without(als, {to})
           handles == With(others, id, alias)
<1>1. id \in DOMAIN sessions /\ id # to
  BY DEF RotateSession, CanRotate, IsLive, LiveKeys
<1>2. source \in Session
  BY <1>1 DEF Good, SessionMap
<1>3. stored \in Session /\ alias \in Alias
  <2>1. WithLogical(next, source.logical) \in Session
    BY <1>2, WithLogicalType DEF Session
  <2> HIDE DEF source
  <2> QED
    BY <1>2, <2>1 DEF Session, Alias
<1>4. Good(Without(sessions, retired), als)
  BY DropSessionsGood
<1>5. /\ sessions' = rotated
      /\ aliases' = removeAliasesForInactiveLogicalSessions(handles, rotated,
                       {source.logical} \ {stored.logical})
  BY DEF RotateSession
<1> HIDE DEF stored, alias, als
<1>6. SessionMap(rotated) /\ AliasMap(handles)
  BY <1>3, <1>4, SessionMapOps, AliasMapOps DEF Good
<1>7. \A s : s \in DOMAIN rotated <=> (s \in DOMAIN sessions /\ s # id) \/ s = to
  BY <1>1, WithoutFacts, WithFacts
<1>8. \A s \in DOMAIN rotated : s # to => rotated[s] = sessions[s]
  BY <1>7, WithoutFacts, WithFacts
<1>9. \A a \in DOMAIN handles :
         \/ a = id /\ handles[a] = alias
         \/ a \in DOMAIN als /\ a # to /\ handles[a] = als[a]
  BY WithoutFacts, WithFacts
<1>10. \A a \in DOMAIN als : a \notin DOMAIN Without(sessions, retired)
  BY <1>4 DEF Good
<1>11. ASSUME NEW a \in DOMAIN handles
       PROVE  a \notin DOMAIN rotated
  <2>1. a \in DOMAIN sessions /\ a # to => a \in DOMAIN Without(sessions, retired)
    BY WithoutFacts
  <2>2. CASE a = id
    BY <1>1, <1>7, <2>2
  <2>3. CASE a \in DOMAIN als /\ a # to
    <3> HIDE DEF rotated
    <3> QED BY <1>7, <1>10, <2>1, <2>3
  <2> QED
    BY <1>9, <2>2, <2>3
<1>12. ASSUME NEW a \in DOMAIN handles
       PROVE  \/ handles[a].logical \in {source.logical} \ {stored.logical}
              \/ \E s \in DOMAIN rotated : rotated[s].logical = handles[a].logical
  <2>1. rotated[to] = stored /\ to \in DOMAIN rotated
    BY <1>7, WithFacts
  <2>2. CASE a = id /\ handles[a] = alias
    BY <2>1, <2>2 DEF alias
  <2>3. CASE a \in DOMAIN als /\ handles[a] = als[a]
    <3>1. PICK s \in DOMAIN Without(sessions, retired) :
                 Without(sessions, retired)[s].logical = als[a].logical
      BY <1>4, <2>3 DEF Good, Held
    <3>2. s \in DOMAIN sessions /\ s # to /\ sessions[s].logical = als[a].logical
      BY <3>1, WithoutFacts
    <3>3. CASE s # id
      BY <2>3, <3>2, <3>3, <1>7, <1>8
    <3>4. CASE s = id
      BY <2>1, <2>3, <3>2, <3>4
    <3> QED
      BY <3>3, <3>4
  <2> QED
    BY <1>9, <2>2, <2>3
<1> HIDE DEF rotated, handles, source
<1>13. Good(rotated, removeAliasesForInactiveLogicalSessions(handles, rotated,
                       {source.logical} \ {stored.logical}))
  BY <1>6, <1>11, <1>12, CleanupGood
<1> QED
  BY <1>5, <1>13

\* Deleting a lineage keeps it, from whatever Maps the sweep has left.
LEMMA DeleteLogicalGood ==
  ASSUME NEW map, NEW als, Good(map, als), NEW logical, DeleteLogical(map, als, logical)
  PROVE  Good(sessions, aliases)'
<1> DEFINE expired == ExpiredKeys(map)
           members == {s \in DOMAIN map : map[s].logical = logical}
           kept    == Without(map, expired \cup members)
           swept   == removeAliasesForInactiveLogicalSessions(als, kept,
                        LogicalOf(map, expired))
           K       == {a \in DOMAIN swept : swept[a].logical \in {logical}}
<1>1. sessions' = kept /\ aliases' = Without(swept, K)
  BY DEF DeleteLogical, removeAliasesForLogicalSessions
<1>2. SessionMap(kept) /\ AliasMap(als)
  BY SessionMapOps DEF Good
<1>3. /\ AliasMap(swept)
      /\ \A a \in DOMAIN swept :
           /\ a \in DOMAIN als
           /\ swept[a] = als[a]
           /\ als[a].logical \in LogicalOf(map, expired) =>
                \E s \in DOMAIN kept : kept[s].logical = als[a].logical
  <2> HIDE DEF kept, expired
  <2> QED BY <1>2, CleanupFacts
<1>4. \A s : s \in DOMAIN kept <=> s \in DOMAIN map /\ s \notin expired /\ s \notin members
  <2> HIDE DEF expired, members
  <2> QED BY WithoutFacts
<1>5. \A s \in DOMAIN kept : kept[s] = map[s]
  <2> HIDE DEF expired, members
  <2> QED BY WithoutFacts
<1> HIDE DEF kept, swept
<1>6. ASSUME NEW a \in DOMAIN swept, swept[a].logical # logical
      PROVE  \E s \in DOMAIN kept : kept[s].logical = swept[a].logical
  <2>1. PICK s \in DOMAIN map : map[s].logical = als[a].logical
    BY <1>3 DEF Good, Held
  <2>2. s \notin members
    BY <1>3, <1>6, <2>1
  <2>3. CASE s \in expired
    BY <1>3, <2>1, <2>3 DEF LogicalOf
  <2>4. CASE s \notin expired
    BY <1>3, <1>4, <1>5, <2>1, <2>2, <2>4
  <2> QED
    BY <2>3, <2>4
<1>7. \A a \in DOMAIN swept : a \notin DOMAIN kept
  BY <1>3, <1>4 DEF Good
<1>8. \A a \in DOMAIN Without(swept, K) :
         /\ a \in DOMAIN swept
         /\ Without(swept, K)[a] = swept[a]
         /\ swept[a].logical # logical
  <2>1. \A a \in DOMAIN Without(swept, K) :
          a \in DOMAIN swept /\ Without(swept, K)[a] = swept[a] /\ a \notin K
    <3> HIDE DEF K
    <3> QED BY WithoutFacts
  <2> QED
    BY <2>1
<1>9. AliasMap(Without(swept, K))
  BY <1>3, AliasMapOps
<1> HIDE DEF K
<1> QED
  BY <1>1, <1>2, <1>6, <1>7, <1>8, <1>9 DEF Good, Held

\* Deleting a session, or the lineage of an alias, keeps it.
LEMMA DeleteSessionGood ==
  ASSUME Good(sessions, aliases), NEW id, DeleteSession(id)
  PROVE  Good(sessions, aliases)'
<1>1. PICK P \in Sweeps(sessions) :
         LET kept  == Without(sessions, P)
             swept == DropSessions(aliases, sessions, P)
         IN  \E Q \in Sweeps(swept) :
               LET als == Without(swept, Q)
               IN  \/ /\ id \in DOMAIN kept
                      /\ sessions' = Without(kept, {id})
                      /\ aliases' = removeAliasesForInactiveLogicalSessions(
                           Without(als, {id}), Without(kept, {id}), {kept[id].logical})
                   \/ DeleteLogical(kept, als, als[id].logical)
                   \/ /\ sessions' = kept
                      /\ aliases' = Without(als, {id})
  BY DEF DeleteSession
<1> DEFINE kept  == Without(sessions, P)
           swept == DropSessions(aliases, sessions, P)
<1>2. PICK Q :
         LET als == Without(swept, Q)
         IN  \/ /\ id \in DOMAIN kept
                /\ sessions' = Without(kept, {id})
                /\ aliases' = removeAliasesForInactiveLogicalSessions(
                     Without(als, {id}), Without(kept, {id}), {kept[id].logical})
             \/ DeleteLogical(kept, als, als[id].logical)
             \/ /\ sessions' = kept
                /\ aliases' = Without(als, {id})
  BY <1>1
<1> DEFINE als == Without(swept, Q)
<1>3. Good(kept, swept)
  BY DropSessionsGood
<1> HIDE DEF kept, swept
<1>4. Good(kept, als)
  BY <1>3, DropAliasesGood
<1> HIDE DEF als
<1>5. Good(kept, Without(als, {id}))
  BY <1>4, DropAliasesGood
<1>6. CASE /\ id \in DOMAIN kept
           /\ sessions' = Without(kept, {id})
           /\ aliases' = removeAliasesForInactiveLogicalSessions(
                Without(als, {id}), Without(kept, {id}), {kept[id].logical})
  <2>1. LogicalOf(kept, {id}) = {kept[id].logical}
    BY DEF LogicalOf
  <2>2. Good(Without(kept, {id}), DropSessions(Without(als, {id}), kept, {id}))
    BY <1>5, DropSessionsGood
  <2> QED
    BY <1>6, <2>1, <2>2 DEF DropSessions
<1>7. CASE DeleteLogical(kept, als, als[id].logical)
  BY <1>4, <1>7, DeleteLogicalGood
<1>8. CASE sessions' = kept /\ aliases' = Without(als, {id})
  BY <1>5, <1>8
<1> QED
  BY <1>2, <1>6, <1>7, <1>8 DEF als

----------------------------------------------------------------------------
(***************************************************************************)
(* The three invariants together are inductive.  Held is needed to prove   *)
(* itself across clean-up, and the disjointness of the Maps needs the      *)
(* typing of both.                                                         *)
(***************************************************************************)
LEMMA IInvIsGood ==
  /\ IInv <=> now \in Nat /\ closing \subseteq SessionIds /\ Good(sessions, aliases)
  /\ IInv' <=> now' \in Nat /\ closing' \subseteq SessionIds /\ Good(sessions, aliases)'
  BY DEF IInv, TypeOK, NoIdHasTwoMeanings, EveryAliasHasItsLineage, Good, Held,
         SessionMap, AliasMap

\* The empty store satisfies the invariant.
LEMMA InitIInv == Init => IInv
  BY ClockAssumption DEF Init, IInv, TypeOK, NoIdHasTwoMeanings, EveryAliasHasItsLineage,
                         EmptyMap

\* Every method of the store keeps the invariant.
LEMMA StoreStepIInv ==
  ASSUME IInv, StoreStep, UNCHANGED now
  PROVE  IInv'
<1>1. now \in Nat /\ closing \subseteq SessionIds /\ Good(sessions, aliases)
  BY IInvIsGood
<1> SUFFICES closing' \subseteq SessionIds /\ Good(sessions, aliases)'
  BY <1>1, IInvIsGood
<1>2. CASE \E id \in SessionIds, input \in Inputs : CreateSession(id, input)
  BY <1>1, <1>2, CreateSessionGood DEF CreateSession
<1>3. CASE \E id \in SessionIds : GetSession(id)
  BY <1>1, <1>3, GetSessionGood DEF GetSession
<1>4. CASE \E id, to \in SessionIds, next \in Inputs : RotateSession(id, to, next)
  BY <1>1, <1>4, RotateSessionGood DEF RotateSession
<1>5. CASE \E id, to \in SessionIds, next \in Inputs : RotateConflict(id, to, next)
  BY <1>1, <1>5, GetSessionGood DEF RotateConflict, GetSession
<1>6. CASE \E id \in SessionIds : DeleteSession(id)
  <2>1. PICK id \in SessionIds : DeleteSession(id)
    BY <1>6
  <2>2. closing' \in {closing, closing \cup {id}}
    BY <2>1 DEF DeleteSession
  <2> QED
    BY <1>1, <2>1, <2>2, DeleteSessionGood
<1>7. CASE \E id \in SessionIds : DeleteSessionResume(id)
  BY <1>1, <1>7, DropAliasesGood DEF DeleteSessionResume
<1>8. CASE \E logical \in LogicalIds : DeleteSessionsByLogicalSessionId(logical)
  BY <1>1, <1>8, DeleteLogicalGood DEF DeleteSessionsByLogicalSessionId
<1>9. CASE \E subject \in Subjects, scope \in Providers \cup {Undefined} :
             DeleteSessionsBySubject(subject, scope)
  BY <1>1, <1>9, DeleteMatchingGood DEF DeleteSessionsBySubject, DeleteMatching
<1>10. CASE \E sid \in Sids, scope \in Providers \cup {Undefined} :
             DeleteSessionsByProviderSessionId(sid, scope)
  BY <1>1, <1>10, DeleteMatchingGood DEF DeleteSessionsByProviderSessionId, DeleteMatching
<1> QED
  BY <1>2, <1>3, <1>4, <1>5, <1>6, <1>7, <1>8, <1>9, <1>10 DEF StoreStep

\* Every step of the specification does, those of the clock included.
LEMMA NextIInv == IInv /\ [Next]_vars => IInv'
<1> SUFFICES ASSUME IInv, [Next]_vars PROVE IInv'
  OBVIOUS
<1>1. now \in Nat /\ closing \subseteq SessionIds /\ Good(sessions, aliases)
  BY IInvIsGood
<1>2. CASE Tick /\ UNCHANGED sessionVars
  <2>1. now' \in Nat
    BY <1>1, <1>2 DEF Tick
  <2> QED
    BY <1>1, <1>2, <2>1, IInvIsGood DEF sessionVars
<1>3. CASE StoreStep /\ UNCHANGED now
  BY <1>3, StoreStepIInv
<1>4. CASE UNCHANGED vars
  BY <1>1, <1>4, IInvIsGood DEF vars, sessionVars
<1> QED
  BY <1>2, <1>3, <1>4 DEF Next

\* The inductive invariant holds throughout.
THEOREM IInvInvariant == Spec => []IInv
  BY InitIInv, NextIInv, PTL DEF Spec

(***************************************************************************)
(* The Maps of the store always hold well-formed records under known IDs.  *)
(***************************************************************************)
THEOREM TypeCorrect == Spec => []TypeOK
<1>1. IInv => TypeOK
  BY DEF IInv
<1> QED
  BY <1>1, IInvInvariant, PTL

(***************************************************************************)
(* createSession, rotateSession and the deletions never leave an ID that   *)
(* is a session and an alias at once.                                      *)
(***************************************************************************)
THEOREM IdsHaveOneMeaning == Spec => []NoIdHasTwoMeanings
<1>1. IInv => NoIdHasTwoMeanings
  BY DEF IInv
<1> QED
  BY <1>1, IInvInvariant, PTL

(***************************************************************************)
(* No method leaves an alias behind whose lineage has no session, so the   *)
(* alias Map cannot grow without its sessions.                             *)
(***************************************************************************)
THEOREM AliasesFollowTheirLineage == Spec => []EveryAliasHasItsLineage
<1>1. IInv => EveryAliasHasItsLineage
  BY DEF IInv
<1> QED
  BY <1>1, IInvInvariant, PTL

----------------------------------------------------------------------------
(***************************************************************************)
(* What keeps a handle: expiry cannot take the last live session from a    *)
(* lineage, and clean-up spares the aliases of a lineage with a live one.  *)
(***************************************************************************)
LEMMA ExpiryKeepsLineage ==
  ASSUME NEW map, NEW P \in SUBSET ExpiredKeys(map), NEW logical,
         hasLiveSessionForLogicalSession(map, logical)
  PROVE  hasLiveSessionForLogicalSession(Without(map, P), logical)
<1>1. PICK s \in LiveKeys(map) : map[s].logical = logical
  BY DEF hasLiveSessionForLogicalSession
<1>2. s \in DOMAIN Without(map, P) /\ Without(map, P)[s] = map[s]
  BY WithoutFacts DEF LiveKeys
<1>3. s \in LiveKeys(Without(map, P))
  BY <1>2 DEF LiveKeys, ExpiredKeys
<1> QED
  BY <1>1, <1>2, <1>3 DEF hasLiveSessionForLogicalSession

\* The alias clean-up spares an alias whose lineage has a live session.
LEMMA CleanupKeeps ==
  ASSUME NEW als, NEW map, NEW logicals, NEW a \in DOMAIN als,
         hasLiveSessionForLogicalSession(map, als[a].logical),
         NEW R, R = removeAliasesForInactiveLogicalSessions(als, map, logicals)
  PROVE  a \in DOMAIN R /\ R[a] = als[a]
<1> DEFINE dead == {l \in logicals : ~hasLiveSessionForLogicalSession(map, l)}
           K == {b \in DOMAIN als : als[b].logical \in dead}
<1>1. R = Without(als, K)
  BY DEF removeAliasesForInactiveLogicalSessions, removeAliasesForLogicalSessions
<1>2. a \notin K
  OBVIOUS
<1> HIDE DEF K
<1> QED
  BY <1>1, <1>2, WithoutFacts

\* So does a removal of sessions, if such a session is left.
LEMMA DropSessionsKeeps ==
  ASSUME NEW als, NEW map, NEW ids, NEW a \in DOMAIN als,
         hasLiveSessionForLogicalSession(Without(map, ids), als[a].logical)
  PROVE  a \in DOMAIN DropSessions(als, map, ids) /\ DropSessions(als, map, ids)[a] = als[a]
  BY CleanupKeeps DEF DropSessions

\* A removal of aliases spares those it does not name.
LEMMA WithoutKeeps ==
  ASSUME NEW als, NEW keys, NEW a \in DOMAIN als, a \notin keys
  PROVE  a \in DOMAIN Without(als, keys) /\ Without(als, keys)[a] = als[a]
  BY WithoutFacts

(***************************************************************************)
(* The sweeps that open createSession and deleteSession spare a live alias *)
(* of a live lineage.                                                      *)
(***************************************************************************)
LEMMA SweepsKeep ==
  ASSUME NEW P \in Sweeps(sessions), NEW Q \in Sweeps(DropSessions(aliases, sessions, P)),
         NEW a \in LiveKeys(aliases),
         hasLiveSessionForLogicalSession(sessions, aliases[a].logical)
  PROVE  /\ a \in DOMAIN DropSessions(aliases, sessions, P)
         /\ DropSessions(aliases, sessions, P)[a] = aliases[a]
         /\ a \notin Q
<1>1. a \in DOMAIN aliases /\ ~isExpiredRecord(aliases[a])
  BY DEF LiveKeys, ExpiredKeys
<1>2. hasLiveSessionForLogicalSession(Without(sessions, P), aliases[a].logical)
  BY ExpiryKeepsLineage DEF Sweeps
<1>3. /\ a \in DOMAIN DropSessions(aliases, sessions, P)
      /\ DropSessions(aliases, sessions, P)[a] = aliases[a]
  BY <1>1, <1>2, DropSessionsKeeps
<1>4. Q \subseteq ExpiredKeys(DropSessions(aliases, sessions, P))
  BY DEF Sweeps
<1> QED
  BY <1>1, <1>3, <1>4 DEF ExpiredKeys

(***************************************************************************)
(* The premises of RevocationHandlesSurvive about one alias, for a step    *)
(* that leaves the clock alone.                                            *)
(***************************************************************************)
Surviving(a) ==
  /\ a \in LiveKeys(aliases)
  /\ hasLiveSessionForLogicalSession(sessions, aliases[a].logical)
  /\ hasLiveSessionForLogicalSession(sessions', aliases[a].logical)
  /\ a \notin closing \cup DOMAIN sessions'
  /\ a \notin DOMAIN sessions

\* createSession keeps a revocation handle whose lineage stays live.
LEMMA CreateKeeps ==
  ASSUME NEW a, Surviving(a), NEW id, NEW input, CreateSession(id, input)
  PROVE  HandleSurvives(a)
<1> DEFINE session == WithLogical(input, id)
<1>1. PICK P \in Sweeps(sessions) :
         LET kept  == Without(sessions, P)
             swept == DropSessions(aliases, sessions, P)
             next  == With(kept, id, session)
             previous == LogicalOf(kept, {id} \cap DOMAIN kept) \ {session.logical}
         IN  \E Q \in Sweeps(swept) :
               /\ sessions' = next
               /\ aliases' = removeAliasesForInactiveLogicalSessions(
                               Without(swept, Q \cup {id}), next, previous)
  BY DEF CreateSession
<1> DEFINE kept  == Without(sessions, P)
           swept == DropSessions(aliases, sessions, P)
           next  == With(kept, id, session)
           previous == LogicalOf(kept, {id} \cap DOMAIN kept) \ {session.logical}
<1>2. PICK Q \in Sweeps(swept) :
               /\ sessions' = next
               /\ aliases' = removeAliasesForInactiveLogicalSessions(
                               Without(swept, Q \cup {id}), next, previous)
  BY <1>1
<1>3. a \in DOMAIN swept /\ swept[a] = aliases[a] /\ a \notin Q
  BY SweepsKeep DEF Surviving
<1>4. a # id
  BY <1>2, WithFacts DEF Surviving
<1> HIDE DEF kept, swept, next, previous
<1>5. a \in DOMAIN Without(swept, Q \cup {id}) /\ Without(swept, Q \cup {id})[a] = aliases[a]
  BY <1>3, <1>4, WithoutKeeps
<1>6. hasLiveSessionForLogicalSession(next, aliases[a].logical)
  BY <1>2 DEF Surviving
<1> QED
  BY <1>2, <1>5, <1>6, CleanupKeeps DEF HandleSurvives

\* getSession keeps it.
LEMMA GetKeeps ==
  ASSUME NEW a, Surviving(a), NEW id, GetSession(id)
  PROVE  HandleSurvives(a)
<1> DEFINE gone == {id} \cap ExpiredKeys(sessions)
<1>1. sessions' = Without(sessions, gone) /\ aliases' = DropSessions(aliases, sessions, gone)
  BY DEF GetSession
<1> HIDE DEF gone
<1> QED
  BY <1>1, DropSessionsKeeps DEF Surviving, HandleSurvives, LiveKeys

\* The deletions by subject and by provider session ID keep it.
LEMMA DeleteMatchingKeeps ==
  ASSUME NEW a, Surviving(a), NEW ids, DeleteMatching(ids)
  PROVE  HandleSurvives(a)
<1> DEFINE gone == ExpiredKeys(sessions) \cup ids
<1>1. sessions' = Without(sessions, gone) /\ aliases' = DropSessions(aliases, sessions, gone)
  BY DEF DeleteMatching
<1> HIDE DEF gone
<1> QED
  BY <1>1, DropSessionsKeeps DEF Surviving, HandleSurvives, LiveKeys

\* rotateSession keeps it.
LEMMA RotateKeeps ==
  ASSUME NEW a, Surviving(a), NEW id, NEW to, NEW next, RotateSession(id, to, next)
  PROVE  HandleSurvives(a)
<1> DEFINE source  == sessions[id]
           stored  == [WithLogical(next, source.logical) EXCEPT !.key = source.key]
           retired == {to} \cap DOMAIN sessions
           als     == DropSessions(aliases, sessions, retired)
           rotated == With(Without(sessions, {id} \cup retired), to, stored)
           alias   == [logical |-> stored.logical, expiresAt |-> stored.expiresAt]
           handles == With(Without(als, {to}), id, alias)
<1>1. /\ sessions' = rotated
      /\ aliases' = removeAliasesForInactiveLogicalSessions(handles, rotated,
                       {source.logical} \ {stored.logical})
  BY DEF RotateSession
<1>2. id \in DOMAIN sessions /\ retired \subseteq ExpiredKeys(sessions)
  BY DEF RotateSession, CanRotate, IsLive, LiveKeys
<1>3. a # id /\ a # to
  BY <1>1, <1>2, WithFacts DEF Surviving
<1>4. hasLiveSessionForLogicalSession(Without(sessions, retired), aliases[a].logical)
  BY <1>2, ExpiryKeepsLineage DEF Surviving
<1>5. a \in DOMAIN als /\ als[a] = aliases[a]
  BY <1>4, DropSessionsKeeps DEF Surviving, LiveKeys
<1> HIDE DEF als, alias, rotated, stored, source
<1>6. a \in DOMAIN handles /\ handles[a] = aliases[a]
  BY <1>3, <1>5, WithoutKeeps, WithFacts
<1>7. hasLiveSessionForLogicalSession(rotated, aliases[a].logical)
  BY <1>1 DEF Surviving
<1> HIDE DEF handles
<1> QED
  BY <1>1, <1>6, <1>7, CleanupKeeps DEF HandleSurvives

(***************************************************************************)
(* Deleting a lineage leaves none of it, so a lineage that survives is     *)
(* another one.                                                            *)
(***************************************************************************)
LEMMA DeleteLogicalKeeps ==
  ASSUME NEW a, NEW map, NEW als, NEW logical, DeleteLogical(map, als, logical),
         a \in DOMAIN als,
         hasLiveSessionForLogicalSession(sessions', als[a].logical)
  PROVE  als[a].logical # logical /\ a \in DOMAIN aliases' /\ aliases'[a] = als[a]
<1> DEFINE expired == ExpiredKeys(map)
           members == {s \in DOMAIN map : map[s].logical = logical}
           kept    == Without(map, expired \cup members)
           swept   == removeAliasesForInactiveLogicalSessions(als, kept,
                        LogicalOf(map, expired))
           K       == {b \in DOMAIN swept : swept[b].logical \in {logical}}
<1>1. sessions' = kept /\ aliases' = Without(swept, K)
  BY DEF DeleteLogical, removeAliasesForLogicalSessions
<1>2. \A s \in DOMAIN kept : kept[s] = map[s] /\ s \in DOMAIN map /\ s \notin members
  <2> HIDE DEF expired, members
  <2> QED BY WithoutFacts
<1>3. als[a].logical # logical
  <2>1. PICK s \in DOMAIN kept : kept[s].logical = als[a].logical
    BY <1>1 DEF hasLiveSessionForLogicalSession, LiveKeys
  <2> HIDE DEF kept
  <2> QED
    BY <1>2, <2>1
<1> HIDE DEF kept, expired
<1>4. a \in DOMAIN swept /\ swept[a] = als[a]
  BY <1>1, CleanupKeeps
<1>5. a \notin K
  BY <1>3, <1>4
<1> HIDE DEF K, swept
<1> QED
  BY <1>1, <1>3, <1>4, <1>5, WithoutKeeps

\* deleteSession keeps it.
LEMMA DeleteKeeps ==
  ASSUME NEW a, Surviving(a), NEW id, DeleteSession(id)
  PROVE  HandleSurvives(a)
<1>1. PICK P \in Sweeps(sessions) :
         LET kept  == Without(sessions, P)
             swept == DropSessions(aliases, sessions, P)
         IN  \E Q \in Sweeps(swept) :
               LET als == Without(swept, Q)
               IN  \/ /\ id \in DOMAIN kept
                      /\ sessions' = Without(kept, {id})
                      /\ aliases' = removeAliasesForInactiveLogicalSessions(
                           Without(als, {id}), Without(kept, {id}), {kept[id].logical})
                   \/ DeleteLogical(kept, als, als[id].logical)
                   \/ /\ id \notin LiveKeys(als)
                      /\ aliases' = Without(als, {id})
  BY DEF DeleteSession
<1> DEFINE kept  == Without(sessions, P)
           swept == DropSessions(aliases, sessions, P)
<1>2. PICK Q \in Sweeps(swept) :
         LET als == Without(swept, Q)
         IN  \/ /\ id \in DOMAIN kept
                /\ sessions' = Without(kept, {id})
                /\ aliases' = removeAliasesForInactiveLogicalSessions(
                     Without(als, {id}), Without(kept, {id}), {kept[id].logical})
             \/ DeleteLogical(kept, als, als[id].logical)
             \/ /\ id \notin LiveKeys(als)
                /\ aliases' = Without(als, {id})
  BY <1>1
<1> DEFINE als == Without(swept, Q)
<1>3. a \in DOMAIN swept /\ swept[a] = aliases[a] /\ a \notin Q
  BY SweepsKeep DEF Surviving
<1>4. DOMAIN kept \subseteq DOMAIN sessions
  BY WithoutFacts
<1> HIDE DEF kept, swept
<1>5. a \in DOMAIN als /\ als[a] = aliases[a]
  BY <1>3, WithoutKeeps
<1> HIDE DEF als
<1>6. a \in LiveKeys(als)
  BY <1>5 DEF Surviving, LiveKeys, ExpiredKeys
<1>7. CASE /\ id \in DOMAIN kept
           /\ sessions' = Without(kept, {id})
           /\ aliases' = removeAliasesForInactiveLogicalSessions(
                Without(als, {id}), Without(kept, {id}), {kept[id].logical})
  <2>1. a # id
    BY <1>4, <1>7 DEF Surviving
  <2>2. a \in DOMAIN Without(als, {id}) /\ Without(als, {id})[a] = aliases[a]
    BY <1>5, <2>1, WithoutKeeps
  <2>3. hasLiveSessionForLogicalSession(Without(kept, {id}), aliases[a].logical)
    BY <1>7 DEF Surviving
  <2> QED
    BY <1>7, <2>2, <2>3, CleanupKeeps DEF HandleSurvives
<1>8. CASE DeleteLogical(kept, als, als[id].logical)
  BY <1>5, <1>8, DeleteLogicalKeeps DEF Surviving, HandleSurvives
<1>9. CASE id \notin LiveKeys(als) /\ aliases' = Without(als, {id})
  BY <1>5, <1>6, <1>9, WithoutKeeps DEF HandleSurvives
<1> QED
  BY <1>2, <1>7, <1>8, <1>9 DEF als

\* Every method of the store keeps it.
LEMMA StoreStepKeeps ==
  ASSUME NEW a, Surviving(a), StoreStep
  PROVE  HandleSurvives(a)
<1>1. CASE \E id \in SessionIds, input \in Inputs : CreateSession(id, input)
  BY <1>1, CreateKeeps
<1>2. CASE \E id \in SessionIds : GetSession(id)
  BY <1>2, GetKeeps
<1>3. CASE \E id, to \in SessionIds, next \in Inputs : RotateSession(id, to, next)
  BY <1>3, RotateKeeps
<1>4. CASE \E id, to \in SessionIds, next \in Inputs : RotateConflict(id, to, next)
  BY <1>4, GetKeeps DEF RotateConflict
<1>5. CASE \E id \in SessionIds : DeleteSession(id)
  BY <1>5, DeleteKeeps
<1>6. CASE \E id \in SessionIds : DeleteSessionResume(id)
  <2>1. PICK id : id \in closing /\ aliases' = Without(aliases, {id})
    BY <1>6 DEF DeleteSessionResume
  <2>2. a # id /\ a \in DOMAIN aliases
    BY <2>1 DEF Surviving, LiveKeys
  <2> QED
    BY <2>1, <2>2, WithoutKeeps DEF HandleSurvives
<1>7. CASE \E logical \in LogicalIds : DeleteSessionsByLogicalSessionId(logical)
  BY <1>7, DeleteLogicalKeeps
     DEF DeleteSessionsByLogicalSessionId, Surviving, LiveKeys, HandleSurvives
<1>8. CASE \E subject \in Subjects, scope \in Providers \cup {Undefined} :
             DeleteSessionsBySubject(subject, scope)
  BY <1>8, DeleteMatchingKeeps DEF DeleteSessionsBySubject
<1>9. CASE \E sid \in Sids, scope \in Providers \cup {Undefined} :
             DeleteSessionsByProviderSessionId(sid, scope)
  BY <1>9, DeleteMatchingKeeps DEF DeleteSessionsByProviderSessionId
<1> QED
  BY <1>1, <1>2, <1>3, <1>4, <1>5, <1>6, <1>7, <1>8, <1>9 DEF StoreStep

(***************************************************************************)
(* No method takes a retired handle away from a lineage that goes on, nor  *)
(* changes its deadline: not the sweeps, not the clean-up after expiry,    *)
(* replacement or deletion, not a later rotation                           *)
(* (removeAliasesForInactiveLogicalSessions and its callers).              *)
(***************************************************************************)
THEOREM HandlesSurvive == Spec => RevocationHandlesSurvive
<1> DEFINE Keeps ==
      \A a \in LiveKeys(aliases), logical \in LogicalIds :
        /\ aliases[a].logical = logical
        /\ hasLiveSessionForLogicalSession(sessions, logical)
        /\ hasLiveSessionForLogicalSession(sessions, logical)'
        /\ a \notin closing \cup DOMAIN sessions'
        => HandleSurvives(a)
<1>1. IInv /\ [Next]_vars => Keeps
  <2> SUFFICES ASSUME IInv, [Next]_vars, NEW a \in LiveKeys(aliases),
                      hasLiveSessionForLogicalSession(sessions, aliases[a].logical),
                      NEW logical, logical = aliases[a].logical,
                      hasLiveSessionForLogicalSession(sessions, logical)',
                      a \notin closing \cup DOMAIN sessions'
               PROVE  HandleSurvives(a)
    OBVIOUS
  <2>1. CASE UNCHANGED aliases
    BY <2>1 DEF HandleSurvives, LiveKeys
  <2>2. CASE StoreStep /\ UNCHANGED now
    <3>1. hasLiveSessionForLogicalSession(sessions', logical)
      BY <2>2 DEF hasLiveSessionForLogicalSession, LiveKeys, ExpiredKeys, isExpiredRecord
    <3>2. a \notin DOMAIN sessions
      BY DEF IInv, NoIdHasTwoMeanings, LiveKeys
    <3>3. Surviving(a)
      BY <3>1, <3>2 DEF Surviving
    <3> QED
      BY <2>2, <3>3, StoreStepKeeps
  <2> QED
    BY <2>1, <2>2 DEF Next, vars, sessionVars
<1>2. Keeps => [Keeps]_vars
  OBVIOUS
<1> QED
  BY <1>1, <1>2, IInvInvariant, PTL DEF Spec, RevocationHandlesSurvive
=============================================================================
