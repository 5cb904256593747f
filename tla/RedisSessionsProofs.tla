------------------------- MODULE RedisSessionsProofs -------------------------
(***************************************************************************)
(* Proofs that the safety invariants of RedisSessions hold for any number  *)
(* of overlapping calls, IDs, lineages, subjects and providers, any clock  *)
(* and any number of writes.                                               *)
(***************************************************************************)
EXTENDS RedisSessions, TLAPS

Entry == [id : Ids, session : Session \cup {None}]

\* The record of a scan; its batch holds IDs before MGET and entries after.
ScanRecord(phases, batches) ==
  [phase : phases, scope : Scopes, found : BOOLEAN, batch : batches,
   ended : SUBSET Nat, targets : SUBSET Nat]

\* What a call can be doing.
CallState ==
  [phase : {"idle", "maintain"}]
    \cup [phase : {"rotate"}, id : Ids, next : Ids, expiresAt : Deadlines, source : Session]
    \cup [phase : {"delete"}, id : Ids, observed : Session]
    \cup [phase : {"alias"}, id : Ids]
    \cup [phase : {"lineage", "aliases"}, scope : [kind : {"logical"}, value : Lineages, provider : {None}]]
    \cup ScanRecord({"scan", "read"}, SUBSET Ids)
    \cup ScanRecord({"judge"}, SUBSET Entry)

(***************************************************************************)
(* Stamps count the writes, and no two keys hold records of one stamp or   *)
(* of one login: a rotation moves a session, it does not copy it.          *)
(***************************************************************************)
Stamps ==
  /\ \A id \in Ids :
       primary[id] # None => primary[id].stamp <= writes /\ primary[id].login <= writes
  /\ \A id, other \in Ids :
       primary[id] # None /\ primary[other] # None
         /\ (primary[id].login = primary[other].login \/ primary[id].stamp = primary[other].stamp)
       => id = other

\* No key outlives its deadline.
Unexpired ==
  \A id \in Ids :
    /\ primary[id] # None => primary[id].expiresAt > now
    /\ alias[id] # None => alias[id].expiresAt > now

Shape ==
  /\ now \in Nat /\ writes \in Nat
  /\ primary \in [Ids -> Session \cup {None}]
  /\ alias \in [Ids -> Alias \cup {None}]
  /\ index \in [Indexes -> ZSet]
  /\ aliasIndex \in [Lineages -> ZSet]

\* What is in Redis.
Store == Shape /\ Unexpired /\ SessionsAreIndexed /\ AliasesAreOwned /\ Stamps

\* What the calls remember.
Memory ==
  /\ call \in [Calls -> CallState]
  /\ owed \in [Calls -> SUBSET Ids]
  /\ \A c \in Calls : In(c, "rotate") => call[c].next # call[c].id

Scanning(c) == call[c].phase \in {"scan", "read", "judge"}

\* The scan has yet to return the ID, to read it or to judge what it read.
Pending(c, id) ==
  \/ id \in owed[c]
  \/ call[c].phase = "read" /\ id \in call[c].batch
  \/ call[c].phase = "judge" /\ [id |-> id, session |-> primary[id]] \in call[c].batch

\* A target that is still there is pending.
TargetsArePending(c) ==
  /\ \A t \in call[c].targets : t <= writes
  /\ \A id \in InScope(call[c].scope) :
       primary[id].stamp \in call[c].targets => Pending(c, id)

\* A login that was ended is gone for good.
EndedIsGone(c) ==
  \A login \in call[c].ended :
    /\ login <= writes
    /\ \A id \in Ids : primary[id] # None => primary[id].login # login

SameKeys(r, s) == r.lineage = s.lineage /\ r.subject = s.subject /\ r.provider = s.provider

\* What a session that was read has become since keeps its keys.
ReadsAreKin(c) ==
  call[c].phase = "judge" =>
    \A entry \in call[c].batch : entry.session # None =>
      /\ entry.session.login <= writes
      /\ \A id \in Ids :
           primary[id] # None /\ primary[id].login = entry.session.login =>
             SameKeys(primary[id], entry.session)

ScanOK(c) == Scanning(c) => TargetsArePending(c) /\ EndedIsGone(c) /\ ReadsAreKin(c)

IInv == Store /\ Memory /\ \A c \in Calls : ScanOK(c)

(***************************************************************************)
(* What any step does to the sessions: it keeps or removes one, or writes  *)
(* one that is new or carries on a session that was there.                 *)
(***************************************************************************)
Evolves ==
  /\ writes <= writes'
  /\ \A id \in Ids : primary'[id] # None =>
       \/ primary'[id] = primary[id]
       \/ /\ primary'[id].stamp > writes
          /\ \/ primary'[id].login > writes
             \/ \E other \in Ids :
                  /\ primary[other] # None
                  /\ primary'[id].login = primary[other].login
                  /\ SameKeys(primary'[id], primary[other])

Shrinks == writes' = writes /\ \A id \in Ids : primary'[id] \in {primary[id], None}

----------------------------------------------------------------------------
\* A store that only loses records changes none of them.
LEMMA ShrinksEvolves == Store /\ Shrinks => Evolves
  BY DEF Store, Shape, Shrinks, Evolves

\* What Goto leaves of the calls.
LEMMA GotoFacts ==
  ASSUME Memory, NEW c \in Calls, NEW next, Goto(c, next)
  PROVE  /\ call'[c] = next
         /\ \A d \in Calls : d # c => call'[d] = call[d]
         /\ next \in CallState => call' \in [Calls -> CallState]
  BY DEF Memory, Goto

\* The kinds of index a scope can be about.
LEMMA ScopeFacts ==
  ASSUME NEW scope \in Scopes, NEW session \in Session
  PROVE  /\ scope.value \in Indexes
         /\ BelongsTo(session, scope) <=> scope.value \in {session.lineage, session.subject}
         /\ Matches(session, scope) => BelongsTo(session, scope)
  BY RedisAssumption DEF Scopes, Session, Indexes, BelongsTo, Matches

\* A call of this phase remembers this.
LEMMA CallFacts ==
  ASSUME Memory, NEW c \in Calls
  PROVE  /\ In(c, "rotate") =>
              call[c] \in [phase : {"rotate"}, id : Ids, next : Ids, expiresAt : Deadlines,
                           source : Session]
         /\ In(c, "delete") => call[c].id \in Ids /\ call[c].observed \in Session
         /\ In(c, "alias") => call[c].id \in Ids
         /\ In(c, "lineage") \/ In(c, "aliases") =>
              call[c].scope \in [kind : {"logical"}, value : Lineages, provider : {None}]
         /\ In(c, "scan") \/ In(c, "read") => call[c] \in ScanRecord({"scan", "read"}, SUBSET Ids)
         /\ In(c, "judge") => call[c] \in ScanRecord({"judge"}, SUBSET Entry)
<1>1. call[c] \in CallState
  BY DEF Memory
<1> QED
  BY <1>1 DEF CallState, In, ScanRecord

\* The types of what a scanning call holds.
LEMMA ScanFacts ==
  ASSUME Memory, NEW c \in Calls, Scanning(c)
  PROVE  /\ call[c].scope \in Scopes /\ call[c].scope.value \in Indexes
         /\ call[c].targets \subseteq Nat /\ call[c].ended \subseteq Nat
<1>1. call[c] \in ScanRecord({"scan", "read"}, SUBSET Ids) \cup ScanRecord({"judge"}, SUBSET Entry)
  BY CallFacts DEF Scanning, In
<1> QED
  BY <1>1 DEF ScanRecord, Scopes, Indexes

\* ZSCAN owes only IDs.
LEMMA OweFacts ==
  ASSUME IInv, Owe, call' \in [Calls -> CallState], index' \in [Indexes -> ZSet]
  PROVE  /\ owed' \in [Calls -> SUBSET Ids]
         /\ \A c \in Calls : Scanning(c)' =>
              owed'[c] = IF ~Scanning(c) THEN Members(index'[call'[c].scope.value])
                         ELSE (owed[c] \cap Members(index'[call'[c].scope.value])) \
                                (IF call'[c].phase = "read" THEN call'[c].batch ELSE {})
  BY DEF Owe, Scanning, Members

(***************************************************************************)
(* A session in the scope of a scan is a member of the index it scans.     *)
(***************************************************************************)
Listed == \A scope \in Scopes : \A id \in InScope(scope) : id \in Members(index[scope.value])

\* A session in the scope of a deletion is listed in the index it scans.
LEMMA InScopeIsListed == Shape /\ SessionsAreIndexed => Listed
<1> SUFFICES ASSUME Shape, SessionsAreIndexed, NEW scope \in Scopes, NEW id \in InScope(scope)
             PROVE  id \in Members(index[scope.value])
  BY DEF Listed
<1>1. id \in Ids /\ primary[id] \in Session /\ Matches(primary[id], scope)
  BY DEF InScope, Shape
<1>2. index[scope.value][id] = primary[id].expiresAt
  BY <1>1, ScopeFacts, RecordAssumption DEF SessionsAreIndexed
<1>3. primary[id].expiresAt # None
  BY <1>1, RedisAssumption DEF Session, Deadlines, Never
<1> QED
  BY <1>1, <1>2, <1>3 DEF Members

\* The same, from the store's part of the invariant.
LEMMA StoreIsListed == Store => Listed
  BY InScopeIsListed DEF Store

(***************************************************************************)
(* A scan that another call's step, or the clock, interrupts.              *)
(***************************************************************************)
LEMMA ScanSurvives ==
  ASSUME IInv, Owe, Store', call' \in [Calls -> CallState], Evolves,
         NEW d \in Calls, call'[d] = call[d]
  PROVE  ScanOK(d)'
<1> SUFFICES ASSUME Scanning(d) PROVE (TargetsArePending(d) /\ EndedIsGone(d) /\ ReadsAreKin(d))'
  BY DEF ScanOK, Scanning
<1>1. /\ TargetsArePending(d) /\ EndedIsGone(d) /\ ReadsAreKin(d)
      /\ call[d].scope \in Scopes
      /\ call[d].targets \subseteq Nat /\ call[d].ended \subseteq Nat
  BY ScanFacts DEF IInv, ScanOK
<1>2. /\ writes \in Nat /\ writes' \in Nat /\ writes <= writes'
      /\ \A id \in Ids : primary'[id] # None => primary'[id] \in Session
      /\ \A id \in Ids : primary[id] # None => primary[id] \in Session
  BY DEF IInv, Store, Shape, Evolves
<1>3. TargetsArePending(d)'
  <2>1. \A t \in call[d].targets : t <= writes'
    BY <1>1, <1>2 DEF TargetsArePending
  <2>2. ASSUME NEW id \in InScope(call[d].scope)', primary'[id].stamp \in call[d].targets
        PROVE  Pending(d, id)'
    <3>1. id \in Ids /\ primary'[id] # None /\ primary'[id] = primary[id]
      BY <1>1, <1>2, <2>2 DEF InScope, Evolves, TargetsArePending, Session
    <3>2. Pending(d, id)
      BY <1>1, <2>2, <3>1 DEF InScope, TargetsArePending
    <3>3. id \in Members(index'[call[d].scope.value])
      <4>1. Listed'
        BY StoreIsListed, PTL
      <4> QED
        BY <1>1, <2>2, <4>1 DEF Listed, InScope, Members
    <3>4. owed'[d] = (owed[d] \cap Members(index'[call[d].scope.value])) \
                       (IF call[d].phase = "read" THEN call[d].batch ELSE {})
      BY OweFacts DEF Store, Shape, Scanning
    <3> QED
      BY <3>1, <3>2, <3>3, <3>4 DEF Pending
  <2> QED
    BY <2>1, <2>2 DEF TargetsArePending
<1>4. EndedIsGone(d)'
  BY <1>1, <1>2 DEF EndedIsGone, Evolves, Session
<1>5. ReadsAreKin(d)'
  <2> SUFFICES ASSUME call[d].phase = "judge", NEW entry \in call[d].batch, entry.session # None
               PROVE  /\ entry.session.login <= writes'
                      /\ \A id \in Ids :
                           primary'[id] # None /\ primary'[id].login = entry.session.login =>
                             SameKeys(primary'[id], entry.session)
    BY DEF ReadsAreKin
  <2>1. entry.session.login \in Nat
    BY RecordAssumption, CallFacts DEF IInv, In, ScanRecord, Entry, Session
  <2>2. /\ entry.session.login <= writes
        /\ \A id \in Ids :
             primary[id] # None /\ primary[id].login = entry.session.login =>
               SameKeys(primary[id], entry.session)
    BY <1>1 DEF ReadsAreKin
  <2>3. ASSUME NEW id \in Ids, primary'[id] # None, primary'[id].login = entry.session.login
        PROVE  SameKeys(primary'[id], entry.session)
    <3>1. CASE primary'[id] = primary[id]
      BY <2>2, <2>3, <3>1
    <3>2. CASE primary'[id].login > writes
      BY <1>2, <2>1, <2>2, <2>3, <3>2
    <3>3. ASSUME NEW other \in Ids, primary[other] # None,
                 primary'[id].login = primary[other].login,
                 SameKeys(primary'[id], primary[other])
          PROVE  SameKeys(primary'[id], entry.session)
      BY <2>2, <2>3, <3>3 DEF SameKeys
    <3> QED
      BY <2>3, <3>1, <3>2, <3>3 DEF Evolves
  <2> QED
    BY <1>2, <2>1, <2>2, <2>3
<1> QED
  BY <1>3, <1>4, <1>5

(***************************************************************************)
(* A step of one call, when it keeps the store and its own scan in order.  *)
(***************************************************************************)
LEMMA OneCallMoves ==
  ASSUME IInv, Owe, Store', Evolves,
         NEW c \in Calls, NEW next \in CallState, Goto(c, next),
         next.phase = "rotate" => next.next # next.id,
         next.phase \in {"scan", "read", "judge"} => ScanOK(c)'
  PROVE  IInv'
<1>1. /\ call' \in [Calls -> CallState] /\ call'[c] = next
      /\ \A d \in Calls : d # c => call'[d] = call[d]
  BY GotoFacts DEF IInv
<1>2. Memory'
  BY <1>1, OweFacts DEF IInv, Memory, In, Store, Shape
<1>3. \A d \in Calls : ScanOK(d)'
  BY <1>1, ScanSurvives DEF ScanOK, Scanning
<1> QED
  BY <1>2, <1>3 DEF IInv

\* The same for a step that ends a call or leaves the store alone.
LEMMA StoreUnchanged ==
  ASSUME Store, UNCHANGED <<now, redis, writes>>
  PROVE  Store' /\ Shrinks
  BY DEF redis, Store, Shape, Unexpired, SessionsAreIndexed, AliasesAreOwned, Stamps, Shrinks

\* Idle and maintaining calls are well-formed.
LEMMA IdleIsState == Idle \in CallState /\ [phase |-> "maintain"] \in CallState
  BY DEF Idle, CallState

\* The empty store satisfies the invariant.
LEMMA InitIInv == Init => IInv
<1> SUFFICES ASSUME Init PROVE IInv
  OBVIOUS
<1>1. Shape
  BY DEF Init, Shape, ZSet
<1>2. Memory /\ \A c \in Calls : ScanOK(c)
  BY IdleIsState DEF Init, Memory, In, Idle, ScanOK, Scanning
<1> QED
  BY <1>1, <1>2 DEF Init, IInv, Store, Unexpired, SessionsAreIndexed, AliasesAreOwned, Stamps

\* Keys that vanish at their deadline keep the invariant; their index members may stay.
LEMMA TickStep ==
  ASSUME IInv, Tick, Owe
  PROVE  IInv'
<1> DEFINE kept(r) == IF r = None \/ r.expiresAt <= now + 1 THEN None ELSE r
<1>1. /\ now' = now + 1 /\ UNCHANGED <<index, aliasIndex, call, writes>>
      /\ primary' = [id \in Ids |-> kept(primary[id])]
      /\ alias' = [id \in Ids |-> kept(alias[id])]
  BY DEF Tick
<1>2. \A id \in Ids :
        /\ primary'[id] \in {primary[id], None} /\ alias'[id] \in {alias[id], None}
        /\ primary'[id] # None => primary[id].expiresAt > now'
        /\ alias'[id] # None => alias[id].expiresAt > now'
  <2> SUFFICES ASSUME NEW id \in Ids
               PROVE  /\ primary'[id] \in {primary[id], None} /\ alias'[id] \in {alias[id], None}
                      /\ primary'[id] # None => primary[id].expiresAt > now'
                      /\ alias'[id] # None => alias[id].expiresAt > now'
    OBVIOUS
  <2>1. /\ now \in Nat
        /\ primary[id] # None => primary[id].expiresAt \in Nat
        /\ alias[id] # None => alias[id].expiresAt \in Nat
    BY RedisAssumption DEF IInv, Store, Shape, Session, Alias, Deadlines, Never
  <2> QED
    BY <1>1, <2>1
<1>3. Store' /\ Shrinks
  <2>1. Shape' /\ Shrinks
    BY <1>1, <1>2 DEF IInv, Store, Shape, Shrinks
  <2>2. Unexpired' /\ SessionsAreIndexed'
    BY <1>1, <1>2 DEF IInv, Store, Unexpired, SessionsAreIndexed
  <2>3. AliasesAreOwned' /\ Stamps'
    BY <1>1, <1>2 DEF IInv, Store, AliasesAreOwned, Stamps
  <2> QED
    BY <2>1, <2>2, <2>3 DEF Store
<1>4. Memory'
  BY <1>1, <1>3, OweFacts DEF IInv, Memory, In, Store, Shape
<1>5. \A d \in Calls : ScanOK(d)'
  BY <1>1, <1>3, <1>4, ShrinksEvolves, ScanSurvives DEF IInv, Memory
<1> QED
  BY <1>3, <1>4, <1>5 DEF IInv

(***************************************************************************)
(* A step that leaves Redis alone and does not scan.                       *)
(***************************************************************************)
LEMMA QuietStep ==
  ASSUME IInv, Owe, UNCHANGED <<now, redis, writes>>,
         NEW c \in Calls, NEW next \in CallState, Goto(c, next),
         next.phase = "rotate" => next.next # next.id,
         next.phase \notin {"scan", "read", "judge"}
  PROVE  IInv'
  BY StoreUnchanged, ShrinksEvolves, OneCallMoves DEF IInv

\* createSession keeps the invariant.
LEMMA createSessionStep ==
  ASSUME IInv, Owe, NEW c \in Calls, NEW id \in Ids, NEW l \in Lineages, NEW s \in Subjects,
         NEW p \in Providers, NEW e \in Deadlines, createSession(c, id, l, s, p, e)
  PROVE  IInv'
<1> DEFINE session == [lineage |-> l, subject |-> s, provider |-> p, expiresAt |-> e,
                       stamp |-> writes + 1, login |-> writes + 1]
<1>1. CASE primary[id] # None
  BY <1>1, IdleIsState, QuietStep DEF createSession, Idle
<1>2. CASE primary[id] = None
  <2>1. /\ writes < MaxWrites /\ e > now /\ UNCHANGED now
        /\ primary' = [primary EXCEPT ![id] = session]
        /\ index' = [index EXCEPT ![s] = ZAdd(@, e, id), ![l] = ZAdd(@, e, id)]
        /\ alias' = [alias EXCEPT ![id] = None]
        /\ aliasIndex' = Unaliased(id)
        /\ writes' = writes + 1
        /\ Goto(c, [phase |-> "maintain"])
    BY <1>2 DEF createSession
  <2>2. /\ Shape /\ writes \in Nat /\ session \in Session /\ s # l
        /\ s \in Indexes /\ l \in Indexes /\ e # None /\ e \in Nat /\ now \in Nat
        /\ session # None
    <3>1. writes \in Nat /\ e \in Nat /\ Shape /\ now \in Nat
      BY RedisAssumption DEF IInv, Store, Shape, Deadlines, Never
    <3>2. session \in Session
      BY <2>1, <3>1, RedisAssumption DEF Session
    <3> QED
      BY <3>1, <3>2, RedisAssumption, RecordAssumption DEF Indexes
  <2>3. /\ primary' \in [Ids -> Session \cup {None}] /\ primary'[id] = session
        /\ \A o \in Ids : o # id => primary'[o] = primary[o]
    BY <2>1, <2>2 DEF Shape
  <2>4. /\ index' \in [Indexes -> ZSet]
        /\ index'[s][id] = e /\ index'[l][id] = e
        /\ \A k \in Indexes : \A o \in Ids : o # id => index'[k][o] = index[k][o]
    BY <2>1, <2>2 DEF Shape, ZSet, ZAdd
  <2>5. /\ alias' \in [Ids -> Alias \cup {None}] /\ alias'[id] = None
        /\ \A o \in Ids : o # id => alias'[o] = alias[o]
    BY <2>1, <2>2 DEF Shape
  <2>6. /\ aliasIndex' \in [Lineages -> ZSet]
        /\ \A k \in Lineages : \A o \in Ids : o # id => aliasIndex'[k][o] = aliasIndex[k][o]
    BY <2>1, <2>2 DEF Shape, Unaliased, Alias, ZSet, ZRem
  <2>7. Shape'
    BY <2>1, <2>2, <2>3, <2>4, <2>5, <2>6 DEF Shape
  <2>8. Unexpired'
    BY <2>1, <2>2, <2>3, <2>5 DEF IInv, Store, Unexpired
  <2>9. SessionsAreIndexed'
    <3> SUFFICES ASSUME NEW o \in Ids, primary'[o] # None,
                        NEW k \in {primary'[o].lineage, primary'[o].subject}
                 PROVE  index'[k][o] = primary'[o].expiresAt
      BY DEF SessionsAreIndexed
    <3>1. CASE o = id
      BY <2>2, <2>3, <2>4, <3>1
    <3>2. CASE o # id
      <4>1. primary'[o] = primary[o] /\ k \in Indexes
        BY <2>2, <2>3, <3>2 DEF Shape, Session, Indexes
      <4> QED
        BY <2>4, <3>2, <4>1 DEF IInv, Store, SessionsAreIndexed
    <3> QED
      BY <3>1, <3>2
  <2>10. AliasesAreOwned'
    <3> SUFFICES ASSUME NEW o \in Ids, alias'[o] # None
                 PROVE  primary'[o] = None /\ aliasIndex'[alias'[o].lineage][o] = alias'[o].expiresAt
      BY DEF AliasesAreOwned
    <3>1. o # id /\ alias'[o] = alias[o] /\ alias[o].lineage \in Lineages
      BY <2>2, <2>5 DEF Shape, Alias
    <3> QED
      BY <2>3, <2>6, <3>1 DEF IInv, Store, AliasesAreOwned
  <2>11. Stamps'
    <3>1. \A o \in Ids : primary[o] # None =>
            /\ primary[o].stamp \in Nat /\ primary[o].login \in Nat
            /\ primary[o].stamp <= writes /\ primary[o].login <= writes
      BY <2>2, RedisAssumption DEF IInv, Store, Shape, Stamps, Session
    <3> QED
      BY <2>1, <2>2, <2>3, <3>1 DEF IInv, Store, Stamps
  <2>12. Evolves
    BY <2>1, <2>2, <2>3 DEF Evolves
  <2> QED
    BY <2>1, <2>7, <2>8, <2>9, <2>10, <2>11, <2>12, IdleIsState, OneCallMoves DEF Store
<1> QED
  BY <1>1, <1>2

\* rotateSession keeps the invariant.
LEMMA rotateSessionStep ==
  ASSUME IInv, Owe, NEW c \in Calls, NEW id \in Ids, NEW next \in Ids, NEW e \in Deadlines,
         rotateSession(c, id, next, e)
  PROVE  IInv'
<1> DEFINE op == [phase |-> "rotate", id |-> id, next |-> next, expiresAt |-> e,
                  source |-> primary[id]]
<1>1. UNCHANGED <<now, redis, writes>>
  BY DEF rotateSession
<1>2. CASE primary[id] = None \/ next = id
  BY <1>1, <1>2, IdleIsState, QuietStep DEF rotateSession, Idle
<1>3. CASE primary[id] # None /\ next # id
  <2>1. op \in CallState
    BY <1>3 DEF IInv, Store, Shape, CallState
  <2>2. Goto(c, op)
    BY <1>3 DEF rotateSession
  <2> HIDE DEF op
  <2>3. op.phase = "rotate" /\ op.next # op.id
    BY <1>3 DEF op
  <2> QED
    BY <1>1, <2>1, <2>2, <2>3, QuietStep
<1> QED
  BY <1>2, <1>3

(***************************************************************************)
(* The rotation: the source the call remembers is the session that is      *)
(* there, so the new record carries its lineage, subject and login on, and *)
(* the one it replaces is gone.                                            *)
(***************************************************************************)
LEMMA RotateStep ==
  ASSUME IInv, Owe, NEW c \in Calls, Rotate(c)
  PROVE  IInv'
<1> DEFINE op == call[c]
           session == [op.source EXCEPT !.expiresAt = op.expiresAt, !.stamp = writes + 1]
           old == [lineage |-> session.lineage, expiresAt |-> op.expiresAt]
<1>1. CASE ~SameSource(op.source, primary[op.id]) \/ primary[op.next] # None
  BY <1>1, IdleIsState, QuietStep DEF Rotate, Idle
<1>2. CASE SameSource(op.source, primary[op.id]) /\ primary[op.next] = None
  <2>1. /\ writes < MaxWrites /\ UNCHANGED now
        /\ primary' = [primary EXCEPT ![op.id] = None, ![op.next] = Kept(session)]
        /\ index' = [k \in Indexes |->
                       IF k \in {session.lineage, session.subject}
                       THEN ZAdd(ZRem(index[k], {op.id}), op.expiresAt, op.next)
                       ELSE index[k]]
        /\ alias' = Aliased(op.id, op.next, old)
        /\ aliasIndex' = [Unaliased(op.next) EXCEPT ![session.lineage] =
                            ZAdd(@, op.expiresAt, op.id)]
        /\ writes' = writes + 1
        /\ Goto(c, [phase |-> "maintain"])
    BY <1>2 DEF Rotate
  <2>2. /\ op.id \in Ids /\ op.next \in Ids /\ op.next # op.id
        /\ op.expiresAt \in Deadlines /\ op.source \in Session
        /\ primary[op.id] = op.source /\ primary[op.id] # None
    <3>1. op \in [phase : {"rotate"}, id : Ids, next : Ids, expiresAt : Deadlines, source : Session]
      BY CallFacts DEF IInv, Rotate
    <3>2. op.next # op.id
      BY DEF IInv, Memory, Rotate
    <3> QED
      BY <1>2, <3>1, <3>2, RecordAssumption DEF SameSource
  <2>3. /\ Shape /\ writes \in Nat /\ now \in Nat
        /\ op.expiresAt \in Nat /\ op.expiresAt # None
    BY <2>2, RedisAssumption DEF IInv, Store, Shape, Deadlines, Never
  <2>4. /\ session \in Session /\ session.stamp = writes + 1 /\ session.expiresAt = op.expiresAt
        /\ session.lineage = op.source.lineage /\ session.subject = op.source.subject
        /\ session.provider = op.source.provider /\ session.login = op.source.login
    <3>1. writes + 1 \in 1 .. MaxWrites
      BY <2>1, <2>3, RedisAssumption
    <3>2. op.source \in Session /\ op.expiresAt \in Deadlines
      BY <2>2
    <3> HIDE DEF op
    <3> QED
      BY <3>1, <3>2 DEF Session
  <2>5. old \in Alias /\ old.lineage = session.lineage /\ old.expiresAt = op.expiresAt
    BY <2>2, <2>4 DEF Alias, Session
  <2> DEFINE id == op.id
             next == op.next
             e == op.expiresAt
             l == session.lineage
             s == session.subject
  <2> HIDE DEF op, session, old, id, next, e, l, s
  <2>6. /\ l \in Lineages /\ s \in Subjects /\ l \in Indexes /\ s \in Indexes
    BY <2>4 DEF Session, Indexes, l, s
  <2>7. /\ primary' \in [Ids -> Session \cup {None}]
        /\ primary'[id] = None /\ primary'[next] \in {session, None}
        /\ primary'[next] # None => e > now
        /\ \A o \in Ids : o \notin {id, next} => primary'[o] = primary[o]
    <3>1. Kept(session) \in {session, None} /\ (Kept(session) # None => e > now)
      BY <2>4 DEF Kept, e
    <3> QED
      BY <2>1, <2>2, <2>3, <2>4, <3>1 DEF Shape, id, next
  <2>8. /\ index' \in [Indexes -> ZSet]
        /\ index'[l][next] = e /\ index'[s][next] = e
        /\ \A k \in Indexes : \A o \in Ids : o \notin {id, next} => index'[k][o] = index[k][o]
    BY <2>1, <2>2, <2>3, <2>6 DEF Shape, ZSet, ZAdd, ZRem, id, next, e, l, s
  <2>9. /\ alias' \in [Ids -> Alias \cup {None}]
        /\ alias'[next] = None /\ alias'[id] \in {old, None}
        /\ alias'[id] # None => e > now
        /\ \A o \in Ids : o \notin {id, next} => alias'[o] = alias[o]
    <3>1. Kept(old) \in {old, None} /\ (Kept(old) # None => e > now)
      BY <2>5 DEF Kept, e
    <3> QED
      BY <2>1, <2>2, <2>3, <2>5, <3>1 DEF Shape, Aliased, id, next
  <2>10. /\ aliasIndex' \in [Lineages -> ZSet] /\ aliasIndex'[l][id] = e
         /\ \A k \in Lineages : \A o \in Ids : o \notin {id, next} =>
              aliasIndex'[k][o] = aliasIndex[k][o]
    <3>1. /\ Unaliased(next) \in [Lineages -> ZSet]
          /\ \A k \in Lineages : \A o \in Ids : o # next => Unaliased(next)[k][o] = aliasIndex[k][o]
      BY <2>2, <2>3 DEF Shape, Unaliased, Alias, ZSet, ZRem, next
    <3>2. aliasIndex' = [Unaliased(next) EXCEPT ![l] = ZAdd(@, e, id)]
      BY <2>1 DEF id, next, e, l
    <3>3. id \in Ids /\ e \in Deadlines
      BY <2>2 DEF id, e
    <3> QED
      BY <2>6, <3>1, <3>2, <3>3 DEF ZSet, ZAdd
  <2>11. id \in Ids /\ next \in Ids /\ id # next /\ e \in Nat
    BY <2>2, <2>3 DEF id, next, e
  <2>12. Shape' /\ Unexpired'
    <3>1. Shape'
      <4>1. now' \in Nat /\ writes' \in Nat
        BY <2>1, <2>3
      <4> QED
        BY <2>7, <2>8, <2>9, <2>10, <4>1 DEF Shape
    <3>2. session.expiresAt = e /\ old.expiresAt = e
      BY <2>4, <2>5 DEF e
    <3> QED
      BY <2>1, <2>7, <2>9, <2>11, <3>1, <3>2 DEF IInv, Store, Unexpired
  <2>13. SessionsAreIndexed'
    <3> SUFFICES ASSUME NEW o \in Ids, primary'[o] # None,
                        NEW k \in {primary'[o].lineage, primary'[o].subject}
                 PROVE  index'[k][o] = primary'[o].expiresAt
      BY DEF SessionsAreIndexed
    <3>1. CASE o = next
      BY <2>4, <2>7, <2>8, <3>1 DEF e, l, s
    <3>2. CASE o \notin {id, next}
      <4>1. primary'[o] = primary[o] /\ k \in Indexes
        BY <2>3, <2>7, <3>2 DEF Shape, Session, Indexes
      <4> QED
        BY <2>8, <3>2, <4>1 DEF IInv, Store, SessionsAreIndexed
    <3> QED
      BY <2>7, <3>1, <3>2
  <2>14. AliasesAreOwned'
    <3> SUFFICES ASSUME NEW o \in Ids, alias'[o] # None
                 PROVE  primary'[o] = None /\ aliasIndex'[alias'[o].lineage][o] = alias'[o].expiresAt
      BY DEF AliasesAreOwned
    <3>1. CASE o = id
      BY <2>5, <2>7, <2>9, <2>10, <3>1 DEF e, l
    <3>2. CASE o \notin {id, next}
      <4>1. alias'[o] = alias[o] /\ alias[o].lineage \in Lineages
        BY <2>3, <2>9, <3>2 DEF Shape, Alias
      <4> QED
        BY <2>7, <2>10, <3>2, <4>1 DEF IInv, Store, AliasesAreOwned
    <3> QED
      BY <2>9, <3>1, <3>2
  <2>15. \A o \in Ids : primary[o] # None =>
           /\ primary[o].stamp \in Nat /\ primary[o].login \in Nat
           /\ primary[o].stamp <= writes /\ primary[o].login <= writes
    BY <2>3, RedisAssumption DEF IInv, Store, Shape, Stamps, Session
  <2>16. primary[id] # None /\ session.login = primary[id].login /\ SameKeys(session, primary[id])
    BY <2>2, <2>4 DEF SameKeys, id
  <2>17. session.stamp = writes + 1
    BY <2>4
  <2>18. Stamps'
    BY <2>1, <2>3, <2>7, <2>11, <2>15, <2>16, <2>17 DEF IInv, Store, Stamps
  <2>19. Evolves
    BY <2>1, <2>3, <2>7, <2>11, <2>16, <2>17 DEF Evolves
  <2> QED
    BY <2>1, <2>12, <2>13, <2>14, <2>18, <2>19, IdleIsState, OneCallMoves DEF Store
<1> QED
  BY <1>1, <1>2

(***************************************************************************)
(* Pruning removes what has expired, and no live session's or alias' score *)
(* has.                                                                    *)
(***************************************************************************)
LEMMA PrunedFacts ==
  ASSUME NEW z \in ZSet
  PROVE  /\ Pruned(z) \in ZSet
         /\ \A id \in Ids : z[id] > now /\ z[id] # None /\ now \in Nat /\ z[id] \in Nat => Pruned(z)[id] = z[id]
  BY DEF ZSet, Pruned, ZRem, Members

\* Pruning an index drops no member whose session is there.
LEMMA PrunedIndexStore ==
  ASSUME Store, NEW k \in Indexes, index' = [index EXCEPT ![k] = Pruned(@)],
         UNCHANGED <<now, primary, alias, aliasIndex, writes>>
  PROVE  Store' /\ Shrinks
<1>1. Shape' /\ Shrinks
  BY PrunedFacts DEF Store, Shape, Shrinks
<1>2. SessionsAreIndexed'
  <2> SUFFICES ASSUME NEW id \in Ids, primary[id] # None,
                      NEW j \in {primary[id].lineage, primary[id].subject}
               PROVE  index'[j][id] = primary[id].expiresAt
    BY DEF SessionsAreIndexed
  <2>1. /\ primary[id] \in Session /\ primary[id].expiresAt > now
        /\ primary[id].expiresAt \in Nat /\ now \in Nat
    BY RedisAssumption DEF Store, Shape, Unexpired, Session, Deadlines, Never
  <2>2. index[j][id] = primary[id].expiresAt /\ j \in Indexes
    BY <2>1 DEF Store, SessionsAreIndexed, Session, Indexes
  <2>3. CASE j = k
    BY <2>1, <2>2, <2>3, PrunedFacts, RedisAssumption DEF Store, Shape
  <2>4. CASE j # k
    BY <2>2, <2>4 DEF Store, Shape
  <2> QED
    BY <2>3, <2>4
<1> QED
  BY <1>1, <1>2 DEF Store, Unexpired, AliasesAreOwned, Stamps

\* Pruning an alias list drops no alias that is there.
LEMMA PrunedAliasesStore ==
  ASSUME Store, NEW l \in Lineages, aliasIndex' = [aliasIndex EXCEPT ![l] = Pruned(@)],
         UNCHANGED <<now, primary, alias, index, writes>>
  PROVE  Store' /\ Shrinks
<1>1. Shape' /\ Shrinks
  BY PrunedFacts DEF Store, Shape, Shrinks
<1>2. AliasesAreOwned'
  <2> SUFFICES ASSUME NEW id \in Ids, alias[id] # None
               PROVE  primary[id] = None /\ aliasIndex'[alias[id].lineage][id] = alias[id].expiresAt
    BY DEF AliasesAreOwned
  <2> DEFINE j == alias[id].lineage
  <2>1. /\ alias[id] \in Alias /\ alias[id].expiresAt > now
        /\ alias[id].expiresAt \in Nat /\ now \in Nat
    BY RedisAssumption DEF Store, Shape, Unexpired, Alias, Deadlines, Never
  <2>2. primary[id] = None /\ aliasIndex[j][id] = alias[id].expiresAt /\ j \in Lineages
    BY <2>1 DEF Store, AliasesAreOwned, Alias
  <2>3. CASE j = l
    BY <2>1, <2>2, <2>3, PrunedFacts, RedisAssumption DEF Store, Shape
  <2>4. CASE j # l
    BY <2>2, <2>4 DEF Store, Shape
  <2> QED
    BY <2>3, <2>4
<1> QED
  BY <1>1, <1>2 DEF Store, Unexpired, SessionsAreIndexed, Stamps

\* Maintain keeps the invariant.
LEMMA MaintainStep ==
  ASSUME IInv, Owe, NEW c \in Calls, Maintain(c)
  PROVE  IInv'
<1>1. CASE Goto(c, Idle) /\ UNCHANGED <<index, aliasIndex>>
  BY <1>1, IdleIsState, QuietStep DEF Maintain, Idle, redis
<1>2. CASE UNCHANGED call
  <2>1. Store' /\ Shrinks
    BY <1>2, PrunedIndexStore, PrunedAliasesStore, StoreUnchanged DEF Maintain, IInv, redis
  <2>2. Memory'
    BY <1>2, <2>1, OweFacts DEF IInv, Memory, In, Store, Shape
  <2>3. \A d \in Calls : ScanOK(d)'
    BY <1>2, <2>1, <2>2, ShrinksEvolves, ScanSurvives DEF IInv, Memory
  <2> QED
    BY <2>1, <2>2, <2>3 DEF IInv
<1> QED
  BY <1>1, <1>2 DEF Maintain

(***************************************************************************)
(* Deletion.  A lineage takes its aliases along when it ends: they are the *)
(* ones listed with it.                                                    *)
(***************************************************************************)
LEMMA AliasesEndStore ==
  ASSUME Store, NEW lineage \in Lineages,
         alias' = [id \in Ids |-> IF id \in Members(aliasIndex[lineage]) THEN None ELSE alias[id]],
         aliasIndex' = [aliasIndex EXCEPT ![lineage] = [id \in Ids |-> None]]
  PROVE  /\ alias' \in [Ids -> Alias \cup {None}] /\ aliasIndex' \in [Lineages -> ZSet]
         /\ \A id \in Ids : alias'[id] # None =>
              alias'[id] = alias[id] /\ aliasIndex'[alias[id].lineage] = aliasIndex[alias[id].lineage]
<1>1. alias' \in [Ids -> Alias \cup {None}] /\ aliasIndex' \in [Lineages -> ZSet]
  BY DEF Store, Shape, ZSet
<1>2. ASSUME NEW id \in Ids, alias'[id] # None
      PROVE  alias'[id] = alias[id] /\ aliasIndex'[alias[id].lineage] = aliasIndex[alias[id].lineage]
  <2>1. alias'[id] = alias[id] /\ id \notin Members(aliasIndex[lineage]) /\ alias[id] \in Alias
    BY <1>2 DEF Store, Shape
  <2>2. aliasIndex[alias[id].lineage][id] # None
    BY <1>2, <2>1, RedisAssumption DEF Store, AliasesAreOwned, Alias, Deadlines, Never
  <2>3. alias[id].lineage # lineage /\ alias[id].lineage \in Lineages
    BY <2>1, <2>2 DEF Members, Alias
  <2> QED
    BY <2>1, <2>3 DEF Store, Shape
<1> QED
  BY <1>1, <1>2

\* Deleting records and their members keeps the store's part.
LEMMA DeleteRecordsStore ==
  ASSUME Store, NEW lineage \in Lineages, NEW ids \in SUBSET Ids, NEW stale \in SUBSET Ids,
         \A id \in stale : primary[id] = None,
         DeleteRecords(lineage, ids, stale), UNCHANGED <<now, writes>>
  PROVE  /\ Store' /\ Shrinks
         /\ \A id \in Ids : primary'[id] = IF id \in ids THEN None ELSE primary[id]
<1>1. /\ primary' = [id \in Ids |-> IF id \in ids THEN None ELSE primary[id]]
      /\ index' = [k \in Indexes |->
                     IF k = lineage THEN ZRem(index[k], ids \cup stale)
                     ELSE ZRem(index[k], {id \in ids : primary[id].subject = k})]
  BY DEF DeleteRecords
<1>2. /\ primary' \in [Ids -> Session \cup {None}]
      /\ \A id \in Ids : primary'[id] = IF id \in ids THEN None ELSE primary[id]
  BY <1>1 DEF Store, Shape
<1>3. /\ index' \in [Indexes -> ZSet]
      /\ \A k \in Indexes : \A id \in Ids : primary'[id] # None => index'[k][id] = index[k][id]
  BY <1>1, <1>2 DEF Store, Shape, ZSet, ZRem
<1>4. /\ alias' \in [Ids -> Alias \cup {None}] /\ aliasIndex' \in [Lineages -> ZSet]
      /\ \A id \in Ids : alias'[id] # None =>
           alias'[id] = alias[id] /\ aliasIndex'[alias[id].lineage] = aliasIndex[alias[id].lineage]
  <2>1. CASE UNCHANGED <<alias, aliasIndex>>
    BY <2>1 DEF Store, Shape
  <2>2. CASE /\ alias' = [id \in Ids |-> IF id \in Members(aliasIndex[lineage]) THEN None ELSE alias[id]]
             /\ aliasIndex' = [aliasIndex EXCEPT ![lineage] = [id \in Ids |-> None]]
    BY <2>2, AliasesEndStore
  <2> QED
    BY <2>1, <2>2 DEF DeleteRecords
<1>5. Shape' /\ Shrinks
  BY <1>2, <1>3, <1>4 DEF Store, Shape, Shrinks
<1>6. SessionsAreIndexed'
  BY <1>2, <1>3 DEF Store, Shape, SessionsAreIndexed, Session, Indexes
<1>7. AliasesAreOwned'
  BY <1>2, <1>4 DEF Store, AliasesAreOwned
<1>8. Unexpired' /\ Stamps'
  BY <1>2, <1>4 DEF Store, Unexpired, Stamps
<1> QED
  BY <1>2, <1>5, <1>6, <1>7, <1>8 DEF Store

\* The delete script keeps it, and removes its victims only.
LEMMA DeleteScriptStore ==
  ASSUME Store, NEW id \in Ids, NEW observed \in Session, NEW scope,
         DeleteScript(id, observed, scope), UNCHANGED <<now, writes>>
  PROVE  /\ Store' /\ Shrinks
         /\ \A v \in Ids : primary'[v] = IF v \in Victims(id, observed, scope) THEN None
                                         ELSE primary[v]
<1>1. Victims(id, observed, scope) \in SUBSET Ids
  BY DEF Victims, Living, Members
<1>2. CASE primary[id] # None
  <2>1. primary[id].lineage \in Lineages
    BY <1>2 DEF Store, Shape, Session
  <2>2. DeleteRecords(primary[id].lineage, Victims(id, observed, scope), {})
    BY <1>2 DEF DeleteScript
  <2> HIDE DEF Victims
  <2> QED
    BY <1>1, <2>1, <2>2, DeleteRecordsStore
<1>3. CASE primary[id] = None
  <2> DEFINE stale == {m \in Members(index[observed.lineage]) : primary[m] = None}
  <2>1. observed.lineage \in Lineages /\ stale \in SUBSET Ids /\ \A m \in stale : primary[m] = None
    BY DEF Session, Members
  <2>2. DeleteRecords(observed.lineage, Victims(id, observed, scope), stale)
    BY <1>3 DEF DeleteScript
  <2> HIDE DEF Victims, stale
  <2> QED
    BY <1>1, <2>1, <2>2, DeleteRecordsStore
<1> QED
  BY <1>2, <1>3

\* deleteSession keeps the invariant.
LEMMA deleteSessionStep ==
  ASSUME IInv, Owe, NEW c \in Calls, NEW id \in Ids, deleteSession(c, id)
  PROVE  IInv'
<1> DEFINE op == IF primary[id] # None
                 THEN [phase |-> "delete", id |-> id, observed |-> primary[id]]
                 ELSE [phase |-> "alias", id |-> id]
<1>1. op \in CallState /\ op.phase \in {"delete", "alias"}
  BY DEF IInv, Store, Shape, CallState
<1>2. Goto(c, op) /\ UNCHANGED <<now, redis, writes>>
  BY DEF deleteSession
<1> HIDE DEF op
<1> QED
  BY <1>1, <1>2, QuietStep

\* DeleteOne keeps the invariant.
LEMMA DeleteOneStep ==
  ASSUME IInv, Owe, NEW c \in Calls, DeleteOne(c)
  PROVE  IInv'
<1>1. call[c].id \in Ids /\ call[c].observed \in Session
  BY CallFacts DEF IInv, DeleteOne
<1>2. Store' /\ Shrinks
  BY <1>1, DeleteScriptStore DEF IInv, DeleteOne
<1> QED
  BY <1>2, IdleIsState, ShrinksEvolves, OneCallMoves DEF IInv, DeleteOne, Idle

\* ReadAlias keeps the invariant.
LEMMA ReadAliasStep ==
  ASSUME IInv, Owe, NEW c \in Calls, ReadAlias(c)
  PROVE  IInv'
<1> DEFINE a == alias[call[c].id]
           op == [phase |-> "lineage",
                  scope |-> [kind |-> "logical", value |-> a.lineage, provider |-> None]]
<1>1. UNCHANGED <<now, redis, writes>> /\ call[c].id \in Ids
  BY CallFacts DEF IInv, ReadAlias
<1>2. CASE a = None
  BY <1>1, <1>2, IdleIsState, QuietStep DEF ReadAlias, Idle
<1>3. CASE a # None
  <2>1. a.lineage \in Lineages
    BY <1>1, <1>3 DEF IInv, Store, Shape, Alias
  <2>2. op \in CallState /\ op.phase = "lineage"
    BY <2>1 DEF CallState
  <2>3. Goto(c, op)
    BY <1>3 DEF ReadAlias
  <2> HIDE DEF op
  <2> QED
    BY <1>1, <2>2, <2>3, QuietStep
<1> QED
  BY <1>2, <1>3

\* CleanupAliases keeps the invariant.
LEMMA CleanupAliasesStep ==
  ASSUME IInv, Owe, NEW c \in Calls, CleanupAliases(c)
  PROVE  IInv'
<1> DEFINE lineage == call[c].scope.value
<1>1. /\ UNCHANGED <<now, primary, index, writes>> /\ Goto(c, Idle)
      /\ lineage \in Lineages
  BY CallFacts DEF IInv, CleanupAliases
<1>2. CASE UNCHANGED <<alias, aliasIndex>>
  BY <1>1, <1>2, IdleIsState, QuietStep DEF Idle, redis
<1>3. CASE /\ alias' = [id \in Ids |-> IF id \in Members(aliasIndex[lineage]) THEN None ELSE alias[id]]
           /\ aliasIndex' = [aliasIndex EXCEPT ![lineage] = [id \in Ids |-> None]]
  <2>1. /\ alias' \in [Ids -> Alias \cup {None}] /\ aliasIndex' \in [Lineages -> ZSet]
        /\ \A id \in Ids : alias'[id] # None =>
             alias'[id] = alias[id] /\ aliasIndex'[alias[id].lineage] = aliasIndex[alias[id].lineage]
    BY <1>1, <1>3, AliasesEndStore DEF IInv
  <2>2. Shape' /\ Shrinks
    BY <1>1, <2>1 DEF IInv, Store, Shape, Shrinks
  <2>3. Store'
    BY <1>1, <2>1, <2>2
    DEF IInv, Store, Unexpired, SessionsAreIndexed, AliasesAreOwned, Stamps
  <2> QED
    BY <1>1, <2>2, <2>3, IdleIsState, ShrinksEvolves, OneCallMoves DEF IInv, Idle
<1> QED
  BY <1>2, <1>3 DEF CleanupAliases

(***************************************************************************)
(* The scan.  When it begins, whatever is in its scope is listed, hence    *)
(* owed.                                                                   *)
(***************************************************************************)
LEMMA BeginScanStep ==
  ASSUME IInv, Owe, NEW c \in Calls, ~Scanning(c), NEW scope \in Scopes, BeginScan(c, scope)
  PROVE  IInv'
<1> DEFINE op == [phase |-> "scan", scope |-> scope, found |-> FALSE, batch |-> {}, ended |-> {},
                  targets |-> {primary[id].stamp : id \in InScope(scope)}]
<1>1. /\ index' = [index EXCEPT ![scope.value] = Pruned(@)] /\ Goto(c, op)
      /\ UNCHANGED <<now, primary, alias, aliasIndex, writes>>
  BY DEF BeginScan
<1>2. scope.value \in Indexes
  BY DEF Scopes, Indexes
<1>3. Store' /\ Shrinks
  BY <1>1, <1>2, PrunedIndexStore DEF IInv
<1>4. \A t \in op.targets : t \in Nat /\ t <= writes
  BY RedisAssumption DEF InScope, IInv, Store, Shape, Stamps, Session
<1>5. op \in CallState /\ op.phase = "scan"
  <2>1. op.targets \in SUBSET Nat
    BY <1>4
  <2> HIDE DEF InScope
  <2>2. op \in ScanRecord({"scan", "read"}, SUBSET Ids)
    BY <2>1 DEF ScanRecord
  <2> QED
    BY <2>2 DEF CallState
<1>6. /\ op.scope = scope /\ op.ended = {}
  OBVIOUS
<1> HIDE DEF op
<1>7. call' \in [Calls -> CallState] /\ call'[c] = op
  BY <1>1, <1>5, GotoFacts DEF IInv
<1>8. ScanOK(c)'
  <2>1. Scanning(c)' /\ owed'[c] = Members(index'[scope.value])
    BY <1>3, <1>5, <1>6, <1>7, OweFacts DEF Scanning, Store, Shape
  <2>2. Listed'
    BY <1>3, StoreIsListed, PTL
  <2>3. TargetsArePending(c)'
    BY <1>1, <1>4, <1>6, <1>7, <2>1, <2>2 DEF TargetsArePending, Pending, Listed, InScope, Members
  <2>4. EndedIsGone(c)' /\ ReadsAreKin(c)'
    BY <1>5, <1>6, <1>7 DEF EndedIsGone, ReadsAreKin
  <2> QED
    BY <2>3, <2>4 DEF ScanOK
<1> QED
  BY <1>1, <1>3, <1>5, <1>8, ShrinksEvolves, OneCallMoves DEF IInv

\* deleteSessions keeps the invariant.
LEMMA deleteSessionsStep ==
  ASSUME IInv, Owe, NEW c \in Calls, NEW scope \in Scopes, deleteSessions(c, scope)
  PROVE  IInv'
  BY BeginScanStep DEF deleteSessions, Ready, In, Scanning

\* DeleteLineage keeps the invariant.
LEMMA DeleteLineageStep ==
  ASSUME IInv, Owe, NEW c \in Calls, DeleteLineage(c)
  PROVE  IInv'
<1>1. call[c].scope \in Scopes /\ ~Scanning(c)
  BY CallFacts DEF IInv, DeleteLineage, Scopes, In, Scanning
<1> QED
  BY <1>1, BeginScanStep DEF DeleteLineage

(***************************************************************************)
(* ZSCAN: what it returns moves from owed to the batch.                    *)
(***************************************************************************)
LEMMA ScanBatchStep ==
  ASSUME IInv, Owe, NEW c \in Calls, ScanBatch(c)
  PROVE  IInv'
<1>1. PICK batch \in SUBSET Members(index[call[c].scope.value]) :
        Goto(c, [call[c] EXCEPT !.phase = "read", !.batch = batch])
  BY DEF ScanBatch
<1> DEFINE op == [call[c] EXCEPT !.phase = "read", !.batch = batch]
<1>2. /\ call[c] \in ScanRecord({"scan", "read"}, SUBSET Ids) /\ call[c].phase = "scan"
      /\ batch \in SUBSET Ids
  BY CallFacts DEF IInv, ScanBatch, In, Members
<1>3. /\ op \in ScanRecord({"scan", "read"}, SUBSET Ids)
      /\ op.phase = "read" /\ op.batch = batch
      /\ op.scope = call[c].scope /\ op.targets = call[c].targets /\ op.ended = call[c].ended
  BY <1>2 DEF ScanRecord
<1>4. op \in CallState /\ Goto(c, op) /\ call[c].scope \in Scopes
  BY <1>1, <1>3 DEF CallState, ScanRecord
<1> HIDE DEF op
<1>5. Store' /\ Shrinks /\ UNCHANGED <<primary, writes, index>>
  BY StoreUnchanged DEF IInv, ScanBatch, redis
<1>6. call' \in [Calls -> CallState] /\ call'[c] = op
  BY <1>4, GotoFacts DEF IInv
<1>7. ScanOK(c)'
  <2>1. Scanning(c) /\ Scanning(c)'
    BY <1>2, <1>3, <1>6 DEF Scanning
  <2>2. TargetsArePending(c) /\ EndedIsGone(c)
    BY <2>1 DEF IInv, ScanOK
  <2>3. owed'[c] = (owed[c] \cap Members(index'[call[c].scope.value])) \ batch
    BY <1>3, <1>5, <1>6, <2>1, OweFacts DEF Store, Shape
  <2>4. Listed
    BY StoreIsListed DEF IInv
  <2>5. TargetsArePending(c)'
    <3> SUFFICES ASSUME NEW id \in InScope(call[c].scope), primary[id].stamp \in call[c].targets
                 PROVE  id \in owed'[c] \/ id \in batch
      BY <1>3, <1>5, <1>6, <2>2 DEF TargetsArePending, Pending, InScope
    <3>1. id \in owed[c]
      BY <1>2, <2>2 DEF TargetsArePending, Pending
    <3>2. id \in Members(index'[call[c].scope.value])
      BY <1>4, <1>5, <2>4 DEF Listed
    <3> QED
      BY <2>3, <3>1, <3>2
  <2>6. EndedIsGone(c)' /\ ReadsAreKin(c)'
    BY <1>3, <1>5, <1>6, <2>2 DEF EndedIsGone, ReadsAreKin
  <2> QED
    BY <2>5, <2>6 DEF ScanOK
<1> QED
  BY <1>3, <1>4, <1>5, <1>7, ShrinksEvolves, OneCallMoves DEF IInv

(***************************************************************************)
(* MGET: what is read is what is there.                                    *)
(***************************************************************************)
LEMMA ReadBatchStep ==
  ASSUME IInv, Owe, NEW c \in Calls, ReadBatch(c)
  PROVE  IInv'
<1> DEFINE entries == {[id |-> id, session |-> primary[id]] : id \in call[c].batch}
           op == [call[c] EXCEPT !.phase = "judge", !.batch = entries]
<1>1. /\ call[c] \in ScanRecord({"scan", "read"}, SUBSET Ids) /\ call[c].phase = "read"
      /\ call[c].batch \subseteq Ids
  BY CallFacts DEF IInv, ReadBatch, In, ScanRecord
<1>2. entries \in SUBSET Entry
  BY <1>1 DEF Entry, IInv, Store, Shape
<1>3. \A entry \in entries : entry.id \in Ids /\ entry.session = primary[entry.id]
  BY <1>1
<1>4. \A id \in call[c].batch : [id |-> id, session |-> primary[id]] \in entries
  OBVIOUS
<1>5. Goto(c, op)
  BY DEF ReadBatch
<1> HIDE DEF entries
<1>6. /\ op \in ScanRecord({"judge"}, SUBSET Entry)
      /\ op.phase = "judge" /\ op.batch = entries
      /\ op.scope = call[c].scope /\ op.targets = call[c].targets /\ op.ended = call[c].ended
  BY <1>1, <1>2 DEF ScanRecord
<1>7. op \in CallState /\ call[c].scope \in Scopes
  BY <1>6 DEF CallState, ScanRecord
<1> HIDE DEF op
<1>8. Store' /\ Shrinks /\ UNCHANGED <<primary, writes, index>>
  BY StoreUnchanged DEF IInv, ReadBatch, redis
<1>9. call' \in [Calls -> CallState] /\ call'[c] = op
  BY <1>5, <1>7, GotoFacts DEF IInv
<1>10. ScanOK(c)'
  <2>1. Scanning(c) /\ Scanning(c)'
    BY <1>1, <1>6, <1>9 DEF Scanning
  <2>2. TargetsArePending(c) /\ EndedIsGone(c)
    BY <2>1 DEF IInv, ScanOK
  <2>3. owed'[c] = owed[c] \cap Members(index'[call[c].scope.value])
    BY <1>6, <1>8, <1>9, <2>1, OweFacts DEF Store, Shape
  <2>4. Listed
    BY StoreIsListed DEF IInv
  <2>5. TargetsArePending(c)'
    <3> SUFFICES ASSUME NEW id \in InScope(call[c].scope), primary[id].stamp \in call[c].targets
                 PROVE  id \in owed'[c] \/ [id |-> id, session |-> primary[id]] \in entries
      BY <1>6, <1>8, <1>9, <2>2 DEF TargetsArePending, Pending, InScope
    <3>1. id \in owed[c] \/ id \in call[c].batch
      BY <1>1, <2>2 DEF TargetsArePending, Pending
    <3>2. id \in Members(index'[call[c].scope.value])
      BY <1>7, <1>8, <2>4 DEF Listed
    <3> QED
      BY <1>4, <2>3, <3>1, <3>2
  <2>6. EndedIsGone(c)'
    BY <1>6, <1>8, <1>9, <2>2 DEF EndedIsGone
  <2>7. ReadsAreKin(c)'
    <3> SUFFICES ASSUME NEW entry \in entries, entry.session # None
                 PROVE  /\ entry.session.login <= writes
                        /\ \A id \in Ids :
                             primary[id] # None /\ primary[id].login = entry.session.login =>
                               SameKeys(primary[id], entry.session)
      BY <1>6, <1>8, <1>9 DEF ReadsAreKin
    <3> QED
      BY <1>3 DEF IInv, Store, Stamps, SameKeys
  <2> QED
    BY <2>5, <2>6, <2>7 DEF ScanOK
<1> QED
  BY <1>5, <1>6, <1>7, <1>8, <1>10, ShrinksEvolves, OneCallMoves DEF IInv

(***************************************************************************)
(* Judging one entry of the batch keeps the scan in order, if a target     *)
(* that is judged as it stands is deleted, and a login that is counted as  *)
(* ended is gone.                                                          *)
(***************************************************************************)
LEMMA JudgedScan ==
  ASSUME IInv, Owe, Store', Shrinks, NEW c \in Calls, In(c, "judge"), NEW entry \in call[c].batch,
         call' \in [Calls -> CallState],
         call'[c].batch = call[c].batch \ {entry},
         call'[c].phase = (IF call'[c].batch = {} THEN "scan" ELSE "judge"),
         call'[c].scope = call[c].scope, call'[c].targets = call[c].targets,
         entry.session = primary[entry.id] /\ primary[entry.id] # None
           /\ Matches(primary[entry.id], call[c].scope) => primary'[entry.id] = None,
         \A login \in call'[c].ended : login \in call[c].ended \/
           (login <= writes /\ \A id \in Ids : primary'[id] # None => primary'[id].login # login)
  PROVE  ScanOK(c)'
<1>1. /\ Scanning(c) /\ Scanning(c)' /\ call[c].phase = "judge" /\ call'[c].phase # "read"
      /\ call[c].scope \in Scopes
  BY ScanFacts DEF IInv, In, Scanning
<1>2. TargetsArePending(c) /\ EndedIsGone(c) /\ ReadsAreKin(c)
  BY <1>1 DEF IInv, ScanOK
<1>3. writes' = writes /\ \A id \in Ids : primary'[id] # None => primary'[id] = primary[id]
  BY DEF Shrinks
<1>4. TargetsArePending(c)'
  <2>1. owed'[c] = owed[c] \cap Members(index'[call[c].scope.value])
    BY <1>1, OweFacts DEF Store, Shape
  <2>2. Listed'
    BY StoreIsListed, PTL
  <2>3. ASSUME NEW id \in Ids, primary'[id] # None, Matches(primary'[id], call[c].scope),
               primary'[id].stamp \in call[c].targets
        PROVE  Pending(c, id)'
    <3>1. primary'[id] = primary[id] /\ Pending(c, id)
      BY <1>2, <1>3, <2>3 DEF TargetsArePending, InScope
    <3>2. CASE id \in owed[c]
      <4>1. id \in Members(index'[call[c].scope.value])
        BY <1>1, <2>2, <2>3 DEF Listed, InScope, Members
      <4> QED
        BY <2>1, <3>2, <4>1 DEF Pending
    <3>3. CASE [id |-> id, session |-> primary[id]] \in call[c].batch
      <4>1. [id |-> id, session |-> primary[id]] # entry
        BY <2>3, <3>1
      <4> QED
        BY <3>1, <3>3, <4>1 DEF Pending
    <3> QED
      BY <1>1, <3>1, <3>2, <3>3 DEF Pending
  <2> QED
    BY <1>2, <1>3, <2>3 DEF TargetsArePending, InScope
<1>5. EndedIsGone(c)'
  BY <1>2, <1>3 DEF EndedIsGone
<1>6. ReadsAreKin(c)'
  BY <1>1, <1>2, <1>3 DEF ReadsAreKin, SameKeys
<1> QED
  BY <1>4, <1>5, <1>6 DEF ScanOK

(***************************************************************************)
(* What was read and is deleted leaves no session of its login: either it  *)
(* is still there, or whatever it became is a living member of its lineage *)
(* with the same keys.                                                     *)
(***************************************************************************)
LEMMA VictimsEndLogin ==
  ASSUME IInv, NEW c \in Calls, In(c, "judge"), NEW entry \in call[c].batch,
         entry.session # None, Matches(entry.session, call[c].scope),
         primary[entry.id] \in {None, entry.session},
         NEW id \in Ids, primary[id] # None, primary[id].login = entry.session.login
  PROVE  id \in Victims(entry.id, entry.session, call[c].scope)
<1>1. entry.id \in Ids /\ entry.session \in Session
  BY CallFacts DEF IInv, ScanRecord, Entry
<1>2. CASE primary[entry.id] = entry.session
  <2>1. id = entry.id
    BY <1>1, <1>2 DEF IInv, Store, Stamps
  <2> QED
    BY <1>2, <2>1 DEF Victims
<1>3. CASE primary[entry.id] = None
  <2>1. SameKeys(primary[id], entry.session)
    BY DEF IInv, ScanOK, ReadsAreKin, In, Scanning
  <2>2. primary[id] \in Session
    BY DEF IInv, Store, Shape
  <2>3. Matches(primary[id], call[c].scope)
    BY <2>1 DEF SameKeys, Matches, BelongsTo
  <2>4. id \in Members(index[entry.session.lineage])
    <3>1. index[primary[id].lineage][id] = primary[id].expiresAt
      BY DEF IInv, Store, SessionsAreIndexed
    <3>2. primary[id].expiresAt # None
      BY <2>2, RedisAssumption DEF Session, Deadlines, Never
    <3> QED
      BY <2>1, <3>1, <3>2 DEF SameKeys, Members
  <2> QED
    BY <1>3, <2>1, <2>3, <2>4 DEF Victims, Living, SameKeys
<1> QED
  BY <1>2, <1>3

\* Judge keeps the invariant.
LEMMA JudgeStep ==
  ASSUME IInv, Owe, NEW c \in Calls, In(c, "judge"), NEW entry \in call[c].batch, Judge(c, entry)
  PROVE  IInv'
<1> DEFINE op == call[c]
           rest == op.batch \ {entry}
           onward == [op EXCEPT !.batch = rest, !.phase = IF rest = {} THEN "scan" ELSE "judge"]
           observed == entry.session
<1>1. /\ op \in ScanRecord({"judge"}, SUBSET Entry) /\ entry \in Entry
      /\ UNCHANGED <<now, writes>>
  BY CallFacts DEF IInv, ScanRecord, Judge
<1>2. /\ op.scope \in Scopes /\ entry.id \in Ids /\ observed \in Session \cup {None}
      /\ rest \in SUBSET Entry /\ op.ended \in SUBSET Nat
  BY <1>1 DEF ScanRecord, Entry
<1>3. /\ onward.batch = rest /\ onward.phase = (IF rest = {} THEN "scan" ELSE "judge")
      /\ onward.scope = op.scope /\ onward.targets = op.targets /\ onward.ended = op.ended
      /\ onward.found = op.found
      /\ onward \in ScanRecord({"scan", "read"}, SUBSET Ids) \cup ScanRecord({"judge"}, SUBSET Entry)
  <2>1. CASE rest = {}
    BY <1>1, <2>1 DEF ScanRecord
  <2>2. CASE rest # {}
    BY <1>1, <1>2, <2>2 DEF ScanRecord
  <2> QED
    BY <2>1, <2>2
<1>4. onward \in CallState
  BY <1>3 DEF CallState
<1> HIDE DEF onward, op, rest
<1>5. ASSUME Store', Shrinks, Goto(c, onward),
             entry.session = primary[entry.id] /\ primary[entry.id] # None
               => ~Matches(primary[entry.id], op.scope)
      PROVE  IInv'
  <2>1. call' \in [Calls -> CallState] /\ call'[c] = onward
    BY <1>4, <1>5, GotoFacts DEF IInv
  <2>2. ScanOK(c)'
    BY <1>3, <1>5, <2>1, JudgedScan DEF op, rest
  <2> QED
    BY <1>3, <1>4, <1>5, <2>2, ShrinksEvolves, OneCallMoves DEF IInv
<1>6. CASE observed = None \/ ~BelongsTo(observed, op.scope)
  <2>1. /\ Repair(op.scope.value, entry.id, observed) /\ Goto(c, onward)
        /\ UNCHANGED <<primary, alias, aliasIndex>>
    BY <1>6 DEF Judge, op, onward, rest
  <2>2. Store' /\ Shrinks
    <3>1. CASE index' = index
      BY <1>1, <2>1, <3>1, StoreUnchanged DEF IInv, redis
    <3>2. CASE /\ index' = [index EXCEPT ![op.scope.value] = ZRem(@, {entry.id})]
               /\ primary[entry.id] = None \/ primary[entry.id] = observed
      <4>1. op.scope.value \in Indexes
        BY <1>2 DEF Scopes, Indexes
      <4>2. /\ index' \in [Indexes -> ZSet]
            /\ \A k \in Indexes, id \in Ids :
                 ~(k = op.scope.value /\ id = entry.id) => index'[k][id] = index[k][id]
        BY <3>2, <4>1 DEF IInv, Store, Shape, ZSet, ZRem
      <4>3. Shape' /\ Shrinks
        BY <1>1, <2>1, <4>2 DEF IInv, Store, Shape, Shrinks
      <4>4. SessionsAreIndexed'
        <5> SUFFICES ASSUME NEW id \in Ids, primary[id] # None,
                            NEW k \in {primary[id].lineage, primary[id].subject}
                     PROVE  index'[k][id] = primary[id].expiresAt
          BY <2>1 DEF SessionsAreIndexed
        <5>1. k \in Indexes /\ index[k][id] = primary[id].expiresAt /\ primary[id] \in Session
          BY DEF IInv, Store, Shape, SessionsAreIndexed, Session, Indexes
        <5>2. id = entry.id => k # op.scope.value
          BY <1>2, <1>6, <3>2, <5>1, ScopeFacts
        <5> QED
          BY <4>2, <5>1, <5>2
      <4> QED
        BY <1>1, <2>1, <4>3, <4>4 DEF IInv, Store, Unexpired, AliasesAreOwned, Stamps
    <3> QED
      BY <2>1, <3>1, <3>2 DEF Repair
  <2> QED
    BY <1>2, <1>5, <1>6, <2>1, <2>2, ScopeFacts DEF Matches
<1>7. CASE observed # None /\ BelongsTo(observed, op.scope) /\ ~Matches(observed, op.scope)
  <2>1. Goto(c, onward) /\ UNCHANGED redis
    BY <1>7 DEF Judge, op, onward, rest
  <2>2. Store' /\ Shrinks
    BY <1>1, <2>1, StoreUnchanged DEF IInv
  <2> QED
    BY <1>5, <1>7, <2>1, <2>2
<1>8. CASE observed # None /\ Matches(observed, op.scope)
  <2> DEFINE victims == Victims(entry.id, observed, op.scope)
             last == [onward EXCEPT
                        !.found = @ \/ victims # {},
                        !.ended = IF primary[entry.id] \in {None, observed}
                                  THEN @ \cup {observed.login} ELSE @]
  <2>1. DeleteScript(entry.id, observed, op.scope) /\ Goto(c, last)
    BY <1>8 DEF Judge, op, onward, rest, Matches
  <2>2. /\ Store' /\ Shrinks
        /\ \A v \in Ids : primary'[v] = IF v \in victims THEN None ELSE primary[v]
    BY <1>1, <1>2, <1>8, <2>1, DeleteScriptStore DEF IInv
  <2> HIDE DEF victims
  <2>3. observed \in Session /\ observed.login \in Nat
    BY <1>2, <1>8 DEF Session
  <2>4. /\ last.batch = rest /\ last.phase = onward.phase
        /\ last.scope = op.scope /\ last.targets = op.targets
        /\ last.ended = IF primary[entry.id] \in {None, observed}
                        THEN op.ended \cup {observed.login} ELSE op.ended
        /\ last \in ScanRecord({"scan", "read"}, SUBSET Ids) \cup ScanRecord({"judge"}, SUBSET Entry)
    BY <1>2, <1>3, <2>3 DEF ScanRecord
  <2>5. last \in CallState
    BY <2>4 DEF CallState
  <2> HIDE DEF last
  <2>6. call' \in [Calls -> CallState] /\ call'[c] = last
    BY <2>1, <2>5, GotoFacts DEF IInv
  <2>7. entry.session = primary[entry.id] /\ primary[entry.id] # None
          => primary'[entry.id] = None
    BY <1>2, <1>8, <2>2 DEF Victims, victims
  <2>8. ASSUME primary[entry.id] \in {None, observed}
        PROVE  /\ observed.login <= writes
               /\ \A id \in Ids : primary'[id] # None => primary'[id].login # observed.login
    <3>1. observed.login <= writes
      BY <1>8 DEF IInv, ScanOK, Scanning, ReadsAreKin, In
    <3>2. \A id \in Ids : primary[id] # None /\ primary[id].login = observed.login => id \in victims
      BY <1>8, <2>8, VictimsEndLogin DEF victims, op
    <3> QED
      BY <2>2, <3>1, <3>2
  <2>9. ScanOK(c)'
    <3>1. \A login \in call'[c].ended : login \in call[c].ended \/
            (login <= writes /\ \A id \in Ids : primary'[id] # None => primary'[id].login # login)
      BY <2>4, <2>6, <2>8 DEF op
    <3>2. /\ call'[c].batch = call[c].batch \ {entry}
          /\ call'[c].phase = (IF call'[c].batch = {} THEN "scan" ELSE "judge")
          /\ call'[c].scope = call[c].scope /\ call'[c].targets = call[c].targets
      BY <1>3, <2>4, <2>6 DEF op, rest
    <3> QED
      BY <2>2, <2>6, <2>7, <3>1, <3>2, JudgedScan
  <2>10. last.phase # "rotate"
    BY <1>3, <2>4
  <2> QED
    BY <2>1, <2>2, <2>5, <2>9, <2>10, ShrinksEvolves, OneCallMoves DEF IInv
<1> QED
  BY <1>2, <1>6, <1>7, <1>8

\* EndScan keeps the invariant.
LEMMA EndScanStep ==
  ASSUME IInv, Owe, NEW c \in Calls, EndScan(c)
  PROVE  IInv'
<1> DEFINE op == [phase |-> "aliases", scope |-> call[c].scope]
<1>1. UNCHANGED <<now, redis, writes>> /\ call[c].scope \in Scopes
  BY ScanFacts DEF IInv, EndScan, In, Scanning
<1>2. CASE Goto(c, Idle)
  BY <1>1, <1>2, IdleIsState, QuietStep DEF Idle
<1>3. CASE Goto(c, op) /\ call[c].scope.kind = "logical"
  <2>1. op \in CallState /\ op.phase = "aliases"
    BY <1>1, <1>3 DEF CallState, Scopes
  <2> HIDE DEF op
  <2> QED
    BY <1>1, <1>3, <2>1, QuietStep
<1> QED
  BY <1>2, <1>3 DEF EndScan

\* The invariant is inductive.
LEMMA StepIInv == IInv /\ [Next]_vars => IInv'
<1> SUFFICES ASSUME IInv, [Next]_vars PROVE IInv'
  OBVIOUS
<1>1. ASSUME NEW c \in Calls, Step(c), Owe PROVE IInv'
  <2>1. CASE Rejected(c)
    BY <1>1, <2>1, IdleIsState, QuietStep DEF Rejected, Idle
  <2> QED
    BY <1>1, <2>1, createSessionStep, rotateSessionStep, deleteSessionStep, deleteSessionsStep,
       RotateStep, MaintainStep, DeleteOneStep, ReadAliasStep, DeleteLineageStep, ScanBatchStep,
       ReadBatchStep, EndScanStep, CleanupAliasesStep, JudgeStep
    DEF Step
<1>2. CASE UNCHANGED vars
  <2>1. Store'
    BY <1>2, StoreUnchanged DEF IInv, vars
  <2>2. Memory'
    BY <1>2 DEF IInv, vars, Memory, In
  <2>3. \A c \in Calls : ScanOK(c)'
    BY <1>2 DEF IInv, vars, redis, ScanOK, Scanning, TargetsArePending, EndedIsGone, ReadsAreKin,
                InScope, Pending
  <2> QED
    BY <2>1, <2>2, <2>3 DEF IInv
<1> QED
  BY <1>1, <1>2, TickStep DEF Next

(***************************************************************************)
(* The inductive invariant holds of every reachable state.                 *)
(***************************************************************************)
LEMMA Invariance == Spec => []IInv
  BY InitIInv, StepIInv, PTL DEF Spec

(***************************************************************************)
(* Keys and sorted sets hold what they should, and no key outlives its     *)
(* deadline (SET with PXAT, the scripts' writes).                          *)
(***************************************************************************)
THEOREM TypeCorrect == Spec => []TypeOK
<1>1. IInv => TypeOK
  BY DEF IInv, Store, Shape, Unexpired, Memory, TypeOK
<1> QED
  BY <1>1, Invariance, PTL

(***************************************************************************)
(* No interleaving of writes, rotations, pruning, repairs and deletions    *)
(* costs a live session its place in the index of its subject or lineage   *)
(* (WRITE_SESSION_SCRIPT, ROTATE_SESSION_SCRIPT,                           *)
(* REPAIR_SESSION_INDEX_SCRIPT, cleanupStaleIndexKeys).                    *)
(***************************************************************************)
THEOREM AlwaysIndexed == Spec => []SessionsAreIndexed
<1>1. IInv => SessionsAreIndexed
  BY DEF IInv, Store
<1> QED
  BY <1>1, Invariance, PTL

(***************************************************************************)
(* An alias is no session and is listed with its lineage, under its        *)
(* deadline, whatever was rotated, reused, pruned or ended meanwhile.      *)
(***************************************************************************)
THEOREM AlwaysOwned == Spec => []AliasesAreOwned
<1>1. IInv => AliasesAreOwned
  BY DEF IInv, Store
<1> QED
  BY <1>1, Invariance, PTL

(***************************************************************************)
(* deleteSessionsFromIndex is thorough: a session in its scope that was    *)
(* there when the scan began, or that carries on one the scan has read and *)
(* deleted, is gone when ZSCAN owes nothing more.                          *)
(***************************************************************************)
THEOREM ScansAreThorough == Spec => []ScanIsThorough
<1>1. IInv => ScanIsThorough
  BY DEF IInv, ScanOK, Scanning, TargetsArePending, EndedIsGone, Pending, In, InScope,
         ScanIsThorough
<1> QED
  BY <1>1, Invariance, PTL
=============================================================================
