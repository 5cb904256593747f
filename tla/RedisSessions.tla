---------------------------- MODULE RedisSessions ----------------------------
(***************************************************************************)
(* The sessions of the Redis vault store                                   *)
(* (packages/express-oidc-vault-redis-store/src/index.ts and scripts.ts).  *)
(*                                                                         *)
(* A session is a string key with its time to live.  Sorted sets, scored   *)
(* by expiry, list the sessions of a subject and of a lineage (a logical   *)
(* session ID), and a rotated ID stays behind as an alias of its lineage,  *)
(* itself listed in a sorted set of that lineage.  Redis runs a command or *)
(* a Lua script in one step, so each of them is one action; a call of the  *)
(* store is a sequence of them, with other calls in between, and any of    *)
(* them may fail.                                                          *)
(*                                                                         *)
(* The provider-session index is maintained and scanned by the same code   *)
(* as the subject index, which stands for both.  A rotation keeps lineage, *)
(* subject and provider, as the vault's refresh does.  Malformed records,  *)
(* which the store never writes, and the device key, which is compared and *)
(* carried along like the other fields, are left out.                      *)
(***************************************************************************)
EXTENDS Naturals, FiniteSets

CONSTANTS Calls,          \* calls of the store that may overlap
          Deleters,       \* those of them that may be deletions
          Ids,            \* session IDs
          Lineages, Subjects, Providers,
          None,
          MaxTime,        \* bound on Redis TIME
          MaxWrites       \* bound on sessions written

\* NON_EXPIRING_INDEX_SCORE: later than every deadline.
Never == MaxTime + 1
Deadlines == 1 .. MaxTime \cup {Never}

ASSUME RedisAssumption ==
  /\ MaxTime \in Nat /\ MaxWrites \in Nat
  /\ None \notin Nat
  /\ Lineages \cap Subjects = {}
  /\ Deleters \subseteq Calls

(***************************************************************************)
(* stamp stands for the tokens and timestamps, which no two records share. *)
(* login is not in the code: the stamp of the record a chain of rotations  *)
(* began with.                                                             *)
(***************************************************************************)
Session ==
  [lineage : Lineages, subject : Subjects, provider : Providers, expiresAt : Deadlines,
   stamp : 1 .. MaxWrites, login : 1 .. MaxWrites]

Alias == [lineage : Lineages, expiresAt : Deadlines]

\* nil is not a record.
ASSUME RecordAssumption == None \notin Session \cup Alias

Indexes == Lineages \cup Subjects

\* A sorted set: the score of each member.
ZSet == [Ids -> Deadlines \cup {None}]
Members(z) == {id \in Ids : z[id] # None}
ZAdd(z, score, id) == [z EXCEPT ![id] = score]
ZRem(z, gone) == [id \in Ids |-> IF id \in gone THEN None ELSE z[id]]

VARIABLES now, primary, index, alias, aliasIndex,
          call,       \* call -> what it is doing, with what it has read
          owed,       \* call -> members its ZSCAN has yet to return
          writes

redis == <<primary, index, alias, aliasIndex>>
vars == <<now, redis, call, owed, writes>>

Idle == [phase |-> "idle"]

Init ==
  /\ now = 0
  /\ primary = [id \in Ids |-> None]
  /\ index = [k \in Indexes |-> [id \in Ids |-> None]]
  /\ alias = [id \in Ids |-> None]
  /\ aliasIndex = [l \in Lineages |-> [id \in Ids |-> None]]
  /\ call = [c \in Calls |-> Idle]
  /\ owed = [c \in Calls |-> {}]
  /\ writes = 0

Goto(c, next) == call' = [call EXCEPT ![c] = next]
In(c, phase) == call[c].phase = phase
Ready(c) == In(c, "idle")

\* Faulty: the deadline is not passed on.
KeptForever(r) == r

\* SET with PXAT: a deadline that has passed leaves no key.
Kept(r) == IF r.expiresAt > now THEN r ELSE None

\* Keys past their deadline are gone; members of sorted sets stay.
Tick ==
  LET kept(r) == IF r = None \/ r.expiresAt <= now + 1 THEN None ELSE r IN
  /\ now < MaxTime /\ now' = now + 1
  /\ primary' = [id \in Ids |-> kept(primary[id])]
  /\ alias' = [id \in Ids |-> kept(alias[id])]
  /\ UNCHANGED <<index, aliasIndex, call, writes>>

----------------------------------------------------------------------------
(***************************************************************************)
(* Writing.  An ID that comes into use stops being an alias.               *)
(***************************************************************************)
Unaliased(id) ==
  IF alias[id] = None THEN aliasIndex
  ELSE [aliasIndex EXCEPT ![alias[id].lineage] = ZRem(@, {id})]

\* createSession, with WRITE_SESSION_SCRIPT.
createSession(c, id, lineage, subject, provider, expiresAt) ==
  LET stamp == writes + 1
      session == [lineage |-> lineage, subject |-> subject, provider |-> provider,
                  expiresAt |-> expiresAt, stamp |-> stamp, login |-> stamp]
  IN /\ Ready(c)
     /\ writes < MaxWrites /\ expiresAt > now
     /\ IF primary[id] # None
        THEN Goto(c, Idle) /\ UNCHANGED <<redis, writes>>
        ELSE /\ primary' = [primary EXCEPT ![id] = session]
             /\ index' = [index EXCEPT ![subject] = ZAdd(@, expiresAt, id),
                                       ![lineage] = ZAdd(@, expiresAt, id)]
             /\ alias' = [alias EXCEPT ![id] = None]
             /\ aliasIndex' = Unaliased(id)
             /\ writes' = stamp
             /\ Goto(c, [phase |-> "maintain"])
     /\ UNCHANGED now

\* rotateSession reads the source first.
rotateSession(c, id, next, expiresAt) ==
  /\ Ready(c) /\ expiresAt > now
  /\ Goto(c, IF primary[id] = None \/ next = id THEN Idle
             ELSE [phase |-> "rotate", id |-> id, next |-> next, expiresAt |-> expiresAt,
                   source |-> primary[id]])
  /\ UNCHANGED <<now, redis, writes>>

\* The comparison of ROTATE_SESSION_SCRIPT.
SameSource(source, current) == current = source

\* Faulty: a reused target keeps its old alias.
OnlyAliased(id, next, old) == [alias EXCEPT ![id] = Kept(old)]

Aliased(id, next, old) == [alias EXCEPT ![next] = None, ![id] = Kept(old)]

\* ROTATE_SESSION_SCRIPT: the session moves, the old ID becomes an alias.
Rotate(c) ==
  LET op == call[c]
      stamp == writes + 1
      session == [op.source EXCEPT !.expiresAt = op.expiresAt, !.stamp = stamp]
      old == [lineage |-> session.lineage, expiresAt |-> op.expiresAt]
  IN /\ In(c, "rotate")
     /\ writes < MaxWrites
     /\ IF ~SameSource(op.source, primary[op.id]) \/ primary[op.next] # None
        THEN Goto(c, Idle) /\ UNCHANGED <<redis, writes>>
        ELSE /\ primary' = [primary EXCEPT ![op.id] = None, ![op.next] = Kept(session)]
             /\ index' = [k \in Indexes |->
                            IF k \in {session.lineage, session.subject}
                            THEN ZAdd(ZRem(index[k], {op.id}), op.expiresAt, op.next)
                            ELSE index[k]]
             /\ alias' = Aliased(op.id, op.next, old)
             /\ aliasIndex' = [Unaliased(op.next) EXCEPT ![session.lineage] =
                                 ZAdd(@, op.expiresAt, op.id)]
             /\ writes' = stamp
             /\ Goto(c, [phase |-> "maintain"])
     /\ UNCHANGED now

(***************************************************************************)
(* Post-commit maintenance (cleanupStaleIndexKeys): a SCAN step names some *)
(* sorted sets, whose expired members go one set at a time.  A failure     *)
(* ends it early and is not the call's.                                    *)
(***************************************************************************)
Pruned(z) == ZRem(z, {id \in Members(z) : z[id] <= now})

Maintain(c) ==
  /\ In(c, "maintain")
  /\ \/ \E k \in Indexes :
          index' = [index EXCEPT ![k] = Pruned(@)] /\ UNCHANGED <<aliasIndex, call>>
     \/ \E l \in Lineages :
          aliasIndex' = [aliasIndex EXCEPT ![l] = Pruned(@)] /\ UNCHANGED <<index, call>>
     \/ Goto(c, Idle) /\ UNCHANGED <<index, aliasIndex>>
  /\ UNCHANGED <<now, primary, alias, writes>>

----------------------------------------------------------------------------
(***************************************************************************)
(* DELETE_SESSION_SCRIPT.                                                  *)
(***************************************************************************)
\* What a deletion is about; provider is None when it is not limited to one.
Scopes ==
  [kind : {"logical"}, value : Lineages, provider : {None}]
    \cup [kind : {"subject"}, value : Subjects, provider : Providers \cup {None}]

Single == [kind |-> "single", value |-> None, provider |-> None]

BelongsTo(session, scope) ==
  \/ scope.kind = "single"
  \/ scope.kind = "logical" /\ session.lineage = scope.value
  \/ scope.kind = "subject" /\ session.subject = scope.value

Matches(session, scope) == BelongsTo(session, scope) /\ scope.provider \in {None, session.provider}

\* hasLiveMember
Living(lineage) ==
  {id \in Members(index[lineage]) : primary[id] # None /\ primary[id].lineage = lineage}

\* deleteRecord, for the IDs of one lineage; stale are members without a session.
DeleteRecords(lineage, ids, stale) ==
  LET ended == ids # {} /\ Living(lineage) \subseteq ids
      subject(id) == primary[id].subject
  IN /\ primary' = [id \in Ids |-> IF id \in ids THEN None ELSE primary[id]]
     /\ index' = [k \in Indexes |->
                    IF k = lineage THEN ZRem(index[k], ids \cup stale)
                    ELSE ZRem(index[k], {id \in ids : subject(id) = k})]
     /\ alias' = IF ended
                 THEN [id \in Ids |-> IF id \in Members(aliasIndex[lineage]) THEN None ELSE alias[id]]
                 ELSE alias
     /\ aliasIndex' = IF ended
                      THEN [aliasIndex EXCEPT ![lineage] = [id \in Ids |-> None]]
                      ELSE aliasIndex

\* Faulty: a session that was rotated away meanwhile is taken for deleted.
VictimsHere(id, observed, scope) ==
  IF primary[id] # None /\ Matches(primary[id], scope) THEN {id} ELSE {}

\* The session under the ID, or else what the observed one was rotated into.
Victims(id, observed, scope) ==
  IF primary[id] # None
  THEN {v \in {id} : Matches(primary[v], scope)}
  ELSE {v \in Living(observed.lineage) : Matches(primary[v], scope)}

DeleteScript(id, observed, scope) ==
  IF primary[id] # None
  THEN DeleteRecords(primary[id].lineage, Victims(id, observed, scope), {})
  ELSE DeleteRecords(observed.lineage, Victims(id, observed, scope),
                     {m \in Members(index[observed.lineage]) : primary[m] = None})

(***************************************************************************)
(* deleteSession: a live ID is deleted alone, an alias ends its lineage.   *)
(***************************************************************************)
deleteSession(c, id) ==
  /\ Ready(c)
  /\ Goto(c, IF primary[id] # None
             THEN [phase |-> "delete", id |-> id, observed |-> primary[id]]
             ELSE [phase |-> "alias", id |-> id])
  /\ UNCHANGED <<now, redis, writes>>

DeleteOne(c) ==
  /\ In(c, "delete")
  /\ DeleteScript(call[c].id, call[c].observed, Single)
  /\ Goto(c, Idle)
  /\ UNCHANGED <<now, writes>>

ReadAlias(c) ==
  LET a == alias[call[c].id] IN
  /\ In(c, "alias")
  /\ Goto(c, IF a = None THEN Idle
             ELSE [phase |-> "lineage",
                   scope |-> [kind |-> "logical", value |-> a.lineage, provider |-> None]])
  /\ UNCHANGED <<now, redis, writes>>

----------------------------------------------------------------------------
(***************************************************************************)
(* deleteSessionsFromIndex: the scan of an index.  found tells whether     *)
(* anything was deleted.  targets and ended are not in the code: stamps of *)
(* the sessions there to delete when the scan began, and logins of those   *)
(* it has read and then deleted, under an ID nobody had reused meanwhile.  *)
(***************************************************************************)
InScope(scope) == {id \in Ids : primary[id] # None /\ Matches(primary[id], scope)}

BeginScan(c, scope) ==
  /\ index' = [index EXCEPT ![scope.value] = Pruned(@)]
  /\ Goto(c, [phase |-> "scan", scope |-> scope, found |-> FALSE, batch |-> {}, ended |-> {},
              targets |-> {primary[id].stamp : id \in InScope(scope)}])
  /\ UNCHANGED <<now, primary, alias, aliasIndex, writes>>

\* deleteSessionsByLogicalSessionId, BySubject and ByProviderSessionId.
deleteSessions(c, scope) == Ready(c) /\ BeginScan(c, scope)

\* deleteSession, when the ID was an alias.
DeleteLineage(c) == In(c, "lineage") /\ BeginScan(c, call[c].scope)

\* ZSCAN returns some members; what stays in the set is returned in the end.
ScanBatch(c) ==
  /\ In(c, "scan")
  /\ \E batch \in SUBSET Members(index[call[c].scope.value]) \ {{}} :
       Goto(c, [call[c] EXCEPT !.phase = "read", !.batch = batch])
  /\ UNCHANGED <<now, redis, writes>>

\* MGET of the batch.
ReadBatch(c) ==
  LET batch == call[c].batch IN
  /\ In(c, "read")
  /\ Goto(c, [call[c] EXCEPT
                !.phase = "judge",
                !.batch = {[id |-> id, session |-> primary[id]] : id \in batch}])
  /\ UNCHANGED <<now, redis, writes>>

\* Faulty: the membership goes whatever the ID has become.
RepairBlindly(key, id, observed) ==
  index' = [index EXCEPT ![key] = ZRem(@, {id})]

\* REPAIR_SESSION_INDEX_SCRIPT
Repair(key, id, observed) ==
  index' = IF primary[id] = None \/ primary[id] = observed
           THEN [index EXCEPT ![key] = ZRem(@, {id})]
           ELSE index

\* One ID of the batch: repaired, skipped or deleted.
Judge(c, entry) ==
  LET op == call[c]
      rest == op.batch \ {entry}
      onward == [op EXCEPT !.batch = rest, !.phase = IF rest = {} THEN "scan" ELSE "judge"]
      observed == entry.session
  IN /\ In(c, "judge")
     /\ IF observed = None \/ ~BelongsTo(observed, op.scope)
        THEN /\ Repair(op.scope.value, entry.id, observed)
             /\ Goto(c, onward)
             /\ UNCHANGED <<primary, alias, aliasIndex>>
        ELSE IF Matches(observed, op.scope)
        THEN /\ DeleteScript(entry.id, observed, op.scope)
             /\ Goto(c, [onward EXCEPT
                           !.found = @ \/ Victims(entry.id, observed, op.scope) # {},
                           !.ended = IF primary[entry.id] \in {None, observed}
                                     THEN @ \cup {observed.login} ELSE @])
        ELSE Goto(c, onward) /\ UNCHANGED redis
     /\ UNCHANGED <<now, writes>>

EndScan(c) ==
  LET op == call[c] IN
  /\ In(c, "scan") /\ owed[c] = {}
  /\ Goto(c, IF ~op.found /\ op.scope.kind = "logical"
             THEN [phase |-> "aliases", scope |-> op.scope] ELSE Idle)
  /\ UNCHANGED <<now, redis, writes>>

\* CLEANUP_INACTIVE_ALIASES_SCRIPT
CleanupAliases(c) ==
  LET lineage == call[c].scope.value
      ended == Living(lineage) = {}
  IN /\ In(c, "aliases")
     /\ alias' = IF ended
                 THEN [id \in Ids |-> IF id \in Members(aliasIndex[lineage]) THEN None ELSE alias[id]]
                 ELSE alias
     /\ aliasIndex' = IF ended
                      THEN [aliasIndex EXCEPT ![lineage] = [id \in Ids |-> None]]
                      ELSE aliasIndex
     /\ Goto(c, Idle)
     /\ UNCHANGED <<now, primary, index, writes>>

\* A command fails: the call is rejected, and what it has done stays done.
Rejected(c) ==
  /\ ~Ready(c) /\ ~In(c, "maintain")
  /\ Goto(c, Idle)
  /\ UNCHANGED <<now, redis, writes>>

----------------------------------------------------------------------------
Step(c) ==
  \/ \E id \in Ids, l \in Lineages, s \in Subjects, p \in Providers, e \in Deadlines :
       createSession(c, id, l, s, p, e)
  \/ \E id, next \in Ids, e \in Deadlines : rotateSession(c, id, next, e)
  \/ c \in Deleters /\ \E id \in Ids : deleteSession(c, id)
  \/ c \in Deleters /\ \E scope \in Scopes : deleteSessions(c, scope)
  \/ Rotate(c) \/ Maintain(c)
  \/ DeleteOne(c) \/ ReadAlias(c)
  \/ DeleteLineage(c) \/ ScanBatch(c) \/ ReadBatch(c) \/ EndScan(c) \/ CleanupAliases(c)
  \/ In(c, "judge") /\ \E entry \in call[c].batch : Judge(c, entry)
  \/ Rejected(c)

(***************************************************************************)
(* The promise of ZSCAN: a member that stays in the set during the whole   *)
(* scan is returned by it.                                                 *)
(***************************************************************************)
Owe ==
  LET scanning(op) == op.phase \in {"scan", "read", "judge"} IN
  owed' = [c \in Calls |->
             IF ~scanning(call'[c]) THEN {}
             ELSE LET there == Members(index'[call'[c].scope.value]) IN
                  IF ~scanning(call[c]) THEN there
                  ELSE (owed[c] \cap there) \
                         (IF call'[c].phase = "read" THEN call'[c].batch ELSE {})]

Next == (Tick \/ \E c \in Calls : Step(c)) /\ Owe

Spec == Init /\ [][Next]_vars

----------------------------------------------------------------------------
(***************************************************************************)
(* Keys and sorted sets hold what they should, and nothing that has passed *)
(* its deadline.                                                           *)
(***************************************************************************)
TypeOK ==
  /\ \A id \in Ids :
       /\ primary[id] # None => primary[id] \in Session /\ primary[id].expiresAt > now
       /\ alias[id] # None =>
            alias[id] \in Alias /\ alias[id].expiresAt > now
  /\ index \in [Indexes -> ZSet]
  /\ aliasIndex \in [Lineages -> ZSet]
  /\ \A c \in Calls : owed[c] \subseteq Ids

(***************************************************************************)
(* Every session can be found by its subject and by its lineage, under the *)
(* score that keeps it there as long as it lives: pruning, repairs by a    *)
(* scan that read an older state, rotation and reuse of an ID never cost a *)
(* session its membership.                                                 *)
(***************************************************************************)
SessionsAreIndexed ==
  \A id \in Ids :
    primary[id] # None =>
      \A k \in {primary[id].lineage, primary[id].subject} :
        index[k][id] = primary[id].expiresAt

(***************************************************************************)
(* An ID has one meaning, session or alias, and an alias is listed with    *)
(* its lineage, whose end can thus take it along.                          *)
(***************************************************************************)
AliasesAreOwned ==
  \A id \in Ids :
    alias[id] # None =>
      /\ primary[id] = None
      /\ aliasIndex[alias[id].lineage][id] = alias[id].expiresAt

(***************************************************************************)
(* When the scan of a deletion is complete, no session in its scope is     *)
(* left that was there, under its present ID, when the scan began, and     *)
(* none that a session it has read was rotated into, unless the ID it had  *)
(* read was reused.  (One that is rotated before the scan reads it may be  *)
(* missed: "a concurrent arrival may survive".)                            *)
(***************************************************************************)
ScanIsThorough ==
  \A c \in Calls :
    In(c, "scan") /\ owed[c] = {} =>
      \A id \in InScope(call[c].scope) :
        /\ primary[id].stamp \notin call[c].targets
        /\ primary[id].login \notin call[c].ended

(***************************************************************************)
(* "Scoped/direct deletion preserves unexpired aliases while another live  *)
(* member survives": no deletion takes an alias of a lineage of which a    *)
(* session is left.  An alias that has expired stays listed, and if its ID *)
(* was used again and is now an alias of another lineage, the first one's  *)
(* deletion takes it.                                                      *)
(***************************************************************************)
AliasesOutlastOtherLogouts ==
  [][now' = now /\ writes' = writes =>
       \A id, other \in Ids :
         alias[id] # None /\ primary'[other] # None
           /\ primary'[other].lineage = alias[id].lineage => alias'[id] # None]_vars
=============================================================================
