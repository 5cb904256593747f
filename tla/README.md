# TLA+ models of web-ts-toolkit

web-ts-toolkit is a monorepo of TypeScript packages. Most of them are libraries
of sequential functions or translation layers over Express, Mongoose, RxDB and
PDF.js. The parts with a protocol of their own, shared state and real
concurrency are modelled here:

- the OIDC vault, `express-oidc-vault`: Express handlers that keep the identity
  provider's tokens on the server and hand the browser local tokens, over an
  in-memory store (`express-oidc-vault-memory-store`);
- the sessions of its Redis store, `express-oidc-vault-redis-store`;
- the session of its browser client, `oidc-vault-dpop-client`;
- the action claims and the idempotent creation of `message-service`.

The mapped definitions cover a small share of the repository's lines. The
repository is large (about 138,000 lines of implementation), and most of it
holds no state between calls: permission and query translation, HTTP clients,
command-line tools, parsing and formatting. The rest is inventoried below, with
what is planned and what is left out.

## Inventory

`PROJECT.json` lists every component with its sources and status.

### Vault handlers: `express-oidc-vault`

*State.* None between requests. During a request the handler holds what it read
(a transaction, a code, a session, a revocation context) across awaits.

*Operations.* `GET`/`POST` login, callback, exchange, refresh, logout,
back-channel logout.

*Interactions.* Each handler calls the store several times, and between two
calls waits for a DPoP proof check, the identity provider, a user hook or the
token issuer. A login leaves a transaction; the callback consumes it and leaves
a session and an exchange code; the exchange consumes the code and gives the
session to the client; refreshes rotate the session ID; a logout or a
back-channel logout deletes the lineage.

*What is hard.* Any two requests interleave at any await. Whatever a handler
checked may be gone, rotated or expired when it acts on it. A request may fail
after it has consumed or stored something. The provider may present a logout
token several times.

*Correct means.* A login gives at most one session, to the browser and the key
that started it; a lineage of rotated sessions never forks, never outlives its
deadline and, once ended, stays ended; a failed request leaves no session that
nobody knows of; a logout answered with success is total.

### In-memory store: `express-oidc-vault-memory-store`

*State.* Maps of sessions, rotated-session aliases, authorization transactions,
exchange codes, consumed logout-token JTIs; for each Map a sweep snapshot and
position; bounded heaps of DPoP proof reservations and logout tickets.

*Operations.* Create, read, conditional consume, rotate, delete by session,
lineage, subject or provider session ID; a bounded sweep at the start of the
calls that store or consume.

*What is hard.* Expired records stay in their Maps until something meets them.
A session ID can be reused after it became an alias. Aliases have to be cleaned
up wherever the last session of a lineage disappears. The sweep walks a
snapshot that goes stale.

*Correct means.* An ID has one meaning; an alias has its lineage, and keeps
working while its lineage lives; a one-time record is consumed once and only by
its owner; expired records never come back and are reclaimed.

### Redis and MongoDB stores

The same contract over Lua scripts and sorted-set indexes
(`express-oidc-vault-redis-store`) and over documents and transactions
(`express-oidc-vault-mongodb-store`).

*State (Redis).* A key per session and per alias, each with its time to live; a
sorted set per subject, provider session ID and lineage, scored by expiry; a
sorted set of aliases per lineage.

*What is hard.* A script is atomic, a call of the store is not: deletion by
index scans in steps, reads, and then runs a script per session, while rotations
move members and IDs are reused. Keys vanish when their time comes, index
members do not. Any command may fail.

*Correct means.* No session loses its index membership; a deletion leaves
nothing that was there when it began; an alias is listed with its lineage.

The MongoDB store is not modelled yet.

### DPoP: proofs and replay reservations

Proof verification is cryptography and parsing; the handlers see a proof as the
key it proves. The replay reservations and logout tickets of the in-memory store
are bounded indexed heaps, so capacity, expiry, clean-up in batches and removals
from the middle interact.

*Correct means.* A proof is reserved once, a ticket consumed once; at the limit a
live entry is never evicted and an expired one never keeps a new one out.

### Browser client: `oidc-vault-dpop-client`

*State.* In each tab: the access token, a queue of operations, counters that say
which of them still have authority, a peer message being looked into. In the
origin: a Web Lock, the generation record in IndexedDB, a BroadcastChannel.

*Operations.* Login, exchange, refresh, logout, clear; a token or a clear from
another tab; reload.

*What is hard.* All tabs share one cookie session. An operation waits in its
tab's queue, for the lock and for the vault, and the session it began with may
be gone when it continues. Messages arrive late.

*Correct means.* A cleared tab gets no token from a late answer or message; a
clear ends the session it is about and none established while it waits for the
lock; a logout reaches every tab.

### Message service: `message-service`

*State.* In MongoDB: active and archived messages, with the claim of the action
being carried out, and reservations of client requests. At the payment provider:
payment sessions.

*Operations.* `handleAction`: claim under a lease, run the handler, archive in a
transaction, notify the sender. `message.archive`. `createMessage` with a
`clientRequestId`: replay what exists, or reserve, prepare, open payment
sessions, commit; wait for another call that holds the reservation.

*What is hard.* A lease lapses while its owner's handler still runs, and another
call takes over. A process dies holding a claim. A transaction commits although
its caller sees an error. A replay reads two collections one after the other.

*Correct means.* External effects carry one stable attempt; one owner commits;
the message is never lost or doubled; equal requests make one batch and are
answered alike; a payment session is in the batch or expired; every call ends.

### Others

| Component | Why it is not modelled |
|---|---|
| `access-router-react` hooks | planned: overlapping invocations must settle latest-wins |
| `express-runtime` | planned last: start, drain, shutdown. Its CLI is process and file I/O |
| `express-request-attestation` | replay stores are candidates; the rest is cryptography, codecs and streams |
| vault access-token middleware, JWT issuer | stateless verification of one request |
| vault provider client and configuration | HTTP and option parsing; the handlers see success or failure |
| access router (server) | permission and query translation per request, no protocol state |
| access router clients, adapters | HTTP request building and response mapping |
| `mongoose-rxdb` | query compilation and conversion, sequential per call |
| small libraries | parsing, formatting, file I/O |

## Modules

| Module | Models | Builds on |
|---|---|---|
| `ExpiringMap` | the clock, Maps of records with deadlines, what a sweep can remove | |
| `MapSweep` | the positional sweep of one Map | `ExpiringMap` |
| `MemorySessions` | sessions and aliases of the in-memory store | `ExpiringMap` |
| `MemorySessionsProofs` | theorems about `MemorySessions` | `MemorySessions`, TLAPS |
| `MapSweepProofs` | theorem about `MapSweep` | `MapSweep`, TLAPS |
| `OneTimeStore` | abstract specification of one-time records: no lazy deletion | |
| `ExpiryHeap` | the indexed min-heap of the proof reservations and logout tickets | |
| `MemoryOneTime` | one-time records of the in-memory store; implements `OneTimeStore` | `ExpiringMap`, `ExpiryHeap` |
| `MemoryOneTimeProofs` | types, and the refinement of `OneTimeStore` | `MemoryOneTime`, TLAPS |
| `OidcVault` | the handlers, await by await, over the store | instances of `MemorySessions` and `MemoryOneTime` |
| `OidcVaultProofs` | theorems about `OidcVault` | `OidcVault`, TLAPS |
| `RedisSessions` | sessions, indexes and aliases of the Redis store, command by command | |
| `BrowserSession` | the browser client's session across tabs | |
| `MessageActions` | claims, leases, handlers, archive and notification of one message | |
| `MessageRequests` | the calls of one client request; its `Archive` step is what `MessageActions` does to a message | |
| `RedisSessionsProofs`, `BrowserSessionProofs`, `MessageActionsProofs`, `MessageRequestsProofs` | theorems about those four | the module, TLAPS |
| `MC...` | instances for TLC | |

Operators whose comment begins with "Faulty" or "A faulty" are not part of any
specification. Each is a plausible bug in the definition after it, and shows
that some property would notice.

### Store

`sessions`, `aliases`, `txns`, `codes` and `jtis` are the store's Maps, each a
function whose domain is the keys present. A method body of the in-memory store
runs without yielding, so it is one action. The exception is `deleteSession`
through an alias, which awaits the lineage deletion and then deletes the alias
entry again: `DeleteSession` puts the ID in `closing` and `DeleteSessionResume`
is the rest. Sweeps and alias clean-up are part of the action of the method that
runs them.

`ExpiringMap!Sweeps` lets a sweep remove any set of at most `SweepBatch` expired
records. `MapSweep` models where the cursor really stands and checks that its
sweep is one of those (`SweepIsAsAssumed`, also proved in `MapSweepProofs`).

`proofs` and `tickets` are the two heaps, each a sequence of nodes; the Map from
ID to node and the nodes' indexes that the code keeps are read off the sequence.
The loops that move a node are repetitions of one turn (`Turns`), so that the
module has no `RECURSIVE` operator.

`MemoryOneTime!call` records the last call and its reply. It is what the
refinement compares: the abstract store must be able to give the same reply.

### Handlers

A request is an element of `Logins`, `Callbacks`, and so on. `pc[r]` says which
await its handler stands at and `req[r]` what it holds. An action is the code
between two awaits. The final labels:

| `pc` | Meaning |
|---|---|
| `done`, `ok` | answered with success; `ok` delivered a session |
| `absent` | logout answered with success because there was nothing to revoke |
| `rejected` | refresh: the provider refused the token and it is still the current one |
| `refused` | an error, before the request committed anything |
| `failed` | an error, after it consumed or stored something |
| `lapsed` | exchange: an error on the code it had just spent |

The code of a store call is in the same action as the checks the handler makes
of its reply: the reply is fixed when the store runs. The clock is not. The
handler reads it again after the await, and a record that was live in the store
may have lapsed. Before the request has committed anything this only turns one
refusal into another. After a store call that committed something it is a step
of its own: `ExchangeRecheck` after the code is consumed, `RefreshConfirm` after
the rotation. In the callback it is one of the reasons for which
`CallbackTokens` may fail; nothing but the transaction is gone by then.

An exchange whose code lapses in that gap ends without a rollback, as does one
at an instance of another provider without device binding. Code and request are
gone and the session stays in the store until its deadline.
`FailureLeavesNoSession` says of these two that no client has a handle of the
session or is ever given one, and of every other failure that the lineage is
dead.

`createOpaqueId` never returns the same ID twice, so the IDs a request mints are
the request's own name. `Delivered` is the set of session IDs some client has
been given; refreshes and logouts present those, current or rotated away. The
presenter of a callback or an exchange may have any cookie or none, and a
presenter may prove possession of any key or none.

`Config` gives each request the policy (`disabled`, `optional`, `required`) and
the provider of the vault instance it reaches, so that instances that share a
store and differ in configuration are covered.

### Redis sessions

`primary` and `alias` are the string keys, `index` and `aliasIndex` the sorted
sets, as functions from ID to score. A command or script is one action, and
`call[c]` says where a call stands and what it has read. A session gone by its
deadline disappears with `Tick`; its index members stay until something prunes
them. `owed` holds what ZSCAN has promised: a member in the set from the
beginning of a scan to its end is returned, any other may be. `Rejected` ends a
call at any command. `stamp` stands for the tokens and times of a record, so
that the scripts' comparison of whole records is equality here. `login`,
`targets` and `ended` are not in the code; they remember which sessions a
deletion is answerable for.

### Browser tabs

`queue[t]` holds a tab's operations, the first of them running; `lock` is the
Web Lock, `version` the IndexedDB record, `inbox` the broadcast messages under
way. The code decides whether a continuation still has authority by comparing
counters and abort signals captured earlier. Here each operation and each peer
message carries flags (`current`, `claims`, `asked`) that the events changing
those counters withdraw. What an operation reads from IndexedDB while it holds
the lock is one action with what it then does, because nobody else writes
without the lock. One read is made without it: a clear in a tab that has neither
a token nor a generation it has seen, as after a reload, starts to read the
record when it is called (`reading`) and awaits the answer under the lock.
`readVersion` is the answer, at any time before `BeginClear`. The second read of a peer token and its adoption are one
action too: an IndexedDB write transaction waits for the read one. `wiped`,
`fresh`, `entry` and `announced` are not in the code.

Comments in `auth-session.ts` say that cleanup "belongs to the entry-time
generation, including clear with a held lock" (479-480) and that "A later
generation cannot become this clear's authority just because it waited"
(1334-1335). For a clear whose tab knows its generation that is so. For the
other, a tab that holds the lock may commit a generation between the call and
the answer to the read, and the clear ends that one. With `entry` taken at the
call TLC shows it in eleven states: a login writes its inactive record between
the call of a clear and the answer to its read. `ClearIsAboutItsEntry` therefore
counts from the answer for such a clear; what is committed afterwards is safe.

### Messages

In `MessageActions` and `MessageRequests` every database or provider operation
is an action; the clock a call compares leases with is the one it read before
(`held.at`). An attempt ID and an owner token are minted by a call and stand for
it. `Crash` ends a call anywhere; a database error the code does not handle ends
it in the same way. In `MessageActions` a transaction may abort, or commit and
report an error, and so may the sender's notification. In `MessageRequests`
every item needs a payment and the host has configured `expirePaymentSession`,
which is the case with the most steps.

### Abstractions

- Data: a record keeps the fields that decide something (lineage, subject,
  provider session ID, provider identity, key, browser, deadline). Provider
  tokens, claims and metadata are left out.
- Snapshot comparisons are equality of the modelled fields. A refresh that only
  replaces provider tokens also changes the session ID, so nothing the
  comparisons tell apart is lost.
- A device key is its thumbprint and a proof is the key it proves. A browser
  secret and its hash are one value.
- Time is a small number that only `Tick` advances, between any two actions.
  `BrowserSession` has no clock: tokens there end by being cleared.
- The provider, hooks and the issuer succeed or fail by choice.

## Runs

All runs are exhaustive over their instance. Deadlock is checked in all of them;
a system at rest is the explicit step `Quiescent`, `AllAnswered` or `Idle`.

| Run | Instance | Shows |
|---|---|---|
| `memory_sessions` | three IDs, two subjects, deadlines 1 and none, clock to 1, sweep batch 1 | an ID never has two meanings, no alias is orphaned, no step takes a live lineage's handle away |
| `memory_one_time` | one state, two codes, one JTI, three proofs in a heap of two, seven tickets in a heap of six, deadlines 1 and 2, clock to 2, sweep and clean-up batch 1 | every reply is one the abstract store would give; the heaps stay in order |
| `map_sweep` | three keys, sweep batch 2, clock to 2 | a sweep removes expired records only; each is reclaimed eventually |
| `vault_login` | two logins, two callbacks, two exchanges, two providers, all policies, one key | one session per login, to the browser and key that started it; no handle of a session whose request failed |
| `vault_refresh` | one login carried through, two refreshes, one logout, two keys | the lineage never forks, keeps key and deadline, and stays dead after a logout |
| `vault_backchannel` | one login, one refresh, three back-channel requests of two providers with equal JTIs | one owner per token; nothing under way revives what was revoked |
| `vault_replay` | one login, two presentations of one token | violation: see the first finding |
| `redis_sessions` | two overlapping calls of which one may delete, two IDs, two lineages of one subject, two providers, clock to 1, four writes | the indexes never lose a session, aliases are owned, a completed scan left nothing it is answerable for |
| `redis_aliases` | the same with one call at a time and one provider | violation: see the second finding |
| `browser_session` | two tabs, three calls, one reload | a cleared tab stays cleared, a clear ends only the generation it is about, a logout reaches the other tab |
| `message_actions` | three calls for two actions, one of them with a notification, one direct archival, lease 1, clock to 2 | one attempt for all effects, one owner commits, message and notification neither lost nor doubled, leases honoured |
| `message_requests` | two calls, up to two items, lease 1, poll 1, wait 2, clock to 3 | one batch, equal answers, payment sessions settled, every call answered |

### Why the bounds are enough to be interesting

- Three session IDs let a lineage be rotated twice, rotated back into a retired
  ID, and coexist with another lineage that reuses one. With a clock to 1 and a
  deadline of 1, a record is live or expired; records without a deadline cover
  the rest. A sweep batch of 1 leaves expired records behind.
- In `memory_one_time` six tickets are the smallest heap in which a removal from
  the middle moves a node up, and the seventh meets a full heap. A clean-up batch
  of 1 leaves expired nodes behind. Heaps and Maps share nothing but the clock,
  so the run explores each heap while the rest of the store is empty
  (`HeapsAlone`), and no action reads `call`, so the view leaves it out. The
  store's README says expired entries "may conservatively consume capacity"; the
  run shows that they never do, because an expired entry is at the top of the
  heap and every admission cleans at least one.
- In `MapSweep` there are more keys than a batch, so a pass takes several calls
  and the Map changes under the snapshot.
- In the vault runs two racing requests of each kind are what the races between
  equals need; the clock reaches every deadline while requests are in flight.
  `HookDeadlines` in `vault_login` holds one value below and one above the cap.

- In `redis_sessions` two IDs and four writes let an ID be a session, an alias, a
  session of the other lineage and an alias again, all during one deletion. The
  other call creates, rotates and runs maintenance. With two IDs the interesting
  rotation, into an ID the scan has already passed or not yet reached, happens.
- In `browser_session` three calls are a login that waits, a clear and a new
  login, in one tab or spread over two; the reload drops whatever its tab held.
  A tab that knows no generation is there from the start and after the reload.
- In `message_actions` three calls give an owner, the call that takes over from
  it and a third for the same or the other action. A clock of twice the lease
  lets two leases lapse in a row.
- In `message_requests` the reservation lapses while its owner prepares, and the
  waiting call's deadline lies beyond that, so that it can take over, replay or
  give up. Two items are needed for a batch that is partly archived or partly
  built. The clock stops at `MaxTime`; a wait that would end later ends there.

The bounds are small. A race that needs three refreshes at once, two overlapping
deletions in Redis, a third tab, or an ID reused by a fourth lineage, is outside
them.

### Fairness

`MapSweep` states `WF` on `SweepingCall`. The store has no timer; reclamation is
done by calls, and a record is promised to be reclaimed only if the store keeps
being called. Nothing is assumed about which calls those are.

`MessageRequests` states `WF` on `Tick` and on the steps of each call. Time
passes, and an operation a call awaits settles, with success or an error; a call
that is not dead goes on. A call may still die at any step, and nothing is
assumed about the one that holds the reservation: the others are answered
because its lease lapses and their own waiting time ends.

The other runs check safety and need none: no handler is assumed to finish.

## Proofs

Every invariant and every safety action property that a passing run checks is
also a theorem, for all values of the constants: any number of requests, calls,
tabs, IDs, lineages and keys, any lease, lifetime, batch and horizon. Each
`...Proofs` module has the same shape: a conjunction `IInv` that contains the
properties and what they depend on, a lemma that `Init` satisfies it, a lemma per
action that it is kept, and the theorems that follow from it. The assumptions
are on constants only, are stated in the module that declares them, and are
evaluated by TLC in the runs.

The prover has no induction over data: the library's induction theorems take an
operator, which none of the installed provers can instantiate. Where a loop or a
sequence needs one (the heap's loops, `MapSweep`'s order of keys), the proof takes
the least counterexample with `WFMin` (`WellFoundedInduction`) and refutes it.

### `MemorySessionsProofs`

`TypeCorrect`, `IdsHaveOneMeaning` (`NoIdHasTwoMeanings`),
`AliasesFollowTheirLineage` (`EveryAliasHasItsLineage`) and `HandlesSurvive`
(the action property `RevocationHandlesSurvive`).

    IInv == TypeOK /\ NoIdHasTwoMeanings /\ EveryAliasHasItsLineage

is inductive as it stands. The types are needed in every step, for the records
the Maps are said to hold; the other two parts are proved together because every
method changes both Maps. `Good` is the same invariant as a predicate on any pair
of Maps, so that it can be stated of the Maps in the middle of a method, after its
sweep and before it stores. The argument for each action is that a removal drops
the aliases of every lineage it leaves without a live session, and that the
aliases it keeps belong to lineages with a session that was kept.
`HandlesSurvive` needs the converse, that nothing else is dropped: the `...Keeps`
lemmas follow one alias of a lineage that stays live through every method.

Assumptions: `ClockAssumption` (`Never` is not a number, deadlines are numbers or
`Never`) and `SessionAssumption` (session IDs can be lineage IDs, `Undefined` is
not one, inputs are well-formed).

### `MapSweepProofs`

`SweepsAreAsAssumed`: the sweep `MapSweep` models step by step, with a snapshot
that goes stale and a cursor that stops at the batch, is one of the sweeps
`ExpiringMap!Sweeps` allows, which is all that `MemorySessions` and
`MemoryOneTime` know of it. The invariant says that the Map's order lists each key
once and that the cursor is in the snapshot. A call may finish one snapshot and
begin a second; the bound on how many records it removes adds up the positions it
visits in both, and each position is one key at most. Assumption:
`ClockAssumption`.

### `MemoryOneTimeProofs`

`TypeCorrect`, and `Implements` (`Spec => KeepsItsPromise`): the store implements
`OneTimeStore`. The refinement mapping takes the obtainable records, those present
and not expired, as the abstract `live`. Its proof needs that the heaps are in
order, because only then is the expired entry that a clean-up can reach at the
top. The invariant is that the three Maps hold records and the two heaps are
sequences of nodes, each ID once, in heap order. The proof has four parts:

1. Loops: what holds before the first turn and is kept by each holds at the end, and
   a loop with a measure that decreases has stopped by then.
2. Moving a node up or down restores the order. Half-way through, the order is in
   doubt only around the node that moves: the lemmas say that it holds everywhere
   else, across the node from its parent to its children, and above or below it.
3. What insertion, removal and clean-up do to the set of nodes, and what they leave
   obtainable.
4. Each call is then the abstract call with the same reply, and a tick the abstract
   one.

Assumptions: `ClockAssumption`, `CleanAssumption` (the clean-up batch is positive),
`OneTimeAssumption` (records and the facts they are matched against are
well-formed).

### `OidcVaultProofs`

| Theorem | States |
|---|---|
| `TypeCorrect` | `TypeOK` |
| `CarriedThroughOnce` | `LoginIsCarriedThroughOnce` |
| `LineagesAreSingle` | `OneSessionPerLineage` |
| `GrantsMatch` | `GrantMatchesLogin` |
| `LifetimesAreAbsolute` | `LifetimeIsAbsolute` |
| `FailuresRollBack` | `FailureLeavesNoSession` |
| `LogoutEndsLineage` | `LogoutIsTotal` |
| `RevocationHasOneOwner` | `OneRevocationOwner` |
| `EndedForGood` | the action property `EndedLineagesStayEnded` |

    IInv == Shape /\ TxnsOK /\ CodesOK /\ JtisOK /\ StoreOK /\ RequestsOK /\ Once

None of the properties is inductive. A request acts on what it read before an
await, so the invariant has to say of each request, at each await, what it has
committed so far and that what it holds agrees with the login its lineage began
with (`RequestsOK`), and of each record in the store which request put it there
and that the request got that far (`TxnsOK`, `CodesOK`, `JtisOK`, `StoreOK`).
`Once` says that no two callbacks hold one login and no two exchanges one code.

Most steps move one request and take records out of the store at most. For these
the argument is made once: what requests have committed is never undone
(`Advances`), a store that only loses records keeps its part (`Wanes`), and the
requests that wait keep theirs (the `...Waits` lemmas). The steps that store
something, `CallbackCreateSession`, `CallbackCreateCode`, `RefreshRotate` and
`BackchannelReserve`, are proved on their own. That no ended lineage comes back
is proved in the same induction (`Ends`), because a refresh that rotates must know
that the session it replaces is the one it read.

For `FailuresRollBack` the rollbacks are part of `RequestsOK`. That nobody holds a
handle of a session whose exchange failed follows from `Once`: every handle goes
back to an exchange that delivered the session, and that would be a second exchange
of the same code.

Assumptions: `VaultAssumption`, `RequestAssumption` (requests of different kinds
are different, `Undefined` is none of them) and `LifetimeAssumption`.

### `RedisSessionsProofs`

`TypeCorrect`, `AlwaysIndexed` (`SessionsAreIndexed`), `AlwaysOwned`
(`AliasesAreOwned`) and `ScansAreThorough` (`ScanIsThorough`).

    IInv == Store /\ Memory /\ \A c \in Calls : ScanOK(c)

`Store` adds to the two index properties that no key has outlived its deadline and
that a stamp is used for one write only; the deletion script compares whole
records, and without the second part a record written again could pass for the one
that was read. `Memory` types what calls hold. `ScanOK` is what makes a scan
thorough while the index changes under it: each session it is answerable for is
still promised by ZSCAN or in the batch, or else gone (`TargetsArePending`), a
session once ended stays gone (`EndedIsGone`), and what the call read is of the
login it will be judged as (`ReadsAreKin`). Assumptions: `RedisAssumption`,
`RecordAssumption`.

### `BrowserSessionProofs`

`TypeCorrect`, `ClearedForGood` (`ClearedStaysCleared`), `LogoutIsHeard`
(`LogoutReachesEveryTab`) and `ClearsAreScoped` (the action property `ClearIsAboutItsEntry`).

    IInv == Shape /\ \A t \in Tabs : TabOK(t)

`TabOK` says, tab by tab, that a wiped tab holds no token and takes none it did not
ask for (`WipedOK`), that until a clear has had its turn its tab is quiet and
nothing queued before it has authority (`QueueOK`), that what the operation
holding the lock has written is still on record (`HeadOK`), and that a token
outlives its session only while news of its end is under way, as a message or a
queued clear (`Due`). A step touches one tab and the shared record; `TabStep` and
`RecordStep` say what the others keep. A clear is about a generation that was on
record when it learned of it, and generations never come back, so if it still is on
record when the clear has the lock, nothing was written in between; `OpOK` says that
of every queued clear. Assumption: `BrowserAssumption`.

### `MessageActionsProofs`

`TypeCorrect`, `OneAttemptPerMessage` (`EffectsShareOneAttempt`), `OneCommit`
(`OneOwnerCommits`), `NothingIsLost` (`MessageIsInOnePlace`), `ToldOnce`
(`SenderIsToldOnce`) and `LeaseHonoured` (the action property `LeaseIsHonoured`).

The invariant adds to the properties what a call holds at each point (`PcOK`), that
the claim in the message is of a call that got that far, with the attempt every
effect carries (`ClaimOK`, `OneAttempt`), and that while the owner of a fresh claim
has not run its handler, no other call has had an effect (`FreshOwnerIsAlone`),
which is why giving such a claim back is safe. `Telling` ties the count of
notifications to what the archive and the calls say of them. Assumptions: `ActionsAssumption`,
`DocumentAssumption`.

### `MessageRequestsProofs`

`TypeCorrect`, `AtMostOneBatch` (`OneBatch`), `ReplaysAgree` (`AnswersAgree`) and
`SessionsAreSettled` (`SessionsSettled`).

    IInv == Shape /\ BatchOK /\ \A c \in Calls : SessionsOK(c) /\ ReadsOK(c)

`BatchOK` says that the messages there are the whole batch of the completed
reservation, or none. `SessionsOK` says which payment sessions a call has open and
that it still has them to commit or to expire. `ReadsOK` is about replays: what a
call saw of the active messages is part of the batch, and what it did not see there
is in the archive by the time it looks; messages move in that direction only, so the
two reads together are the batch. Other calls' steps keep both (`Undisturbed`). Assumptions:
`RequestsAssumption`, `ReservationAssumption`.

### Only model-checked

- `ExpiredRecordsAreReclaimed` and `EveryCallIsAnswered`: liveness under fairness,
  and `ENABLED`, are out of the prover's reach.
- `SequentialReplayIsSilent` and `AliasesOutlastOtherLogouts` are false of the
  code; see the findings.

## Findings

### Replayed logout tokens

The comment on `buildBackchannelLogoutReplayKey`
(`packages/express-oidc-vault/src/index.ts:393-394`) says "A sequential replay
after completed revocation deletes zero sessions and emits no hook". A duplicate
presentation deletes whatever matches the token's subject or provider session ID
at that time (lines 1487-1496). `vault_replay` shows a subject who logs in again
after the first presentation was answered: a second presentation of the same
unexpired token deletes the new session and calls `onLogout`. The comment holds
as long as no session of the subject is created in between.

### Expired aliases in Redis

The README of the Redis store says "scoped/direct deletion preserves unexpired
aliases while another live member survives" (line 74) and "creating or rotating
into a previously obsolete session ID removes that stale alias ownership first"
(line 77). The write and rotate scripts take a reused ID off its old lineage's
alias list only if the alias key still exists (`scripts.ts` 421-431, 450-456,
707-717, 776-782). An alias that has expired stays listed until maintenance
prunes the list. If its ID is used for a session of another lineage and rotated
away, it is an alias of that lineage, and ending the first lineage deletes every
alias on its list (588-606, 487-491), that one too. `redis_aliases` shows it.
The effect needs an ID to be used twice, which the store provides for and the
vault's random IDs never do.

## Not modelled in the modelled parts

- Fingerprint recognition: an equality check beside the device key.
- The handlers' use of logout tickets and the provider's end-session redirect.
- Cookies set on responses. What a presenter may send is arbitrary anyway.
- Stores without the optional capabilities (conditional consume, revocation
  context, JTI reservation), for which the handlers have fallbacks.
- Hooks that rewrite IDs, or the subject of a session that is not device-bound.
- Validation errors of malformed records: the Maps hold only validated ones.
- Failure of a rollback, and of the handlers' store calls not named here. That
  `createSession` (or a hook before it), `createExchangeCode` and the
  back-channel deletion fail is modelled. The in-memory deletion that rolls back
  cannot fail; a failing rollback belongs to the modules of the other stores.
- `sweepWork`, the sweep's diagnostic counters.
- Redis store: one-time records, JTIs, DPoP reservations, logout tickets, the
  read of a revocation context, the repair of malformed records, the script
  runner. The provider-session index runs through the same code as the subject
  index, which stands for both. A session that is rotated before a scan reads it
  may survive the deletion: "A concurrent arrival may survive" (README, line 98).
- Browser client: `resetKey` and a lost key (they end a session like a terminal
  failure), `getKey`, `logoutAndNavigate`, the auto-refresh scheduler, rejected
  tokens, body transport, Bearer mode, recognition markers, expiry, the fetch
  wrapper. A record written by a tab that is cleared or closed before it
  broadcasts leaves the others unaware; `LogoutReachesEveryTab` excepts it. A tab
  may keep an older token under a newer active record.
- Message service: creation without a request ID, plain notifications, listing,
  payment actions, routes, templates, email.

Hazards without a property are in `PROJECT.json` with the reason.

## Plan

1. An abstract session registry (lineages and handles, no lazy deletion) that
   `MemorySessions` implements, in the manner of `OneTimeStore`; `RedisSessions`
   with one call at a time against the same registry; the MongoDB store.
2. Request attestation's replay stores; the React hooks' settlement of
   overlapping requests; the Express runtime's shutdown.
3. Proofs of what 1 and 2 add, the refinement of the session registry first: its
   mapping would use the invariant of `MemorySessionsProofs` as it stands.
