--------------------------- MODULE BrowserSession ---------------------------
(***************************************************************************)
(* The browser client's session                                            *)
(* (packages/oidc-vault-dpop-client/src/auth-session.ts and                *)
(* session-lifecycle.ts): tabs that share one cookie session, in DPoP mode *)
(* with one key.                                                           *)
(*                                                                         *)
(* A tab's operations wait in its own queue and run under a Web Lock all   *)
(* tabs share.  Each response of the vault makes a new generation, which   *)
(* is written to IndexedDB and broadcast with the token.  clear, a         *)
(* terminal failure and a peer's clear take the authority away from what   *)
(* the tab had begun before; a publication or a new login takes it away    *)
(* from peer callbacks.  The controllers and counters that implement this  *)
(* appear here as flags of the operations, which are withdrawn by the      *)
(* events that make the code's comparison fail.                            *)
(*                                                                         *)
(* Between two actions of a tab it awaits IndexedDB, the lock or the       *)
(* vault, and anything else in that tab may run.  What an operation reads  *)
(* from IndexedDB while it holds the lock nobody else can change, so its   *)
(* reads before the next request or write are one action.  A clear that    *)
(* knows no generation reads the record without the lock, while others may *)
(* write it: the answer to that read is an action of its own.              *)
(***************************************************************************)
EXTENDS Naturals, Sequences

CONSTANTS Tabs,
          None,
          MaxCalls,     \* bound on the calls made in all tabs together
          MaxReloads    \* bound on reloads

ASSUME BrowserAssumption ==
  /\ MaxCalls \in Nat /\ MaxReloads \in Nat
  /\ None \notin Tabs \cup Nat
  /\ None \notin [gen : Nat, active : BOOLEAN]

VARIABLES version,      \* IndexedDB: generation and activity, or None
          lock,         \* the tab that holds the Web Lock, or None
          queue,        \* tab -> its operations, the first of them running
          tab,          \* tab -> its memory and session storage
          adopting,     \* tab -> peer tokens whose lookup is under way
          inbox,        \* tab -> broadcast messages not delivered yet
          minted,       \* generations made so far
          announced,    \* not in the code: the record has been broadcast
          calls, reloads

vars == <<version, lock, queue, tab, adopting, inbox, minted, announced, calls, reloads>>

Generation == 1 .. minted
Binding == Generation \cup {None}

(***************************************************************************)
(* token is the generation of the access token.  wiped is not in the code: *)
(* the tab was cleared, and no operation called since has published.       *)
(***************************************************************************)
Memory ==
  [token : Binding, accept : BOOLEAN, pending : Binding, binding : Binding,
   refreshing : BOOLEAN, wiped : BOOLEAN]

(***************************************************************************)
(* current is authority.isCurrent; claims, that nothing was published and  *)
(* no login called since claimFailure; had, the token on calling refresh;  *)
(* binding, the generation the operation is about; reading, that a clear   *)
(* has yet to be told which one that is.  fresh and entry are not in the   *)
(* code: no clear was called since; and the generation in IndexedDB at the *)
(* call, or at the answer if the operation had to ask.                     *)
(***************************************************************************)
Kinds == {"login", "exchange", "refresh", "logout", "clear", "peerClear", "cleanup"}

Phases == {"queued", "open", "asking", "posted", "published", "deactivating", "deactivated"}

Operation ==
  [kind : Kinds, phase : Phases, current : BOOLEAN, claims : BOOLEAN, had : Binding,
   binding : Binding, reading : BOOLEAN, fresh : BOOLEAN, entry : Binding]

Message == [type : {"token", "clear", "request"}, gen : Generation]

Adoption == [gen : Generation, asked : BOOLEAN]

NewContext(pending) ==
  [token |-> None, accept |-> TRUE, pending |-> pending, binding |-> None,
   refreshing |-> FALSE, wiped |-> FALSE]

\* A browser that has never signed in, or one with a session from before.
Init ==
  /\ \/ version = None /\ minted = 0
     \/ version = [gen |-> 1, active |-> TRUE] /\ minted = 1
  /\ lock = None
  /\ queue = [t \in Tabs |-> << >>]
  /\ tab = [t \in Tabs |-> NewContext(None)]
  /\ adopting = [t \in Tabs |-> {}]
  /\ inbox = [t \in Tabs |-> << >>]
  /\ announced = TRUE
  /\ calls = 0 /\ reloads = 0

Gen(v) == IF v = None THEN None ELSE v.gen
Active(v) == v # None /\ v.active

Broadcast(t, message) ==
  inbox' = [u \in Tabs |-> IF u = t THEN inbox[u] ELSE Append(inbox[u], message)]

----------------------------------------------------------------------------
(***************************************************************************)
(* Losing authority.                                                       *)
(***************************************************************************)
\* publication++ or loginIntent++, as the operations of the tab feel it.
Outdated(ops) ==
  [i \in DOMAIN ops |->
     [ops[i] EXCEPT !.claims = FALSE, !.current = @ /\ ops[i].kind # "peerClear"]]

\* lifecycle.invalidate
Aborted(ops) == [i \in DOMAIN ops |-> [ops[i] EXCEPT !.current = FALSE, !.claims = FALSE]]

\* clearLocal
Cleared(m, keepPending) ==
  [m EXCEPT !.token = None, !.accept = FALSE, !.wiped = TRUE,
            !.pending = IF keepPending THEN @ ELSE None]

\* invalidateLocal
Invalidated(m, keepPending) == [Cleared(m, keepPending) EXCEPT !.refreshing = FALSE]

----------------------------------------------------------------------------
(***************************************************************************)
(* Calls.  They take effect in part at once and in part when their turn    *)
(* comes.                                                                  *)
(***************************************************************************)
NewOp(t, kind, binding) ==
  [kind |-> kind, phase |-> "queued", current |-> TRUE, claims |-> FALSE,
   had |-> tab[t].token, binding |-> binding, reading |-> FALSE, fresh |-> TRUE,
   entry |-> Gen(version)]

Called == calls < MaxCalls /\ calls' = calls + 1

login(t) ==
  /\ Called
  /\ queue' = [queue EXCEPT ![t] = Append(Outdated(@), NewOp(t, "login", None))]
  /\ adopting' = [adopting EXCEPT ![t] = {}]
  /\ tab' = [tab EXCEPT ![t].refreshing = FALSE]
  /\ UNCHANGED <<version, lock, inbox, minted, reloads, announced>>

exchangeOrLogout(t, kind) ==
  /\ Called
  /\ queue' = [queue EXCEPT ![t] = Append(@, NewOp(t, kind, None))]
  /\ tab' = [tab EXCEPT ![t].refreshing = FALSE]
  /\ UNCHANGED <<version, lock, adopting, inbox, minted, reloads, announced>>

\* A call during a refresh is given the same promise.
refresh(t) ==
  /\ ~tab[t].refreshing
  /\ Called
  /\ queue' = [queue EXCEPT ![t] = Append(@, NewOp(t, "refresh", None))]
  /\ tab' = [tab EXCEPT ![t].refreshing = TRUE]
  /\ UNCHANGED <<version, lock, adopting, inbox, minted, reloads, announced>>

\* The generation the tab knows of: of its token, or of what it saw last.
Expected(t) == IF tab[t].token # None THEN tab[t].token ELSE tab[t].binding

Unfresh(ops) == [i \in DOMAIN ops |-> [ops[i] EXCEPT !.fresh = FALSE]]

\* A tab that knows none, as after a reload, starts to read the record.
clear(t) ==
  /\ Called
  /\ queue' = [queue EXCEPT ![t] =
                 Append(Unfresh(Aborted(@)),
                        [NewOp(t, "clear", Expected(t)) EXCEPT !.reading = (Expected(t) = None)])]
  /\ tab' = [tab EXCEPT ![t] = Invalidated(@, FALSE)]
  /\ adopting' = [adopting EXCEPT ![t] = {}]
  /\ UNCHANGED <<version, lock, inbox, minted, reloads, announced>>

\* The read is answered with what is on record by then, whoever holds the lock.
readVersion(t, i) ==
  /\ queue[t][i].reading /\ queue[t][i].current
  /\ queue' = [queue EXCEPT ![t][i] =
                 [@ EXCEPT !.reading = FALSE, !.binding = Gen(version), !.entry = Gen(version)]]
  /\ UNCHANGED <<version, lock, tab, adopting, inbox, minted, announced, calls, reloads>>

\* dispose, and a new context in the same tab: session storage survives.
Reload(t) ==
  /\ reloads < MaxReloads /\ reloads' = reloads + 1
  /\ queue' = [queue EXCEPT ![t] = << >>]
  /\ tab' = [tab EXCEPT ![t] = NewContext(tab[t].pending)]
  /\ adopting' = [adopting EXCEPT ![t] = {}]
  /\ inbox' = [inbox EXCEPT ![t] = << >>]
  /\ lock' = IF lock = t THEN None ELSE lock
  /\ UNCHANGED <<version, minted, calls, announced>>

----------------------------------------------------------------------------
(***************************************************************************)
(* The running operation.                                                  *)
(***************************************************************************)
Running(t, kind, phase) ==
  /\ lock = t
  /\ Head(queue[t]).kind \in kind /\ Head(queue[t]).phase = phase
  /\ Head(queue[t]).current

Proceed(t, op) == queue' = [queue EXCEPT ![t] = <<op>> \o Tail(@)]
To(op, phase) == [op EXCEPT !.phase = phase]

\* The operation is over: the lock is released, and a refresh no longer shared.
Unshared(m, op) == [m EXCEPT !.refreshing = @ /\ op.kind # "refresh"]

Finish(t, rest) == queue' = [queue EXCEPT ![t] = rest] /\ lock' = None

\* lifecycle.enqueue and withCookieLock; an operation without authority ends.
Acquire(t) ==
  /\ queue[t] # << >> /\ Head(queue[t]).phase = "queued"
  /\ lock = None
  /\ Head(queue[t]).current
  /\ lock' = t
  /\ Proceed(t, [Head(queue[t]) EXCEPT !.phase = "open", !.claims = TRUE])
  /\ UNCHANGED <<version, tab, adopting, inbox, minted, calls, reloads, announced>>

\* Faulty: the lock is left behind.
SupersededKeepingLock(t) ==
  /\ queue[t] # << >> /\ ~Head(queue[t]).current
  /\ queue' = [queue EXCEPT ![t] = Tail(@)]
  /\ UNCHANGED <<lock, version, tab, adopting, inbox, minted, announced, calls, reloads>>

\* A refresh that clear took the authority from is no longer shared anyway.
Superseded(t) ==
  /\ queue[t] # << >> /\ ~Head(queue[t]).current
  /\ queue' = [queue EXCEPT ![t] = Tail(@)]
  /\ lock' = IF lock = t THEN None ELSE lock
  /\ UNCHANGED <<version, tab, adopting, inbox, minted, announced, calls, reloads>>

Done(t) ==
  /\ Finish(t, Tail(queue[t]))
  /\ tab' = [tab EXCEPT ![t] = Unshared(@, Head(queue[t]))]
  /\ UNCHANGED <<version, adopting, inbox, minted, announced, calls, reloads>>

(***************************************************************************)
(* onFailure, with an error that requires a login: unless something newer  *)
(* was published or begun, the tab is cleared and everything queued behind *)
(* loses its authority; the cookie generation is then deactivated if it is *)
(* still the one at hand.                                                  *)
(***************************************************************************)
Forfeit(t, expected) ==
  LET cleanup == [Head(queue[t]) EXCEPT !.kind = "cleanup", !.binding = expected,
                                        !.phase = "deactivating", !.claims = FALSE]
      rest == Aborted(Tail(queue[t]))
  IN /\ IF expected # None /\ Gen(version) = expected
        THEN queue' = [queue EXCEPT ![t] = <<cleanup>> \o rest] /\ UNCHANGED lock
        ELSE Finish(t, rest)
     /\ tab' = [tab EXCEPT ![t] = Invalidated(@, FALSE)]
     /\ adopting' = [adopting EXCEPT ![t] = {}]
     /\ UNCHANGED <<version, inbox, minted, announced, calls, reloads>>

Fail(t, binding) ==
  IF Head(queue[t]).claims
  THEN Forfeit(t, IF tab[t].token # None THEN tab[t].token ELSE binding)
  ELSE Done(t)

\* login: the tab is cleared in order, keeping the authority of the queue.
BeginLogin(t) ==
  /\ Running(t, {"login"}, "open")
  /\ tab' = [tab EXCEPT ![t] = Cleared(@, FALSE)]
  /\ queue' = [queue EXCEPT ![t] =
                 <<[To(Head(@), "deactivating") EXCEPT !.claims = TRUE]>> \o Outdated(Tail(@))]
  /\ adopting' = [adopting EXCEPT ![t] = {}]
  /\ UNCHANGED <<version, lock, inbox, minted, calls, reloads, announced>>

\* exchange: only the login of this tab that is on record can be finished.
BeginExchange(t) ==
  /\ Running(t, {"exchange"}, "open")
  /\ IF tab[t].pending = None \/ tab[t].pending # Gen(version)
     THEN Fail(t, None)
     ELSE /\ Proceed(t, [To(Head(queue[t]), "posted") EXCEPT !.binding = version.gen, !.claims = TRUE])
          /\ UNCHANGED <<version, lock, tab, adopting, inbox, minted, calls, reloads, announced>>

(***************************************************************************)
(* refresh: a token of the current generation that the caller did not have *)
(* yet is good enough; a tab that has fallen behind asks its peers first.  *)
(***************************************************************************)
Reusable(t, op) == tab[t].token # None /\ tab[t].token = Gen(version) /\ tab[t].token # op.had

BeginRefresh(t) ==
  LET op == [Head(queue[t]) EXCEPT !.binding = Gen(version)] IN
  /\ Running(t, {"refresh"}, "open")
  /\ \/ /\ ~Active(version)
        /\ Fail(t, Gen(version))
     \/ /\ Active(version) /\ Reusable(t, op)
        /\ Done(t)
     \/ /\ Active(version) /\ ~Reusable(t, op)
        /\ IF op.had # version.gen
           THEN /\ Proceed(t, To(op, "asking"))
                /\ Broadcast(t, [type |-> "request", gen |-> version.gen])
           ELSE /\ Proceed(t, [To(op, "posted") EXCEPT !.claims = TRUE])
                /\ UNCHANGED inbox
        /\ UNCHANGED <<version, lock, tab, adopting, minted, calls, reloads, announced>>

\* A peer has answered, or the 180 ms are over.
EndAsking(t) ==
  LET op == Head(queue[t]) IN
  /\ Running(t, {"refresh"}, "asking")
  /\ adopting' = [adopting EXCEPT ![t] = {a \in @ : ~a.asked}]
  /\ IF Reusable(t, op)
     THEN Finish(t, Tail(queue[t])) /\ tab' = [tab EXCEPT ![t] = Unshared(@, op)]
     ELSE Proceed(t, [To(op, "posted") EXCEPT !.claims = TRUE]) /\ UNCHANGED <<lock, tab>>
  /\ UNCHANGED <<version, inbox, minted, announced, calls, reloads>>

BeginLogout(t) ==
  /\ Running(t, {"logout"}, "open")
  /\ IF version = None
     THEN Fail(t, None)
     ELSE /\ Proceed(t, [To(Head(queue[t]), "posted") EXCEPT !.binding = version.gen, !.claims = TRUE])
          /\ UNCHANGED <<version, lock, tab, adopting, inbox, minted, calls, reloads, announced>>

\* Faulty: whatever generation is on record now.
BeginClearAnyway(t) ==
  /\ Running(t, {"clear"}, "open") /\ ~Head(queue[t]).reading
  /\ Proceed(t, To(Head(queue[t]), "deactivating"))
  /\ UNCHANGED <<version, lock, tab, adopting, inbox, minted, announced, calls, reloads>>

\* clear: the tab's memory went at the call, the generation goes now.
BeginClear(t) ==
  LET op == Head(queue[t]) IN
  /\ Running(t, {"clear"}, "open") /\ ~op.reading
  /\ IF op.binding # None /\ op.binding = Gen(version)
     THEN Proceed(t, To(op, "deactivating")) /\ UNCHANGED lock
     ELSE Finish(t, Tail(queue[t]))
  /\ UNCHANGED <<version, tab, adopting, inbox, minted, announced, calls, reloads>>

\* Faulty: it counts if it is about the generation of this tab's token.
BeginPeerClearOfOwn(t) ==
  /\ Running(t, {"peerClear"}, "open")
  /\ IF tab[t].token = Head(queue[t]).binding
     THEN /\ tab' = [tab EXCEPT ![t] = Invalidated(@, TRUE)]
          /\ Finish(t, Aborted(Tail(queue[t])))
          /\ adopting' = [adopting EXCEPT ![t] = {}]
     ELSE Finish(t, Tail(queue[t])) /\ UNCHANGED <<tab, adopting>>
  /\ UNCHANGED <<version, inbox, minted, announced, calls, reloads>>

\* A peer's clear counts if it is the state on record.
BeginPeerClear(t) ==
  /\ Running(t, {"peerClear"}, "open")
  /\ IF version # None /\ ~version.active /\ version.gen = Head(queue[t]).binding
     THEN /\ tab' = [tab EXCEPT ![t] = Invalidated(@, TRUE)]
          /\ Finish(t, Aborted(Tail(queue[t])))
          /\ adopting' = [adopting EXCEPT ![t] = {}]
     ELSE Finish(t, Tail(queue[t])) /\ UNCHANGED <<tab, adopting>>
  /\ UNCHANGED <<version, inbox, minted, announced, calls, reloads>>

(***************************************************************************)
(* The vault's answer (post): success, an error that requires a login, or  *)
(* another error, a timeout or a lost response, which changes nothing.     *)
(***************************************************************************)
Navigates(t) == Running(t, {"login"}, "posted") /\ Done(t)

LoggedOut(t) ==
  LET op == Head(queue[t])
      rest == Outdated(Tail(queue[t]))
  IN /\ Running(t, {"logout"}, "posted")
     /\ tab' = [tab EXCEPT ![t] = Cleared(@, FALSE)]
     /\ queue' = [queue EXCEPT ![t] = <<To(op, "deactivating")>> \o rest]
     /\ adopting' = [adopting EXCEPT ![t] = {}]
     /\ UNCHANGED <<version, lock, inbox, minted, announced, calls, reloads>>

Refused(t) ==
  /\ Running(t, {"login", "exchange", "refresh", "logout"}, "posted")
  /\ \/ Fail(t, Head(queue[t]).binding)
     \/ Done(t)

(***************************************************************************)
(* publish: the new generation is written, then the token is put in place  *)
(* and broadcast.  The write is a transaction that losing authority aborts *)
(* unless it has committed.                                                *)
(***************************************************************************)
PublishVersion(t) ==
  /\ Running(t, {"exchange", "refresh"}, "posted")
  /\ minted' = minted + 1
  /\ announced' = FALSE
  /\ version' = [gen |-> minted + 1, active |-> TRUE]
  /\ Proceed(t, To(Head(queue[t]), "published"))
  /\ UNCHANGED <<lock, tab, adopting, inbox, calls, reloads>>

Published(m, op) ==
  [Unshared(m, op) EXCEPT !.token = version.gen, !.binding = version.gen, !.accept = TRUE,
                          !.wiped = @ /\ ~op.fresh,
                          !.pending = IF op.kind = "exchange" THEN None ELSE @]

\* Faulty: an answer that arrives is used.
PublishTokenAnyway(t) ==
  LET op == Head(queue[t]) IN
  /\ lock = t /\ op.kind \in {"exchange", "refresh"} /\ op.phase = "published"
  /\ tab' = [tab EXCEPT ![t] = Published(@, op)]
  /\ Finish(t, Outdated(Tail(queue[t])))
  /\ adopting' = [adopting EXCEPT ![t] = {}]
  /\ announced' = TRUE
  /\ Broadcast(t, [type |-> "token", gen |-> version.gen])
  /\ UNCHANGED <<version, minted, calls, reloads>>

PublishToken(t) ==
  LET op == Head(queue[t]) IN
  /\ Running(t, {"exchange", "refresh"}, "published")
  /\ tab' = [tab EXCEPT ![t] = Published(@, op)]
  /\ Finish(t, Outdated(Tail(queue[t])))
  /\ adopting' = [adopting EXCEPT ![t] = {}]
  /\ announced' = TRUE
  /\ Broadcast(t, [type |-> "token", gen |-> version.gen])
  /\ UNCHANGED <<version, minted, calls, reloads>>

(***************************************************************************)
(* invalidateCookie: an inactive generation is written, then broadcast.  A *)
(* login goes on to ask the vault.                                         *)
(***************************************************************************)
Deactivating == {"login", "logout", "clear", "cleanup"}

WriteInactive(t) ==
  /\ Running(t, Deactivating, "deactivating")
  /\ minted' = minted + 1
  /\ announced' = FALSE
  /\ version' = [gen |-> minted + 1, active |-> FALSE]
  /\ Proceed(t, To(Head(queue[t]), "deactivated"))
  /\ UNCHANGED <<lock, tab, adopting, inbox, calls, reloads>>

AfterInactive(t) ==
  LET op == Head(queue[t]) IN
  /\ Running(t, Deactivating, "deactivated")
  /\ announced' = TRUE
  /\ Broadcast(t, [type |-> "clear", gen |-> version.gen])
  /\ \/ /\ op.kind = "login"
        /\ tab' = [tab EXCEPT ![t] = [@ EXCEPT !.binding = version.gen, !.pending = version.gen]]
        /\ queue' = [queue EXCEPT ![t] =
                       <<[To(op, "posted") EXCEPT !.claims = TRUE, !.binding = version.gen]>>
                         \o Outdated(Tail(@))]
        /\ adopting' = [adopting EXCEPT ![t] = {}]
        /\ UNCHANGED lock
     \/ /\ op.kind # "login"
        /\ tab' = [tab EXCEPT ![t].binding = version.gen]
        /\ Finish(t, Tail(queue[t]))
        /\ UNCHANGED adopting
  /\ UNCHANGED <<version, minted, calls, reloads>>

----------------------------------------------------------------------------
(***************************************************************************)
(* Broadcast messages (channel.onmessage).                                 *)
(***************************************************************************)
Receive(t, type) ==
  /\ inbox[t] # << >>
  /\ Head(inbox[t]).type = type
  /\ UNCHANGED <<version, lock, minted, calls, reloads, announced>>

ReceiveRequest(t) ==
  LET message == Head(inbox[t]) IN
  /\ Receive(t, "request")
  /\ inbox' = [u \in Tabs |->
                 IF u = t THEN Tail(inbox[u])
                 ELSE IF tab[t].token = message.gen
                      THEN Append(inbox[u], [type |-> "token", gen |-> message.gen])
                      ELSE inbox[u]]
  /\ UNCHANGED <<queue, tab, adopting>>

ReceiveClear(t) ==
  /\ Receive(t, "clear")
  /\ queue' = [queue EXCEPT ![t] = Append(@, NewOp(t, "peerClear", Head(inbox[t]).gen))]
  /\ inbox' = [inbox EXCEPT ![t] = Tail(@)]
  /\ UNCHANGED <<tab, adopting>>

\* A refresh that has asked takes the token of its generation, and only it.
IsAsking(t) == queue[t] # << >> /\ Head(queue[t]).phase = "asking" /\ Head(queue[t]).current

ReceiveToken(t) ==
  LET gen == Head(inbox[t]).gen
      wanted == IF IsAsking(t) THEN Head(queue[t]).binding = gen ELSE tab[t].accept
  IN /\ Receive(t, "token")
     /\ adopting' = IF wanted
                    THEN [adopting EXCEPT ![t] =
                            @ \cup {[gen |-> gen, asked |-> IsAsking(t)]}]
                    ELSE adopting
     /\ inbox' = [inbox EXCEPT ![t] = Tail(@)]
     /\ UNCHANGED <<queue, tab>>

(***************************************************************************)
(* adoptPeer: the generation on record must be the token's.  It is read    *)
(* twice; only the second read matters, since no generation comes back.    *)
(* The token is taken as that read's transaction ends, and IndexedDB keeps *)
(* a writer waiting until then: reading and taking are one action.         *)
(***************************************************************************)
Adoptable(t, a) == Active(version) /\ version.gen = a.gen /\ tab[t].token # a.gen

Adopted(m, a) ==
  [m EXCEPT !.token = a.gen, !.binding = a.gen, !.accept = TRUE, !.wiped = @ /\ ~a.asked]

Adopt(t, a) ==
  /\ a \in adopting[t]
  /\ IF Adoptable(t, a)
     THEN /\ tab' = [tab EXCEPT ![t] = Adopted(@, a)]
          /\ queue' = [queue EXCEPT ![t] = Outdated(@)]
          /\ adopting' = [adopting EXCEPT ![t] = {}]
     ELSE adopting' = [adopting EXCEPT ![t] = @ \ {a}] /\ UNCHANGED <<tab, queue>>
  /\ UNCHANGED <<version, lock, inbox, minted, calls, reloads, announced>>

----------------------------------------------------------------------------
Call(t) ==
  \/ login(t) \/ refresh(t) \/ clear(t)
  \/ \E kind \in {"exchange", "logout"} : exchangeOrLogout(t, kind)

Step(t) ==
  \/ \E i \in DOMAIN queue[t] : readVersion(t, i)
  \/ Acquire(t) \/ Superseded(t)
  \/ BeginLogin(t) \/ BeginExchange(t) \/ BeginRefresh(t) \/ BeginLogout(t)
  \/ BeginClear(t) \/ BeginPeerClear(t) \/ EndAsking(t)
  \/ Navigates(t) \/ LoggedOut(t) \/ Refused(t)
  \/ PublishVersion(t) \/ PublishToken(t) \/ WriteInactive(t) \/ AfterInactive(t)
  \/ ReceiveRequest(t) \/ ReceiveClear(t) \/ ReceiveToken(t)
  \/ \E a \in adopting[t] : Adopt(t, a)

AtRest == \A t \in Tabs : queue[t] = << >> /\ inbox[t] = << >> /\ adopting[t] = {}

Idle == AtRest /\ UNCHANGED vars

Next ==
  \/ \E t \in Tabs : Call(t) \/ Reload(t) \/ Step(t)
  \/ Idle

Spec == Init /\ [][Next]_vars

----------------------------------------------------------------------------
(***************************************************************************)
(* Memory, operations and messages are well-formed.                        *)
(***************************************************************************)
TypeOK ==
  /\ version = None \/ version \in [gen : Generation, active : BOOLEAN]
  /\ lock \in Tabs \cup {None}
  /\ \A t \in Tabs :
       /\ tab[t] \in Memory
       /\ \A i \in DOMAIN queue[t] : queue[t][i] \in Operation
       /\ \A i \in DOMAIN inbox[t] : inbox[t][i] \in Message
       /\ adopting[t] \subseteq Adoption
  /\ lock # None => queue[lock] # << >>

(***************************************************************************)
(* "After clear or reset, unsolicited peer messages cannot restore this    *)
(* context; an explicit successful exchange/refresh must reestablish       *)
(* auth": neither a late answer of the vault nor a late message gives a    *)
(* cleared tab a token.                                                    *)
(***************************************************************************)
ClearedStaysCleared == \A t \in Tabs : tab[t].wiped => tab[t].token = None

(***************************************************************************)
(* A clear deactivates only the generation it is about: the session a peer *)
(* or this tab establishes while the clear waits for the lock survives it. *)
(* That is the generation on record when clear was called, if the tab had  *)
(* a token or has seen a generation since it was loaded.  A tab that has   *)
(* not learns the generation from a read that takes no lock, and is about  *)
(* the one on record when that read is answered: what a peer commits after *)
(* the call and before the answer is not protected.                        *)
(***************************************************************************)
ClearIsAboutItsEntry ==
  [][\A t \in Tabs :
       lock = t /\ Head(queue[t]).kind = "clear" /\ version' # version =>
         Gen(version) = Head(queue[t]).entry]_vars

(***************************************************************************)
(* A logout, a clear or a terminal failure in one tab reaches the others:  *)
(* once every message is handled, no tab holds a token unless the record   *)
(* is active.  The exception is a record whose writer lost its authority,  *)
(* or its page, before it could broadcast it.  (A tab may keep an older    *)
(* token under a newer active record: "lost peer delivery may require a    *)
(* later serialized refresh".)                                             *)
(***************************************************************************)
LogoutReachesEveryTab ==
  AtRest /\ announced => \A t \in Tabs : tab[t].token # None => Active(version)
=============================================================================
