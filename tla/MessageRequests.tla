--------------------------- MODULE MessageRequests --------------------------
(***************************************************************************)
(* Idempotent creation of messages                                         *)
(* (packages/message-service/src/message-service.ts, createMessage with a  *)
(* clientRequestId): the calls of one requester for one template and one   *)
(* request ID.                                                             *)
(*                                                                         *)
(* A call first looks for a completed reservation and replays its batch    *)
(* from the active and the archived collection, which are read one after   *)
(* the other while messages move between them.  Otherwise it reserves the  *)
(* request under a lease, or takes over a reservation whose lease expired, *)
(* prepares the items, opens a payment session for each, and commits the   *)
(* batch and the reservation in one transaction.  Sessions of a batch that *)
(* is not committed are expired again.                                     *)
(*                                                                         *)
(* Every database or provider operation is an action; a call issues its    *)
(* next operation, and reads the clock for it, in the action of the one    *)
(* before.  Every item needs a payment, and the host has configured        *)
(* expirePaymentSession.                                                   *)
(***************************************************************************)
EXTENDS Naturals, FiniteSets, FiniteSetsExt

CONSTANTS Calls,       \* calls of createMessage
          MaxItems,    \* bound on the items a template prepares
          None,        \* null, or no document
          LeaseTime,   \* clientRequestLeaseMs
          WaitTime,    \* clientRequestWaitMs
          PollTime,    \* clientRequestPollMs
          MaxTime      \* bound on the clock

ASSUME RequestsAssumption ==
  /\ MaxItems \in Nat /\ MaxTime \in Nat /\ WaitTime \in Nat
  /\ LeaseTime \in Nat \ {0} /\ PollTime \in Nat \ {0}
  /\ None \notin Calls \cup Nat

VARIABLES now,
          reservation, \* the MessageRequest document, or None
          active,      \* the messages of the batch in the active collection
          archived,    \* the ones in the archive
          session,     \* payment sessions: call -> index -> none, open, expired
          pc,          \* call -> where it stands
          held         \* call -> what it remembers

vars == <<now, reservation, active, archived, session, pc, held>>

Indexes == 0 .. MaxItems - 1

\* A message: the call that built it, and its clientRequestItemIndex.
Doc == [by : Calls, index : Indexes]

Reservation ==
  [state : {"pending", "completed", "failed"}, owner : Calls,
   lease : Nat \cup {None}, count : 0 .. MaxItems \cup {None}]

\* null is not a document.
ASSUME ReservationAssumption == None \notin Reservation

(***************************************************************************)
(* What a call remembers: whether it is in the waiting loop and until      *)
(* when, the time it read for its next operation, the snapshots and the    *)
(* item count of a replay, the items prepared and built, the sessions it   *)
(* has yet to expire, and why it gives up.                                 *)
(***************************************************************************)
Held ==
  [waits : BOOLEAN, deadline : Nat, at : Nat, seenActive : SUBSET Doc, seenArchived : SUBSET Doc,
   count : 0 .. MaxItems, items : 0 .. MaxItems, built : 0 .. MaxItems,
   todo : SUBSET Indexes, error : {"none", "pending", "unknown", "other", "compensation"}]

Final == {"created", "replayed", "pending", "failed", "inconsistent", "error", "crashed"}

Labels ==
  Final \cup
    {"finding", "probingActive", "probingArchived", "rereading", "readingActive",
     "readingArchived", "reconciling", "reconcilingArchived", "reserving", "takingOver",
     "sleeping", "preparing", "building", "committing", "compensating", "failing"}

Goto(c, label) == pc' = [pc EXCEPT ![c] = label]

Init ==
  /\ now = 0
  /\ reservation = None
  /\ active = {} /\ archived = {}
  /\ session = [c \in Calls |-> [i \in Indexes |-> "none"]]
  /\ pc = [c \in Calls |-> "finding"]
  /\ held = [c \in Calls |->
               [waits |-> FALSE, deadline |-> 0, at |-> 0, seenActive |-> {}, seenArchived |-> {},
                count |-> 0, items |-> 0, built |-> 0, todo |-> {}, error |-> "none"]]

Tick ==
  /\ now < MaxTime
  /\ now' = now + 1
  /\ UNCHANGED <<reservation, active, archived, session, pc, held>>

\* A wait that would end after the modelled time ends with it.
After(time) == Min({now + time, MaxTime})

(***************************************************************************)
(* There is nothing to replay.  Before the loop of                         *)
(* acquireClientRequestStart this enters it; inside, the call gives up at  *)
(* its deadline or sleeps.                                                 *)
(***************************************************************************)
\* Faulty: the wait goes on at the deadline.
NoReplayPastDeadline(c) ==
  IF ~held[c].waits
  THEN /\ Goto(c, "reserving")
       /\ held' = [held EXCEPT ![c] = [@ EXCEPT !.waits = TRUE, !.at = now,
                                                !.deadline = After(WaitTime)]]
  ELSE IF now > held[c].deadline
       THEN Goto(c, "pending") /\ UNCHANGED held
       ELSE /\ Goto(c, "sleeping")
            /\ held' = [held EXCEPT ![c].at = Min({After(PollTime), held[c].deadline})]

NoReplay(c) ==
  IF ~held[c].waits
  THEN /\ Goto(c, "reserving")
       /\ held' = [held EXCEPT ![c] = [@ EXCEPT !.waits = TRUE, !.at = now,
                                                !.deadline = After(WaitTime)]]
  ELSE IF now >= held[c].deadline
       THEN Goto(c, "pending") /\ UNCHANGED held
       ELSE /\ Goto(c, "sleeping")
            /\ held' = [held EXCEPT ![c].at = Min({After(PollTime), held[c].deadline})]

Wake(c) ==
  /\ pc[c] = "sleeping"
  /\ now >= held[c].at
  /\ Goto(c, "reserving")
  /\ held' = [held EXCEPT ![c].at = now]
  /\ UNCHANGED <<now, reservation, active, archived, session>>

(***************************************************************************)
(* findCompletedClientRequestReplay.  Without a reservation the messages   *)
(* are looked for, and if there are any the reservation is read again.     *)
(***************************************************************************)
FindReservation(c) ==
  /\ pc[c] = "finding"
  /\ IF reservation = None THEN Goto(c, "probingActive") /\ UNCHANGED held
     ELSE CASE reservation.state = "failed" -> Goto(c, "failed") /\ UNCHANGED held
            [] reservation.state = "pending" -> NoReplay(c)
            [] reservation.state = "completed" ->
                 /\ Goto(c, "readingActive")
                 /\ held' = [held EXCEPT ![c].count = reservation.count]
  /\ UNCHANGED <<now, reservation, active, archived, session>>

\* findByClientRequestScope
ReadActive(c, label) ==
  /\ held' = [held EXCEPT ![c].seenActive = active]
  /\ Goto(c, label)
  /\ UNCHANGED <<now, reservation, active, archived, session>>

ProbeActive(c) == pc[c] = "probingActive" /\ ReadActive(c, "probingArchived")

\* findArchivedByClientRequestScope
ProbeArchived(c) ==
  /\ pc[c] = "probingArchived"
  /\ IF held[c].seenActive \cup archived = {}
     THEN NoReplay(c)
     ELSE Goto(c, "rereading") /\ held' = [held EXCEPT ![c].seenArchived = archived]
  /\ UNCHANGED <<now, reservation, active, archived, session>>

(***************************************************************************)
(* mergeReplayBatch: the documents of both snapshots, if they are exactly  *)
(* one for every index.                                                    *)
(***************************************************************************)
Merges(docs, count) ==
  /\ Cardinality(docs) = count
  /\ {d.index : d \in docs} = 0 .. count - 1

(***************************************************************************)
(* buildCompletedReplay, with two snapshots at hand.  A batch that does    *)
(* not add up is read once more; an empty one has no second chance.        *)
(***************************************************************************)
\* Faulty: what was read first is final.
ReplayWithoutReconciling(c, docs, count, again) ==
  Goto(c, IF Merges(docs, count) THEN "replayed" ELSE "inconsistent")

Replay(c, docs, count, again) ==
  Goto(c, IF Merges(docs, count) THEN "replayed"
          ELSE IF again /\ count > 0 THEN "reconciling" ELSE "inconsistent")

Reread(c) ==
  /\ pc[c] = "rereading"
  /\ IF reservation = None THEN Goto(c, "inconsistent") /\ UNCHANGED held
     ELSE CASE reservation.state = "failed" -> Goto(c, "failed") /\ UNCHANGED held
            [] reservation.state = "pending" -> NoReplay(c)
            [] reservation.state = "completed" ->
                 /\ Replay(c, held[c].seenActive \cup held[c].seenArchived, reservation.count, TRUE)
                 /\ held' = [held EXCEPT ![c].count = reservation.count]
  /\ UNCHANGED <<now, reservation, active, archived, session>>

ReplayActive(c) == pc[c] = "readingActive" /\ ReadActive(c, "readingArchived")

ReconcileActive(c) == pc[c] = "reconciling" /\ ReadActive(c, "reconcilingArchived")

ReadArchived(c, again) ==
  /\ held' = [held EXCEPT ![c].seenArchived = archived]
  /\ Replay(c, held[c].seenActive \cup archived, held[c].count, again)
  /\ UNCHANGED <<now, reservation, active, archived, session>>

ReplayArchived(c) == pc[c] = "readingArchived" /\ ReadArchived(c, TRUE)

ReconcileArchived(c) == pc[c] = "reconcilingArchived" /\ ReadArchived(c, FALSE)

(***************************************************************************)
(* tryAcquireClientRequestLease: insert the reservation, which the unique  *)
(* index refuses if there is one, or take over one whose lease had expired *)
(* when the clock was read.                                                *)
(***************************************************************************)
Leased(c, count) ==
  [state |-> "pending", owner |-> c, lease |-> held[c].at + LeaseTime, count |-> count]

tryCreateClientRequestReservation(c) ==
  /\ pc[c] = "reserving"
  /\ \/ /\ reservation = None
        /\ reservation' = Leased(c, None)
        /\ Goto(c, "preparing")
        /\ UNCHANGED held
     \/ /\ reservation # None
        /\ Goto(c, "takingOver")
        /\ held' = [held EXCEPT ![c].at = now]
        /\ UNCHANGED reservation
  /\ UNCHANGED <<now, active, archived, session>>

Stale(c) == reservation.state = "pending" /\ reservation.lease <= held[c].at

tryTakeOverStaleClientRequestReservation(c) ==
  /\ pc[c] = "takingOver"
  /\ \/ /\ Stale(c)
        /\ reservation' = Leased(c, reservation.count)
        /\ Goto(c, "preparing")
     \/ ~Stale(c) /\ Goto(c, "finding") /\ UNCHANGED reservation
  /\ UNCHANGED <<now, active, archived, session, held>>

(***************************************************************************)
(* createPreparedMessageBatch.  The template decides how many items there  *)
(* are, perhaps none, or fails.                                            *)
(***************************************************************************)
PrepareMessage(c) ==
  /\ pc[c] = "preparing"
  /\ \/ \E n \in 0 .. MaxItems :
          /\ held' = [held EXCEPT ![c].items = n]
          /\ Goto(c, IF n = 0 THEN "committing" ELSE "building")
     \/ /\ held' = [held EXCEPT ![c].error = "other"]
        /\ Goto(c, "failing")
  /\ UNCHANGED <<now, reservation, active, archived, session>>

\* Giving up: the sessions to be expired, and the error to be thrown.
GiveUp(c, todo, error) ==
  /\ held' = [held EXCEPT ![c] = [@ EXCEPT !.todo = todo, !.error = error]]
  /\ Goto(c, IF todo = {} THEN "failing" ELSE "compensating")

(***************************************************************************)
(* buildMessageDocument: a payment session, then the content.  When the    *)
(* provider fails the sessions of earlier items are expired, when the      *)
(* content cannot be rendered this item's as well.                         *)
(***************************************************************************)
\* Faulty: one more item than was built.
BuiltAndOne(c) == 0 .. held[c].built

Built(c) == 0 .. held[c].built - 1

\* Faulty: an item that fails only takes back its own session.
BuildItemAlone(c) ==
  /\ pc[c] = "building"
  /\ LET i == held[c].built IN
     \/ /\ session' = [session EXCEPT ![c][i] = "open"]
        /\ held' = [held EXCEPT ![c].built = i + 1]
        /\ Goto(c, IF i + 1 = held[c].items THEN "committing" ELSE "building")
     \/ GiveUp(c, {}, "other") /\ UNCHANGED session
     \/ /\ session' = [session EXCEPT ![c][i] = "open"]
        /\ GiveUp(c, {i}, "other")
  /\ UNCHANGED <<now, reservation, active, archived>>

BuildItem(c) ==
  /\ pc[c] = "building"
  /\ LET i == held[c].built IN
     \/ /\ session' = [session EXCEPT ![c][i] = "open"]
        /\ held' = [held EXCEPT ![c].built = i + 1]
        /\ Goto(c, IF i + 1 = held[c].items THEN "committing" ELSE "building")
     \/ GiveUp(c, Built(c), "other") /\ UNCHANGED session
     \/ /\ session' = [session EXCEPT ![c][i] = "open"]
        /\ GiveUp(c, Built(c) \cup {i}, "other")
  /\ UNCHANGED <<now, reservation, active, archived>>

Docs(c) == {[by |-> c, index |-> i] : i \in Built(c)}

\* The filter of every update that ends the reservation.
Owns(c) == reservation.state = "pending" /\ reservation.owner = c

\* The unique index over the request and the item.
NoDuplicate(c) == \A d \in active : d.index \notin Built(c)

(***************************************************************************)
(* persistPreparedBatchTransaction: the messages are created and the       *)
(* reservation completed together.  Losing the reservation aborts it with  *)
(* ClientRequestPendingError, anything else with an error of its own; a    *)
(* commit may also be reported as an error although it happened.  Every    *)
(* error is answered by expiring the sessions.                             *)
(***************************************************************************)
CommitEffect(c) ==
  /\ active' = active \cup Docs(c)
  /\ reservation' = [reservation EXCEPT !.state = "completed", !.lease = None,
                                        !.count = held[c].built]

\* Faulty: the reservation is completed whoever holds it.
CommitByAnyone(c) ==
  /\ pc[c] = "committing"
  /\ NoDuplicate(c)
  /\ CommitEffect(c)
  /\ \/ Goto(c, "created") /\ UNCHANGED held
     \/ GiveUp(c, Built(c), "unknown")
  /\ UNCHANGED <<now, archived, session>>

Commit(c) ==
  /\ pc[c] = "committing"
  /\ Owns(c) /\ NoDuplicate(c)
  /\ CommitEffect(c)
  /\ \/ Goto(c, "created") /\ UNCHANGED held
     \/ GiveUp(c, Built(c), "unknown")
  /\ UNCHANGED <<now, archived, session>>

Abort(c) ==
  /\ pc[c] = "committing"
  /\ \/ ~Owns(c) /\ GiveUp(c, Built(c), "pending")
     \/ GiveUp(c, Built(c), "other")
  /\ UNCHANGED <<now, reservation, active, archived, session>>

(***************************************************************************)
(* compensatePaymentSessions: every session is attempted, that of the item *)
(* that failed first.  A failure replaces the error that led here.         *)
(***************************************************************************)
Compensate(c) ==
  /\ pc[c] = "compensating"
  /\ LET i == IF held[c].built \in held[c].todo THEN held[c].built ELSE Min(held[c].todo)
         left == held[c].todo \ {i}
     IN \/ /\ session' = [session EXCEPT ![c][i] = "expired"]
           /\ GiveUp(c, left, held[c].error)
        \/ UNCHANGED session /\ GiveUp(c, left, "compensation")
  /\ UNCHANGED <<now, reservation, active, archived>>

(***************************************************************************)
(* The catch of createMessageWithReservation: whatever error is not the    *)
(* ClientRequestPendingError fails the reservation, if it is still held.   *)
(* That update may fail too.                                               *)
(***************************************************************************)
Answer(c) == IF held[c].error = "pending" THEN "pending" ELSE "error"

failClientRequestReservation(c) ==
  /\ pc[c] = "failing"
  /\ \/ /\ held[c].error # "pending" /\ Owns(c)
        /\ reservation' = [reservation EXCEPT !.state = "failed", !.lease = None]
     \/ UNCHANGED reservation
  /\ Goto(c, Answer(c))
  /\ UNCHANGED <<now, active, archived, session, held>>

\* The process of a call dies.
Crash(c) ==
  /\ pc[c] \notin Final
  /\ Goto(c, "crashed")
  /\ UNCHANGED <<now, reservation, active, archived, session, held>>

\* A message is archived, in one transaction (MessageActions).
Archive ==
  \E d \in active :
    /\ active' = active \ {d}
    /\ archived' = archived \cup {d}
    /\ UNCHANGED <<now, reservation, session, pc, held>>

createMessage(c) ==
  \/ FindReservation(c) \/ ProbeActive(c) \/ ProbeArchived(c) \/ Reread(c)
  \/ ReplayActive(c) \/ ReplayArchived(c) \/ ReconcileActive(c) \/ ReconcileArchived(c)
  \/ tryCreateClientRequestReservation(c) \/ tryTakeOverStaleClientRequestReservation(c) \/ Wake(c)
  \/ PrepareMessage(c) \/ BuildItem(c) \/ Commit(c) \/ Abort(c)
  \/ Compensate(c) \/ failClientRequestReservation(c)

AllAnswered == (\A c \in Calls : pc[c] \in Final) /\ UNCHANGED vars

Next ==
  \/ Tick
  \/ \E c \in Calls : createMessage(c)
  \/ \E c \in Calls : Crash(c)
  \/ Archive
  \/ AllAnswered

(***************************************************************************)
(* Time passes, and every operation a call awaits settles.                 *)
(***************************************************************************)
Fairness == WF_vars(Tick) /\ \A c \in Calls : WF_vars(createMessage(c))

Spec == Init /\ [][Next]_vars /\ Fairness

----------------------------------------------------------------------------
(***************************************************************************)
(* The documents and what the calls remember are well-formed.              *)
(***************************************************************************)
TypeOK ==
  /\ now \in 0 .. MaxTime
  /\ reservation \in Reservation \cup {None}
  /\ active \subseteq Doc /\ archived \subseteq Doc
  /\ session \in [Calls -> [Indexes -> {"none", "open", "expired"}]]
  /\ pc \in [Calls -> Labels]
  /\ \A c \in Calls :
       /\ held[c].seenActive \subseteq Doc /\ held[c].seenArchived \subseteq Doc
       /\ held[c].deadline \in 0 .. MaxTime /\ held[c].at \in 0 .. MaxTime
       /\ held[c].count \in 0 .. MaxItems
       /\ held[c].built <= held[c].items /\ held[c].items <= MaxItems
       /\ held[c].todo \subseteq Indexes

(***************************************************************************)
(* However many calls there are and however their leases expire, there is  *)
(* at most one batch, complete and of one call, and none unless the        *)
(* reservation says so: an owner that was overtaken commits nothing, and a *)
(* failed request leaves nothing.                                          *)
(***************************************************************************)
OneBatch ==
  LET docs == active \cup archived IN
  /\ active \cap archived = {}
  /\ docs # {} => reservation # None /\ reservation.state = "completed"
  /\ reservation # None /\ reservation.state = "completed" =>
       /\ Merges(docs, reservation.count)
       /\ \A d, e \in docs : d.by = e.by

(***************************************************************************)
(* Calls that succeed agree: a replay is the whole batch, although its     *)
(* messages move to the archive between the reads and although the batch   *)
(* may have been committed between them.  No call takes such a race for    *)
(* corruption ("that race cannot false-corrupt").                          *)
(***************************************************************************)
AnswersAgree ==
  \A c \in Calls :
    /\ pc[c] # "inconsistent"
    /\ pc[c] = "replayed" => held[c].seenActive \cup held[c].seenArchived = active \cup archived
    /\ pc[c] = "created" => Docs(c) = active \cup archived

(***************************************************************************)
(* Once a call is answered, its sessions are settled: open if they belong  *)
(* to the batch, expired otherwise.  The exceptions are the ones the code  *)
(* names: an expiry that failed is reported, and a commit whose outcome    *)
(* the driver did not know is "reconciled with the provider out of band".  *)
(***************************************************************************)
SessionsSettled ==
  \A c \in Calls :
    pc[c] \in Final \ {"crashed"} /\ held[c].error \notin {"compensation", "unknown"} =>
      \A i \in Indexes :
        session[c][i] = "open" <=> [by |-> c, index |-> i] \in active \cup archived

(***************************************************************************)
(* Every call is answered or its process dies: nobody waits for ever for   *)
(* an owner that died, or for the next poll.                               *)
(***************************************************************************)
EveryCallIsAnswered == \A c \in Calls : <>(pc[c] \in Final)
=============================================================================
