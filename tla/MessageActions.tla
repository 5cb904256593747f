--------------------------- MODULE MessageActions ---------------------------
(***************************************************************************)
(* Actions on one message of the message service                           *)
(* (packages/message-service/src/message-service.ts and schemas/message.ts *)
(* in the same package).                                                   *)
(*                                                                         *)
(* handleAction claims the message in MongoDB under a lease, runs the      *)
(* action's handler, which may have effects outside the database, moves    *)
(* the message to the archive in a transaction and tells the sender.  A    *)
(* lease that has expired can be taken over by a call for the same action  *)
(* while the handler of the previous owner still runs.  An attempt ID      *)
(* lives as long as the attempt, an owner token as long as one claim of    *)
(* it.  Both are minted by a call, and stand here for that call.           *)
(*                                                                         *)
(* Every database operation is an action; what a call does between two of  *)
(* them it does in the action of the first.                                *)
(***************************************************************************)
EXTENDS Naturals

CONSTANTS Calls,       \* calls of handleAction
          Archivers,   \* calls of message.archive
          Actions,     \* action codes of the message's template
          Notifying,   \* the actions with a senderNotification
          None,        \* null, or no document
          LeaseTime,   \* actionLeaseMs
          MaxTime      \* bound on the clock

ASSUME ActionsAssumption ==
  /\ Notifying \subseteq Actions
  /\ LeaseTime \in Nat \ {0}
  /\ MaxTime \in Nat
  /\ None \notin Calls \cup Actions \cup Nat
  /\ Calls \cap Archivers = {}

VARIABLES now,
          message,     \* the document in the active collection, or None
          archive,     \* the document in the archive, or None
          pc,          \* call -> where it stands
          held,        \* call -> what it remembers
          ran,         \* the calls whose handler has been started
          told         \* notifications the sender has been sent

vars == <<now, message, archive, pc, held, ran, told>>

Callers == Calls \cup Archivers

\* A call's action, the time it read on entering claimAction, its attempt.
Held == [action : Actions \cup {None}, at : Nat, attempt : Calls \cup {None}, fresh : BOOLEAN]

Document ==
  [state : {"active", "processing", "retryable"}, action : Actions \cup {None},
   attempt : Calls \cup {None}, owner : Calls \cup {None}, lease : Nat \cup {None}]

Archived ==
  [action : Actions, attempt : Calls \cup {None}, owner : Calls \cup {None},
   notification : {"none", "pending", "sent", "failed"}]

\* null is not a document.
ASSUME DocumentAssumption == None \notin Document \cup Archived

\* Answers: success, errors of handleAction, and a process that died.
Final == {"done", "refused", "conflict", "retryable", "failed", "gone", "notifying", "crashed"}

Labels ==
  Final \cup {"idle", "claiming", "retrying", "looking", "claimed", "handling", "owning",
              "aborted", "archived", "told", "untold"}

Goto(c, label) == pc' = [pc EXCEPT ![c] = label]

Unclaimed ==
  [state |-> "active", action |-> None, attempt |-> None, owner |-> None, lease |-> None]

Init ==
  /\ now = 0
  /\ message = Unclaimed
  /\ archive = None
  /\ pc = [c \in Callers |-> "idle"]
  /\ held = [c \in Calls |-> [action |-> None, at |-> 0, attempt |-> None, fresh |-> FALSE]]
  /\ ran = {}
  /\ told = 0

Tick ==
  /\ now < MaxTime
  /\ now' = now + 1
  /\ UNCHANGED <<message, archive, pc, held, ran, told>>

(***************************************************************************)
(* throwArchivedOutcome: what a call is told of a message in the archive.  *)
(* Someone who is neither sender nor receiver is refused.                  *)
(***************************************************************************)
throwArchivedOutcome(c) ==
  \/ Goto(c, "refused")
  \/ Goto(c, IF archive.notification \in {"pending", "failed"} THEN "notifying" ELSE "gone")

(***************************************************************************)
(* A call is given a copy of the message, read at some time from either    *)
(* collection.  A copy from the archive settles it; a copy that was active *)
(* is checked for the action and for permission, and claimAction reads the *)
(* clock.                                                                  *)
(***************************************************************************)
BeginWithArchived(c) ==
  /\ pc[c] = "idle"
  /\ archive # None
  /\ throwArchivedOutcome(c)
  /\ UNCHANGED <<now, message, archive, held, ran, told>>

BeginWithActive(c) ==
  /\ pc[c] = "idle"
  /\ \/ Goto(c, "refused") /\ UNCHANGED held
     \/ \E action \in Actions :
          /\ Goto(c, "claiming")
          /\ held' = [held EXCEPT ![c] = [@ EXCEPT !.action = action, !.at = now]]
  /\ UNCHANGED <<now, message, archive, ran, told>>

\* Faulty: the lease is left as the last claim set it.
ClaimedAsBefore(c, attempt) == [message EXCEPT !.state = "claimed", !.owner = c]

\* claimBase, on top of the state and tokens of the kind of claim.
Claimed(c, attempt) ==
  [state |-> "processing", action |-> held[c].action, attempt |-> attempt, owner |-> c,
   lease |-> held[c].at + LeaseTime]

(***************************************************************************)
(* claimAction: take an unclaimed message; failing that, one left          *)
(* retryable by the same action or one whose lease had expired when this   *)
(* call read the clock; failing that, look in the archive.                 *)
(***************************************************************************)
IsUnclaimed == message # None /\ message.state = "active"

FirstClaim(c) ==
  /\ pc[c] = "claiming"
  /\ \/ /\ IsUnclaimed
        /\ message' = Claimed(c, c)
        /\ held' = [held EXCEPT ![c] = [@ EXCEPT !.attempt = c, !.fresh = TRUE]]
        /\ Goto(c, "claimed")
     \/ /\ ~IsUnclaimed
        /\ Goto(c, "retrying")
        /\ UNCHANGED <<message, held>>
  /\ UNCHANGED <<now, archive, ran, told>>

Claimable(c) ==
  /\ message # None
  /\ message.action = held[c].action
  /\ message.attempt # None
  /\ \/ message.state = "retryable"
     \/ message.state = "processing" /\ message.lease <= held[c].at

RetryClaim(c) ==
  /\ pc[c] = "retrying"
  /\ \/ /\ Claimable(c)
        /\ message' = Claimed(c, message.attempt)
        /\ held' = [held EXCEPT ![c] = [@ EXCEPT !.attempt = message.attempt, !.fresh = FALSE]]
        /\ Goto(c, "claimed")
     \/ /\ ~Claimable(c)
        /\ Goto(c, "looking")
        /\ UNCHANGED <<message, held>>
  /\ UNCHANGED <<now, archive, ran, told>>

LookInArchive(c) ==
  /\ pc[c] = "looking"
  /\ IF archive # None THEN throwArchivedOutcome(c) ELSE Goto(c, "conflict")
  /\ UNCHANGED <<now, message, archive, held, ran, told>>

\* Faulty: the attempt alone is the filter.
OwnsAttempt(c) ==
  /\ message # None
  /\ message.state = "processing"
  /\ message.attempt = held[c].attempt

\* The filter of every update that ends a claim.
Owns(c) ==
  /\ message # None
  /\ message.state = "processing"
  /\ message.attempt = held[c].attempt
  /\ message.owner = c

markActionRetryable(c) ==
  message' = IF Owns(c)
             THEN [message EXCEPT !.state = "retryable", !.lease = None]
             ELSE message

(***************************************************************************)
(* The claimed document decides whether the handler runs.  If it does not  *)
(* (changed parties, a changed template, invalid input), a fresh claim is  *)
(* given up and a retry stays retryable: an earlier owner may have run the *)
(* handler.                                                                *)
(***************************************************************************)
RunHandler(c) ==
  /\ pc[c] = "claimed"
  /\ ran' = ran \cup {c}
  /\ Goto(c, "handling")
  /\ UNCHANGED <<now, message, archive, held, told>>

\* Faulty: whatever was claimed is given up.
ReleaseAnyClaim(c) ==
  /\ pc[c] = "claimed"
  /\ message' = IF Owns(c) THEN Unclaimed ELSE message
  /\ Goto(c, "refused")
  /\ UNCHANGED <<now, archive, held, ran, told>>

releaseDeniedActionClaim(c) ==
  /\ pc[c] = "claimed"
  /\ IF held[c].fresh
     THEN message' = IF Owns(c) THEN Unclaimed ELSE message
     ELSE markActionRetryable(c)
  /\ Goto(c, "refused")
  /\ UNCHANGED <<now, archive, held, ran, told>>

HandlerFails(c) ==
  /\ pc[c] = "handling"
  /\ markActionRetryable(c)
  /\ Goto(c, IF Owns(c) THEN "retryable" ELSE "conflict")
  /\ UNCHANGED <<now, archive, held, ran, told>>

(***************************************************************************)
(* archiveClaimedMessage, after the handler: check the claim, then create  *)
(* the archived document and delete the active one in one transaction.  A  *)
(* transaction may abort, and may commit although the driver reports an    *)
(* error; either way the call then marks the message retryable.            *)
(***************************************************************************)
CheckOwnership(c) ==
  /\ pc[c] = "handling"
  /\ Goto(c, IF Owns(c) THEN "owning" ELSE "conflict")
  /\ UNCHANGED <<now, message, archive, held, ran, told>>

ArchiveOf(c) ==
  [action |-> held[c].action, attempt |-> held[c].attempt, owner |-> c,
   notification |-> IF held[c].action \in Notifying THEN "pending" ELSE "none"]

\* Faulty: the archive is written by an upsert, and the deletion not counted.
ArchiveCommitUnfenced(c) ==
  /\ pc[c] = "owning"
  /\ message' = None
  /\ archive' = ArchiveOf(c)
  /\ \/ Goto(c, IF held[c].action \in Notifying THEN "archived" ELSE "done")
     \/ Goto(c, "aborted")
  /\ UNCHANGED <<now, held, ran, told>>

ArchiveCommit(c) ==
  /\ pc[c] = "owning"
  /\ Owns(c) /\ archive = None
  /\ message' = None
  /\ archive' = ArchiveOf(c)
  /\ \/ Goto(c, IF held[c].action \in Notifying THEN "archived" ELSE "done")
     \/ Goto(c, "aborted")
  /\ UNCHANGED <<now, held, ran, told>>

ArchiveAbort(c) ==
  /\ pc[c] = "owning"
  /\ Goto(c, "aborted")
  /\ UNCHANGED <<now, message, archive, held, ran, told>>

MarkAborted(c) ==
  /\ pc[c] = "aborted"
  /\ markActionRetryable(c)
  /\ Goto(c, IF Owns(c) THEN "failed" ELSE "conflict")
  /\ UNCHANGED <<now, archive, held, ran, told>>

(***************************************************************************)
(* runSenderNotification and markActionNotificationState, after the        *)
(* commit, for a message with a sender.  A notification may be stored      *)
(* although the driver reports an error.  Marking may fail as well, and is *)
(* then answered by marking the failure.                                   *)
(***************************************************************************)
NotifySender(c) ==
  /\ pc[c] = "archived"
  /\ \/ Goto(c, "told") /\ told' = told + 1
     \/ Goto(c, "untold") /\ told' \in {told, told + 1}
  /\ UNCHANGED <<now, message, archive, held, ran>>

MarkedBy(c) == archive.attempt = held[c].attempt /\ archive.owner = c

\* Faulty: the sender is told again when marking fails.
MarkSentOrRepeat(c) ==
  /\ pc[c] = "told"
  /\ \/ /\ MarkedBy(c)
        /\ archive' = [archive EXCEPT !.notification = "sent"]
        /\ Goto(c, "done")
     \/ Goto(c, "archived") /\ UNCHANGED archive
  /\ UNCHANGED <<now, message, held, ran, told>>

MarkSent(c) ==
  /\ pc[c] = "told"
  /\ \/ /\ MarkedBy(c)
        /\ archive' = [archive EXCEPT !.notification = "sent"]
        /\ Goto(c, "done")
     \/ Goto(c, "untold") /\ UNCHANGED archive
  /\ UNCHANGED <<now, message, held, ran, told>>

MarkFailed(c) ==
  /\ pc[c] = "untold"
  /\ \/ /\ MarkedBy(c)
        /\ archive' = [archive EXCEPT !.notification = "failed"]
        /\ Goto(c, "notifying")
     \/ ~MarkedBy(c) /\ Goto(c, "conflict") /\ UNCHANGED archive
  /\ UNCHANGED <<now, message, held, ran, told>>

(***************************************************************************)
(* The host's own message.archive: one transaction that reads the document *)
(* and refuses one whose lease is running.  The attempt and the token it   *)
(* finds go to the archive with it.                                        *)
(***************************************************************************)
\* Faulty: a claim does not keep the host from archiving.
ArchivableAnyTime == message # None

Archivable ==
  message # None /\ (message.state = "processing" => message.lease <= now)

DirectArchive(a) ==
  /\ pc[a] = "idle"
  /\ \/ /\ Archivable /\ archive = None
        /\ message' = None
        /\ \E action \in Actions :
             archive' = [action |-> action, attempt |-> message.attempt,
                         owner |-> message.owner, notification |-> "none"]
        /\ Goto(a, "done")
     \/ /\ message # None
        /\ Goto(a, IF Archivable THEN "failed" ELSE "conflict")
        /\ UNCHANGED <<message, archive>>
     \/ /\ message = None
        /\ Goto(a, "gone")
        /\ UNCHANGED <<message, archive>>
  /\ UNCHANGED <<now, held, ran, told>>

\* The process of a call dies.
Crash(c) ==
  /\ pc[c] \notin Final \cup {"idle"}
  /\ Goto(c, "crashed")
  /\ UNCHANGED <<now, message, archive, held, ran, told>>

handleAction(c) ==
  \/ BeginWithArchived(c) \/ BeginWithActive(c)
  \/ FirstClaim(c) \/ RetryClaim(c) \/ LookInArchive(c)
  \/ RunHandler(c) \/ releaseDeniedActionClaim(c) \/ HandlerFails(c)
  \/ CheckOwnership(c) \/ ArchiveCommit(c) \/ ArchiveAbort(c) \/ MarkAborted(c)
  \/ NotifySender(c) \/ MarkSent(c) \/ MarkFailed(c)

AllAnswered == (\A c \in Callers : pc[c] \in Final) /\ UNCHANGED vars

Next ==
  \/ Tick
  \/ \E c \in Calls : handleAction(c)
  \/ \E c \in Calls : Crash(c)
  \/ \E a \in Archivers : DirectArchive(a)
  \/ AllAnswered

Spec == Init /\ [][Next]_vars

----------------------------------------------------------------------------
(***************************************************************************)
(* The documents and what the calls remember are well-formed.              *)
(***************************************************************************)
TypeOK ==
  /\ now \in Nat
  /\ message \in Document \cup {None}
  /\ archive \in Archived \cup {None}
  /\ pc \in [Callers -> Labels]
  /\ held \in [Calls -> Held]
  /\ ran \subseteq Calls
  /\ told \in Nat

(***************************************************************************)
(* Every handler that is ever run for a message runs for the same action   *)
(* and with the same attempt ID, across failures, crashes, denials and     *)
(* takeovers: it is the key external effects are deduplicated by, "stable" *)
(* in the README.  A denied call must not reopen the choice of action once *)
(* another owner of its attempt may have had effects.                      *)
(***************************************************************************)
EffectsShareOneAttempt ==
  \A c, d \in ran : held[c].attempt = held[d].attempt /\ held[c].action = held[d].action

(***************************************************************************)
(* "Exactly one acquisition commits": a call that got past its transaction *)
(* is the one the archive names, it ran the handler itself, and what is    *)
(* archived is its action and attempt.  The owner it took over from cannot *)
(* archive, mark or notify any more.                                       *)
(***************************************************************************)
Committed(c) == pc[c] \in {"archived", "told", "untold", "notifying", "done"} /\ c \in ran

OneOwnerCommits ==
  \A c \in Calls :
    Committed(c) =>
      /\ message = None /\ archive # None
      /\ archive.owner = c
      /\ archive.attempt = held[c].attempt
      /\ archive.action = held[c].action

(***************************************************************************)
(* The message is in one of the two collections, never in both or neither, *)
(* and a call that was answered with a retryable error can be retried: the *)
(* message is still there under the same attempt, or somebody finished it. *)
(***************************************************************************)
MessageIsInOnePlace ==
  /\ (message = None) # (archive = None)
  /\ \A c \in Calls :
       pc[c] \in {"retryable", "failed"} /\ message # None =>
         message.attempt = held[c].attempt /\ message.action = held[c].action

(***************************************************************************)
(* The sender is told at most once, only of an archived action that has a  *)
(* notification, and the archive says "sent" only if it happened.          *)
(***************************************************************************)
SenderIsToldOnce ==
  /\ told <= 1
  /\ told = 1 => archive # None /\ archive.action \in Notifying
  /\ archive # None /\ archive.notification = "sent" => told = 1

(***************************************************************************)
(* As long as a lease runs only its owner ends the claim: nobody takes it  *)
(* over, and the host cannot archive over it.                              *)
(***************************************************************************)
LeaseIsHonoured ==
  [][\A c \in Calls :
       /\ message # None /\ message.owner = c
       /\ message.state = "processing" /\ now < message.lease
       /\ message' = None \/ message'.owner # c
       => pc'[c] # pc[c]]_vars
=============================================================================
