------------------------ MODULE MessageActionsProofs ------------------------
(***************************************************************************)
(* Proofs that the safety properties of MessageActions hold for any number *)
(* of calls, archivals and actions, any lease and any clock bound.         *)
(***************************************************************************)
EXTENDS MessageActions, TLAPS

\* A call that may still run its handler, or has.
Effective(c) == pc[c] = "claimed" \/ c \in ran

\* Where a call stands says whether its handler was started.
PcOK ==
  \A c \in Calls :
    /\ pc[c] \in {"handling", "owning", "aborted", "archived", "told", "untold",
                  "retryable", "failed"} => c \in ran
    /\ pc[c] \in {"idle", "claiming", "retrying", "looking", "claimed"} => c \notin ran
    /\ pc[c] \in {"claiming", "retrying"} => held[c].action \in Actions
    /\ Effective(c) => held[c].action \in Actions /\ held[c].attempt \in Calls
    /\ held[c].at <= now

\* A claimed document names its action, its attempt and its owner.
ClaimOK ==
  message # None /\ message.state # "active" =>
    /\ message.action \in Actions
    /\ message.attempt \in Calls
    /\ message.owner \in Calls
    /\ message.state = "processing" => message.lease \in Nat

(***************************************************************************)
(* Effective calls share one attempt, and while the message is active it   *)
(* is the attempt the document names.  The owner of a fresh claim that has *)
(* not run its handler is the only effective call, so that giving the      *)
(* claim up forgets no effect.                                             *)
(***************************************************************************)
OneAttempt ==
  /\ \A c, d \in Calls :
       Effective(c) /\ Effective(d) =>
         held[c].attempt = held[d].attempt /\ held[c].action = held[d].action
  /\ \A c \in Calls :
       Effective(c) /\ message # None =>
         /\ message.state # "active"
         /\ message.attempt = held[c].attempt
         /\ message.action = held[c].action

FreshOwnerIsAlone ==
  \A c \in Calls :
    message # None /\ message.state = "processing" /\ message.owner = c
      /\ pc[c] = "claimed" /\ held[c].fresh =>
        \A d \in Calls : Effective(d) => d = c

OnePlace == (message = None) # (archive = None)

\* The notification of the one committed call.
Telling ==
  /\ archive = None => told = 0
  /\ told = 1 => archive.action \in Notifying
  /\ told <= 1
  /\ archive # None /\ archive.notification = "sent" => told = 1
  /\ \A c \in Calls :
       /\ pc[c] = "archived" => told = 0
       /\ pc[c] = "told" => told = 1
       /\ pc[c] \in {"archived", "told", "untold"} => held[c].action \in Notifying

IInv ==
  /\ TypeOK
  /\ PcOK
  /\ ClaimOK
  /\ OneAttempt
  /\ FreshOwnerIsAlone
  /\ OnePlace
  /\ OneOwnerCommits
  /\ Telling
----------------------------------------------------------------------------
\* What Goto leaves of pc.
LEMMA GotoFacts ==
  ASSUME TypeOK, NEW c \in Callers, NEW label \in Labels, Goto(c, label)
  PROVE  /\ pc' \in [Callers -> Labels]
         /\ pc'[c] = label
         /\ \A d \in Callers : d # c => pc'[d] = pc[d]
  BY DEF TypeOK, Goto

\* A message nobody has acted on satisfies the invariant.
LEMMA InitIInv == Init => IInv
  BY ActionsAssumption, DocumentAssumption
  DEF Init, Unclaimed, IInv, TypeOK, Document, Held, Callers, Labels, Final, PcOK, Effective, ClaimOK,
      OneAttempt, FreshOwnerIsAlone, OnePlace, OneOwnerCommits, Committed, Telling

(***************************************************************************)
(* A call that moves on without touching a document.                       *)
(***************************************************************************)
LEMMA BeginWithArchivedStep ==
  ASSUME IInv, NEW c \in Calls, BeginWithArchived(c)
  PROVE  IInv'
<1> USE ActionsAssumption DEF IInv, BeginWithArchived, throwArchivedOutcome, Goto, Callers
<1>1. TypeOK' /\ PcOK' /\ ClaimOK'
  BY DEF TypeOK, Labels, Final, PcOK, Effective, ClaimOK
<1>2. OneAttempt' /\ FreshOwnerIsAlone' /\ OnePlace'
  BY DEF TypeOK, OneAttempt, FreshOwnerIsAlone, Effective, OnePlace
<1>3. OneOwnerCommits' /\ Telling'
  BY DEF TypeOK, PcOK, OneOwnerCommits, Committed, Telling
<1> QED
  BY <1>1, <1>2, <1>3

\* Crash keeps the invariant.
LEMMA CrashStep ==
  ASSUME IInv, NEW c \in Calls, Crash(c)
  PROVE  IInv'
<1> USE DEF IInv, Crash, Goto, Callers
<1>1. TypeOK' /\ PcOK' /\ ClaimOK'
  BY DEF TypeOK, Labels, Final, PcOK, Effective, ClaimOK
<1>2. OneAttempt' /\ FreshOwnerIsAlone' /\ OnePlace'
  BY DEF TypeOK, OneAttempt, FreshOwnerIsAlone, Effective, OnePlace
<1>3. OneOwnerCommits' /\ Telling'
  BY DEF TypeOK, OneOwnerCommits, Committed, Telling
<1> QED
  BY <1>1, <1>2, <1>3

\* BeginWithActive keeps the invariant.
LEMMA BeginWithActiveStep ==
  ASSUME IInv, NEW c \in Calls, BeginWithActive(c)
  PROVE  IInv'
<1> USE ActionsAssumption DEF IInv, Callers
<1>1. c \notin ran /\ pc[c] = "idle" /\ UNCHANGED <<now, message, archive, ran, told>>
  BY DEF BeginWithActive, PcOK
<1>2. CASE Goto(c, "refused") /\ UNCHANGED held
  <2>1. TypeOK' /\ PcOK' /\ ClaimOK'
    BY <1>1, <1>2 DEF Goto, TypeOK, Labels, Final, PcOK, Effective, ClaimOK
  <2>2. OneAttempt' /\ FreshOwnerIsAlone' /\ OnePlace'
    BY <1>1, <1>2 DEF Goto, TypeOK, OneAttempt, FreshOwnerIsAlone, Effective, OnePlace
  <2>3. OneOwnerCommits' /\ Telling'
    BY <1>1, <1>2 DEF Goto, TypeOK, OneOwnerCommits, Committed, Telling
  <2> QED
    BY <2>1, <2>2, <2>3
<1>3. ASSUME NEW action \in Actions, Goto(c, "claiming"),
             held' = [held EXCEPT ![c] = [@ EXCEPT !.action = action, !.at = now]]
      PROVE  IInv'
  <2>1. /\ held' \in [Calls -> Held]
        /\ \A d \in Calls : d # c => held'[d] = held[d]
        /\ held'[c].action = action /\ held'[c].at = now
    BY <1>3 DEF TypeOK, Held
  <2>2. /\ pc' \in [Callers -> Labels] /\ pc'[c] = "claiming"
        /\ \A d \in Callers : d # c => pc'[d] = pc[d]
    BY <1>3, GotoFacts DEF Labels
  <2>3. TypeOK' /\ PcOK' /\ ClaimOK'
    BY <1>1, <2>1, <2>2 DEF TypeOK, PcOK, Effective, ClaimOK
  <2>4. OneAttempt' /\ FreshOwnerIsAlone' /\ OnePlace'
    BY <1>1, <2>1, <2>2 DEF OneAttempt, FreshOwnerIsAlone, Effective, OnePlace
  <2>5. OneOwnerCommits' /\ Telling'
    BY <1>1, <2>1, <2>2 DEF OneOwnerCommits, Committed, Telling
  <2> QED
    BY <2>3, <2>4, <2>5
<1> QED
  BY <1>2, <1>3 DEF BeginWithActive

(***************************************************************************)
(* The two claims.  A first claim finds a document no effective call knows *)
(* of; a takeover joins the attempt the document names.                    *)
(***************************************************************************)
LEMMA FirstClaimStep ==
  ASSUME IInv, NEW c \in Calls, FirstClaim(c)
  PROVE  IInv'
<1> USE ActionsAssumption DEF IInv, Callers
<1>1. c \notin ran /\ pc[c] = "claiming" /\ UNCHANGED <<now, archive, ran, told>>
  BY DEF FirstClaim, PcOK
<1>2. CASE Goto(c, "retrying") /\ UNCHANGED <<message, held>>
  <2>1. TypeOK' /\ PcOK' /\ ClaimOK'
    BY <1>1, <1>2 DEF Goto, TypeOK, Labels, Final, PcOK, Effective, ClaimOK
  <2>2. OneAttempt' /\ FreshOwnerIsAlone' /\ OnePlace'
    BY <1>1, <1>2 DEF Goto, TypeOK, OneAttempt, FreshOwnerIsAlone, Effective, OnePlace
  <2>3. OneOwnerCommits' /\ Telling'
    BY <1>1, <1>2 DEF Goto, TypeOK, OneOwnerCommits, Committed, Telling
  <2> QED
    BY <2>1, <2>2, <2>3
<1>3. ASSUME IsUnclaimed, message' = Claimed(c, c), Goto(c, "claimed"),
             held' = [held EXCEPT ![c] = [@ EXCEPT !.attempt = c, !.fresh = TRUE]]
      PROVE  IInv'
  <2>1. /\ held' \in [Calls -> Held]
        /\ \A d \in Calls : d # c => held'[d] = held[d]
        /\ held'[c].action = held[c].action /\ held'[c].at = held[c].at
        /\ held'[c].attempt = c
    BY <1>3 DEF TypeOK, Held
  <2>2. /\ pc' \in [Callers -> Labels] /\ pc'[c] = "claimed"
        /\ \A d \in Callers : d # c => pc'[d] = pc[d]
    BY <1>3, GotoFacts DEF Labels
  <2>3. /\ message' \in Document /\ message' # None
        /\ message'.state = "processing" /\ message'.owner = c
        /\ message'.attempt = c /\ message'.action = held[c].action
        /\ message'.action \in Actions /\ message'.lease \in Nat
    <3>1. held[c].action \in Actions /\ held[c].at + LeaseTime \in Nat
      BY <1>1 DEF PcOK, TypeOK, Held
    <3> QED
      BY <1>3, <3>1, DocumentAssumption DEF Claimed, Document
  <2>4. message # None /\ message.state = "active" /\ \A d \in Calls : ~Effective(d)
    BY <1>3 DEF IsUnclaimed, OneAttempt
  <2>5. \A d \in Calls : Effective(d)' => d = c
    BY <1>1, <2>2, <2>4 DEF Effective
  <2>6. TypeOK'
    BY <1>1, <2>1, <2>2, <2>3 DEF TypeOK
  <2>7. PcOK' /\ ClaimOK'
    BY <1>1, <2>1, <2>2, <2>3 DEF PcOK, Effective, ClaimOK
  <2>8. OneAttempt' /\ FreshOwnerIsAlone' /\ OnePlace'
    BY <1>1, <2>1, <2>3, <2>4, <2>5 DEF OneAttempt, FreshOwnerIsAlone, OnePlace
  <2>9. OneOwnerCommits' /\ Telling'
    BY <1>1, <2>1, <2>2, <2>4 DEF OneOwnerCommits, Committed, Telling, Effective
  <2> QED
    BY <2>6, <2>7, <2>8, <2>9
<1> QED
  BY <1>2, <1>3 DEF FirstClaim

\* RetryClaim keeps the invariant.
LEMMA RetryClaimStep ==
  ASSUME IInv, NEW c \in Calls, RetryClaim(c)
  PROVE  IInv'
<1> USE ActionsAssumption DEF IInv, Callers
<1>1. c \notin ran /\ pc[c] = "retrying" /\ UNCHANGED <<now, archive, ran, told>>
  BY DEF RetryClaim, PcOK
<1>2. CASE Goto(c, "looking") /\ UNCHANGED <<message, held>>
  <2>1. TypeOK' /\ PcOK' /\ ClaimOK'
    BY <1>1, <1>2 DEF Goto, TypeOK, Labels, Final, PcOK, Effective, ClaimOK
  <2>2. OneAttempt' /\ FreshOwnerIsAlone' /\ OnePlace'
    BY <1>1, <1>2 DEF Goto, TypeOK, OneAttempt, FreshOwnerIsAlone, Effective, OnePlace
  <2>3. OneOwnerCommits' /\ Telling'
    BY <1>1, <1>2 DEF Goto, TypeOK, OneOwnerCommits, Committed, Telling
  <2> QED
    BY <2>1, <2>2, <2>3
<1>3. ASSUME Claimable(c), message' = Claimed(c, message.attempt), Goto(c, "claimed"),
             held' = [held EXCEPT ![c] = [@ EXCEPT !.attempt = message.attempt, !.fresh = FALSE]]
      PROVE  IInv'
  <2>1. /\ message # None /\ message.state # "active"
        /\ message.attempt \in Calls /\ message.action = held[c].action
    BY <1>3 DEF Claimable, ClaimOK
  <2>2. /\ held' \in [Calls -> Held]
        /\ \A d \in Calls : d # c => held'[d] = held[d]
        /\ held'[c].action = held[c].action /\ held'[c].at = held[c].at
        /\ held'[c].attempt = message.attempt /\ held'[c].fresh = FALSE
    BY <1>3, <2>1 DEF TypeOK, Held
  <2>3. /\ pc' \in [Callers -> Labels] /\ pc'[c] = "claimed"
        /\ \A d \in Callers : d # c => pc'[d] = pc[d]
    BY <1>3, GotoFacts DEF Labels
  <2>4. /\ message' \in Document /\ message' # None
        /\ message'.state = "processing" /\ message'.owner = c
        /\ message'.attempt = message.attempt /\ message'.action = message.action
        /\ message'.action \in Actions /\ message'.lease \in Nat
    <3>1. held[c].action \in Actions /\ held[c].at + LeaseTime \in Nat
      BY <1>1 DEF PcOK, TypeOK, Held
    <3> QED
      BY <1>3, <2>1, <3>1, DocumentAssumption DEF Claimed, Document
  <2>5. \A d \in Calls : d # c /\ Effective(d)' =>
          Effective(d) /\ held[d].attempt = message.attempt /\ held[d].action = message.action
    BY <1>1, <2>1, <2>3 DEF Effective, OneAttempt
  <2>6. TypeOK'
    BY <1>1, <2>2, <2>3, <2>4 DEF TypeOK
  <2>7. PcOK' /\ ClaimOK'
    BY <1>1, <2>1, <2>2, <2>3, <2>4 DEF PcOK, Effective, ClaimOK
  <2>8. OneAttempt'
    BY <2>1, <2>2, <2>4, <2>5 DEF OneAttempt
  <2>9. FreshOwnerIsAlone' /\ OnePlace'
    BY <1>1, <2>1, <2>2, <2>4 DEF FreshOwnerIsAlone, OnePlace
  <2>10. OneOwnerCommits' /\ Telling'
    BY <1>1, <2>1, <2>2, <2>3 DEF OneOwnerCommits, Committed, Telling
  <2> QED
    BY <2>6, <2>7, <2>8, <2>9, <2>10
<1> QED
  BY <1>2, <1>3 DEF RetryClaim

(***************************************************************************)
(* A step of a call that leaves the documents and what it remembers alone. *)
(***************************************************************************)
LEMMA LookInArchiveStep ==
  ASSUME IInv, NEW c \in Calls, LookInArchive(c)
  PROVE  IInv'
<1> USE ActionsAssumption DEF IInv, LookInArchive, throwArchivedOutcome, Goto, Callers
<1>1. TypeOK' /\ PcOK' /\ ClaimOK'
  BY DEF TypeOK, Labels, Final, PcOK, Effective, ClaimOK
<1>2. OneAttempt' /\ FreshOwnerIsAlone' /\ OnePlace'
  BY DEF TypeOK, OneAttempt, FreshOwnerIsAlone, Effective, OnePlace
<1>3. OneOwnerCommits' /\ Telling'
  BY DEF TypeOK, PcOK, OneOwnerCommits, Committed, Telling
<1> QED
  BY <1>1, <1>2, <1>3

\* RunHandler keeps the invariant.
LEMMA RunHandlerStep ==
  ASSUME IInv, NEW c \in Calls, RunHandler(c)
  PROVE  IInv'
<1> USE ActionsAssumption DEF IInv, RunHandler, Goto, Callers
<1>1. TypeOK' /\ PcOK' /\ ClaimOK'
  BY DEF TypeOK, Labels, Final, PcOK, Effective, ClaimOK
<1>2. OneAttempt' /\ FreshOwnerIsAlone' /\ OnePlace'
  BY DEF TypeOK, OneAttempt, FreshOwnerIsAlone, Effective, OnePlace
<1>3. OneOwnerCommits' /\ Telling'
  BY DEF TypeOK, PcOK, OneOwnerCommits, Committed, Telling
<1> QED
  BY <1>1, <1>2, <1>3

\* CheckOwnership keeps the invariant.
LEMMA CheckOwnershipStep ==
  ASSUME IInv, NEW c \in Calls, CheckOwnership(c)
  PROVE  IInv'
<1> USE ActionsAssumption DEF IInv, CheckOwnership, Goto, Callers
<1>1. TypeOK' /\ PcOK' /\ ClaimOK'
  BY DEF TypeOK, Labels, Final, PcOK, Effective, ClaimOK
<1>2. OneAttempt' /\ FreshOwnerIsAlone' /\ OnePlace'
  BY DEF TypeOK, OneAttempt, FreshOwnerIsAlone, Effective, OnePlace
<1>3. OneOwnerCommits' /\ Telling'
  BY DEF TypeOK, PcOK, OneOwnerCommits, Committed, Telling
<1> QED
  BY <1>1, <1>2, <1>3

\* ArchiveAbort keeps the invariant.
LEMMA ArchiveAbortStep ==
  ASSUME IInv, NEW c \in Calls, ArchiveAbort(c)
  PROVE  IInv'
<1> USE ActionsAssumption DEF IInv, ArchiveAbort, Goto, Callers
<1>1. TypeOK' /\ PcOK' /\ ClaimOK'
  BY DEF TypeOK, Labels, Final, PcOK, Effective, ClaimOK
<1>2. OneAttempt' /\ FreshOwnerIsAlone' /\ OnePlace'
  BY DEF TypeOK, OneAttempt, FreshOwnerIsAlone, Effective, OnePlace
<1>3. OneOwnerCommits' /\ Telling'
  BY DEF TypeOK, PcOK, OneOwnerCommits, Committed, Telling
<1> QED
  BY <1>1, <1>2, <1>3

(***************************************************************************)
(* Marking retryable keeps the attempt, the action and the owner.          *)
(***************************************************************************)
LEMMA MarkingFacts ==
  ASSUME TypeOK, NEW c \in Calls, markActionRetryable(c)
  PROVE  /\ message' \in Document \cup {None}
         /\ message' = None <=> message = None
         /\ message # None =>
              /\ message'.action = message.action /\ message'.attempt = message.attempt
              /\ message'.owner = message.owner
              /\ message'.state \in {message.state, "retryable"}
              /\ message'.state = "retryable" => message.state # "active"
              /\ message'.state = "processing" => message' = message
<1>1. CASE Owns(c)
  <2>1. message' = [message EXCEPT !.state = "retryable", !.lease = None]
    BY <1>1 DEF markActionRetryable
  <2>2. message # None /\ message \in Document
    BY <1>1 DEF Owns, TypeOK
  <2>3. message' \in Document
    BY <2>1, <2>2 DEF Document
  <2>4. message.state = "processing" /\ message' # None
    BY <1>1, <2>3, DocumentAssumption DEF Owns
  <2> QED
    BY <2>1, <2>2, <2>3, <2>4 DEF Document
<1>2. CASE ~Owns(c)
  BY <1>2 DEF markActionRetryable, TypeOK, Document
<1> QED
  BY <1>1, <1>2

(***************************************************************************)
(* What any step that marks the message retryable and moves on keeps.      *)
(***************************************************************************)
LEMMA MarkingStep ==
  ASSUME IInv, NEW c \in Calls, NEW label \in {"refused", "conflict", "retryable", "failed"},
         markActionRetryable(c), Goto(c, label),
         label \in {"retryable", "failed"} => c \in ran,
         UNCHANGED <<now, archive, held, ran, told>>
  PROVE  IInv'
<1> USE ActionsAssumption DEF IInv, Callers
<1>1. /\ pc' \in [Callers -> Labels] /\ pc'[c] = label
      /\ \A d \in Callers : d # c => pc'[d] = pc[d]
  BY GotoFacts DEF Labels, Final
<1>2. /\ message' \in Document \cup {None}
      /\ message' = None <=> message = None
      /\ message # None =>
           /\ message'.action = message.action /\ message'.attempt = message.attempt
           /\ message'.owner = message.owner
           /\ message'.state \in {message.state, "retryable"}
           /\ message'.state = "retryable" => message.state # "active"
           /\ message'.state = "processing" => message' = message
  BY MarkingFacts
<1>3. \A d \in Calls : Effective(d)' => Effective(d)
  BY <1>1 DEF Effective
<1>4. TypeOK'
  BY <1>1, <1>2 DEF TypeOK
<1>5. PcOK' /\ ClaimOK'
  BY <1>1, <1>2 DEF PcOK, Effective, ClaimOK
<1>6. OneAttempt'
  BY <1>2, <1>3 DEF OneAttempt
<1>7. FreshOwnerIsAlone' /\ OnePlace'
  BY <1>1, <1>2, <1>3 DEF FreshOwnerIsAlone, OnePlace
<1>8. OneOwnerCommits' /\ Telling'
  BY <1>1, <1>2 DEF OneOwnerCommits, Committed, Telling
<1> QED
  BY <1>4, <1>5, <1>6, <1>7, <1>8

\* HandlerFails keeps the invariant.
LEMMA HandlerFailsStep ==
  ASSUME IInv, NEW c \in Calls, HandlerFails(c)
  PROVE  IInv'
<1>1. c \in ran
  BY DEF IInv, PcOK, HandlerFails
<1>2. CASE Owns(c)
  BY <1>1, <1>2, MarkingStep DEF HandlerFails
<1>3. CASE ~Owns(c)
  BY <1>1, <1>3, MarkingStep DEF HandlerFails
<1> QED
  BY <1>2, <1>3

\* MarkAborted keeps the invariant.
LEMMA MarkAbortedStep ==
  ASSUME IInv, NEW c \in Calls, MarkAborted(c)
  PROVE  IInv'
<1>1. c \in ran
  BY DEF IInv, PcOK, MarkAborted
<1>2. CASE Owns(c)
  BY <1>1, <1>2, MarkingStep DEF MarkAborted
<1>3. CASE ~Owns(c)
  BY <1>1, <1>3, MarkingStep DEF MarkAborted
<1> QED
  BY <1>2, <1>3

(***************************************************************************)
(* A denied fresh claim reopens the message: nobody else is effective.     *)
(***************************************************************************)
LEMMA ReleaseStep ==
  ASSUME IInv, NEW c \in Calls, releaseDeniedActionClaim(c)
  PROVE  IInv'
<1> USE ActionsAssumption DEF IInv, Callers
<1>1. /\ c \notin ran /\ pc[c] = "claimed" /\ Goto(c, "refused")
      /\ UNCHANGED <<now, archive, held, ran, told>>
  BY DEF releaseDeniedActionClaim, PcOK
<1>2. CASE ~held[c].fresh
  BY <1>1, <1>2, MarkingStep DEF releaseDeniedActionClaim
<1>3. CASE held[c].fresh /\ ~Owns(c)
  BY <1>1, <1>3, MarkingStep DEF releaseDeniedActionClaim, markActionRetryable
<1>4. CASE held[c].fresh /\ Owns(c)
  <2>1. message' = Unclaimed
    BY <1>4 DEF releaseDeniedActionClaim
  <2>2. message' \in Document /\ message' # None /\ message'.state = "active"
    BY <2>1, DocumentAssumption DEF Unclaimed, Document
  <2>3. /\ pc' \in [Callers -> Labels] /\ pc'[c] = "refused"
        /\ \A d \in Callers : d # c => pc'[d] = pc[d]
    BY <1>1, GotoFacts DEF Labels, Final
  <2>4. message # None /\ \A d \in Calls : ~Effective(d)'
    <3>1. message # None /\ \A d \in Calls : Effective(d) => d = c
      BY <1>1, <1>4 DEF Owns, FreshOwnerIsAlone
    <3> QED
      BY <1>1, <2>3, <3>1 DEF Effective
  <2>5. TypeOK'
    BY <1>1, <2>2, <2>3 DEF TypeOK
  <2>6. PcOK' /\ ClaimOK'
    BY <1>1, <2>2, <2>3 DEF PcOK, Effective, ClaimOK
  <2>7. OneAttempt' /\ FreshOwnerIsAlone' /\ OnePlace'
    BY <1>1, <2>2, <2>4 DEF OneAttempt, FreshOwnerIsAlone, OnePlace
  <2>8. OneOwnerCommits' /\ Telling'
    BY <1>1, <2>3, <2>4 DEF OneOwnerCommits, Committed, Telling
  <2> QED
    BY <2>5, <2>6, <2>7, <2>8
<1> QED
  BY <1>2, <1>3, <1>4

(***************************************************************************)
(* The transaction: the owner's message moves to the archive.              *)
(***************************************************************************)
LEMMA ArchiveCommitStep ==
  ASSUME IInv, NEW c \in Calls, ArchiveCommit(c)
  PROVE  IInv'
<1> USE ActionsAssumption DEF IInv, Callers
<1>1. /\ c \in ran /\ pc[c] = "owning" /\ message # None
      /\ message' = None /\ archive = None
      /\ UNCHANGED <<now, held, ran, told>>
  BY DEF ArchiveCommit, PcOK, Owns
<1>2. /\ held[c].action \in Actions /\ held[c].attempt \in Calls
  BY <1>1 DEF PcOK, Effective
<1>3. /\ archive' \in Archived /\ archive' # None
      /\ archive'.owner = c /\ archive'.attempt = held[c].attempt
      /\ archive'.action = held[c].action /\ archive'.notification \in {"none", "pending"}
  <2>1. archive' = ArchiveOf(c)
    BY DEF ArchiveCommit
  <2>2. archive' \in Archived
    BY <1>2, <2>1 DEF ArchiveOf, Archived
  <2> QED
    BY <2>1, <2>2, DocumentAssumption DEF ArchiveOf
<1>4. /\ pc' \in [Callers -> Labels]
      /\ pc'[c] \in {"archived", "done", "aborted"}
      /\ pc'[c] = "archived" => held[c].action \in Notifying
      /\ \A d \in Callers : d # c => pc'[d] = pc[d]
  <2>1. PICK label \in {"archived", "done", "aborted"} :
          Goto(c, label) /\ (label = "archived" => held[c].action \in Notifying)
    BY DEF ArchiveCommit
  <2> QED
    BY <2>1, GotoFacts DEF Labels, Final
<1>5. \A d \in Calls : Effective(d)' => Effective(d)
  BY <1>1, <1>4 DEF Effective
<1>6. TypeOK'
  BY <1>1, <1>3, <1>4 DEF TypeOK
<1>7. PcOK' /\ ClaimOK'
  BY <1>1, <1>4 DEF PcOK, Effective, ClaimOK
<1>8. OneAttempt' /\ FreshOwnerIsAlone' /\ OnePlace'
  BY <1>1, <1>3, <1>5 DEF OneAttempt, FreshOwnerIsAlone, OnePlace
<1>9. OneOwnerCommits'
  BY <1>1, <1>3, <1>4 DEF OneOwnerCommits, Committed
<1>10. Telling'
  BY <1>1, <1>3, <1>4 DEF Telling
<1> QED
  BY <1>6, <1>7, <1>8, <1>9, <1>10

(***************************************************************************)
(* Telling the sender.  The call is the one that committed, and the only   *)
(* one: every call past the transaction is named by the archive.           *)
(***************************************************************************)
LEMMA NotifySenderStep ==
  ASSUME IInv, NEW c \in Calls, NotifySender(c)
  PROVE  IInv'
<1> USE ActionsAssumption DEF IInv, NotifySender, Goto, Callers
<1>1. TypeOK' /\ PcOK' /\ ClaimOK'
  BY DEF TypeOK, Labels, Final, PcOK, Effective, ClaimOK
<1>2. OneAttempt' /\ FreshOwnerIsAlone' /\ OnePlace'
  BY DEF TypeOK, OneAttempt, FreshOwnerIsAlone, Effective, OnePlace
<1>3. OneOwnerCommits' /\ Telling'
  BY DEF TypeOK, PcOK, OneOwnerCommits, Committed, Telling
<1> QED
  BY <1>1, <1>2, <1>3

\* Recording what became of a notification keeps the invariant: only the call that told the sender
\* records "sent".
LEMMA MarkingNotificationStep ==
  ASSUME IInv, NEW c \in Calls, pc[c] \in {"told", "untold"},
         NEW state \in {"sent", "failed"}, NEW label \in {"done", "notifying", "untold", "conflict"},
         archive' = [archive EXCEPT !.notification = state] \/ UNCHANGED archive,
         Goto(c, label), state = "sent" => pc[c] = "told",
         UNCHANGED <<now, message, held, ran, told>>
  PROVE  IInv'
<1> USE ActionsAssumption DEF IInv, Callers
<1>1. /\ pc' \in [Callers -> Labels] /\ pc'[c] = label
      /\ \A d \in Callers : d # c => pc'[d] = pc[d]
  BY GotoFacts DEF Labels, Final
<1>2. c \in ran /\ archive \in Archived /\ archive # None
  BY DEF PcOK, OneOwnerCommits, Committed, TypeOK
<1>3. /\ archive' \in Archived /\ archive' # None
      /\ archive'.owner = archive.owner /\ archive'.attempt = archive.attempt
      /\ archive'.action = archive.action
      /\ archive'.notification \in {state, archive.notification}
  <2>1. CASE archive' = [archive EXCEPT !.notification = state]
    <3>1. archive' \in Archived
      BY <1>2, <2>1 DEF Archived
    <3> QED
      BY <1>2, <2>1, <3>1, DocumentAssumption DEF Archived
  <2>2. CASE UNCHANGED archive
    BY <1>2, <2>2
  <2> QED
    BY <2>1, <2>2
<1>4. \A d \in Calls : Effective(d)' => Effective(d)
  BY <1>1 DEF Effective
<1>5. TypeOK' /\ PcOK' /\ ClaimOK'
  BY <1>1, <1>2, <1>3 DEF TypeOK, PcOK, Effective, ClaimOK
<1>6. OneAttempt' /\ FreshOwnerIsAlone' /\ OnePlace'
  BY <1>1, <1>2, <1>3, <1>4 DEF OneAttempt, FreshOwnerIsAlone, OnePlace
<1>7. OneOwnerCommits' /\ Telling'
  BY <1>1, <1>2, <1>3 DEF OneOwnerCommits, Committed, Telling
<1> QED
  BY <1>5, <1>6, <1>7

\* MarkSent keeps the invariant.
LEMMA MarkSentStep ==
  ASSUME IInv, NEW c \in Calls, MarkSent(c)
  PROVE  IInv'
<1>1. PICK label \in {"done", "untold"} :
        /\ Goto(c, label)
        /\ archive' = [archive EXCEPT !.notification = "sent"] \/ UNCHANGED archive
  BY DEF MarkSent
<1> QED
  BY <1>1, MarkingNotificationStep DEF MarkSent

\* MarkFailed keeps the invariant.
LEMMA MarkFailedStep ==
  ASSUME IInv, NEW c \in Calls, MarkFailed(c)
  PROVE  IInv'
<1>1. PICK label \in {"notifying", "conflict"} :
        /\ Goto(c, label)
        /\ archive' = [archive EXCEPT !.notification = "failed"] \/ UNCHANGED archive
  BY DEF MarkFailed
<1> QED
  BY <1>1, MarkingNotificationStep DEF MarkFailed

(***************************************************************************)
(* The host's archival, whose caller is no call of handleAction.           *)
(***************************************************************************)
LEMMA DirectArchiveStep ==
  ASSUME IInv, NEW a \in Archivers, DirectArchive(a)
  PROVE  IInv'
<1> USE ActionsAssumption DEF IInv, Callers
<1>1. UNCHANGED <<now, held, ran, told>>
  BY DEF DirectArchive
<1>2. /\ pc' \in [Callers -> Labels]
      /\ \A d \in Calls : pc'[d] = pc[d]
  <2>1. PICK label \in Labels : Goto(a, label)
    BY DEF DirectArchive, Labels, Final
  <2>2. /\ pc' \in [Callers -> Labels]
        /\ \A d \in Callers : d # a => pc'[d] = pc[d]
    BY <2>1, GotoFacts
  <2> QED
    BY <2>2
<1>3. \A d \in Calls : Effective(d)' <=> Effective(d)
  BY <1>1, <1>2 DEF Effective
<1>4. CASE UNCHANGED <<message, archive>>
  <2>1. TypeOK' /\ PcOK' /\ ClaimOK'
    BY <1>1, <1>2, <1>3, <1>4 DEF TypeOK, PcOK, ClaimOK
  <2>2. OneAttempt' /\ FreshOwnerIsAlone' /\ OnePlace'
    BY <1>1, <1>2, <1>3, <1>4 DEF OneAttempt, FreshOwnerIsAlone, OnePlace
  <2>3. OneOwnerCommits' /\ Telling'
    BY <1>1, <1>2, <1>4 DEF OneOwnerCommits, Committed, Telling
  <2> QED
    BY <2>1, <2>2, <2>3
<1>5. ASSUME message # None, archive = None, message' = None, NEW action \in Actions,
             archive' = [action |-> action, attempt |-> message.attempt,
                         owner |-> message.owner, notification |-> "none"]
      PROVE  IInv'
  <2>1. archive' \in Archived /\ archive' # None /\ archive'.notification = "none"
    <3>1. archive' \in Archived
      BY <1>5 DEF TypeOK, Document, Archived
    <3> QED
      BY <1>5, <3>1, DocumentAssumption
  <2>2. TypeOK'
    BY <1>1, <1>2, <1>5, <2>1 DEF TypeOK
  <2>3. PcOK' /\ ClaimOK'
    BY <1>1, <1>2, <1>3, <1>5 DEF PcOK, ClaimOK
  <2>4. OneAttempt' /\ FreshOwnerIsAlone' /\ OnePlace'
    BY <1>1, <1>2, <1>3, <1>5, <2>1 DEF OneAttempt, FreshOwnerIsAlone, OnePlace
  <2>5. OneOwnerCommits' /\ Telling'
    BY <1>1, <1>2, <1>5, <2>1 DEF OneOwnerCommits, Committed, Telling
  <2> QED
    BY <2>2, <2>3, <2>4, <2>5
<1> QED
  BY <1>4, <1>5 DEF DirectArchive, Archivable

\* Tick keeps the invariant.
LEMMA TickStep == IInv /\ Tick => IInv'
<1> SUFFICES ASSUME IInv, Tick PROVE IInv'
  OBVIOUS
<1> USE DEF IInv, Tick
<1>1. TypeOK' /\ PcOK' /\ ClaimOK'
  BY DEF TypeOK, Held, PcOK, Effective, ClaimOK
<1>2. OneAttempt' /\ FreshOwnerIsAlone' /\ OnePlace'
  BY DEF OneAttempt, FreshOwnerIsAlone, Effective, OnePlace
<1>3. OneOwnerCommits' /\ Telling'
  BY DEF OneOwnerCommits, Committed, Telling
<1> QED
  BY <1>1, <1>2, <1>3

\* A step that changes nothing keeps the invariant.
LEMMA StutterIInv == IInv /\ UNCHANGED vars => IInv'
  BY DEF vars, IInv, TypeOK, PcOK, Effective, ClaimOK, OneAttempt, FreshOwnerIsAlone, OnePlace,
         OneOwnerCommits, Committed, Telling

\* The invariant is inductive.
LEMMA StepIInv == IInv /\ [Next]_vars => IInv'
<1> SUFFICES ASSUME IInv, [Next]_vars PROVE IInv'
  OBVIOUS
<1>1. ASSUME NEW c \in Calls, handleAction(c) PROVE IInv'
  BY <1>1, BeginWithArchivedStep, BeginWithActiveStep, FirstClaimStep, RetryClaimStep,
     LookInArchiveStep, RunHandlerStep, ReleaseStep, HandlerFailsStep, CheckOwnershipStep,
     ArchiveCommitStep, ArchiveAbortStep, MarkAbortedStep, NotifySenderStep, MarkSentStep,
     MarkFailedStep
  DEF handleAction
<1> QED
  BY <1>1, CrashStep, DirectArchiveStep, TickStep, StutterIInv DEF Next, AllAnswered

(***************************************************************************)
(* The inductive invariant holds of every reachable state.                 *)
(***************************************************************************)
LEMMA Invariance == Spec => []IInv
  BY InitIInv, StepIInv, PTL DEF Spec

(***************************************************************************)
(* The documents and what calls remember stay well-formed.                 *)
(***************************************************************************)
THEOREM TypeCorrect == Spec => []TypeOK
<1>1. IInv => TypeOK
  BY DEF IInv
<1> QED
  BY <1>1, Invariance, PTL

(***************************************************************************)
(* Every handler ever run for a message runs for one action under one      *)
(* attempt ID, however claims expire, are denied, fail or are taken over   *)
(* (claimAction, releaseDeniedActionClaim, markActionRetryable).           *)
(***************************************************************************)
THEOREM OneAttemptPerMessage == Spec => []EffectsShareOneAttempt
<1>1. IInv => EffectsShareOneAttempt
  BY DEF IInv, TypeOK, OneAttempt, Effective, EffectsShareOneAttempt
<1> QED
  BY <1>1, Invariance, PTL

(***************************************************************************)
(* A call that got past archiveClaimedMessage's transaction is the one the *)
(* archive names, with its attempt and action.                             *)
(***************************************************************************)
THEOREM OneCommit == Spec => []OneOwnerCommits
<1>1. IInv => OneOwnerCommits
  BY DEF IInv
<1> QED
  BY <1>1, Invariance, PTL

(***************************************************************************)
(* The message is in one of the two collections, and what was answered     *)
(* with a retryable error can be retried under its attempt and action.     *)
(***************************************************************************)
THEOREM NothingIsLost == Spec => []MessageIsInOnePlace
<1>1. IInv => MessageIsInOnePlace
  BY DEF IInv, OnePlace, PcOK, OneAttempt, Effective, MessageIsInOnePlace
<1> QED
  BY <1>1, Invariance, PTL

(***************************************************************************)
(* The sender is told at most once, of an archived action that notifies,   *)
(* and the archive says "sent" only if it was (runSenderNotification,      *)
(* markActionNotificationState).                                           *)
(***************************************************************************)
THEOREM ToldOnce == Spec => []SenderIsToldOnce
<1>1. IInv => SenderIsToldOnce
  BY DEF IInv, TypeOK, Telling, SenderIsToldOnce
<1> QED
  BY <1>1, Invariance, PTL

(***************************************************************************)
(* A step of handleAction that ends a running lease is its owner's own:    *)
(* the others' filters miss the document, and a takeover reads a clock     *)
(* that is not ahead of now.                                               *)
(***************************************************************************)
LEMMA OnlyTheOwnerLetsGo ==
  ASSUME IInv, NEW c \in Calls, NEW d \in Calls, handleAction(d),
         message # None, message.owner = c, message.state = "processing", now < message.lease,
         message' = None \/ message'.owner # c
  PROVE  pc'[c] # pc[c]
<1> USE DEF IInv
<1>1. ASSUME Owns(d), NEW label \in Labels, Goto(d, label), pc[d] # label
      PROVE  pc'[c] # pc[c]
  BY <1>1, GotoFacts DEF Owns, Callers
<1>2. CASE FirstClaim(d)
  BY <1>2 DEF FirstClaim, IsUnclaimed
<1>3. CASE RetryClaim(d)
  <2>1. held[d].at <= now /\ held[d].at \in Nat /\ now \in Nat /\ message.lease \in Nat
    BY DEF PcOK, TypeOK, Held, ClaimOK
  <2>2. ~Claimable(d)
    BY <2>1 DEF Claimable
  <2> QED
    BY <1>3, <2>2 DEF RetryClaim
<1>4. CASE releaseDeniedActionClaim(d)
  BY <1>1, <1>4 DEF releaseDeniedActionClaim, markActionRetryable, Labels, Final
<1>5. CASE HandlerFails(d)
  BY <1>1, <1>5 DEF HandlerFails, markActionRetryable, Labels, Final
<1>6. CASE MarkAborted(d)
  BY <1>1, <1>6 DEF MarkAborted, markActionRetryable, Labels, Final
<1>7. CASE ArchiveCommit(d)
  BY <1>1, <1>7 DEF ArchiveCommit, Labels, Final
<1>8. CASE UNCHANGED message
  BY <1>8
<1> QED
  BY <1>2, <1>3, <1>4, <1>5, <1>6, <1>7, <1>8
  DEF handleAction, BeginWithArchived, BeginWithActive, LookInArchive, RunHandler, CheckOwnership,
      ArchiveAbort, NotifySender, MarkSent, MarkFailed

(***************************************************************************)
(* As long as a lease runs only its owner ends the claim: nobody takes it  *)
(* over (claimAction) and the host does not archive over it                *)
(* (message.archive).                                                      *)
(***************************************************************************)
THEOREM LeaseHonoured == Spec => LeaseIsHonoured
<1> DEFINE Honoured ==
      \A c \in Calls :
        /\ message # None /\ message.owner = c
        /\ message.state = "processing" /\ now < message.lease
        /\ message' = None \/ message'.owner # c
        => pc'[c] # pc[c]
<1>1. IInv /\ [Next]_vars => [Honoured]_vars
  <2> SUFFICES ASSUME IInv, Next, NEW c \in Calls,
                      message # None, message.owner = c, message.state = "processing",
                      now < message.lease, message' = None \/ message'.owner # c
               PROVE  pc'[c] # pc[c]
    OBVIOUS
  <2>1. ASSUME NEW d \in Calls, handleAction(d) PROVE pc'[c] # pc[c]
    BY <2>1, OnlyTheOwnerLetsGo
  <2>2. ASSUME NEW a \in Archivers, DirectArchive(a) PROVE FALSE
    <3>1. now \in Nat /\ message.lease \in Nat
      BY DEF IInv, TypeOK, ClaimOK
    <3>2. ~Archivable
      BY <3>1 DEF Archivable
    <3> QED
      BY <2>2, <3>2 DEF DirectArchive
  <2>3. message' # message
    OBVIOUS
  <2> QED
    BY <2>1, <2>2, <2>3 DEF Next, Tick, Crash, AllAnswered, vars
<1> QED
  BY <1>1, Invariance, PTL DEF Spec, LeaseIsHonoured
=============================================================================
