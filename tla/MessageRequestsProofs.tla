------------------------ MODULE MessageRequestsProofs -----------------------
(***************************************************************************)
(* Proofs that the safety properties of MessageRequests hold for any       *)
(* number of calls and items and any lease, wait, poll and clock bound.    *)
(***************************************************************************)
EXTENDS MessageRequests, FiniteSetTheorems, TLAPS

\* The messages of the batch, wherever they are.
Batch == active \cup archived

Completed == reservation # None /\ reservation.state = "completed"

Shape ==
  /\ now \in 0 .. MaxTime
  /\ reservation \in Reservation \cup {None}
  /\ active \subseteq Doc /\ archived \subseteq Doc
  /\ session \in [Calls -> [Indexes -> {"none", "open", "expired"}]]
  /\ pc \in [Calls -> Labels]
  /\ held \in [Calls -> Held]
  /\ \A c \in Calls :
       /\ held[c].built <= held[c].items
       /\ held[c].deadline <= MaxTime /\ held[c].at <= MaxTime

\* The item count is known once the request is completed.
BatchOK == OneBatch /\ (Completed => reservation.count \in 0 .. MaxItems)

\* Where a call stands before it prepares its items, and when it is on its way out.
Early ==
  {"finding", "probingActive", "probingArchived", "rereading", "readingActive",
   "readingArchived", "reconciling", "reconcilingArchived", "reserving", "takingOver",
   "sleeping", "preparing"}

Leaving == ({"compensating", "failing"} \cup Final) \ {"created", "crashed"}

\* A message of this call has been committed.
HasDocs(c) == \E d \in Batch : d.by = c

OpenWhatIsBuilt(c) ==
  \A i \in Indexes : session[c][i] = IF i < held[c].built THEN "open" ELSE "none"

(***************************************************************************)
(* The payment sessions of a call.  Until it commits, what it has built is *)
(* open; when it gives up, what is open is still to be expired, unless an  *)
(* expiry failed or the commit's outcome is unknown.                       *)
(***************************************************************************)
SessionsOK(c) ==
  /\ pc[c] \in Early \cup {"building", "committing"} =>
       ~HasDocs(c) /\ held[c].error = "none" /\ held[c].todo = {} /\ OpenWhatIsBuilt(c)
  /\ pc[c] \in Early => held[c].built = 0
  /\ pc[c] = "building" => held[c].built < held[c].items
  /\ pc[c] = "created" =>
       Completed /\ Docs(c) = Batch /\ OpenWhatIsBuilt(c)
  /\ pc[c] \in Leaving /\ held[c].error \notin {"compensation", "unknown"} =>
       ~HasDocs(c) /\ \A i \in Indexes : session[c][i] = "open" => i \in held[c].todo
  /\ pc[c] \in Leaving \ {"compensating"} => held[c].todo = {}
  /\ pc[c] \in {"takingOver", "preparing", "building", "committing", "compensating", "failing"} =>
       reservation # None

(***************************************************************************)
(* The replay.  Messages only move from the active collection, which is    *)
(* read first, to the archive, so of a completed batch no message escapes  *)
(* both reads.                                                             *)
(***************************************************************************)
ReadsOK(c) ==
  LET seen == held[c].seenActive \cup held[c].seenArchived IN
  /\ pc[c] \in {"readingActive", "reconciling", "readingArchived", "reconcilingArchived"} =>
       Completed /\ held[c].count = reservation.count
  /\ pc[c] \in {"readingArchived", "reconcilingArchived"} =>
       held[c].seenActive \subseteq Batch /\ Batch \subseteq held[c].seenActive \cup archived
  /\ pc[c] = "probingArchived" => held[c].seenActive \subseteq Batch
  /\ pc[c] = "rereading" => Completed /\ Batch # {} /\ seen \subseteq Batch
  /\ pc[c] = "replayed" => Completed /\ seen = Batch
  /\ pc[c] # "inconsistent"

IInv == Shape /\ BatchOK /\ \A c \in Calls : SessionsOK(c) /\ ReadsOK(c)

(***************************************************************************)
(* What a step that is not its own may do to a call: it leaves what the    *)
(* call remembers alone and adds no message of it, and once the request is *)
(* completed messages only move to the archive.                            *)
(***************************************************************************)
Undisturbed(d) ==
  /\ pc'[d] = pc[d] /\ held'[d] = held[d] /\ session'[d] = session[d]
  /\ reservation # None => reservation' # None
  /\ Completed => reservation' = reservation /\ Batch' = Batch
  /\ Batch \subseteq Batch' /\ archived \subseteq archived'
  /\ \A x \in Batch' \ Batch : x.by # d

----------------------------------------------------------------------------
\* A call whose own state, sessions and sources a step leaves alone keeps its part.
LEMMA UndisturbedKeeps ==
  ASSUME IInv, NEW d \in Calls, Undisturbed(d)
  PROVE  SessionsOK(d)' /\ ReadsOK(d)'
<1>1. SessionsOK(d) /\ ReadsOK(d)
  BY DEF IInv
<1>2. HasDocs(d)' => HasDocs(d)
  BY DEF Undisturbed, HasDocs
<1>3. Completed => Completed' /\ Batch' = Batch
  BY DEF Undisturbed, Completed
<1>4. SessionsOK(d)'
  BY <1>1, <1>2, <1>3 DEF Undisturbed, SessionsOK, OpenWhatIsBuilt, Docs, Built
<1>5. ReadsOK(d)'
  BY <1>1, <1>3 DEF Undisturbed, ReadsOK
<1> QED
  BY <1>4, <1>5

\* What Goto leaves of pc.
LEMMA GotoFacts ==
  ASSUME Shape, NEW c \in Calls, NEW label \in Labels, Goto(c, label)
  PROVE  /\ pc' \in [Calls -> Labels] /\ pc'[c] = label
         /\ \A d \in Calls : d # c => pc'[d] = pc[d]
  BY DEF Shape, Goto

\* Min of two integers is the smaller of them.
LEMMA MinOfTwo ==
  ASSUME NEW a \in Int, NEW b \in Int
  PROVE  /\ Min({a, b}) \in {a, b}
         /\ Min({a, b}) <= a /\ Min({a, b}) <= b
<1>1. \E x \in {a, b} : \A y \in {a, b} : x <= y
  OBVIOUS
<1> QED
  BY <1>1 DEF Min

\* A time computed from the clock stays within the horizon.
LEMMA AfterFacts ==
  ASSUME Shape, NEW time \in Nat
  PROVE  After(time) \in 0 .. MaxTime
<1>1. now + time \in Int /\ MaxTime \in Int /\ now + time \in Nat /\ MaxTime \in Nat
  BY RequestsAssumption DEF Shape
<1>2. Min({now + time, MaxTime}) \in {now + time, MaxTime} /\ Min({now + time, MaxTime}) <= MaxTime
  BY <1>1, MinOfTwo
<1> QED
  BY <1>1, <1>2 DEF After

(***************************************************************************)
(* A step of one call that leaves the documents alone.                     *)
(***************************************************************************)
LEMMA OneCallMoves ==
  ASSUME IInv, NEW c \in Calls, NEW label \in Labels, Goto(c, label),
         UNCHANGED <<now, reservation, active, archived>>,
         session' \in [Calls -> [Indexes -> {"none", "open", "expired"}]],
         held' \in [Calls -> Held],
         \A d \in Calls : d # c => session'[d] = session[d] /\ held'[d] = held[d],
         held'[c].built <= held'[c].items,
         held'[c].deadline <= MaxTime, held'[c].at <= MaxTime,
         SessionsOK(c)', ReadsOK(c)'
  PROVE  IInv'
<1>1. /\ pc' \in [Calls -> Labels]
      /\ \A d \in Calls : d # c => pc'[d] = pc[d]
  BY GotoFacts DEF IInv
<1>2. Shape'
  BY <1>1 DEF IInv, Shape
<1>3. BatchOK'
  BY DEF IInv, BatchOK, OneBatch, Completed
<1>4. \A d \in Calls : d # c => Undisturbed(d)
  BY <1>1 DEF Undisturbed, Batch
<1>5. \A d \in Calls : SessionsOK(d)' /\ ReadsOK(d)'
  BY <1>4, UndisturbedKeeps
<1> QED
  BY <1>2, <1>3, <1>5 DEF IInv

(***************************************************************************)
(* The same before the items are prepared, for a step after which the call *)
(* is still there or is answered.                                          *)
(***************************************************************************)
LEMMA EarlyStep ==
  ASSUME IInv, NEW c \in Calls, pc[c] \in Early,
         NEW label \in Early \cup {"pending", "failed", "replayed"}, Goto(c, label),
         UNCHANGED <<now, reservation, active, archived, session>>,
         held' \in [Calls -> Held], \A d \in Calls : d # c => held'[d] = held[d],
         held'[c].built = held[c].built, held'[c].items = held[c].items,
         held'[c].error = held[c].error, held'[c].todo = held[c].todo,
         held'[c].deadline <= MaxTime, held'[c].at <= MaxTime,
         label \in {"takingOver", "preparing"} => reservation # None,
         ReadsOK(c)'
  PROVE  IInv'
<1>1. label \in Labels
  BY DEF Early, Labels, Final
<1>2. pc'[c] = label
  BY <1>1, GotoFacts DEF IInv
<1>3. SessionsOK(c)'
  <2>1. ~HasDocs(c) /\ held[c].error = "none" /\ held[c].todo = {} /\ held[c].built = 0
    BY DEF IInv, SessionsOK
  <2>2. \A i \in Indexes : session[c][i] = "none"
    BY <2>1, RequestsAssumption DEF IInv, SessionsOK, OpenWhatIsBuilt, Indexes
  <2>3. ~HasDocs(c)' /\ OpenWhatIsBuilt(c)'
    BY <2>1, <2>2, RequestsAssumption DEF HasDocs, Batch, OpenWhatIsBuilt, Indexes
  <2> QED
    BY <1>2, <2>1, <2>2, <2>3 DEF SessionsOK, Early, Leaving, Final
<1> QED
  BY <1>1, <1>3, OneCallMoves DEF IInv, Shape

\* A call that found nothing to replay goes on; the invariant is kept.
LEMMA NoReplayStep ==
  ASSUME IInv, NEW c \in Calls, pc[c] \in Early, NoReplay(c),
         UNCHANGED <<now, reservation, active, archived, session>>
  PROVE  IInv'
<1>1. /\ held \in [Calls -> Held] /\ now \in Nat /\ now <= MaxTime
      /\ held[c].deadline <= MaxTime /\ held[c].at <= MaxTime
      /\ WaitTime \in Nat /\ PollTime \in Nat /\ MaxTime \in Nat
  BY RequestsAssumption DEF IInv, Shape
<1>2. CASE Goto(c, "pending") /\ UNCHANGED held
  <2>1. ReadsOK(c)'
    BY <1>2, GotoFacts DEF IInv, ReadsOK, Labels, Final
  <2> QED
    BY <1>1, <1>2, <2>1, EarlyStep
<1>3. CASE /\ Goto(c, "reserving")
           /\ held' = [held EXCEPT ![c] = [@ EXCEPT !.waits = TRUE, !.at = now,
                                                    !.deadline = After(WaitTime)]]
  <2>1. After(WaitTime) \in Nat /\ After(WaitTime) <= MaxTime
    BY <1>1, AfterFacts DEF IInv
  <2>2. /\ held' \in [Calls -> Held] /\ \A d \in Calls : d # c => held'[d] = held[d]
        /\ held'[c].built = held[c].built /\ held'[c].items = held[c].items
        /\ held'[c].error = held[c].error /\ held'[c].todo = held[c].todo
        /\ held'[c].deadline <= MaxTime /\ held'[c].at <= MaxTime
    BY <1>1, <1>3, <2>1 DEF Held
  <2>3. ReadsOK(c)'
    BY <1>3, GotoFacts DEF IInv, ReadsOK, Labels
  <2> QED
    BY <1>3, <2>2, <2>3, EarlyStep DEF Early
<1>4. CASE /\ Goto(c, "sleeping")
           /\ held' = [held EXCEPT ![c].at = Min({After(PollTime), held[c].deadline})]
  <2>1. After(PollTime) \in Nat /\ held[c].deadline \in Nat
    BY <1>1, AfterFacts DEF IInv, Held
  <2>2. /\ Min({After(PollTime), held[c].deadline}) \in Nat
        /\ Min({After(PollTime), held[c].deadline}) <= MaxTime
    <3> DEFINE a == After(PollTime)
               b == held[c].deadline
    <3> HIDE DEF a, b
    <3>1. a \in Int /\ b \in Int /\ a \in Nat /\ b \in Nat /\ b <= MaxTime
      BY <1>1, <2>1 DEF a, b
    <3>2. Min({a, b}) \in {a, b} /\ Min({a, b}) <= b
      BY <3>1, MinOfTwo
    <3>3. Min({a, b}) \in Nat /\ Min({a, b}) <= MaxTime
      BY <1>1, <3>1, <3>2
    <3> QED
      BY <3>3 DEF a, b
  <2>3. /\ held' \in [Calls -> Held] /\ \A d \in Calls : d # c => held'[d] = held[d]
        /\ held'[c].built = held[c].built /\ held'[c].items = held[c].items
        /\ held'[c].error = held[c].error /\ held'[c].todo = held[c].todo
        /\ held'[c].deadline <= MaxTime /\ held'[c].at <= MaxTime
    BY <1>1, <1>4, <2>2 DEF Held
  <2>4. ReadsOK(c)'
    BY <1>4, GotoFacts DEF IInv, ReadsOK, Labels
  <2> QED
    BY <1>4, <2>3, <2>4, EarlyStep DEF Early
<1> QED
  BY <1>2, <1>3, <1>4 DEF NoReplay

\* Before any call the invariant holds.
LEMMA InitIInv == Init => IInv
<1> SUFFICES ASSUME Init PROVE IInv
  OBVIOUS
<1>1. Shape
  BY RequestsAssumption DEF Init, Shape, Held, Labels
<1>2. BatchOK
  BY DEF Init, BatchOK, OneBatch, Completed
<1>3. \A c \in Calls : SessionsOK(c) /\ ReadsOK(c)
  BY RequestsAssumption
  DEF Init, SessionsOK, ReadsOK, Early, Leaving, Final, HasDocs, Batch, OpenWhatIsBuilt, Indexes
<1> QED
  BY <1>1, <1>2, <1>3 DEF IInv

\* Wake keeps the invariant.
LEMMA WakeStep ==
  ASSUME IInv, NEW c \in Calls, Wake(c)
  PROVE  IInv'
<1>1. /\ held \in [Calls -> Held] /\ now \in Nat /\ now <= MaxTime
      /\ held[c].deadline <= MaxTime
  BY RequestsAssumption DEF IInv, Shape
<1>2. /\ held' \in [Calls -> Held] /\ \A d \in Calls : d # c => held'[d] = held[d]
      /\ held'[c].built = held[c].built /\ held'[c].items = held[c].items
      /\ held'[c].error = held[c].error /\ held'[c].todo = held[c].todo
      /\ held'[c].deadline <= MaxTime /\ held'[c].at <= MaxTime
  BY <1>1 DEF Wake, Held
<1>3. ReadsOK(c)'
  BY GotoFacts DEF Wake, IInv, ReadsOK, Labels
<1> QED
  BY <1>2, <1>3, EarlyStep DEF Wake, Early

(***************************************************************************)
(* Finding and replaying.                                                  *)
(***************************************************************************)
LEMMA FindReservationStep ==
  ASSUME IInv, NEW c \in Calls, FindReservation(c)
  PROVE  IInv'
<1>1. /\ pc[c] = "finding" /\ pc[c] \in Early
      /\ UNCHANGED <<now, reservation, active, archived, session>>
      /\ held \in [Calls -> Held]
      /\ held[c].deadline <= MaxTime /\ held[c].at <= MaxTime
  BY DEF FindReservation, Early, IInv, Shape
<1>2. ASSUME NEW label \in {"probingActive", "failed"}, Goto(c, label), UNCHANGED held
      PROVE  IInv'
  <2>1. ReadsOK(c)'
    BY <1>2, GotoFacts DEF IInv, ReadsOK, Labels, Final
  <2> QED
    BY <1>1, <1>2, <2>1, EarlyStep DEF Early
<1>3. CASE NoReplay(c)
  BY <1>1, <1>3, NoReplayStep
<1>4. CASE /\ Completed /\ Goto(c, "readingActive")
           /\ held' = [held EXCEPT ![c].count = reservation.count]
  <2>1. reservation.count \in 0 .. MaxItems
    BY <1>4 DEF IInv, BatchOK
  <2>2. /\ held' \in [Calls -> Held] /\ \A d \in Calls : d # c => held'[d] = held[d]
        /\ held'[c].built = held[c].built /\ held'[c].items = held[c].items
        /\ held'[c].error = held[c].error /\ held'[c].todo = held[c].todo
        /\ held'[c].deadline <= MaxTime /\ held'[c].at <= MaxTime
        /\ held'[c].count = reservation.count
    BY <1>1, <1>4, <2>1 DEF Held
  <2>3. ReadsOK(c)'
    BY <1>1, <1>4, <2>2, GotoFacts DEF IInv, ReadsOK, Labels, Completed
  <2> QED
    BY <1>1, <1>4, <2>2, <2>3, EarlyStep DEF Early
<1>5. CASE reservation = None
  BY <1>2, <1>5 DEF FindReservation
<1>6. CASE reservation # None
  <2>1. reservation.state \in {"pending", "completed", "failed"}
    BY <1>6 DEF IInv, Shape, Reservation
  <2> QED
    BY <1>2, <1>3, <1>4, <1>6, <2>1 DEF FindReservation, Completed
<1> QED
  BY <1>5, <1>6

\* What the active collection shows, and what it misses is archived.
LEMMA ReadActiveStep ==
  ASSUME IInv, NEW c \in Calls, pc[c] \in Early,
         NEW label \in {"probingArchived", "readingArchived", "reconcilingArchived"},
         label # "probingArchived" => Completed /\ held[c].count = reservation.count,
         ReadActive(c, label)
  PROVE  IInv'
<1>1. /\ UNCHANGED <<now, reservation, active, archived, session>> /\ Goto(c, label)
      /\ held' = [held EXCEPT ![c].seenActive = active]
      /\ held \in [Calls -> Held] /\ active \subseteq Doc
      /\ held[c].deadline <= MaxTime /\ held[c].at <= MaxTime
  BY DEF ReadActive, IInv, Shape
<1>2. /\ held' \in [Calls -> Held] /\ \A d \in Calls : d # c => held'[d] = held[d]
      /\ held'[c].built = held[c].built /\ held'[c].items = held[c].items
      /\ held'[c].error = held[c].error /\ held'[c].todo = held[c].todo
      /\ held'[c].deadline <= MaxTime /\ held'[c].at <= MaxTime
      /\ held'[c].count = held[c].count /\ held'[c].seenActive = active
  BY <1>1 DEF Held
<1>3. ReadsOK(c)'
  BY <1>1, <1>2, GotoFacts DEF IInv, ReadsOK, Labels, Completed, Batch
<1> QED
  BY <1>1, <1>2, <1>3, EarlyStep DEF Early

(***************************************************************************)
(* Part of the batch that adds up is all of it, since a call commits one   *)
(* message for an index.                                                   *)
(***************************************************************************)
LEMMA MergedIsAll ==
  ASSUME IInv, Completed, NEW docs \in SUBSET Batch, Merges(docs, reservation.count)
  PROVE  docs = Batch
<1>1. /\ {d.index : d \in Batch} = 0 .. reservation.count - 1
      /\ \A d, e \in Batch : d.by = e.by
  BY DEF IInv, BatchOK, OneBatch, Completed, Merges, Batch
<1>2. Batch \subseteq Doc
  BY DEF IInv, Shape, Batch
<1>3. ASSUME NEW d \in Batch PROVE d \in docs
  <2>1. PICK e \in docs : e.index = d.index
    BY <1>1 DEF Merges
  <2>2. e.by = d.by /\ e \in Doc /\ d \in Doc
    BY <1>1, <1>2
  <2>3. e = d
    BY <2>1, <2>2 DEF Doc
  <2> QED
    BY <2>3
<1> QED
  BY <1>3

\* Once the reservation is completed, its batch is what a replay puts together.
LEMMA BatchMerges ==
  ASSUME IInv, Completed
  PROVE  Merges(Batch, reservation.count) /\ (Batch # {} => reservation.count > 0)
<1>1. Merges(Batch, reservation.count) /\ reservation.count \in 0 .. MaxItems
  BY DEF IInv, BatchOK, OneBatch, Completed, Batch
<1>2. ASSUME NEW d \in Batch PROVE reservation.count > 0
  <2>1. d.index \in 0 .. reservation.count - 1
    BY <1>1 DEF Merges
  <2> QED
    BY <1>1, <2>1, RequestsAssumption
<1> QED
  BY <1>1, <1>2

\* ProbeArchived keeps the invariant.
LEMMA ProbeArchivedStep ==
  ASSUME IInv, NEW c \in Calls, ProbeArchived(c)
  PROVE  IInv'
<1>1. /\ pc[c] = "probingArchived" /\ pc[c] \in Early
      /\ UNCHANGED <<now, reservation, active, archived, session>>
      /\ held \in [Calls -> Held] /\ archived \subseteq Doc
      /\ held[c].deadline <= MaxTime /\ held[c].at <= MaxTime
      /\ held[c].seenActive \subseteq Batch
  BY DEF ProbeArchived, Early, IInv, Shape, ReadsOK
<1>2. CASE NoReplay(c)
  BY <1>1, <1>2, NoReplayStep
<1>3. CASE /\ held[c].seenActive \cup archived # {} /\ Goto(c, "rereading")
           /\ held' = [held EXCEPT ![c].seenArchived = archived]
  <2>1. /\ held' \in [Calls -> Held] /\ \A d \in Calls : d # c => held'[d] = held[d]
        /\ held'[c].built = held[c].built /\ held'[c].items = held[c].items
        /\ held'[c].error = held[c].error /\ held'[c].todo = held[c].todo
        /\ held'[c].deadline <= MaxTime /\ held'[c].at <= MaxTime
        /\ held'[c].seenActive = held[c].seenActive /\ held'[c].seenArchived = archived
    BY <1>1, <1>3 DEF Held
  <2>2. Batch # {} /\ Completed
    BY <1>1, <1>3 DEF IInv, BatchOK, OneBatch, Completed, Batch
  <2>3. ReadsOK(c)'
    BY <1>1, <1>3, <2>1, <2>2, GotoFacts DEF IInv, ReadsOK, Labels, Completed, Batch
  <2> QED
    BY <1>1, <1>3, <2>1, <2>3, EarlyStep DEF Early
<1> QED
  BY <1>2, <1>3 DEF ProbeArchived

\* Reread keeps the invariant: a full merge of both reads is the batch.
LEMMA RereadStep ==
  ASSUME IInv, NEW c \in Calls, Reread(c)
  PROVE  IInv'
<1> DEFINE seen == held[c].seenActive \cup held[c].seenArchived
<1>1. /\ pc[c] = "rereading" /\ pc[c] \in Early
      /\ UNCHANGED <<now, reservation, active, archived, session>>
      /\ held \in [Calls -> Held]
      /\ held[c].deadline <= MaxTime /\ held[c].at <= MaxTime
      /\ Completed /\ Batch # {} /\ seen \subseteq Batch
  BY DEF Reread, Early, IInv, Shape, ReadsOK
<1>2. reservation.count \in 0 .. MaxItems /\ reservation.count > 0
  BY <1>1, BatchMerges DEF IInv, BatchOK
<1>3. /\ Replay(c, seen, reservation.count, TRUE)
      /\ held' = [held EXCEPT ![c].count = reservation.count]
  BY <1>1 DEF Reread, Completed
<1>4. /\ held' \in [Calls -> Held] /\ \A d \in Calls : d # c => held'[d] = held[d]
      /\ held'[c].built = held[c].built /\ held'[c].items = held[c].items
      /\ held'[c].error = held[c].error /\ held'[c].todo = held[c].todo
      /\ held'[c].deadline <= MaxTime /\ held'[c].at <= MaxTime
      /\ held'[c].seenActive = held[c].seenActive /\ held'[c].seenArchived = held[c].seenArchived
      /\ held'[c].count = reservation.count
  BY <1>1, <1>2, <1>3 DEF Held
<1>5. CASE Merges(seen, reservation.count)
  <2>1. Goto(c, "replayed") /\ seen = Batch
    BY <1>1, <1>3, <1>5, MergedIsAll DEF Replay
  <2>2. ReadsOK(c)'
    BY <1>1, <1>4, <2>1, GotoFacts DEF IInv, ReadsOK, Labels, Final, Completed, Batch
  <2> QED
    BY <1>1, <1>4, <2>1, <2>2, EarlyStep
<1>6. CASE ~Merges(seen, reservation.count)
  <2>1. Goto(c, "reconciling")
    BY <1>2, <1>3, <1>6 DEF Replay
  <2>2. ReadsOK(c)'
    BY <1>1, <1>4, <2>1, GotoFacts DEF IInv, ReadsOK, Labels, Completed
  <2> QED
    BY <1>1, <1>4, <2>1, <2>2, EarlyStep DEF Early
<1> QED
  BY <1>5, <1>6

\* Reading the archived messages, the first time or again, keeps the invariant.
LEMMA ReadArchivedStep ==
  ASSUME IInv, NEW c \in Calls, pc[c] \in {"readingArchived", "reconcilingArchived"},
         NEW again \in BOOLEAN, ReadArchived(c, again)
  PROVE  IInv'
<1>1. /\ pc[c] \in Early /\ UNCHANGED <<now, reservation, active, archived, session>>
      /\ held \in [Calls -> Held] /\ archived \subseteq Doc
      /\ held[c].deadline <= MaxTime /\ held[c].at <= MaxTime
      /\ held' = [held EXCEPT ![c].seenArchived = archived]
      /\ Replay(c, held[c].seenActive \cup archived, held[c].count, again)
  BY DEF ReadArchived, Early, IInv, Shape
<1>2. /\ Completed /\ held[c].count = reservation.count
      /\ held[c].seenActive \cup archived = Batch
  BY DEF IInv, ReadsOK, Batch
<1>3. Goto(c, "replayed")
  BY <1>1, <1>2, BatchMerges DEF Replay
<1>4. /\ held' \in [Calls -> Held] /\ \A d \in Calls : d # c => held'[d] = held[d]
      /\ held'[c].built = held[c].built /\ held'[c].items = held[c].items
      /\ held'[c].error = held[c].error /\ held'[c].todo = held[c].todo
      /\ held'[c].deadline <= MaxTime /\ held'[c].at <= MaxTime
      /\ held'[c].seenActive = held[c].seenActive /\ held'[c].seenArchived = archived
  BY <1>1 DEF Held
<1>5. ReadsOK(c)'
  BY <1>1, <1>2, <1>3, <1>4, GotoFacts DEF IInv, ReadsOK, Labels, Final, Completed, Batch
<1> QED
  BY <1>1, <1>3, <1>4, <1>5, EarlyStep

(***************************************************************************)
(* The reservation changes hands or fails while there is no batch.         *)
(***************************************************************************)
LEMMA ReservationMoves ==
  ASSUME IInv, NEW c \in Calls, NEW label \in Labels, Goto(c, label),
         UNCHANGED <<now, active, archived, session, held>>,
         ~Completed, reservation' \in Reservation, reservation'.state # "completed",
         SessionsOK(c)', ReadsOK(c)'
  PROVE  IInv'
<1>1. /\ pc' \in [Calls -> Labels]
      /\ \A d \in Calls : d # c => pc'[d] = pc[d]
  BY GotoFacts DEF IInv
<1>2. Shape'
  BY <1>1 DEF IInv, Shape
<1>3. BatchOK'
  BY DEF IInv, BatchOK, OneBatch, Completed
<1>4. \A d \in Calls : d # c => Undisturbed(d)
  BY <1>1, ReservationAssumption DEF Undisturbed, Batch
<1>5. \A d \in Calls : SessionsOK(d)' /\ ReadsOK(d)'
  BY <1>4, UndisturbedKeeps
<1> QED
  BY <1>2, <1>3, <1>5 DEF IInv

\* A fresh lease keeps the call where nothing is built yet.
LEMMA LeasedStep ==
  ASSUME IInv, NEW c \in Calls, pc[c] \in Early, ~Completed,
         NEW count \in (0 .. MaxItems) \cup {None}, reservation' = Leased(c, count),
         Goto(c, "preparing"), UNCHANGED <<now, active, archived, session, held>>
  PROVE  IInv'
<1>1. reservation' \in Reservation /\ reservation'.state = "pending"
  <2>1. held[c].at + LeaseTime \in Nat
    BY RequestsAssumption DEF IInv, Shape, Held
  <2> QED
    BY <2>1 DEF Leased, Reservation
<1>2. pc'[c] = "preparing" /\ "preparing" \in Labels
  BY GotoFacts DEF IInv, Labels
<1>3. SessionsOK(c)'
  <2>1. /\ ~HasDocs(c) /\ held[c].error = "none" /\ held[c].todo = {} /\ held[c].built = 0
        /\ OpenWhatIsBuilt(c)
    BY DEF IInv, SessionsOK
  <2>2. ~HasDocs(c)' /\ OpenWhatIsBuilt(c)' /\ reservation' # None
    BY <1>1, <2>1, ReservationAssumption DEF HasDocs, Batch, OpenWhatIsBuilt
  <2> QED
    BY <1>2, <2>1, <2>2 DEF SessionsOK, Leaving, Final
<1>4. ReadsOK(c)'
  BY <1>2 DEF ReadsOK
<1> QED
  BY <1>1, <1>2, <1>3, <1>4, ReservationMoves

\* tryCreateClientRequestReservation keeps the invariant.
LEMMA CreateReservationStep ==
  ASSUME IInv, NEW c \in Calls, tryCreateClientRequestReservation(c)
  PROVE  IInv'
<1>1. /\ pc[c] \in Early /\ UNCHANGED <<now, active, archived, session>>
      /\ held \in [Calls -> Held] /\ now \in Nat /\ now <= MaxTime /\ held[c].deadline <= MaxTime
  BY RequestsAssumption DEF tryCreateClientRequestReservation, Early, IInv, Shape
<1>2. CASE /\ reservation = None /\ reservation' = Leased(c, None)
           /\ Goto(c, "preparing") /\ UNCHANGED held
  BY <1>1, <1>2, LeasedStep DEF Completed
<1>3. CASE /\ reservation # None /\ Goto(c, "takingOver")
           /\ held' = [held EXCEPT ![c].at = now] /\ UNCHANGED reservation
  <2>1. /\ held' \in [Calls -> Held] /\ \A d \in Calls : d # c => held'[d] = held[d]
        /\ held'[c].built = held[c].built /\ held'[c].items = held[c].items
        /\ held'[c].error = held[c].error /\ held'[c].todo = held[c].todo
        /\ held'[c].deadline <= MaxTime /\ held'[c].at <= MaxTime
    BY <1>1, <1>3 DEF Held
  <2>2. ReadsOK(c)'
    BY <1>3, GotoFacts DEF IInv, ReadsOK, Labels
  <2> QED
    BY <1>1, <1>3, <2>1, <2>2, EarlyStep DEF Early
<1> QED
  BY <1>2, <1>3 DEF tryCreateClientRequestReservation

\* tryTakeOverStaleClientRequestReservation keeps the invariant.
LEMMA TakeOverStep ==
  ASSUME IInv, NEW c \in Calls, tryTakeOverStaleClientRequestReservation(c)
  PROVE  IInv'
<1>1. /\ pc[c] \in Early /\ UNCHANGED <<now, active, archived, session, held>>
      /\ held \in [Calls -> Held] /\ held[c].at <= MaxTime /\ held[c].deadline <= MaxTime
      /\ reservation \in Reservation
  BY DEF tryTakeOverStaleClientRequestReservation, Early, IInv, Shape, SessionsOK
<1>2. CASE Stale(c) /\ reservation' = Leased(c, reservation.count) /\ Goto(c, "preparing")
  <2>1. ~Completed /\ reservation.count \in (0 .. MaxItems) \cup {None}
    BY <1>1, <1>2 DEF Stale, Completed, Reservation
  <2> QED
    BY <1>1, <1>2, <2>1, LeasedStep
<1>3. CASE Goto(c, "finding") /\ UNCHANGED reservation
  <2>1. ReadsOK(c)'
    BY <1>3, GotoFacts DEF IInv, ReadsOK, Labels
  <2> QED
    BY <1>1, <1>3, <2>1, EarlyStep DEF Early
<1> QED
  BY <1>2, <1>3 DEF tryTakeOverStaleClientRequestReservation

(***************************************************************************)
(* Building.  The sessions that are open are those of the items built.     *)
(***************************************************************************)
LEMMA BuiltFacts ==
  ASSUME Shape, NEW c \in Calls
  PROVE  /\ held[c].built \in 0 .. MaxItems /\ held[c].items \in 0 .. MaxItems
         /\ held[c].built <= held[c].items
         /\ Built(c) \subseteq Indexes
         /\ \A i \in Indexes : i \in Built(c) <=> i < held[c].built
         /\ held[c].built < held[c].items => held[c].built \in Indexes
         /\ held[c] \in Held
<1>1. held[c] \in Held /\ held[c].built <= held[c].items
  BY DEF Shape
<1>2. held[c].built \in 0 .. MaxItems /\ held[c].items \in 0 .. MaxItems
  BY <1>1 DEF Held
<1> QED
  BY <1>1, <1>2, RequestsAssumption DEF Built, Indexes

\* Where a call that gives up stands, and which sessions it still has to expire.
LEMMA GiveUpFacts ==
  ASSUME Shape, NEW c \in Calls, NEW todo \in SUBSET Indexes,
         NEW error \in {"none", "pending", "unknown", "other", "compensation"},
         GiveUp(c, todo, error)
  PROVE  /\ held' \in [Calls -> Held] /\ \A d \in Calls : d # c => held'[d] = held[d]
         /\ held'[c].todo = todo /\ held'[c].error = error
         /\ held'[c].built = held[c].built /\ held'[c].items = held[c].items
         /\ held'[c].deadline = held[c].deadline /\ held'[c].at = held[c].at
         /\ Goto(c, IF todo = {} THEN "failing" ELSE "compensating")
  BY DEF GiveUp, Shape, Held

\* Giving up before anything is committed.
LEMMA GiveUpStep ==
  ASSUME IInv, NEW c \in Calls, ~HasDocs(c), reservation # None, NEW todo \in SUBSET Indexes,
         NEW error \in {"pending", "other", "unknown", "compensation"}, GiveUp(c, todo, error),
         UNCHANGED <<now, reservation, active, archived>>,
         session' \in [Calls -> [Indexes -> {"none", "open", "expired"}]],
         \A d \in Calls : d # c => session'[d] = session[d],
         \A i \in Indexes : session'[c][i] = "open" => i \in todo
  PROVE  IInv'
<1> DEFINE label == IF todo = {} THEN "failing" ELSE "compensating"
<1>1. /\ held' \in [Calls -> Held] /\ \A d \in Calls : d # c => held'[d] = held[d]
      /\ held'[c].todo = todo /\ held'[c].error = error
      /\ held'[c].built = held[c].built /\ held'[c].items = held[c].items
      /\ held'[c].deadline = held[c].deadline /\ held'[c].at = held[c].at
      /\ Goto(c, label)
  BY GiveUpFacts DEF IInv
<1>2. label \in Labels /\ label \in {"failing", "compensating"} /\ (label = "failing" => todo = {})
  BY DEF Labels
<1> HIDE DEF label
<1>3. pc'[c] = label
  BY <1>1, <1>2, GotoFacts DEF IInv
<1>4. SessionsOK(c)'
  <2>1. ~HasDocs(c)'
    BY DEF HasDocs, Batch
  <2> QED
    BY <1>1, <1>2, <1>3, <2>1 DEF SessionsOK, Early, Leaving, Final
<1>5. ReadsOK(c)'
  BY <1>2, <1>3 DEF ReadsOK
<1> QED
  BY <1>1, <1>2, <1>4, <1>5, OneCallMoves DEF IInv, Shape

\* PrepareMessage keeps the invariant.
LEMMA PrepareMessageStep ==
  ASSUME IInv, NEW c \in Calls, PrepareMessage(c)
  PROVE  IInv'
<1>1. /\ pc[c] = "preparing" /\ UNCHANGED <<now, reservation, active, archived, session>>
      /\ held \in [Calls -> Held] /\ held[c].at <= MaxTime /\ held[c].deadline <= MaxTime
      /\ session \in [Calls -> [Indexes -> {"none", "open", "expired"}]]
  BY DEF PrepareMessage, IInv, Shape
<1>2. /\ ~HasDocs(c) /\ held[c].error = "none" /\ held[c].todo = {} /\ held[c].built = 0
      /\ OpenWhatIsBuilt(c) /\ reservation # None
  BY <1>1 DEF IInv, SessionsOK, Early
<1>3. ASSUME NEW n \in 0 .. MaxItems, held' = [held EXCEPT ![c].items = n],
             Goto(c, IF n = 0 THEN "committing" ELSE "building")
      PROVE  IInv'
  <2>1. /\ held' \in [Calls -> Held] /\ \A d \in Calls : d # c => held'[d] = held[d]
        /\ held'[c].built = held[c].built /\ held'[c].items = n
        /\ held'[c].error = held[c].error /\ held'[c].todo = held[c].todo
        /\ held'[c].deadline = held[c].deadline /\ held'[c].at = held[c].at
    BY <1>1, <1>3 DEF Held
  <2>2. /\ pc'[c] \in {"committing", "building"} /\ (pc'[c] = "building" => n # 0)
        /\ Goto(c, pc'[c]) /\ pc'[c] \in Labels
    BY <1>3, GotoFacts DEF IInv, Labels
  <2>3. SessionsOK(c)'
    <3>1. ~HasDocs(c)' /\ OpenWhatIsBuilt(c)'
      BY <1>1, <1>2, <2>1 DEF HasDocs, Batch, OpenWhatIsBuilt
    <3> QED
      BY <1>1, <1>2, <2>1, <2>2, <3>1, RequestsAssumption DEF SessionsOK, Early, Leaving, Final
  <2>4. ReadsOK(c)'
    BY <2>2 DEF ReadsOK
  <2> QED
    BY <1>1, <1>2, <2>1, <2>2, <2>3, <2>4, OneCallMoves, RequestsAssumption
<1>4. CASE held' = [held EXCEPT ![c].error = "other"] /\ Goto(c, "failing")
  <2>1. GiveUp(c, {}, "other")
    BY <1>1, <1>2, <1>4 DEF GiveUp, Held
  <2>2. \A i \in Indexes : session'[c][i] # "open"
    BY <1>1, <1>2, RequestsAssumption DEF OpenWhatIsBuilt, Indexes
  <2> QED
    BY <1>1, <1>2, <2>1, <2>2, GiveUpStep
<1> QED
  BY <1>3, <1>4 DEF PrepareMessage

\* BuildItem keeps the invariant: the session it opens is recorded as this call's.
LEMMA BuildItemStep ==
  ASSUME IInv, NEW c \in Calls, BuildItem(c)
  PROVE  IInv'
<1> DEFINE n == held[c].built
<1>1. /\ pc[c] = "building" /\ UNCHANGED <<now, reservation, active, archived>>
      /\ held \in [Calls -> Held] /\ held[c].at <= MaxTime /\ held[c].deadline <= MaxTime
      /\ session \in [Calls -> [Indexes -> {"none", "open", "expired"}]]
  BY DEF BuildItem, IInv, Shape
<1>2. /\ ~HasDocs(c) /\ held[c].error = "none" /\ held[c].todo = {} /\ n < held[c].items
      /\ OpenWhatIsBuilt(c) /\ reservation # None
  BY <1>1 DEF IInv, SessionsOK
<1>3. /\ n \in Indexes /\ n \in Nat /\ held[c].items \in 0 .. MaxItems
      /\ Built(c) \subseteq Indexes /\ \A i \in Indexes : i \in Built(c) <=> i < n
  BY <1>2, BuiltFacts, RequestsAssumption DEF IInv
<1>4. ASSUME session' = [session EXCEPT ![c][n] = "open"]
      PROVE  /\ session' \in [Calls -> [Indexes -> {"none", "open", "expired"}]]
             /\ \A d \in Calls : d # c => session'[d] = session[d]
             /\ session'[c][n] = "open"
             /\ \A i \in Indexes : i # n => session'[c][i] = session[c][i]
  BY <1>1, <1>3, <1>4
<1>5. CASE /\ session' = [session EXCEPT ![c][n] = "open"]
           /\ held' = [held EXCEPT ![c].built = n + 1]
           /\ Goto(c, IF n + 1 = held[c].items THEN "committing" ELSE "building")
  <2>1. n + 1 \in 0 .. MaxItems
    BY <1>2, <1>3, RequestsAssumption
  <2>2. /\ held' \in [Calls -> Held] /\ \A d \in Calls : d # c => held'[d] = held[d]
        /\ held'[c].built = n + 1 /\ held'[c].items = held[c].items
        /\ held'[c].error = held[c].error /\ held'[c].todo = held[c].todo
        /\ held'[c].deadline = held[c].deadline /\ held'[c].at = held[c].at
    BY <1>1, <1>5, <2>1 DEF Held
  <2>3. /\ pc'[c] \in {"committing", "building"} /\ (pc'[c] = "building" => n + 1 # held[c].items)
        /\ Goto(c, pc'[c]) /\ pc'[c] \in Labels
    BY <1>5, GotoFacts DEF IInv, Labels
  <2>4. n + 1 <= held[c].items
    BY <1>2, <1>3, RequestsAssumption
  <2>5. OpenWhatIsBuilt(c)'
    <3> SUFFICES ASSUME NEW i \in Indexes
                 PROVE  session'[c][i] = IF i < n + 1 THEN "open" ELSE "none"
      BY <2>2 DEF OpenWhatIsBuilt
    <3>1. i \in Nat /\ session[c][i] = IF i < n THEN "open" ELSE "none"
      BY <1>2, RequestsAssumption DEF OpenWhatIsBuilt, Indexes
    <3> QED
      BY <1>3, <1>4, <1>5, <3>1
  <2>6. SessionsOK(c)'
    <3>1. ~HasDocs(c)'
      BY <1>1, <1>2 DEF HasDocs, Batch
    <3>2. pc'[c] = "building" => held'[c].built < held'[c].items
      BY <1>3, <2>2, <2>3, <2>4, RequestsAssumption
    <3> QED
      BY <1>1, <1>2, <2>2, <2>3, <2>5, <3>1, <3>2 DEF SessionsOK, Early, Leaving, Final
  <2>7. ReadsOK(c)'
    BY <2>3 DEF ReadsOK
  <2> QED
    BY <1>1, <1>4, <1>5, <2>2, <2>3, <2>4, <2>6, <2>7, OneCallMoves
<1>6. CASE GiveUp(c, Built(c), "other") /\ UNCHANGED session
  <2>1. \A i \in Indexes : session'[c][i] = "open" => i \in Built(c)
    BY <1>2, <1>3, <1>6 DEF OpenWhatIsBuilt
  <2> QED
    BY <1>1, <1>2, <1>3, <1>6, <2>1, GiveUpStep
<1>7. CASE session' = [session EXCEPT ![c][n] = "open"] /\ GiveUp(c, Built(c) \cup {n}, "other")
  <2>1. \A i \in Indexes : session'[c][i] = "open" => i \in Built(c) \cup {n}
    BY <1>2, <1>3, <1>4, <1>7 DEF OpenWhatIsBuilt
  <2>2. Built(c) \cup {n} \in SUBSET Indexes
    BY <1>3
  <2> QED
    BY <1>1, <1>2, <1>4, <1>7, <2>1, <2>2, GiveUpStep
<1> QED
  BY <1>5, <1>6, <1>7 DEF BuildItem

(***************************************************************************)
(* The batch a call commits: one message for every index it has built.     *)
(***************************************************************************)
LEMMA DocsFacts ==
  ASSUME Shape, NEW c \in Calls
  PROVE  /\ Docs(c) \subseteq Doc /\ \A d \in Docs(c) : d.by = c
         /\ Merges(Docs(c), held[c].built)
<1> DEFINE n == held[c].built
           f == [i \in 0 .. n - 1 |-> [by |-> c, index |-> i]]
<1>1. n \in Nat /\ Built(c) = 0 .. n - 1 /\ Built(c) \subseteq Indexes
  BY BuiltFacts, RequestsAssumption DEF Built
<1>2. Docs(c) \subseteq Doc /\ \A d \in Docs(c) : d.by = c
  BY <1>1 DEF Docs, Doc
<1>3. {d.index : d \in Docs(c)} = 0 .. n - 1
  <2>1. \A d \in Docs(c) : d.index \in Built(c)
    BY DEF Docs
  <2>2. \A i \in Built(c) : [by |-> c, index |-> i] \in Docs(c)
    BY DEF Docs
  <2>3. ASSUME NEW i \in Built(c)
        PROVE  \E d \in Docs(c) : i = d.index
    <3> DEFINE x == [by |-> c, index |-> i]
    <3>1. x \in Docs(c) /\ i = x.index
      BY <2>2
    <3> HIDE DEF x
    <3> QED
      BY <3>1
  <2> HIDE DEF n, f
  <2>4. \A i \in Built(c) : i \in {d.index : d \in Docs(c)}
    BY <2>3
  <2>5. {d.index : d \in Docs(c)} \subseteq Built(c)
    BY <2>1
  <2> QED
    BY <1>1, <2>4, <2>5
<1>4. ExistsBijection(0 .. n - 1, Docs(c))
  <2>1. f \in [0 .. n - 1 -> Docs(c)]
    BY <1>1 DEF Docs
  <2>2. \A x \in Docs(c) : \E i \in 0 .. n - 1 : f[i] = x
    BY <1>1 DEF Docs
  <2>3. \A i, j \in 0 .. n - 1 : f[i] = f[j] => i = j
    OBVIOUS
  <2>4. f \in Bijection(0 .. n - 1, Docs(c))
    BY <2>1, <2>2, <2>3 DEF Bijection, Injection, Surjection, IsInjective
  <2> QED
    BY <2>4 DEF ExistsBijection
<1>5. IsFiniteSet(0 .. n - 1) /\ Cardinality(0 .. n - 1) = n
  <2> HIDE DEF n
  <2>1. 0 \in Int /\ n - 1 \in Int
    BY <1>1
  <2>2. /\ IsFiniteSet(0 .. n - 1)
        /\ Cardinality(0 .. n - 1) = IF 0 > n - 1 THEN 0 ELSE n - 1 - 0 + 1
    BY <2>1, FS_Interval
  <2> QED
    BY <1>1, <2>2
<1>6. Cardinality(Docs(c)) = n
  BY <1>4, <1>5, FS_Bijection
<1> QED
  BY <1>2, <1>3, <1>6 DEF Merges

(***************************************************************************)
(* The commit finds no batch: its owner holds a reservation that is still  *)
(* pending.                                                                *)
(***************************************************************************)
LEMMA CommitStep ==
  ASSUME IInv, NEW c \in Calls, Commit(c)
  PROVE  IInv'
<1>1. /\ pc[c] = "committing" /\ Owns(c) /\ CommitEffect(c)
      /\ UNCHANGED <<now, archived, session>>
      /\ Shape
  BY DEF Commit, IInv
<1>2. /\ reservation # None /\ held[c].error = "none" /\ OpenWhatIsBuilt(c)
      /\ ~HasDocs(c) /\ held[c].todo = {}
  BY <1>1 DEF IInv, SessionsOK
<1>3. ~Completed /\ Batch = {}
  BY <1>1, <1>2 DEF Owns, Completed, IInv, BatchOK, OneBatch, Batch
<1>4. /\ Docs(c) \subseteq Doc /\ \A d \in Docs(c) : d.by = c
      /\ Merges(Docs(c), held[c].built)
      /\ held[c].built \in 0 .. MaxItems /\ Built(c) \in SUBSET Indexes
  BY <1>1, DocsFacts, BuiltFacts
<1>5. /\ reservation' \in Reservation /\ reservation' # None
      /\ reservation'.state = "completed" /\ reservation'.count = held[c].built
  <2>1. reservation \in Reservation
    BY <1>1, <1>2 DEF Shape
  <2>2. reservation' \in Reservation
    BY <1>1, <1>4, <2>1 DEF CommitEffect, Reservation
  <2> QED
    BY <1>1, <2>1, <2>2, ReservationAssumption DEF CommitEffect, Reservation
<1>6. active' = Docs(c) /\ archived' = {} /\ Batch' = Docs(c)
  BY <1>1, <1>3 DEF CommitEffect, Batch
<1>7. BatchOK'
  BY <1>4, <1>5, <1>6 DEF BatchOK, OneBatch, Completed, Merges
<1>8. ASSUME NEW label \in {"created", "failing", "compensating"}, Goto(c, label),
             held' \in [Calls -> Held], \A d \in Calls : d # c => held'[d] = held[d],
             held'[c].built = held[c].built, held'[c].items = held[c].items,
             held'[c].deadline = held[c].deadline, held'[c].at = held[c].at,
             label # "created" => held'[c].error = "unknown",
             label = "failing" => held'[c].todo = {}
      PROVE  IInv'
  <2>1. /\ pc' \in [Calls -> Labels] /\ pc'[c] = label
        /\ \A d \in Calls : d # c => pc'[d] = pc[d]
    BY <1>1, <1>8, GotoFacts DEF Labels, Final
  <2>2. Shape'
    <3>1. now' \in 0 .. MaxTime /\ reservation' \in Reservation
          /\ active' \subseteq Doc /\ archived' \subseteq Doc
      BY <1>1, <1>4, <1>5, <1>6 DEF Shape
    <3>2. session' \in [Calls -> [Indexes -> {"none", "open", "expired"}]]
      BY <1>1 DEF Shape
    <3>3. \A d \in Calls :
            /\ held'[d].built <= held'[d].items
            /\ held'[d].deadline <= MaxTime /\ held'[d].at <= MaxTime
      BY <1>1, <1>8 DEF Shape
    <3> QED
      BY <1>8, <2>1, <3>1, <3>2, <3>3 DEF Shape
  <2>3. ASSUME NEW d \in Calls, d # c PROVE Undisturbed(d)
    BY <1>1, <1>3, <1>4, <1>5, <1>6, <1>8, <2>1, <2>3 DEF Undisturbed, Batch
  <2>4. SessionsOK(c)'
    <3>1. Docs(c)' = Batch' /\ OpenWhatIsBuilt(c)' /\ Completed'
      BY <1>1, <1>2, <1>5, <1>6, <1>8 DEF Docs, Built, OpenWhatIsBuilt, Completed
    <3> QED
      BY <1>5, <1>8, <2>1, <3>1 DEF SessionsOK, Early, Leaving, Final
  <2>5. ReadsOK(c)'
    BY <2>1 DEF ReadsOK
  <2>6. \A d \in Calls : SessionsOK(d)' /\ ReadsOK(d)'
    BY <2>3, <2>4, <2>5, UndisturbedKeeps
  <2> QED
    BY <1>7, <2>2, <2>6 DEF IInv
<1>9. CASE Goto(c, "created") /\ UNCHANGED held
  BY <1>1, <1>8, <1>9 DEF Shape
<1>10. CASE GiveUp(c, Built(c), "unknown")
  <2> DEFINE label == IF Built(c) = {} THEN "failing" ELSE "compensating"
  <2>1. /\ held' \in [Calls -> Held] /\ \A d \in Calls : d # c => held'[d] = held[d]
        /\ held'[c].todo = Built(c) /\ held'[c].error = "unknown"
        /\ held'[c].built = held[c].built /\ held'[c].items = held[c].items
        /\ held'[c].deadline = held[c].deadline /\ held'[c].at = held[c].at
        /\ Goto(c, label)
    BY <1>1, <1>4, <1>10, GiveUpFacts
  <2>2. label \in {"failing", "compensating"} /\ (label = "failing" => held'[c].todo = {})
    BY <2>1
  <2> HIDE DEF label
  <2> QED
    BY <1>8, <2>1, <2>2
<1> QED
  BY <1>9, <1>10 DEF Commit

\* An aborted transaction keeps the invariant: the sessions are still this call's to expire.
LEMMA AbortStep ==
  ASSUME IInv, NEW c \in Calls, Abort(c)
  PROVE  IInv'
<1>1. /\ pc[c] = "committing" /\ UNCHANGED <<now, reservation, active, archived, session>>
      /\ session \in [Calls -> [Indexes -> {"none", "open", "expired"}]]
      /\ ~HasDocs(c) /\ OpenWhatIsBuilt(c) /\ reservation # None
  BY DEF Abort, IInv, Shape, SessionsOK
<1>2. /\ Built(c) \in SUBSET Indexes
      /\ \A i \in Indexes : session'[c][i] = "open" => i \in Built(c)
  BY <1>1, BuiltFacts DEF IInv, OpenWhatIsBuilt
<1>3. PICK error \in {"pending", "other"} : GiveUp(c, Built(c), error)
  BY DEF Abort
<1> QED
  BY <1>1, <1>2, <1>3, GiveUpStep

(***************************************************************************)
(* Expiring: what is still open is still to be expired.                    *)
(***************************************************************************)
LEMMA CompensateStep ==
  ASSUME IInv, NEW c \in Calls, Compensate(c)
  PROVE  IInv'
<1> DEFINE i == IF held[c].built \in held[c].todo THEN held[c].built ELSE Min(held[c].todo)
           left == held[c].todo \ {i}
           label == IF left = {} THEN "failing" ELSE "compensating"
<1>1. /\ pc[c] = "compensating" /\ UNCHANGED <<now, reservation, active, archived>>
      /\ \/ session' = [session EXCEPT ![c][i] = "expired"] /\ GiveUp(c, left, held[c].error)
         \/ UNCHANGED session /\ GiveUp(c, left, "compensation")
      /\ session \in [Calls -> [Indexes -> {"none", "open", "expired"}]]
  BY DEF Compensate, IInv, Shape
<1>2. held[c] \in Held /\ left \in SUBSET Indexes
  BY DEF IInv, Shape, Held
<1>3. reservation # None
  BY <1>1 DEF IInv, SessionsOK
<1>4. i \notin left /\ left \subseteq held[c].todo /\ \A j \in held[c].todo : j # i => j \in left
  OBVIOUS
<1> HIDE DEF i, left
<1>5. /\ session' \in [Calls -> [Indexes -> {"none", "open", "expired"}]]
      /\ \A d \in Calls : d # c => session'[d] = session[d]
      /\ \A j \in Indexes : session'[c][j] = "open" => session[c][j] = "open"
  BY <1>1
<1>6. PICK error \in {"none", "pending", "unknown", "other", "compensation"} :
        /\ GiveUp(c, left, error)
        /\ error = "compensation" \/ (/\ error = held[c].error
                                      /\ session' = [session EXCEPT ![c][i] = "expired"])
  BY <1>1, <1>2 DEF Held
<1>7. /\ held' \in [Calls -> Held] /\ \A d \in Calls : d # c => held'[d] = held[d]
      /\ held'[c].todo = left /\ held'[c].error = error
      /\ held'[c].built = held[c].built /\ held'[c].items = held[c].items
      /\ held'[c].deadline = held[c].deadline /\ held'[c].at = held[c].at
      /\ Goto(c, label)
  BY <1>2, <1>6, GiveUpFacts DEF IInv
<1>8. label \in {"failing", "compensating"} /\ label \in Labels /\ (label = "failing" => left = {})
  BY DEF Labels
<1> HIDE DEF label
<1>9. pc'[c] = label
  BY <1>7, <1>8, GotoFacts DEF IInv
<1>10. SessionsOK(c)'
  <2>1. ASSUME error \notin {"compensation", "unknown"}
        PROVE  ~HasDocs(c)' /\ \A j \in Indexes : session'[c][j] = "open" => j \in left
    <3>1. /\ error = held[c].error /\ session' = [session EXCEPT ![c][i] = "expired"]
      BY <1>6, <2>1
    <3>2. ~HasDocs(c) /\ \A j \in Indexes : session[c][j] = "open" => j \in held[c].todo
      BY <1>1, <2>1, <3>1 DEF IInv, SessionsOK, Leaving
    <3>3. \A j \in Indexes : j = i => session'[c][j] # "open"
      BY <1>1, <3>1
    <3> QED
      BY <1>1, <1>4, <1>5, <3>2, <3>3 DEF HasDocs, Batch
  <2> QED
    BY <1>1, <1>3, <1>7, <1>8, <1>9, <2>1 DEF SessionsOK, Early, Leaving, Final
<1>11. ReadsOK(c)'
  BY <1>8, <1>9 DEF ReadsOK
<1> QED
  BY <1>1, <1>5, <1>7, <1>8, <1>10, <1>11, OneCallMoves DEF IInv, Shape

\* failClientRequestReservation keeps the invariant.
LEMMA FailStep ==
  ASSUME IInv, NEW c \in Calls, failClientRequestReservation(c)
  PROVE  IInv'
<1>1. /\ pc[c] = "failing" /\ UNCHANGED <<now, active, archived, session, held>>
      /\ Goto(c, Answer(c)) /\ Answer(c) \in {"pending", "error"} /\ Shape
  BY DEF failClientRequestReservation, Answer, IInv
<1>2. pc'[c] \in {"pending", "error"} /\ Goto(c, pc'[c]) /\ pc'[c] \in Labels
  BY <1>1, GotoFacts DEF Labels, Final
<1>3. SessionsOK(c)' /\ ReadsOK(c)'
  <2>1. HasDocs(c)' <=> HasDocs(c)
    BY <1>1 DEF HasDocs, Batch
  <2>2. SessionsOK(c)
    BY DEF IInv
  <2> QED
    BY <1>1, <1>2, <2>1, <2>2 DEF SessionsOK, ReadsOK, Early, Leaving, Final
<1>4. CASE UNCHANGED reservation
  BY <1>1, <1>2, <1>3, <1>4, OneCallMoves DEF Shape
<1>5. CASE /\ Owns(c) /\ reservation' = [reservation EXCEPT !.state = "failed", !.lease = None]
  <2>1. reservation \in Reservation /\ ~Completed
    BY <1>1, <1>5 DEF Shape, IInv, SessionsOK, Owns, Completed
  <2>2. reservation' \in Reservation /\ reservation'.state = "failed"
    BY <1>5, <2>1 DEF Reservation
  <2> QED
    BY <1>1, <1>2, <1>3, <2>1, <2>2, ReservationMoves
<1> QED
  BY <1>4, <1>5 DEF failClientRequestReservation

\* A crash keeps the invariant; nothing is asked of a dead call.
LEMMA CrashStep ==
  ASSUME IInv, NEW c \in Calls, Crash(c)
  PROVE  IInv'
<1>1. /\ UNCHANGED <<now, reservation, active, archived, session, held>> /\ Goto(c, "crashed")
      /\ Shape /\ "crashed" \in Labels
  BY DEF Crash, IInv, Labels, Final
<1>2. pc'[c] = "crashed"
  BY <1>1, GotoFacts
<1>3. SessionsOK(c)' /\ ReadsOK(c)'
  BY <1>2 DEF SessionsOK, ReadsOK, Early, Leaving, Final
<1> QED
  BY <1>1, <1>3, OneCallMoves DEF Shape

(***************************************************************************)
(* Steps of no call.                                                       *)
(***************************************************************************)
LEMMA ArchiveStep ==
  ASSUME IInv, Archive
  PROVE  IInv'
<1>1. PICK x \in active : active' = active \ {x} /\ archived' = archived \cup {x}
  BY DEF Archive
<1>2. UNCHANGED <<now, reservation, session, pc, held>> /\ Shape
  BY DEF Archive, IInv
<1>3. Batch' = Batch /\ active' \cap archived' = {} /\ archived \subseteq archived'
  BY <1>1 DEF Batch, IInv, BatchOK, OneBatch
<1>4. Shape'
  BY <1>1, <1>2 DEF Shape
<1>5. BatchOK'
  <2>1. active' \cup archived' = active \cup archived
    BY <1>3 DEF Batch
  <2> QED
    BY <1>2, <1>3, <2>1 DEF IInv, BatchOK, OneBatch, Completed, Merges
<1>6. \A d \in Calls : SessionsOK(d)' /\ ReadsOK(d)'
  BY <1>2, <1>3, UndisturbedKeeps DEF Undisturbed
<1> QED
  BY <1>4, <1>5, <1>6 DEF IInv

\* The passing of time keeps the invariant.
LEMMA TimeStep ==
  ASSUME IInv, UNCHANGED <<reservation, active, archived, session, pc, held>>,
         now' \in 0 .. MaxTime
  PROVE  IInv'
<1>1. Shape' /\ BatchOK'
  BY DEF IInv, Shape, BatchOK, OneBatch, Completed
<1>2. \A d \in Calls : SessionsOK(d)' /\ ReadsOK(d)'
  BY UndisturbedKeeps DEF Undisturbed, Batch
<1> QED
  BY <1>1, <1>2 DEF IInv

\* The invariant is inductive.
LEMMA StepIInv == IInv /\ [Next]_vars => IInv'
<1> SUFFICES ASSUME IInv, [Next]_vars PROVE IInv'
  OBVIOUS
<1>1. ASSUME NEW c \in Calls, createMessage(c) PROVE IInv'
  <2>1. CASE ProbeActive(c) \/ ReplayActive(c) \/ ReconcileActive(c)
    BY <2>1, ReadActiveStep DEF ProbeActive, ReplayActive, ReconcileActive, IInv, ReadsOK, Early
  <2>2. CASE ReplayArchived(c) \/ ReconcileArchived(c)
    BY <2>2, ReadArchivedStep DEF ReplayArchived, ReconcileArchived
  <2> QED
    BY <1>1, <2>1, <2>2, FindReservationStep, ProbeArchivedStep, RereadStep, CreateReservationStep,
       TakeOverStep, WakeStep, PrepareMessageStep, BuildItemStep, CommitStep, AbortStep,
       CompensateStep, FailStep
    DEF createMessage
<1>2. CASE Tick
  BY <1>2, TimeStep, RequestsAssumption DEF Tick, IInv, Shape
<1>3. CASE UNCHANGED vars
  BY <1>3, TimeStep DEF vars, IInv, Shape
<1> QED
  BY <1>1, <1>2, <1>3, CrashStep, ArchiveStep DEF Next, AllAnswered

(***************************************************************************)
(* The inductive invariant holds of every reachable state.                 *)
(***************************************************************************)
LEMMA Invariance == Spec => []IInv
  BY InitIInv, StepIInv, PTL DEF Spec

(***************************************************************************)
(* The documents and what calls remember stay well-formed.                 *)
(***************************************************************************)
THEOREM TypeCorrect == Spec => []TypeOK
<1>1. IInv => TypeOK
  <2> SUFFICES ASSUME IInv, NEW c \in Calls
               PROVE  /\ held[c].seenActive \subseteq Doc /\ held[c].seenArchived \subseteq Doc
                      /\ held[c].deadline \in 0 .. MaxTime /\ held[c].at \in 0 .. MaxTime
                      /\ held[c].count \in 0 .. MaxItems
                      /\ held[c].built <= held[c].items /\ held[c].items <= MaxItems
                      /\ held[c].todo \subseteq Indexes
    BY DEF IInv, Shape, TypeOK
  <2>1. /\ held[c] \in Held /\ held[c].built <= held[c].items
        /\ held[c].deadline <= MaxTime /\ held[c].at <= MaxTime
    BY DEF IInv, Shape
  <2> QED
    BY <2>1, RequestsAssumption DEF Held
<1> QED
  BY <1>1, Invariance, PTL

(***************************************************************************)
(* At most one batch is ever created for a request, complete and by one    *)
(* call, however leases expire and transactions end                        *)
(* (persistPreparedBatchTransaction,                                       *)
(* tryTakeOverStaleClientRequestReservation).                              *)
(***************************************************************************)
THEOREM AtMostOneBatch == Spec => []OneBatch
<1>1. IInv => OneBatch
  BY DEF IInv, BatchOK
<1> QED
  BY <1>1, Invariance, PTL

(***************************************************************************)
(* A replay is the whole batch, although its messages are archived between *)
(* the two reads, and no race is taken for corruption                      *)
(* (findCompletedClientRequestReplay, buildCompletedReplay,                *)
(* mergeReplayBatch).                                                      *)
(***************************************************************************)
THEOREM ReplaysAgree == Spec => []AnswersAgree
<1>1. IInv => AnswersAgree
  BY DEF IInv, SessionsOK, ReadsOK, Batch, AnswersAgree
<1> QED
  BY <1>1, Invariance, PTL

(***************************************************************************)
(* An answered call leaves no payment session open that is not a message's *)
(* and none of a message's expired, with the code's two exceptions         *)
(* (compensatePaymentSessions).                                            *)
(***************************************************************************)
THEOREM SessionsAreSettled == Spec => []SessionsSettled
<1>1. IInv => SessionsSettled
  <2> SUFFICES ASSUME IInv, NEW c \in Calls, pc[c] \in Final \ {"crashed"},
                      held[c].error \notin {"compensation", "unknown"}, NEW i \in Indexes
               PROVE  session[c][i] = "open" <=> [by |-> c, index |-> i] \in Batch
    BY DEF SessionsSettled, Batch
  <2>1. SessionsOK(c) /\ Shape
    BY DEF IInv
  <2>2. CASE pc[c] = "created"
    <3>1. Docs(c) = Batch /\ (session[c][i] = "open" <=> i < held[c].built)
      BY <2>1, <2>2 DEF SessionsOK, OpenWhatIsBuilt
    <3>2. i \in Built(c) <=> i < held[c].built
      BY <2>1, BuiltFacts
    <3>3. [by |-> c, index |-> i] \in Docs(c) <=> i \in Built(c)
      BY DEF Docs
    <3> QED
      BY <3>1, <3>2, <3>3
  <2>3. CASE pc[c] # "created"
    <3>1. pc[c] \in Leaving /\ pc[c] \in Leaving \ {"compensating"}
      BY <2>3 DEF Leaving, Final
    <3>2. ~HasDocs(c) /\ session[c][i] # "open"
      BY <2>1, <3>1 DEF SessionsOK
    <3> QED
      BY <3>2 DEF HasDocs
  <2> QED
    BY <2>2, <2>3
<1> QED
  BY <1>1, Invariance, PTL
=============================================================================
