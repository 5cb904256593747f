------------------------ MODULE BrowserSessionProofs ------------------------
(***************************************************************************)
(* What is proved about BrowserSession for every number of tabs, calls and *)
(* reloads.  The inductive invariant IInv is a statement about each tab    *)
(* (TabOK) and the shape of the state (Shape).                             *)
(*                                                                         *)
(* A step is taken by one tab.  It replaces that tab's queue, memory and   *)
(* adoptions (TabStep) and leaves the other tabs theirs, apart from        *)
(* messages; or it writes a record (RecordStep).                           *)
(***************************************************************************)
EXTENDS BrowserSession, TLAPS

Record == [gen : Generation, active : BOOLEAN]

Shape ==
  /\ minted \in Nat
  /\ version \in Record \cup {None}
  /\ lock \in Tabs \cup {None}
  /\ announced \in BOOLEAN
  /\ tab \in [Tabs -> Memory]
  /\ queue \in [Tabs -> Seq(Operation)]
  /\ inbox \in [Tabs -> Seq(Message)]
  /\ adopting \in [Tabs -> SUBSET Adoption]
  /\ lock # None => queue[lock] # << >>

\* A cleared tab takes only a token that it has asked for.
WipedOK(m, A) ==
  m.wiped => m.token = None /\ ~m.accept /\ \A a \in A : a.asked

\* The tab has no token and takes none, unless it asks.
Quiet(m, A) == m.token = None /\ ~m.accept /\ A = {}

\* A clear is about the record at its call, or at the answer to its read, or
\* about one that is gone.
OpOK(op) ==
  /\ op.current => op.fresh
  /\ op.phase = "asking" => op.kind = "refresh"
  /\ (op.kind = "clear" /\ op.binding # None /\ op.binding = Gen(version))
       => op.entry = op.binding

\* Until a clear has had its turn, its tab is quiet and nothing before it runs.
QueueOK(q, m, A) ==
  \A i \in DOMAIN q :
    /\ OpOK(q[i])
    /\ i # 1 => q[i].phase = "queued"
    /\ q[i].kind = "clear" /\ q[i].current =>
         Quiet(m, A) /\ \A j \in 1 .. (i - 1) : ~q[j].current

\* What the operation that holds the lock has written is still on record.
HeadOK(op, m, A) ==
  op.current =>
    /\ op.phase = "published" => Active(version)
    /\ op.phase = "deactivated" => version # None /\ ~version.active
    /\ op.phase \in {"deactivating", "deactivated"} => Quiet(m, A)
    /\ (op.phase = "deactivating" /\ op.kind = "clear") =>
         op.binding # None /\ op.binding = Gen(version)

\* An operation that clears its tab if nothing takes its authority.
WillClear(op) ==
  /\ op.current
  /\ \/ op.kind = "peerClear" /\ op.binding = Gen(version)
     \/ op.kind = "login" /\ op.phase \in {"queued", "open"}

Told(t) ==
  \E i \in DOMAIN inbox[t] : inbox[t][i] = [type |-> "clear", gen |-> Gen(version)]

\* A token outlives its session only as long as news of its end is under way.
Due(t) ==
  tab[t].token # None =>
    /\ version # None
    /\ \/ version.active \/ ~announced \/ Told(t)
       \/ \E i \in DOMAIN queue[t] : WillClear(queue[t][i])

TabOK(t) ==
  /\ WipedOK(tab[t], adopting[t])
  /\ QueueOK(queue[t], tab[t], adopting[t])
  /\ lock = t => HeadOK(queue[t][1], tab[t], adopting[t])
  /\ Due(t)

IInv == Shape /\ \A t \in Tabs : TabOK(t)

----------------------------------------------------------------------------
(***************************************************************************)
(* Sequences.                                                              *)
(***************************************************************************)
\* What Tail and Head are, by index.
LEMMA TailFacts ==
  ASSUME NEW S, NEW q \in Seq(S), q # << >>
  PROVE  /\ Tail(q) \in Seq(S)
         /\ DOMAIN q = 1 .. Len(q) /\ Len(q) \in Nat \ {0}
         /\ DOMAIN Tail(q) = 1 .. Len(q) - 1
         /\ \A i \in 1 .. Len(q) - 1 : Tail(q)[i] = q[i + 1]
         /\ Head(q) = q[1] /\ q[1] \in S
OBVIOUS

\* What Append is, by index.
LEMMA AppendFacts ==
  ASSUME NEW S, NEW q \in Seq(S), NEW x \in S
  PROVE  /\ Append(q, x) \in Seq(S) /\ Append(q, x) # << >>
         /\ DOMAIN q = 1 .. Len(q) /\ Len(q) \in Nat
         /\ DOMAIN Append(q, x) = 1 .. Len(q) + 1
         /\ \A i \in 1 .. Len(q) : Append(q, x)[i] = q[i]
         /\ Append(q, x)[Len(q) + 1] = x
OBVIOUS

\* What an element put in front is, by index.
LEMMA ConsFacts ==
  ASSUME NEW S, NEW q \in Seq(S), NEW x \in S
  PROVE  /\ <<x>> \o q \in Seq(S) /\ <<x>> \o q # << >>
         /\ DOMAIN q = 1 .. Len(q) /\ Len(q) \in Nat
         /\ DOMAIN (<<x>> \o q) = 1 .. Len(q) + 1
         /\ (<<x>> \o q)[1] = x
         /\ \A i \in 1 .. Len(q) : (<<x>> \o q)[i + 1] = q[i]
OBVIOUS

\* A sequence changed in place is a sequence.
LEMMA PointwiseFacts ==
  ASSUME NEW S, NEW q \in Seq(S), NEW p, p = [i \in DOMAIN q |-> p[i]],
         \A i \in DOMAIN q : p[i] \in S
  PROVE  p \in Seq(S) /\ Len(p) = Len(q) /\ DOMAIN p = DOMAIN q
OBVIOUS

----------------------------------------------------------------------------
(***************************************************************************)
(* Operations that lose authority.                                         *)
(***************************************************************************)
Fades(o, p) ==
  /\ p.kind = o.kind /\ p.phase = o.phase /\ p.binding = o.binding /\ p.entry = o.entry
  /\ p.current => o.current /\ p.fresh = o.fresh

Faded(q, p) ==
  /\ p \in Seq(Operation) /\ Len(p) = Len(q) /\ DOMAIN p = DOMAIN q
  /\ \A i \in DOMAIN q : Fades(q[i], p[i])

\* Outdated withdraws the claims and the peer callbacks, and nothing else.
LEMMA OutdatedFades ==
  ASSUME NEW q \in Seq(Operation)
  PROVE  /\ Faded(q, Outdated(q))
         /\ \A i \in DOMAIN q : q[i].kind # "peerClear" => Outdated(q)[i].current = q[i].current
<1> DEFINE p == Outdated(q)
<1>1. /\ p = [i \in DOMAIN q |-> p[i]]
      /\ \A i \in DOMAIN q :
           p[i] = [q[i] EXCEPT !.claims = FALSE, !.current = @ /\ q[i].kind # "peerClear"]
  BY DEF Outdated
<1>2. \A i \in DOMAIN q : q[i] \in Operation
  OBVIOUS
<1> HIDE DEF p
<1>3. ASSUME NEW i \in DOMAIN q
      PROVE  /\ p[i] \in Operation /\ Fades(q[i], p[i])
             /\ q[i].kind # "peerClear" => p[i].current = q[i].current
  <2>1. PICK b \in BOOLEAN : b <=> (q[i].current /\ q[i].kind # "peerClear")
    OBVIOUS
  <2>2. q[i].current \in BOOLEAN
    BY <1>2 DEF Operation
  <2>3. p[i] = [q[i] EXCEPT !.claims = FALSE, !.current = b]
    BY <1>1, <2>1, Zenon
  <2>4. /\ p[i] \in Operation /\ p[i].current = b /\ p[i].fresh = q[i].fresh
        /\ p[i].kind = q[i].kind /\ p[i].phase = q[i].phase
        /\ p[i].binding = q[i].binding /\ p[i].entry = q[i].entry
    BY <1>2, <2>3 DEF Operation
  <2>5. QED
    BY <2>1, <2>2, <2>4 DEF Fades
<1>4. QED
  BY <1>1, <1>3, PointwiseFacts DEF Faded, p

\* Aborted leaves nothing its authority.
LEMMA AbortedFades ==
  ASSUME NEW q \in Seq(Operation)
  PROVE  Faded(q, Aborted(q)) /\ \A i \in DOMAIN q : ~Aborted(q)[i].current
<1> DEFINE p == Aborted(q)
<1>1. /\ p = [i \in DOMAIN q |-> p[i]]
      /\ \A i \in DOMAIN q : p[i] = [q[i] EXCEPT !.current = FALSE, !.claims = FALSE]
  BY DEF Aborted
<1>2. \A i \in DOMAIN q : q[i] \in Operation
  OBVIOUS
<1> HIDE DEF p
<1>3. ASSUME NEW i \in DOMAIN q
      PROVE  p[i] \in Operation /\ Fades(q[i], p[i]) /\ ~p[i].current
  <2>1. PICK o \in Operation : o = q[i]
    BY <1>2
  <2>2. p[i] = [o EXCEPT !.current = FALSE, !.claims = FALSE]
    BY <1>1, <2>1
  <2>3. /\ p[i] \in Operation /\ p[i].current = FALSE
        /\ p[i].kind = o.kind /\ p[i].phase = o.phase
        /\ p[i].binding = o.binding /\ p[i].entry = o.entry
    BY <2>1, <2>2 DEF Operation
  <2>4. QED
    BY <2>1, <2>3 DEF Fades
<1>4. QED
  BY <1>1, <1>3, PointwiseFacts DEF Faded, p

\* So it is when a clear is called, which also marks what it found.
LEMMA UnfreshFades ==
  ASSUME NEW q \in Seq(Operation)
  PROVE  Faded(q, Unfresh(Aborted(q))) /\ \A i \in DOMAIN q : ~Unfresh(Aborted(q))[i].current
<1> DEFINE r == Aborted(q)
           p == Unfresh(r)
<1>1. Faded(q, r) /\ \A i \in DOMAIN q : ~r[i].current
  BY AbortedFades
<1> HIDE DEF r
<1>2. /\ p = [i \in DOMAIN r |-> p[i]]
      /\ \A i \in DOMAIN r : p[i] = [r[i] EXCEPT !.fresh = FALSE]
  BY DEF Unfresh
<1>3. \A i \in DOMAIN r : r[i] \in Operation
  BY <1>1 DEF Faded
<1> HIDE DEF p
<1>4. ASSUME NEW i \in DOMAIN r
      PROVE  p[i] \in Operation /\ Fades(q[i], p[i]) /\ ~p[i].current
  <2>1. i \in DOMAIN q /\ Fades(q[i], r[i]) /\ ~r[i].current
    BY <1>1, <1>4 DEF Faded
  <2>2. /\ p[i] \in Operation /\ p[i].current = r[i].current
        /\ p[i].kind = r[i].kind /\ p[i].phase = r[i].phase
        /\ p[i].binding = r[i].binding /\ p[i].entry = r[i].entry
    BY <1>2, <1>3, <1>4 DEF Operation
  <2>3. QED
    BY <2>1, <2>2 DEF Fades
<1>5. p \in Seq(Operation) /\ Len(p) = Len(q) /\ DOMAIN p = DOMAIN q
  BY <1>1, <1>2, <1>4, PointwiseFacts DEF Faded
<1>6. QED
  BY <1>1, <1>4, <1>5 DEF Faded, p, r

----------------------------------------------------------------------------
(***************************************************************************)
(* A step that leaves the record alone.  Tab t gets queue p, memory m and  *)
(* adoptions A.                                                            *)
(***************************************************************************)
TabStep(t, p, m, A) ==
  /\ queue' = [queue EXCEPT ![t] = p]
  /\ tab' = [tab EXCEPT ![t] = m]
  /\ adopting' = [adopting EXCEPT ![t] = A]
  /\ minted' = minted /\ version' = version

\* The messages of other tabs are only added to.
Messages(t) ==
  /\ inbox' \in [Tabs -> Seq(Message)]
  /\ \A u \in Tabs \ {t} : Told(u) => Told(u)'

\* News of the record reaches the other tabs.
News(t) ==
  /\ announced' \in BOOLEAN
  /\ announced' => announced \/ Active(version) \/ \A u \in Tabs \ {t} : Told(u)'

Lock(t, p) ==
  \/ lock' = lock /\ (lock = t => p # << >>)
  \/ lock' = t /\ p # << >>
  \/ lock' = None

DueIn(t, p, m) ==
  m.token # None =>
    /\ version # None
    /\ \/ version.active \/ ~announced' \/ Told(t)'
       \/ \E i \in DOMAIN p : WillClear(p[i])

\* The constants of the record do not move when nothing is minted.
LEMMA SameTypes ==
  ASSUME minted' = minted
  PROVE  /\ Operation' = Operation /\ Memory' = Memory /\ Message' = Message
         /\ Adoption' = Adoption /\ Record' = Record
BY DEF Operation, Memory, Message, Adoption, Record, Binding, Generation

\* An action of one tab keeps the invariant if its own tab is in order.
LEMMA OneTab ==
  ASSUME IInv, NEW t \in Tabs, NEW p \in Seq(Operation), NEW m \in Memory,
         NEW A \in SUBSET Adoption,
         TabStep(t, p, m, A), Messages(t), News(t), Lock(t, p),
         WipedOK(m, A), QueueOK(p, m, A), lock' = t => HeadOK(p[1], m, A), DueIn(t, p, m)
  PROVE  IInv'
<1>1. Shape /\ t # None
  BY BrowserAssumption DEF IInv
<1>2. /\ queue'[t] = p /\ tab'[t] = m /\ adopting'[t] = A
      /\ \A u \in Tabs \ {t} : queue'[u] = queue[u] /\ tab'[u] = tab[u] /\ adopting'[u] = adopting[u]
  BY <1>1 DEF Shape, TabStep
<1>3. Shape'
  <2>1. /\ queue' \in [Tabs -> Seq(Operation)] /\ tab' \in [Tabs -> Memory]
        /\ adopting' \in [Tabs -> SUBSET Adoption]
    BY <1>1 DEF Shape, TabStep
  <2>2. /\ lock' \in Tabs \cup {None}
        /\ lock' # None => queue'[lock'] # << >>
    BY <1>1, <1>2 DEF Shape, Lock
  <2>3. QED
    BY <1>1, <2>1, <2>2, SameTypes DEF Shape, TabStep, Messages, News
<1>4. /\ \A op : OpOK(op)' <=> OpOK(op)
      /\ \A op : WillClear(op)' <=> WillClear(op)
      /\ \A op, M, B : HeadOK(op, M, B)' <=> HeadOK(op, M, B)
  BY DEF TabStep, OpOK, WillClear, HeadOK, Active, Gen, Quiet
<1>5. \A q, M, B : QueueOK(q, M, B)' <=> QueueOK(q, M, B)
  BY <1>4 DEF QueueOK, Quiet
<1>6. TabOK(t)'
  <2>1. Due(t)'
    BY <1>2, <1>4 DEF Due, DueIn, TabStep
  <2>2. /\ WipedOK(tab[t], adopting[t])'
        /\ QueueOK(queue[t], tab[t], adopting[t])'
        /\ lock' = t => HeadOK(queue[t][1], tab[t], adopting[t])'
    <3>1. WipedOK(tab[t], adopting[t])'
      BY <1>2 DEF WipedOK
    <3>2. QueueOK(queue[t], tab[t], adopting[t])'
      BY <1>2, <1>4 DEF QueueOK, Quiet
    <3>3. lock' = t => HeadOK(queue[t][1], tab[t], adopting[t])'
      BY <1>2 DEF HeadOK, TabStep, Active, Gen, Quiet
    <3>4. QED
      BY <3>1, <3>2, <3>3
  <2>3. QED
    BY <2>1, <2>2 DEF TabOK
<1>7. ASSUME NEW u \in Tabs \ {t} PROVE TabOK(u)'
  <2>1. /\ TabOK(u) /\ queue'[u] = queue[u] /\ tab'[u] = tab[u] /\ adopting'[u] = adopting[u]
        /\ lock' = u => lock = u
    BY <1>1, <1>2, BrowserAssumption DEF IInv, Lock
  <2>2. WipedOK(tab[u], adopting[u])'
    BY <2>1 DEF TabOK, WipedOK
  <2>3. QueueOK(queue[u], tab[u], adopting[u])'
    BY <2>1, <1>4 DEF TabOK, QueueOK, Quiet
  <2>4. lock' = u => HeadOK(queue[u][1], tab[u], adopting[u])'
    BY <2>1 DEF TabOK, HeadOK, TabStep, Active, Gen, Quiet
  <2>5. Due(u)'
    BY <2>1, <1>4 DEF TabOK, Due, TabStep, Messages, News, Active
  <2>6. QED
    BY <2>2, <2>3, <2>4, <2>5 DEF TabOK
<1>8. QED
  BY <1>3, <1>6, <1>7 DEF IInv

----------------------------------------------------------------------------
(***************************************************************************)
(* A queue made from another: what is left of the old operations, k of     *)
(* them gone from the front, the first perhaps in a new phase, and perhaps *)
(* a new one at the end.                                                   *)
(***************************************************************************)
Older(q, p, k, i) == i + k \in DOMAIN q /\ Fades(q[i + k], p[i])

Front(q, p, k, i, m, A) ==
  /\ i = 1 /\ k = 0 /\ i \in DOMAIN q
  /\ OpOK(p[1])
  /\ p[1].current => q[1].current
  /\ p[1].kind = "clear" /\ p[1].current => Quiet(m, A)

Newest(p, i, m, A) ==
  /\ i = Len(p) /\ p[i].phase = "queued" /\ OpOK(p[i])
  /\ p[i].kind = "clear" => Quiet(m, A) /\ \A j \in 1 .. (i - 1) : ~p[j].current

\* Such a queue is in order.
LEMMA QueueKept ==
  ASSUME NEW q \in Seq(Operation), NEW M, NEW B, QueueOK(q, M, B),
         NEW p \in Seq(Operation), NEW m, NEW A, NEW k \in {0, 1},
         \A i \in DOMAIN p : Older(q, p, k, i) \/ Front(q, p, k, i, m, A) \/ Newest(p, i, m, A),
         \A i \in DOMAIN q : q[i].kind = "clear" /\ q[i].current => Quiet(m, A)
  PROVE  QueueOK(p, m, A)
<1>1. DOMAIN p = 1 .. Len(p) /\ Len(p) \in Nat /\ DOMAIN q = 1 .. Len(q) /\ Len(q) \in Nat
  OBVIOUS
<1>2. SUFFICES ASSUME NEW i \in DOMAIN p
               PROVE  /\ OpOK(p[i])
                      /\ i # 1 => p[i].phase = "queued"
                      /\ p[i].kind = "clear" /\ p[i].current =>
                           Quiet(m, A) /\ \A j \in 1 .. (i - 1) : ~p[j].current
  BY DEF QueueOK
<1>3. CASE Older(q, p, k, i)
  <2>1. i + k \in DOMAIN q /\ (i # 1 => i + k # 1) /\ i \in Nat /\ i + k \in Nat
    BY <1>1, <1>3 DEF Older
  <2>2. /\ OpOK(q[i + k]) /\ (i + k # 1 => q[i + k].phase = "queued")
        /\ q[i + k].kind = "clear" /\ q[i + k].current => \A j \in 1 .. (i + k - 1) : ~q[j].current
    BY <2>1 DEF QueueOK
  <2>3. OpOK(p[i]) /\ (i # 1 => p[i].phase = "queued")
    BY <1>3, <2>1, <2>2 DEF Older, Fades, OpOK
  <2>4. ASSUME p[i].kind = "clear", p[i].current
        PROVE  Quiet(m, A) /\ \A j \in 1 .. (i - 1) : ~p[j].current
    <3>1. q[i + k].kind = "clear" /\ q[i + k].current
      BY <1>3, <2>4 DEF Older, Fades
    <3>2. Quiet(m, A) /\ \A j \in 1 .. (i + k - 1) : ~q[j].current
      BY <3>1, <2>1, <2>2
    <3>3. ASSUME NEW j \in 1 .. (i - 1) PROVE ~p[j].current
      <4>1. j \in DOMAIN p /\ j # Len(p) /\ j + k \in 1 .. (i + k - 1) /\ (k = 0 => j \in 1 .. (i + k - 1))
        <5>1. i \in 1 .. Len(p) /\ Len(p) \in Nat /\ (k = 0 \/ k = 1) /\ k \in Nat
          BY <1>1
        <5>2. j \in Nat /\ 1 <= j /\ j <= i - 1 /\ i \in Nat /\ i <= Len(p)
          BY <5>1
        <5>3. j \in DOMAIN p /\ j # Len(p)
          <6>1. PICK n \in Nat : n = Len(p)
            BY <1>1
          <6>2. j \in 1 .. n /\ j # n
            BY <5>2, <6>1
          <6>3. QED
            BY <1>1, <6>1, <6>2, Zenon
        <5>4. CASE k = 0
          BY <5>2, <5>3, <5>4
        <5>5. CASE k = 1
          BY <5>2, <5>3, <5>5
        <5>6. QED
          BY <5>1, <5>4, <5>5
      <4>2. ~q[j + k].current /\ (k = 0 => ~q[j].current)
        BY <3>2, <4>1
      <4>3. QED
        BY <4>1, <4>2 DEF Older, Front, Newest, Fades
    <3>4. QED
      BY <3>2, <3>3
  <2>5. QED
    BY <2>3, <2>4
<1>4. CASE Front(q, p, k, i, m, A)
  BY <1>4 DEF Front
<1>5. CASE Newest(p, i, m, A)
  BY <1>5 DEF Newest
<1>6. QED
  BY <1>2, <1>3, <1>4, <1>5

QuietKept(t, m, A) ==
  \A i \in DOMAIN queue[t] :
    queue[t][i].kind = "clear" /\ queue[t][i].current => Quiet(m, A)

\* The first operation of a tab is over, or gives way; r is what is left.
LEMMA Ended ==
  ASSUME IInv, NEW t \in Tabs, queue[t] # << >>,
         NEW r, Faded(Tail(queue[t]), r), NEW m \in Memory, NEW A \in SUBSET Adoption,
         TabStep(t, r, m, A), Messages(t), News(t), lock' # t, lock' \in {None, lock},
         WipedOK(m, A), QuietKept(t, m, A), DueIn(t, r, m)
  PROVE  IInv'
<1>1. queue[t] \in Seq(Operation) /\ QueueOK(queue[t], tab[t], adopting[t])
  BY DEF IInv, Shape, TabOK
<1>2. PICK q \in Seq(Operation) : q = queue[t]
  BY <1>1
<1>3. \A i \in DOMAIN r : i + 1 \in DOMAIN q /\ Fades(q[i + 1], r[i])
  <2>1. /\ DOMAIN q = 1 .. Len(q) /\ Len(q) \in Nat \ {0}
        /\ DOMAIN Tail(q) = 1 .. Len(q) - 1
        /\ \A i \in 1 .. Len(q) - 1 : Tail(q)[i] = q[i + 1]
    BY <1>2, TailFacts
  <2>2. DOMAIN r = DOMAIN Tail(q) /\ \A i \in DOMAIN Tail(q) : Fades(Tail(q)[i], r[i])
    BY <1>2 DEF Faded
  <2>3. \A i \in 1 .. Len(q) - 1 : i + 1 \in 1 .. Len(q)
    BY <2>1
  <2>4. QED
    BY <2>1, <2>2, <2>3
<1>4. r \in Seq(Operation)
  BY DEF Faded
<1>5. QueueOK(r, m, A)
  <2>1. \A i \in DOMAIN r : Older(q, r, 1, i)
    BY <1>3 DEF Older
  <2>2. \A i \in DOMAIN q : q[i].kind = "clear" /\ q[i].current => Quiet(m, A)
    BY <1>2 DEF QuietKept
  <2>3. QED
    BY <1>1, <1>2, <1>4, <2>1, <2>2, QueueKept
<1>6. Lock(t, r)
  BY DEF Lock
<1>7. QED
  BY <1>4, <1>5, <1>6, OneTab

\* The running operation goes on as op; r is what waits behind it.
LEMMA Continued ==
  ASSUME IInv, NEW t \in Tabs, queue[t] # << >>, NEW op \in Operation,
         NEW r, Faded(Tail(queue[t]), r), NEW m \in Memory, NEW A \in SUBSET Adoption,
         TabStep(t, <<op>> \o r, m, A), Messages(t), News(t), lock' = t,
         WipedOK(m, A), QuietKept(t, m, A), DueIn(t, <<op>> \o r, m),
         OpOK(op), HeadOK(op, m, A), op.current => queue[t][1].current,
         op.kind = "clear" => queue[t][1].kind = "clear"
  PROVE  IInv'
<1>1. queue[t] \in Seq(Operation) /\ QueueOK(queue[t], tab[t], adopting[t])
  BY DEF IInv, Shape, TabOK
<1>2. PICK q \in Seq(Operation) : q = queue[t]
  BY <1>1
<1>3. PICK p : p = <<op>> \o r
  OBVIOUS
<1>4. /\ DOMAIN q = 1 .. Len(q) /\ Len(q) \in Nat \ {0}
      /\ DOMAIN Tail(q) = 1 .. Len(q) - 1
      /\ \A i \in 1 .. Len(q) - 1 : Tail(q)[i] = q[i + 1]
  BY <1>2, TailFacts
<1>5. /\ r \in Seq(Operation) /\ DOMAIN r = DOMAIN Tail(q) /\ Len(r) = Len(Tail(q))
      /\ \A i \in DOMAIN Tail(q) : Fades(Tail(q)[i], r[i])
  BY <1>2 DEF Faded
<1>6. /\ p \in Seq(Operation) /\ p # << >>
      /\ DOMAIN r = 1 .. Len(r) /\ Len(r) \in Nat
      /\ DOMAIN p = 1 .. Len(r) + 1
      /\ p[1] = op
      /\ \A i \in 1 .. Len(r) : p[i + 1] = r[i]
  BY <1>3, <1>5, ConsFacts
<1>7. \A i \in DOMAIN p : i # 1 => i \in DOMAIN q /\ Fades(q[i], p[i])
  <2>1. SUFFICES ASSUME NEW i \in DOMAIN p, i # 1 PROVE i \in DOMAIN q /\ Fades(q[i], p[i])
    OBVIOUS
  <2>2. PICK j \in 1 .. Len(r) : i = j + 1
    <3>1. PICK n \in Nat : n = Len(r) /\ i \in 1 .. n + 1
      BY <1>6, Zenon
    <3>2. i - 1 \in 1 .. n /\ i = (i - 1) + 1
      BY <2>1, <3>1
    <3>3. QED
      BY <3>1, <3>2, Zenon
  <2>3. j \in DOMAIN Tail(q) /\ p[i] = r[j] /\ Tail(q)[j] = q[i] /\ i \in DOMAIN q
    BY <1>4, <1>5, <1>6, <2>2
  <2>4. QED
    BY <1>5, <2>3
<1>8. QueueOK(p, m, A)
  <2>1. \A i \in DOMAIN q : q[i].kind = "clear" /\ q[i].current => Quiet(m, A)
    BY <1>2 DEF QuietKept
  <2>2. 1 \in DOMAIN q
    BY <1>4
  <2>3. ASSUME NEW i \in DOMAIN p PROVE Older(q, p, 0, i) \/ Front(q, p, 0, i, m, A)
    <3>1. CASE i = 1
      BY <1>2, <1>6, <2>1, <2>2, <3>1 DEF Front
    <3>2. CASE i # 1
      <4>1. i + 0 = i
        BY <1>6
      <4>2. QED
        BY <1>7, <3>2, <4>1 DEF Older
    <3>3. QED
      BY <3>1, <3>2
  <2>4. QED
    BY <1>1, <1>2, <1>6, <2>1, <2>3, QueueKept
<1>9. Lock(t, p)
  BY <1>6 DEF Lock
<1>10. QED
  BY <1>3, <1>6, <1>8, <1>9, OneTab

\* A call, or a message, puts an operation at the end of the queue.
LEMMA Appended ==
  ASSUME IInv, NEW t \in Tabs, NEW op \in Operation,
         NEW r, Faded(queue[t], r), NEW m \in Memory, NEW A \in SUBSET Adoption,
         TabStep(t, Append(r, op), m, A), Messages(t), News(t), lock' = lock,
         WipedOK(m, A), QuietKept(t, m, A), DueIn(t, Append(r, op), m),
         OpOK(op), op.phase = "queued",
         op.kind = "clear" => Quiet(m, A) /\ \A i \in DOMAIN r : ~r[i].current,
         Quiet(tab[t], adopting[t]) => Quiet(m, A)
  PROVE  IInv'
<1>1. queue[t] \in Seq(Operation) /\ QueueOK(queue[t], tab[t], adopting[t])
  BY DEF IInv, Shape, TabOK
<1>2. PICK q \in Seq(Operation) : q = queue[t]
  BY <1>1
<1>3. PICK p : p = Append(r, op)
  OBVIOUS
<1>4. /\ r \in Seq(Operation) /\ DOMAIN r = DOMAIN q /\ Len(r) = Len(q)
      /\ \A i \in DOMAIN q : Fades(q[i], r[i])
  BY <1>2 DEF Faded
<1>5. /\ p \in Seq(Operation) /\ p # << >>
      /\ DOMAIN r = 1 .. Len(r) /\ Len(r) \in Nat
      /\ DOMAIN p = 1 .. Len(r) + 1
      /\ \A i \in 1 .. Len(r) : p[i] = r[i]
      /\ p[Len(r) + 1] = op
  BY <1>3, <1>4, AppendFacts
<1>6. Len(p) = Len(r) + 1
  BY <1>3, <1>4
<1>7. QueueOK(p, m, A)
  <2>1. \A i \in DOMAIN q : q[i].kind = "clear" /\ q[i].current => Quiet(m, A)
    BY <1>2 DEF QuietKept
  <2>2. ASSUME NEW i \in DOMAIN p PROVE Older(q, p, 0, i) \/ Newest(p, i, m, A)
    <3>1. CASE i = Len(r) + 1
      <4>1. \A j \in 1 .. (i - 1) : j \in DOMAIN r /\ p[j] = r[j]
        BY <1>5, <3>1
      <4>2. QED
        BY <1>5, <1>6, <3>1, <4>1 DEF Newest
    <3>2. CASE i # Len(r) + 1
      <4>1. i + 0 = i /\ i \in 1 .. Len(r)
        BY <1>5, <3>2
      <4>2. QED
        BY <1>4, <1>5, <4>1 DEF Older
    <3>3. QED
      BY <3>1, <3>2
  <2>3. QED
    BY <1>1, <1>2, <1>5, <2>1, <2>2, QueueKept
<1>8. Lock(t, p)
  BY <1>5 DEF Lock
<1>9. ASSUME lock' = t PROVE HeadOK(p[1], m, A)
  <2>1. q # << >> /\ HeadOK(q[1], tab[t], adopting[t])
    BY <1>2, <1>9, BrowserAssumption DEF IInv, Shape, TabOK
  <2>2. 1 \in DOMAIN q /\ p[1] = r[1] /\ Fades(q[1], r[1])
    <3>1. 1 \in DOMAIN q
      BY <2>1, TailFacts
    <3>2. QED
      BY <1>4, <1>5, <3>1
  <2>3. QED
    BY <2>1, <2>2 DEF HeadOK, Fades
<1>10. QED
  BY <1>3, <1>5, <1>7, <1>8, <1>9, OneTab

\* No operation comes or goes.
LEMMA InPlace ==
  ASSUME IInv, NEW t \in Tabs,
         NEW r, Faded(queue[t], r), NEW m \in Memory, NEW A \in SUBSET Adoption,
         TabStep(t, r, m, A), Messages(t), News(t), lock' = lock,
         WipedOK(m, A), QuietKept(t, m, A), DueIn(t, r, m),
         lock = t => HeadOK(queue[t][1], m, A)
  PROVE  IInv'
<1>1. queue[t] \in Seq(Operation) /\ QueueOK(queue[t], tab[t], adopting[t])
  BY DEF IInv, Shape, TabOK
<1>2. PICK q \in Seq(Operation) : q = queue[t]
  BY <1>1
<1>3. /\ r \in Seq(Operation) /\ DOMAIN r = DOMAIN q /\ Len(r) = Len(q)
      /\ \A i \in DOMAIN q : Fades(q[i], r[i])
  BY <1>2 DEF Faded
<1>4. QueueOK(r, m, A)
  <2>1. \A i \in DOMAIN q : q[i].kind = "clear" /\ q[i].current => Quiet(m, A)
    BY <1>2 DEF QuietKept
  <2>2. \A i \in DOMAIN r : i + 0 = i
    BY <1>3
  <2>3. \A i \in DOMAIN r : Older(q, r, 0, i)
    BY <1>3, <2>2 DEF Older
  <2>4. QED
    BY <1>1, <1>2, <1>3, <2>1, <2>3, QueueKept
<1>5. lock = t => q # << >> /\ 1 \in DOMAIN q /\ r # << >>
  <2>1. lock = t => q # << >>
    BY <1>2, BrowserAssumption DEF IInv, Shape
  <2>2. q # << >> => 1 \in DOMAIN q
    BY TailFacts
  <2>3. 1 \in DOMAIN r => r # << >>
    OBVIOUS
  <2>4. QED
    BY <1>3, <2>1, <2>2, <2>3
<1>6. Lock(t, r)
  BY <1>5 DEF Lock
<1>7. lock' = t => HeadOK(r[1], m, A)
  BY <1>2, <1>3, <1>5 DEF HeadOK, Fades
<1>8. QED
  BY <1>3, <1>4, <1>6, <1>7, OneTab

----------------------------------------------------------------------------
(***************************************************************************)
(* Messages.                                                               *)
(***************************************************************************)
Contains(box, msg) == \E i \in DOMAIN box : box[i] = msg

\* A message is still there when another is added ...
LEMMA StillThere ==
  ASSUME NEW S, NEW box \in Seq(S), NEW x \in S, NEW msg
  PROVE  /\ Contains(box, msg) => Contains(Append(box, x), msg)
         /\ Contains(Append(box, x), x)
<1>1. PICK p : p = Append(box, x)
  OBVIOUS
<1>2. /\ DOMAIN box = 1 .. Len(box) /\ Len(box) \in Nat
      /\ DOMAIN p = 1 .. Len(box) + 1
      /\ \A i \in 1 .. Len(box) : p[i] = box[i]
      /\ p[Len(box) + 1] = x
  BY <1>1, AppendFacts
<1>3. \A i \in DOMAIN box : i \in DOMAIN p
  BY <1>2
<1>4. Len(box) + 1 \in DOMAIN p
  BY <1>2
<1>5. QED
  BY <1>1, <1>2, <1>3, <1>4 DEF Contains

\* ... or taken from the front.
LEMMA StillBehind ==
  ASSUME NEW S, NEW box \in Seq(S), box # << >>, NEW msg, Contains(box, msg), Head(box) # msg
  PROVE  Contains(Tail(box), msg)
<1>1. PICK q : q = Tail(box)
  OBVIOUS
<1>2. /\ DOMAIN box = 1 .. Len(box) /\ Len(box) \in Nat \ {0}
      /\ DOMAIN q = 1 .. Len(box) - 1
      /\ \A j \in 1 .. Len(box) - 1 : q[j] = box[j + 1]
      /\ Head(box) = box[1]
  BY <1>1, TailFacts
<1>3. PICK i \in DOMAIN box : box[i] = msg
  BY DEF Contains
<1>4. i # 1
  BY <1>2, <1>3
<1>5. PICK n \in Nat : n = Len(box) /\ i \in 1 .. n
  BY <1>2, Zenon
<1>6. i - 1 \in 1 .. n - 1 /\ (i - 1) + 1 = i
  BY <1>4, <1>5
<1>7. PICK j : j \in 1 .. n - 1 /\ j + 1 = i
  BY <1>6
<1>8. j \in DOMAIN q /\ q[j] = box[i]
  BY <1>2, <1>5, <1>7
<1>9. QED
  BY <1>1, <1>3, <1>8 DEF Contains

\* Nothing is said.
LEMMA NothingSaid ==
  ASSUME Shape, NEW t \in Tabs, minted' = minted, version' = version,
         inbox' = inbox, announced' = announced
  PROVE  Messages(t) /\ News(t) /\ (Told(t) => Told(t)')
BY SameTypes DEF Shape, Messages, News, Told, Gen

\* What is broadcast arrives at the other tabs.
LEMMA Heard ==
  ASSUME Shape, NEW t \in Tabs, minted' = minted, version' = version,
         NEW msg \in Message, Broadcast(t, msg)
  PROVE  /\ Messages(t) /\ (Told(t) => Told(t)')
         /\ msg = [type |-> "clear", gen |-> Gen(version)] => \A u \in Tabs \ {t} : Told(u)'
<1>1. /\ inbox' \in [Tabs -> Seq(Message)] /\ inbox'[t] = inbox[t]
      /\ \A u \in Tabs \ {t} : inbox'[u] = Append(inbox[u], msg)
      /\ \A u \in Tabs : inbox[u] \in Seq(Message)
  BY DEF Shape, Broadcast
<1>2. PICK news : news = [type |-> "clear", gen |-> Gen(version)]
  OBVIOUS
<1>3. \A u \in Tabs : /\ Told(u) <=> Contains(inbox[u], news)
                      /\ Told(u)' <=> Contains(inbox'[u], news)
  BY <1>2 DEF Told, Gen, Contains
<1>4. ASSUME NEW u \in Tabs \ {t}
      PROVE  (Told(u) => Told(u)') /\ (msg = news => Told(u)')
  <2>1. PICK box \in Seq(Message) : box = inbox[u]
    BY <1>1
  <2>2. inbox'[u] = Append(box, msg)
    BY <1>1, <2>1
  <2>3. /\ Contains(box, news) => Contains(Append(box, msg), news)
        /\ Contains(Append(box, msg), msg)
    BY <2>1, StillThere
  <2>4. QED
    BY <1>3, <2>1, <2>2, <2>3
<1>5. QED
  BY <1>1, <1>2, <1>3, <1>4, SameTypes DEF Messages

\* A tab that takes a message off its channel and sends none.
LEMMA Taken ==
  ASSUME Shape, NEW t \in Tabs, minted' = minted, version' = version, announced' = announced,
         inbox[t] # << >>, inbox' = [inbox EXCEPT ![t] = Tail(inbox[t])]
  PROVE  /\ Messages(t) /\ News(t)
         /\ Head(inbox[t]) \in Message
         /\ Told(t) => Told(t)' \/ Head(inbox[t]) = [type |-> "clear", gen |-> Gen(version)]
<1>1. /\ inbox' \in [Tabs -> Seq(Message)] /\ inbox'[t] = Tail(inbox[t])
      /\ \A u \in Tabs \ {t} : inbox'[u] = inbox[u]
      /\ inbox[t] \in Seq(Message) /\ Head(inbox[t]) \in Message
  BY TailFacts DEF Shape
<1>2. PICK news : news = [type |-> "clear", gen |-> Gen(version)]
  OBVIOUS
<1>3. \A u \in Tabs : /\ Told(u) <=> Contains(inbox[u], news)
                      /\ Told(u)' <=> Contains(inbox'[u], news)
  BY <1>2 DEF Told, Gen, Contains
<1>4. PICK box \in Seq(Message) : box = inbox[t]
  BY <1>1
<1>5. Head(box) # news /\ Contains(box, news) => Contains(Tail(box), news)
  BY <1>4, StillBehind
<1>6. Told(t) => Told(t)' \/ Head(inbox[t]) = news
  BY <1>1, <1>3, <1>4, <1>5
<1>7. QED
  BY <1>1, <1>2, <1>3, <1>6, SameTypes DEF Messages, News, Shape

----------------------------------------------------------------------------
\* A tab that keeps its token keeps what will take it away.
LEMMA DueKept ==
  ASSUME IInv, NEW t \in Tabs, NEW p, NEW m, m.token = tab[t].token \/ m.token = None,
         announced' = announced, Told(t) => Told(t)',
         (version # None /\ ~version.active) =>
           \A i \in DOMAIN queue[t] : WillClear(queue[t][i]) => \E j \in DOMAIN p : WillClear(p[j])
  PROVE  DueIn(t, p, m)
BY DEF IInv, TabOK, Due, DueIn

\* So it is when the first operation is over and was not the one ...
LEMMA DueTail ==
  ASSUME IInv, NEW t \in Tabs, NEW m, m.token = tab[t].token \/ m.token = None,
         announced' = announced, Told(t) => Told(t)', queue[t] # << >>,
         (version # None /\ ~version.active) => ~WillClear(queue[t][1])
  PROVE  DueIn(t, Tail(queue[t]), m)
<1>1. PICK q \in Seq(Operation) : q = queue[t]
  BY DEF IInv, Shape
<1>2. PICK p : p = Tail(q)
  OBVIOUS
<1>3. /\ DOMAIN q = 1 .. Len(q) /\ Len(q) \in Nat \ {0}
      /\ DOMAIN p = 1 .. Len(q) - 1
      /\ \A i \in 1 .. Len(q) - 1 : p[i] = q[i + 1]
  BY <1>1, <1>2, TailFacts
<1>4. ASSUME version # None /\ ~version.active, NEW i \in DOMAIN q, WillClear(q[i])
      PROVE  \E j \in DOMAIN p : WillClear(p[j])
  <2>1. i # 1
    BY <1>1, <1>4
  <2>2. PICK n \in Nat : n = Len(q) /\ i \in 1 .. n
    BY <1>3, Zenon
  <2>3. i - 1 \in 1 .. n - 1 /\ (i - 1) + 1 = i
    BY <2>1, <2>2
  <2>4. PICK j : j \in 1 .. n - 1 /\ j + 1 = i
    BY <2>3
  <2>5. j \in DOMAIN p /\ p[j] = q[i]
    BY <1>3, <2>2, <2>4
  <2>6. QED
    BY <1>4, <2>5
<1>5. QED
  BY <1>1, <1>2, <1>4, DueKept

\* ... or goes on and still is.
LEMMA DueFront ==
  ASSUME IInv, NEW t \in Tabs, NEW m, m.token = tab[t].token \/ m.token = None,
         announced' = announced, Told(t) => Told(t)', queue[t] # << >>,
         NEW op \in Operation, WillClear(queue[t][1]) => WillClear(op)
  PROVE  DueIn(t, <<op>> \o Tail(queue[t]), m)
<1>1. PICK q \in Seq(Operation) : q = queue[t]
  BY DEF IInv, Shape
<1>2. PICK r : r = Tail(q)
  OBVIOUS
<1>3. /\ r \in Seq(Operation)
      /\ DOMAIN q = 1 .. Len(q) /\ Len(q) \in Nat \ {0}
      /\ DOMAIN r = 1 .. Len(q) - 1
      /\ \A i \in 1 .. Len(q) - 1 : r[i] = q[i + 1]
  BY <1>1, <1>2, TailFacts
<1>4. PICK p : p = <<op>> \o r
  OBVIOUS
<1>5. r \in Seq(Operation)
  BY <1>3
<1>6. /\ DOMAIN r = 1 .. Len(r) /\ Len(r) \in Nat
      /\ DOMAIN p = 1 .. Len(r) + 1
      /\ p[1] = op
      /\ \A i \in 1 .. Len(r) : p[i + 1] = r[i]
  BY <1>4, <1>5, ConsFacts
<1>7. ASSUME NEW i \in DOMAIN q, WillClear(q[i])
      PROVE  \E j \in DOMAIN p : WillClear(p[j])
  <2>1. CASE i = 1
    <3>1. 1 \in DOMAIN p
      BY <1>6
    <3>2. QED
      BY <1>1, <1>6, <1>7, <2>1, <3>1
  <2>2. CASE i # 1
    <3>1. PICK n \in Nat : n = Len(q) /\ i \in 1 .. n
      BY <1>3, Zenon
    <3>2. i - 1 \in 1 .. n - 1 /\ (i - 1) + 1 = i
      BY <2>2, <3>1
    <3>3. PICK j : j \in 1 .. n - 1 /\ j + 1 = i
      BY <3>2
    <3>4. j \in DOMAIN r /\ r[j] = q[i]
      BY <1>3, <3>1, <3>3
    <3>5. p[i] = r[j] /\ i \in DOMAIN p
      BY <1>6, <3>3, <3>4
    <3>6. QED
      BY <1>7, <3>4, <3>5
  <2>3. QED
    BY <2>1, <2>2
<1>8. QED
  BY <1>1, <1>2, <1>4, <1>7, DueKept

----------------------------------------------------------------------------
\* What the invariant says of tab t.
LEMMA AboutTab ==
  ASSUME IInv, NEW t \in Tabs
  PROVE  /\ Shape /\ TabOK(t)
         /\ queue[t] \in Seq(Operation) /\ tab[t] \in Memory /\ adopting[t] \in SUBSET Adoption
         /\ t # None
         /\ lock = t => queue[t] # << >>
         /\ queue[t] # << >> =>
              /\ Head(queue[t]) = queue[t][1] /\ queue[t][1] \in Operation
              /\ 1 \in DOMAIN queue[t] /\ OpOK(queue[t][1])
              /\ Faded(Tail(queue[t]), Tail(queue[t]))
<1>1. /\ Shape /\ TabOK(t)
      /\ queue[t] \in Seq(Operation) /\ tab[t] \in Memory /\ adopting[t] \in SUBSET Adoption
      /\ t # None
      /\ lock = t => queue[t] # << >>
  BY BrowserAssumption DEF IInv, Shape
<1>2. ASSUME queue[t] # << >>
      PROVE  /\ Head(queue[t]) = queue[t][1] /\ queue[t][1] \in Operation
             /\ 1 \in DOMAIN queue[t] /\ Tail(queue[t]) \in Seq(Operation)
  <2>1. /\ Head(queue[t]) = queue[t][1] /\ queue[t][1] \in Operation
        /\ Tail(queue[t]) \in Seq(Operation)
        /\ DOMAIN queue[t] = 1 .. Len(queue[t]) /\ Len(queue[t]) \in Nat \ {0}
    BY <1>1, <1>2, TailFacts
  <2>2. QED
    BY <2>1
<1>3. ASSUME queue[t] # << >> PROVE OpOK(queue[t][1])
  BY <1>1, <1>2, <1>3 DEF TabOK, QueueOK
<1>4. ASSUME queue[t] # << >> PROVE Faded(Tail(queue[t]), Tail(queue[t]))
  BY <1>2, <1>4 DEF Faded, Fades
<1>5. QED
  BY <1>1, <1>2, <1>3, <1>4

\* While anything else runs no clear has its authority behind it.
LEMMA NoClearBehind ==
  ASSUME IInv, NEW t \in Tabs, queue[t] # << >>, queue[t][1].current,
         queue[t][1].kind # "clear", NEW m, NEW A
  PROVE  QuietKept(t, m, A)
<1>1. QueueOK(queue[t], tab[t], adopting[t]) /\ 1 \in DOMAIN queue[t] /\ queue[t] \in Seq(Operation)
  BY AboutTab DEF TabOK
<1>2. ASSUME NEW i \in DOMAIN queue[t], queue[t][i].kind = "clear", queue[t][i].current
      PROVE  FALSE
  <2>1. i # 1 /\ \A j \in 1 .. (i - 1) : ~queue[t][j].current
    BY <1>1, <1>2 DEF QueueOK
  <2>2. PICK n \in Nat : i \in 1 .. n
    BY <1>1, <1>2
  <2>3. 1 \in 1 .. (i - 1)
    BY <2>1, <2>2
  <2>4. QED
    BY <2>1, <2>3
<1>3. QED
  BY <1>2 DEF QuietKept

\* A tab that is quiet stays so.
LEMMA StaysQuiet ==
  ASSUME IInv, NEW t \in Tabs, NEW m, NEW A,
         Quiet(tab[t], adopting[t]) => Quiet(m, A)
  PROVE  QuietKept(t, m, A)
BY AboutTab DEF QuietKept, TabOK, QueueOK

\* The first operation goes on, with nothing but itself changed.
LEMMA Proceeded ==
  ASSUME IInv, NEW t \in Tabs, queue[t] # << >>, NEW op \in Operation,
         NEW A \in SUBSET Adoption, A \subseteq adopting[t],
         queue' = [queue EXCEPT ![t] = <<op>> \o Tail(queue[t])], tab' = tab,
         adopting' = [adopting EXCEPT ![t] = A],
         lock' = t, version' = version, minted' = minted, announced' = announced,
         Messages(t), Told(t) => Told(t)',
         OpOK(op), HeadOK(op, tab[t], A), op.kind = queue[t][1].kind,
         op.current => queue[t][1].current, WillClear(queue[t][1]) => WillClear(op)
  PROVE  IInv'
<1>1. PICK r : r = Tail(queue[t])
  OBVIOUS
<1>2. PICK m \in Memory : m = tab[t]
  BY AboutTab
<1>3. Faded(Tail(queue[t]), r)
  BY <1>1, AboutTab
<1>4. TabStep(t, <<op>> \o r, m, A)
  BY <1>1, <1>2, AboutTab DEF TabStep, Shape
<1>5. News(t)
  BY AboutTab DEF News, Shape
<1>6. WipedOK(m, A)
  BY <1>2, AboutTab DEF WipedOK, TabOK
<1>7. QuietKept(t, m, A)
  BY <1>2, StaysQuiet DEF Quiet
<1>8. DueIn(t, <<op>> \o r, m)
  BY <1>1, <1>2, DueFront
<1>9. QED
  BY <1>2, <1>3, <1>4, <1>5, <1>6, <1>7, <1>8, Continued

\* The first operation is over, and its tab keeps what it had.
LEMMA Dropped ==
  ASSUME IInv, NEW t \in Tabs, queue[t] # << >>,
         NEW m \in Memory, m.token = tab[t].token, m.accept = tab[t].accept,
         m.wiped = tab[t].wiped,
         NEW A \in SUBSET Adoption, A \subseteq adopting[t],
         queue' = [queue EXCEPT ![t] = Tail(queue[t])], tab' = [tab EXCEPT ![t] = m],
         adopting' = [adopting EXCEPT ![t] = A],
         lock' # t, lock' \in {None, lock},
         version' = version, minted' = minted, announced' = announced,
         Messages(t), Told(t) => Told(t)',
         (version # None /\ ~version.active) => ~WillClear(queue[t][1])
  PROVE  IInv'
<1>1. PICK r : r = Tail(queue[t])
  OBVIOUS
<1>2. Faded(Tail(queue[t]), r)
  BY <1>1, AboutTab
<1>3. TabStep(t, r, m, A)
  BY <1>1 DEF TabStep
<1>4. News(t)
  BY AboutTab DEF News, Shape
<1>5. WipedOK(m, A)
  BY AboutTab DEF WipedOK, TabOK
<1>6. QuietKept(t, m, A)
  BY StaysQuiet DEF Quiet
<1>7. DueIn(t, r, m)
  BY <1>1, DueTail
<1>8. QED
  BY <1>2, <1>3, <1>4, <1>5, <1>6, <1>7, Ended

\* A tab is cleared and the operation that did so is over ...
LEMMA WipedAndEnded ==
  ASSUME IInv, NEW t \in Tabs, queue[t] # << >>, NEW r, Faded(Tail(queue[t]), r),
         NEW m \in Memory, Quiet(m, {}), TabStep(t, r, m, {}), lock' = None,
         inbox' = inbox, announced' = announced
  PROVE  IInv'
<1>1. Messages(t) /\ News(t)
  BY AboutTab, NothingSaid DEF TabStep
<1>2. WipedOK(m, {}) /\ QuietKept(t, m, {}) /\ DueIn(t, r, m)
  BY DEF Quiet, WipedOK, QuietKept, DueIn
<1>3. lock' # t /\ lock' \in {None, lock} /\ {} \in SUBSET Adoption
  BY AboutTab
<1>4. QED
  BY <1>1, <1>2, <1>3, Ended

\* ... or goes on.
LEMMA WipedAndContinued ==
  ASSUME IInv, NEW t \in Tabs, queue[t] # << >>, NEW r, Faded(Tail(queue[t]), r),
         NEW op \in Operation, NEW m \in Memory, Quiet(m, {}),
         TabStep(t, <<op>> \o r, m, {}), lock' = t,
         inbox' = inbox, announced' = announced,
         op.current => queue[t][1].current, op.fresh = queue[t][1].fresh,
         op.kind # "clear", op.phase = "deactivating"
  PROVE  IInv'
<1>1. Messages(t) /\ News(t)
  BY AboutTab, NothingSaid DEF TabStep
<1>2. WipedOK(m, {}) /\ QuietKept(t, m, {}) /\ DueIn(t, <<op>> \o r, m)
  BY DEF Quiet, WipedOK, QuietKept, DueIn
<1>3. OpOK(op) /\ HeadOK(op, m, {})
  BY AboutTab DEF OpOK, HeadOK
<1>4. {} \in SUBSET Adoption
  OBVIOUS
<1>5. QED
  BY <1>1, <1>2, <1>3, <1>4, Continued

----------------------------------------------------------------------------
(***************************************************************************)
(* Calls.                                                                  *)
(***************************************************************************)
\* A new operation is in order, a clear if it is about a binding of its tab.
LEMMA NewOpOK ==
  ASSUME IInv, NEW t \in Tabs, NEW kind \in Kinds, NEW binding \in Binding
  PROVE  LET op == NewOp(t, kind, binding) IN
         /\ op \in Operation /\ OpOK(op) /\ op.phase = "queued" /\ op.current
         /\ op.kind = kind /\ op.binding = binding
<1>1. tab[t].token \in Binding /\ Gen(version) \in Binding
  BY AboutTab DEF Shape, Memory, Gen, Record, Binding
<1>2. PICK had \in Binding, entry \in Binding : had = tab[t].token /\ entry = Gen(version)
  BY <1>1
<1>3. PICK op : op = [kind |-> kind, phase |-> "queued", current |-> TRUE, claims |-> FALSE,
                      had |-> had, binding |-> binding, reading |-> FALSE, fresh |-> TRUE,
                      entry |-> entry]
  OBVIOUS
<1>4. op \in Operation
  BY <1>3 DEF Operation, Phases
<1>5. op.phase = "queued" /\ op.current /\ op.kind = kind /\ op.binding = binding
      /\ op.fresh /\ op.entry = Gen(version)
  BY <1>2, <1>3
<1>6. OpOK(op)
  BY <1>5 DEF OpOK
<1>7. NewOp(t, kind, binding) = op
  BY <1>2, <1>3 DEF NewOp
<1>8. QED
  BY <1>4, <1>5, <1>6, <1>7

\* The last operation of a queue, and those before it.
LEMMA DueAppend ==
  ASSUME IInv, NEW t \in Tabs, NEW r, Faded(queue[t], r), NEW op \in Operation, NEW m,
         m.token = tab[t].token, announced' = announced, version' = version,
         \/ WillClear(op)
         \/ /\ r = queue[t]
            /\ Told(t) => Told(t)'
  PROVE  DueIn(t, Append(r, op), m)
<1>1. r \in Seq(Operation) /\ DOMAIN r = DOMAIN queue[t]
  BY DEF Faded
<1>2. PICK p : p = Append(r, op)
  OBVIOUS
<1>3. /\ DOMAIN r = 1 .. Len(r) /\ Len(r) \in Nat
      /\ DOMAIN p = 1 .. Len(r) + 1
      /\ \A i \in 1 .. Len(r) : p[i] = r[i]
      /\ p[Len(r) + 1] = op
  BY <1>1, <1>2, AppendFacts
<1>4. Len(r) + 1 \in DOMAIN p /\ \A i \in DOMAIN r : i \in DOMAIN p /\ p[i] = r[i]
  BY <1>3
<1>5. CASE WillClear(op)
  BY <1>2, <1>3, <1>4, <1>5, AboutTab DEF DueIn, TabOK, Due
<1>6. CASE r = queue[t] /\ (Told(t) => Told(t)')
  BY <1>2, <1>4, <1>6, DueKept
<1>7. QED
  BY <1>5, <1>6

\* The queue itself has lost nothing.
LEMMA SelfFaded ==
  ASSUME IInv, NEW t \in Tabs
  PROVE  Faded(queue[t], queue[t])
BY AboutTab DEF Faded, Fades

\* login
LEMMA LoginStep ==
  ASSUME IInv, NEW t \in Tabs, login(t) PROVE IInv'
<1>1. PICK r : r = Outdated(queue[t])
  OBVIOUS
<1>2. Faded(queue[t], r)
  BY <1>1, AboutTab, OutdatedFades
<1>3. PICK op : op = NewOp(t, "login", None)
  OBVIOUS
<1>4. /\ op \in Operation /\ OpOK(op) /\ op.phase = "queued" /\ op.current /\ op.kind = "login"
  BY <1>3, NewOpOK DEF Kinds, Binding
<1>5. PICK m : m = [tab[t] EXCEPT !.refreshing = FALSE]
  OBVIOUS
<1>6. m \in Memory /\ m.token = tab[t].token /\ m.accept = tab[t].accept /\ m.wiped = tab[t].wiped
  BY <1>5, AboutTab DEF Memory
<1>7. TabStep(t, Append(r, op), m, {})
  BY <1>1, <1>3, <1>5, AboutTab DEF login, TabStep, Shape
<1>8. /\ Messages(t) /\ News(t) /\ lock' = lock /\ announced' = announced /\ version' = version
  BY AboutTab, NothingSaid DEF login
<1>9. WipedOK(m, {}) /\ (Quiet(tab[t], adopting[t]) => Quiet(m, {}))
  BY <1>6, AboutTab DEF WipedOK, Quiet, TabOK
<1>10. WillClear(op)
  BY <1>4 DEF WillClear
<1>11. QuietKept(t, m, {}) /\ DueIn(t, Append(r, op), m)
  BY <1>2, <1>4, <1>6, <1>8, <1>9, <1>10, StaysQuiet, DueAppend
<1>12. QED
  BY <1>2, <1>4, <1>6, <1>7, <1>8, <1>9, <1>11, Appended

\* A call that only queues an operation.
LEMMA QueuedStep ==
  ASSUME IInv, NEW t \in Tabs, NEW kind \in {"exchange", "logout", "refresh"}, NEW b \in BOOLEAN,
         queue' = [queue EXCEPT ![t] = Append(@, NewOp(t, kind, None))],
         tab' = [tab EXCEPT ![t].refreshing = b],
         UNCHANGED <<version, lock, adopting, inbox, minted, announced>>
  PROVE  IInv'
<1>1. PICK r : r = queue[t]
  OBVIOUS
<1>2. Faded(queue[t], r)
  BY <1>1, SelfFaded
<1>3. PICK op : op = NewOp(t, kind, None)
  OBVIOUS
<1>4. /\ op \in Operation /\ OpOK(op) /\ op.phase = "queued" /\ op.kind # "clear"
  <2>1. kind \in Kinds /\ None \in Binding /\ kind # "clear"
    BY DEF Kinds, Binding
  <2>2. QED
    BY <1>3, <2>1, NewOpOK
<1>5. PICK m : m = [tab[t] EXCEPT !.refreshing = b]
  OBVIOUS
<1>6. m \in Memory /\ m.token = tab[t].token /\ m.accept = tab[t].accept /\ m.wiped = tab[t].wiped
  BY <1>5, AboutTab DEF Memory
<1>7. PICK A \in SUBSET Adoption : A = adopting[t]
  BY AboutTab
<1>8. TabStep(t, Append(r, op), m, A)
  BY <1>1, <1>3, <1>5, <1>7, AboutTab DEF TabStep, Shape
<1>9. /\ Messages(t) /\ News(t) /\ (Told(t) => Told(t)')
      /\ lock' = lock /\ announced' = announced /\ version' = version
  BY AboutTab, NothingSaid
<1>10. WipedOK(m, A) /\ (Quiet(tab[t], adopting[t]) => Quiet(m, A))
  BY <1>6, <1>7, AboutTab DEF WipedOK, Quiet, TabOK
<1>11. QuietKept(t, m, A) /\ DueIn(t, Append(r, op), m)
  BY <1>1, <1>2, <1>4, <1>6, <1>9, <1>10, StaysQuiet, DueAppend
<1>12. QED
  BY <1>2, <1>4, <1>6, <1>8, <1>9, <1>10, <1>11, Appended

\* clear
LEMMA ClearStep ==
  ASSUME IInv, NEW t \in Tabs, clear(t) PROVE IInv'
<1>1. PICK r : r = Unfresh(Aborted(queue[t]))
  OBVIOUS
<1>2. Faded(queue[t], r) /\ \A i \in DOMAIN r : ~r[i].current
  BY <1>1, AboutTab, UnfreshFades DEF Faded
<1>3. PICK op : op = [NewOp(t, "clear", Expected(t)) EXCEPT !.reading = (Expected(t) = None)]
  OBVIOUS
<1>4. op \in Operation /\ OpOK(op) /\ op.phase = "queued"
  <2>1. Expected(t) \in Binding
    BY AboutTab DEF Expected, Shape, Memory
  <2>2. PICK new \in Operation :
          new = NewOp(t, "clear", Expected(t)) /\ OpOK(new) /\ new.phase = "queued"
    BY <2>1, NewOpOK DEF Kinds
  <2>3. PICK b \in BOOLEAN : b = (Expected(t) = None)
    OBVIOUS
  <2>4. /\ op \in Operation /\ op.kind = new.kind /\ op.phase = new.phase
        /\ op.current = new.current /\ op.fresh = new.fresh /\ op.binding = new.binding
        /\ op.entry = new.entry
    BY <1>3, <2>2, <2>3 DEF Operation
  <2>5. QED
    BY <2>2, <2>4 DEF OpOK
<1>5. PICK m : m = Invalidated(tab[t], FALSE)
  OBVIOUS
<1>6. m \in Memory /\ Quiet(m, {})
  BY <1>5, AboutTab DEF Memory, Invalidated, Cleared, Quiet, Binding
<1>7. TabStep(t, Append(r, op), m, {})
  BY <1>1, <1>3, <1>5, AboutTab DEF clear, TabStep, Shape
<1>8. /\ Messages(t) /\ News(t) /\ lock' = lock
  BY AboutTab, NothingSaid DEF clear
<1>9. WipedOK(m, {}) /\ QuietKept(t, m, {}) /\ DueIn(t, Append(r, op), m)
  BY <1>6 DEF WipedOK, Quiet, QuietKept, DueIn
<1>10. QED
  BY <1>2, <1>4, <1>6, <1>7, <1>8, <1>9, Appended

\* readVersion: only what one clear is about changes, and it is on record.
LEMMA ReadVersionStep ==
  ASSUME IInv, NEW t \in Tabs, NEW i \in DOMAIN queue[t], readVersion(t, i) PROVE IInv'
<1>1. PICK q \in Seq(Operation), m \in Memory, A \in SUBSET Adoption :
        q = queue[t] /\ m = tab[t] /\ A = adopting[t]
  BY AboutTab
<1>2. PICK gen \in Binding : gen = Gen(version)
  BY AboutTab DEF Shape, Gen, Record, Binding
<1>3. PICK op : op = [q[i] EXCEPT !.reading = FALSE, !.binding = gen, !.entry = gen]
  OBVIOUS
<1>4. q[i] \in Operation /\ i \in DOMAIN q
  BY <1>1
<1>5. /\ op \in Operation /\ op.kind = q[i].kind /\ op.phase = q[i].phase
      /\ op.current = q[i].current /\ op.fresh = q[i].fresh
      /\ op.binding = gen /\ op.entry = gen
  BY <1>2, <1>3, <1>4 DEF Operation
<1>6. PICK p : p = [q EXCEPT ![i] = op]
  OBVIOUS
<1>7. /\ p \in Seq(Operation) /\ DOMAIN p = DOMAIN q /\ p[i] = op
      /\ \A j \in DOMAIN q : j # i => p[j] = q[j]
  BY <1>4, <1>5, <1>6
<1>8. TabStep(t, p, m, A)
  <2>1. queue' = [queue EXCEPT ![t] = p]
    BY <1>1, <1>2, <1>3, <1>6, AboutTab DEF readVersion, Shape
  <2>2. QED
    BY <1>1, <2>1, AboutTab DEF readVersion, TabStep, Shape
<1>9. /\ Messages(t) /\ News(t) /\ (Told(t) => Told(t)') /\ lock' = lock
      /\ announced' = announced
  BY AboutTab, NothingSaid DEF readVersion
<1>10. QueueOK(q, m, A) /\ WipedOK(m, A) /\ (lock = t => q # << >> /\ HeadOK(q[1], m, A))
  BY <1>1, AboutTab DEF TabOK
<1>11. OpOK(op)
  BY <1>4, <1>5, <1>10 DEF QueueOK, OpOK
<1>12. QueueOK(p, m, A)
  <2>1. SUFFICES ASSUME NEW j \in DOMAIN q
                 PROVE  /\ OpOK(p[j])
                        /\ j # 1 => p[j].phase = "queued"
                        /\ p[j].kind = "clear" /\ p[j].current =>
                             Quiet(m, A) /\ \A k \in 1 .. (j - 1) : ~p[k].current
    BY <1>7 DEF QueueOK
  <2>2. /\ p[j].kind = q[j].kind /\ p[j].phase = q[j].phase
        /\ p[j].current = q[j].current /\ OpOK(p[j])
    BY <1>5, <1>7, <1>10, <1>11 DEF QueueOK
  <2>3. \A k \in 1 .. (j - 1) : k \in DOMAIN q
    OBVIOUS
  <2>4. \A k \in DOMAIN q : p[k].current = q[k].current
    BY <1>5, <1>7
  <2>5. QED
    BY <1>10, <2>2, <2>3, <2>4 DEF QueueOK
<1>13. ASSUME lock = t PROVE p # << >> /\ HeadOK(p[1], m, A)
  <2>1. 1 \in DOMAIN q /\ HeadOK(q[1], m, A)
    BY <1>10, <1>13, TailFacts
  <2>2. CASE i = 1
    BY <1>2, <1>5, <1>7, <2>1, <2>2 DEF HeadOK
  <2>3. CASE i # 1
    BY <1>7, <2>1, <2>3
  <2>4. p # << >>
    BY <1>7, <2>1
  <2>5. QED
    BY <2>2, <2>3, <2>4
<1>14. DueIn(t, p, m)
  <2>1. ASSUME NEW j \in DOMAIN q, WillClear(q[j]) PROVE j \in DOMAIN p /\ WillClear(p[j])
    BY <1>2, <1>5, <1>7, <2>1 DEF WillClear
  <2>2. QED
    BY <1>1, <1>9, <2>1, DueKept
<1>15. Lock(t, p)
  BY <1>9, <1>13 DEF Lock
<1>16. QED
  BY <1>7, <1>8, <1>9, <1>10, <1>12, <1>13, <1>14, <1>15, OneTab

\* Reload: the tab starts with nothing but its session storage.
LEMMA ReloadStep ==
  ASSUME IInv, NEW t \in Tabs, Reload(t) PROVE IInv'
<1>1. PICK m : m = NewContext(tab[t].pending)
  OBVIOUS
<1>2. m \in Memory /\ m.token = None /\ ~m.wiped
  BY <1>1, AboutTab DEF NewContext, Memory, Binding
<1>3. TabStep(t, << >>, m, {})
  BY <1>1 DEF Reload, TabStep
<1>4. /\ inbox' \in [Tabs -> Seq(Message)] /\ \A u \in Tabs \ {t} : inbox'[u] = inbox[u]
      /\ version' = version /\ minted' = minted
  <2>1. << >> \in Seq(Message)
    OBVIOUS
  <2>2. QED
    BY <2>1, AboutTab DEF Reload, Shape
<1>5. Messages(t)
  BY <1>4, SameTypes DEF Messages, Told, Gen
<1>6. News(t)
  BY AboutTab DEF News, Reload, Shape
<1>7. Lock(t, << >>) /\ lock' # t
  BY AboutTab DEF Lock, Reload
<1>8. << >> \in Seq(Operation) /\ {} \in SUBSET Adoption
  OBVIOUS
<1>9. WipedOK(m, {}) /\ QueueOK(<< >>, m, {}) /\ DueIn(t, << >>, m)
  BY <1>2 DEF WipedOK, QueueOK, DueIn
<1>10. QED
  BY <1>2, <1>3, <1>5, <1>6, <1>7, <1>8, <1>9, OneTab

----------------------------------------------------------------------------
(***************************************************************************)
(* The running operation.                                                  *)
(***************************************************************************)
\* What the invariant says of the operation that runs.
LEMMA AboutRunning ==
  ASSUME IInv, NEW t \in Tabs, NEW K, NEW phase, Running(t, K, phase)
  PROVE  /\ lock = t /\ queue[t] # << >>
         /\ Head(queue[t]) = queue[t][1] /\ queue[t][1] \in Operation
         /\ queue[t][1].kind \in K /\ queue[t][1].phase = phase /\ queue[t][1].current
         /\ OpOK(queue[t][1]) /\ HeadOK(queue[t][1], tab[t], adopting[t])
         /\ Faded(Tail(queue[t]), Tail(queue[t]))
BY AboutTab DEF Running, TabOK

\* Acquire
LEMMA AcquireStep ==
  ASSUME IInv, NEW t \in Tabs, Acquire(t) PROVE IInv'
<1>1. queue[t] # << >>
  BY DEF Acquire
<1>2. PICK o : o = queue[t][1]
  OBVIOUS
<1>3. o \in Operation /\ Head(queue[t]) = o /\ o.phase = "queued" /\ o.current /\ OpOK(o)
  BY <1>1, <1>2, AboutTab DEF Acquire
<1>4. PICK op : op = [o EXCEPT !.phase = "open", !.claims = TRUE]
  OBVIOUS
<1>5. /\ op \in Operation /\ op.phase = "open" /\ op.kind = o.kind /\ op.current = o.current
      /\ op.fresh = o.fresh /\ op.binding = o.binding /\ op.entry = o.entry
  BY <1>3, <1>4 DEF Operation, Phases
<1>6. OpOK(op) /\ HeadOK(op, tab[t], adopting[t]) /\ (WillClear(o) => WillClear(op))
  BY <1>3, <1>5 DEF OpOK, HeadOK, WillClear
<1>7. PICK A \in SUBSET Adoption : A = adopting[t]
  BY AboutTab
<1>8. /\ queue' = [queue EXCEPT ![t] = <<op>> \o Tail(queue[t])]
      /\ adopting' = [adopting EXCEPT ![t] = A]
  BY <1>3, <1>4, <1>7, AboutTab DEF Acquire, Proceed, Shape
<1>9. /\ Messages(t) /\ (Told(t) => Told(t)') /\ lock' = t /\ version' = version
      /\ minted' = minted /\ announced' = announced /\ tab' = tab
  BY AboutTab, NothingSaid DEF Acquire
<1>10. QED
  BY <1>1, <1>2, <1>3, <1>5, <1>6, <1>7, <1>8, <1>9, Proceeded

\* Superseded
LEMMA SupersededStep ==
  ASSUME IInv, NEW t \in Tabs, Superseded(t) PROVE IInv'
<1>1. queue[t] # << >> /\ ~queue[t][1].current
  BY AboutTab DEF Superseded
<1>2. PICK A \in SUBSET Adoption, m \in Memory : A = adopting[t] /\ m = tab[t]
  BY AboutTab
<1>3. /\ queue' = [queue EXCEPT ![t] = Tail(queue[t])] /\ tab' = [tab EXCEPT ![t] = m]
      /\ adopting' = [adopting EXCEPT ![t] = A]
  BY <1>2, AboutTab DEF Superseded, Shape
<1>4. /\ Messages(t) /\ (Told(t) => Told(t)') /\ version' = version
      /\ minted' = minted /\ announced' = announced
      /\ lock' # t /\ lock' \in {None, lock}
  BY AboutTab, NothingSaid DEF Superseded
<1>5. ~WillClear(queue[t][1])
  BY <1>1 DEF WillClear
<1>6. QED
  BY <1>1, <1>2, <1>3, <1>4, <1>5, Dropped

\* A refresh that is over is no longer shared; nothing else changes.
LEMMA UnsharedFacts ==
  ASSUME NEW m \in Memory, NEW op \in Operation
  PROVE  LET n == Unshared(m, op) IN
         n \in Memory /\ n.token = m.token /\ n.accept = m.accept /\ n.wiped = m.wiped
         /\ n.binding = m.binding /\ n.pending = m.pending
<1>1. m.refreshing \in BOOLEAN
  BY DEF Memory
<1>2. PICK b \in BOOLEAN : b <=> (m.refreshing /\ op.kind # "refresh")
  OBVIOUS
<1>3. PICK n : n = [m EXCEPT !.refreshing = b]
  OBVIOUS
<1>4. n \in Memory /\ n.token = m.token /\ n.accept = m.accept /\ n.wiped = m.wiped
      /\ n.binding = m.binding /\ n.pending = m.pending
  BY <1>3 DEF Memory
<1>5. Unshared(m, op) = n
  BY <1>1, <1>2, <1>3, Zenon DEF Unshared
<1>6. QED
  BY <1>4, <1>5

\* Done
LEMMA DoneStep ==
  ASSUME IInv, NEW t \in Tabs, lock = t, Done(t),
         (version # None /\ ~version.active) => ~WillClear(queue[t][1])
  PROVE  IInv'
<1>1. queue[t] # << >> /\ queue[t][1] \in Operation /\ Head(queue[t]) = queue[t][1]
  BY AboutTab
<1>2. PICK m : m = Unshared(tab[t], queue[t][1])
  OBVIOUS
<1>3. m \in Memory /\ m.token = tab[t].token /\ m.accept = tab[t].accept /\ m.wiped = tab[t].wiped
  BY <1>1, <1>2, AboutTab, UnsharedFacts
<1>4. PICK A \in SUBSET Adoption : A = adopting[t]
  BY AboutTab
<1>5. /\ queue' = [queue EXCEPT ![t] = Tail(queue[t])] /\ tab' = [tab EXCEPT ![t] = m]
      /\ adopting' = [adopting EXCEPT ![t] = A]
  BY <1>1, <1>2, <1>4, AboutTab DEF Done, Finish, Shape
<1>6. /\ Messages(t) /\ (Told(t) => Told(t)') /\ version' = version
      /\ minted' = minted /\ announced' = announced
      /\ lock' # t /\ lock' \in {None, lock}
  BY AboutTab, NothingSaid DEF Done, Finish
<1>7. QED
  BY <1>1, <1>3, <1>4, <1>5, <1>6, Dropped

\* What clearing a tab makes of its memory.
LEMMA ClearedFacts ==
  ASSUME NEW m \in Memory, NEW b \in BOOLEAN
  PROVE  /\ Cleared(m, b) \in Memory /\ Quiet(Cleared(m, b), {})
         /\ Invalidated(m, b) \in Memory /\ Quiet(Invalidated(m, b), {})
<1>1. PICK pending \in Binding : pending = IF b THEN m.pending ELSE None
  BY DEF Memory, Binding
<1>2. PICK n : n = [m EXCEPT !.token = None, !.accept = FALSE, !.wiped = TRUE, !.pending = pending]
  OBVIOUS
<1>3. n \in Memory /\ Quiet(n, {})
  BY <1>2 DEF Memory, Quiet, Binding
<1>4. Cleared(m, b) = n
  BY <1>1, <1>2 DEF Cleared
<1>5. [n EXCEPT !.refreshing = FALSE] \in Memory /\ Quiet([n EXCEPT !.refreshing = FALSE], {})
  BY <1>3 DEF Memory, Quiet
<1>6. QED
  BY <1>3, <1>4, <1>5 DEF Invalidated

\* Forfeit
LEMMA ForfeitStep ==
  ASSUME IInv, NEW t \in Tabs, lock = t, NEW expected \in Binding, Forfeit(t, expected)
  PROVE  IInv'
<1>1. PICK o : o = queue[t][1]
  OBVIOUS
<1>2. queue[t] # << >> /\ o \in Operation /\ Head(queue[t]) = o /\ Tail(queue[t]) \in Seq(Operation)
  BY <1>1, AboutTab DEF Faded
<1>3. PICK r : r = Aborted(Tail(queue[t]))
  OBVIOUS
<1>4. Faded(Tail(queue[t]), r)
  BY <1>2, <1>3, AbortedFades
<1>5. PICK m : m = Invalidated(tab[t], FALSE)
  OBVIOUS
<1>6. m \in Memory /\ Quiet(m, {})
  BY <1>5, AboutTab, ClearedFacts
<1>7. PICK op : op = [o EXCEPT !.kind = "cleanup", !.binding = expected,
                               !.phase = "deactivating", !.claims = FALSE]
  OBVIOUS
<1>8. /\ op \in Operation /\ op.kind # "clear" /\ op.phase = "deactivating"
      /\ op.current = o.current /\ op.fresh = o.fresh
  BY <1>2, <1>7 DEF Operation, Kinds, Phases
<1>9. /\ tab' = [tab EXCEPT ![t] = m] /\ adopting' = [adopting EXCEPT ![t] = {}]
      /\ version' = version /\ minted' = minted /\ inbox' = inbox /\ announced' = announced
  BY <1>5, AboutTab DEF Forfeit, Shape
<1>10. \/ queue' = [queue EXCEPT ![t] = <<op>> \o r] /\ lock' = t
       \/ queue' = [queue EXCEPT ![t] = r] /\ lock' = None
  BY <1>2, <1>3, <1>7 DEF Forfeit, Finish
<1>11. CASE queue' = [queue EXCEPT ![t] = <<op>> \o r] /\ lock' = t
  <2>1. TabStep(t, <<op>> \o r, m, {})
    BY <1>9, <1>11 DEF TabStep
  <2>2. QED
    BY <1>1, <1>2, <1>4, <1>6, <1>8, <1>9, <1>11, <2>1, WipedAndContinued
<1>12. CASE queue' = [queue EXCEPT ![t] = r] /\ lock' = None
  <2>1. TabStep(t, r, m, {})
    BY <1>9, <1>12 DEF TabStep
  <2>2. QED
    BY <1>2, <1>4, <1>6, <1>9, <1>12, <2>1, WipedAndEnded
<1>13. QED
  BY <1>10, <1>11, <1>12

\* Fail
LEMMA FailStep ==
  ASSUME IInv, NEW t \in Tabs, lock = t, NEW binding \in Binding, Fail(t, binding),
         ~WillClear(queue[t][1])
  PROVE  IInv'
<1>1. CASE Head(queue[t]).claims
  <2>1. PICK expected : expected = IF tab[t].token # None THEN tab[t].token ELSE binding
    OBVIOUS
  <2>2. expected \in Binding
    BY <2>1, AboutTab DEF Memory
  <2>3. Forfeit(t, expected)
    BY <1>1, <2>1 DEF Fail
  <2>4. QED
    BY <2>2, <2>3, ForfeitStep
<1>2. CASE ~Head(queue[t]).claims
  BY <1>2, DoneStep DEF Fail
<1>3. QED
  BY <1>1, <1>2

\* A running operation that asks the vault or its peers next.
LEMMA AsksNext ==
  ASSUME IInv, NEW t \in Tabs, lock = t, NEW o, o = queue[t][1],
         NEW op \in Operation, NEW A \in SUBSET Adoption, A \subseteq adopting[t],
         queue' = [queue EXCEPT ![t] = <<op>> \o Tail(queue[t])], tab' = tab,
         adopting' = [adopting EXCEPT ![t] = A],
         lock' = lock, version' = version, minted' = minted, announced' = announced,
         Messages(t), Told(t) => Told(t)',
         o.kind \in {"exchange", "refresh", "logout"},
         op.phase = "posted" \/ (op.phase = "asking" /\ op.kind = "refresh"),
         op.kind = o.kind, op.current = o.current, op.fresh = o.fresh
  PROVE  IInv'
<1>1. queue[t] # << >> /\ OpOK(o)
  BY AboutTab
<1>2. OpOK(op) /\ HeadOK(op, tab[t], A) /\ ~WillClear(o)
  BY <1>1 DEF OpOK, HeadOK, WillClear
<1>3. QED
  BY <1>1, <1>2, Proceeded

\* BeginLogin
LEMMA BeginLoginStep ==
  ASSUME IInv, NEW t \in Tabs, BeginLogin(t) PROVE IInv'
<1>1. Running(t, {"login"}, "open")
  BY DEF BeginLogin
<1>2. PICK o : o = queue[t][1]
  OBVIOUS
<1>3. /\ lock = t /\ queue[t] # << >> /\ o \in Operation /\ Head(queue[t]) = o
      /\ o.kind = "login" /\ Tail(queue[t]) \in Seq(Operation)
  BY <1>1, <1>2, AboutRunning DEF Faded
<1>4. PICK r : r = Outdated(Tail(queue[t]))
  OBVIOUS
<1>5. Faded(Tail(queue[t]), r)
  BY <1>3, <1>4, OutdatedFades
<1>6. PICK m : m = Cleared(tab[t], FALSE)
  OBVIOUS
<1>7. m \in Memory /\ Quiet(m, {})
  BY <1>6, AboutTab, ClearedFacts
<1>8. PICK op : op = [To(o, "deactivating") EXCEPT !.claims = TRUE]
  OBVIOUS
<1>9. /\ op \in Operation /\ op.kind = o.kind /\ op.phase = "deactivating"
      /\ op.current = o.current /\ op.fresh = o.fresh
  BY <1>3, <1>8 DEF Operation, Phases, To
<1>10. /\ TabStep(t, <<op>> \o r, m, {}) /\ lock' = t
       /\ inbox' = inbox /\ announced' = announced
  BY <1>3, <1>4, <1>6, <1>8, AboutTab DEF BeginLogin, TabStep, Shape
<1>11. QED
  BY <1>2, <1>3, <1>5, <1>7, <1>9, <1>10, WipedAndContinued

\* LoggedOut
LEMMA LoggedOutStep ==
  ASSUME IInv, NEW t \in Tabs, LoggedOut(t) PROVE IInv'
<1>1. Running(t, {"logout"}, "posted")
  BY DEF LoggedOut
<1>2. PICK o : o = queue[t][1]
  OBVIOUS
<1>3. /\ lock = t /\ queue[t] # << >> /\ o \in Operation /\ Head(queue[t]) = o
      /\ o.kind = "logout" /\ Tail(queue[t]) \in Seq(Operation)
  BY <1>1, <1>2, AboutRunning DEF Faded
<1>4. PICK r : r = Outdated(Tail(queue[t]))
  OBVIOUS
<1>5. Faded(Tail(queue[t]), r)
  BY <1>3, <1>4, OutdatedFades
<1>6. PICK m : m = Cleared(tab[t], FALSE)
  OBVIOUS
<1>7. m \in Memory /\ Quiet(m, {})
  BY <1>6, AboutTab, ClearedFacts
<1>8. PICK op : op = To(o, "deactivating")
  OBVIOUS
<1>9. /\ op \in Operation /\ op.kind = o.kind /\ op.phase = "deactivating"
      /\ op.current = o.current /\ op.fresh = o.fresh
  BY <1>3, <1>8 DEF Operation, Phases, To
<1>10. /\ TabStep(t, <<op>> \o r, m, {}) /\ lock' = t
       /\ inbox' = inbox /\ announced' = announced
  BY <1>3, <1>4, <1>6, <1>8, AboutTab DEF LoggedOut, TabStep, Shape
<1>11. QED
  BY <1>2, <1>3, <1>5, <1>7, <1>9, <1>10, WipedAndContinued

\* The vault is asked about the generation on record (exchange and logout).
LEMMA PostedStep ==
  ASSUME IInv, NEW t \in Tabs, NEW kind \in {"exchange", "logout"}, Running(t, {kind}, "open"),
         version # None,
         Proceed(t, [To(Head(queue[t]), "posted") EXCEPT !.binding = version.gen, !.claims = TRUE]),
         UNCHANGED <<version, lock, tab, adopting, inbox, minted, announced>>
  PROVE  IInv'
<1>1. PICK o : o = queue[t][1]
  OBVIOUS
<1>2. /\ lock = t /\ queue[t] # << >> /\ o \in Operation /\ Head(queue[t]) = o /\ o.kind = kind
  BY <1>1, AboutRunning
<1>3. PICK gen : gen \in Binding /\ gen = version.gen
  BY AboutTab DEF Shape, Record, Binding
<1>4. PICK op : op = [To(o, "posted") EXCEPT !.binding = gen, !.claims = TRUE]
  OBVIOUS
<1>5. /\ op \in Operation /\ op.kind = o.kind /\ op.phase = "posted"
      /\ op.current = o.current /\ op.fresh = o.fresh
  BY <1>2, <1>3, <1>4 DEF Operation, Phases, To
<1>6. PICK A \in SUBSET Adoption : A = adopting[t]
  BY AboutTab
<1>7. /\ queue' = [queue EXCEPT ![t] = <<op>> \o Tail(queue[t])]
      /\ adopting' = [adopting EXCEPT ![t] = A]
  BY <1>2, <1>3, <1>4, <1>6, AboutTab DEF Proceed, Shape
<1>8. Messages(t) /\ (Told(t) => Told(t)')
  BY AboutTab, NothingSaid
<1>9. QED
  BY <1>1, <1>2, <1>5, <1>6, <1>7, <1>8, AsksNext

\* BeginExchange
LEMMA BeginExchangeStep ==
  ASSUME IInv, NEW t \in Tabs, BeginExchange(t) PROVE IInv'
<1>1. Running(t, {"exchange"}, "open")
  BY DEF BeginExchange
<1>2. lock = t /\ queue[t][1].kind = "exchange"
  BY <1>1, AboutRunning
<1>3. CASE tab[t].pending = None \/ tab[t].pending # Gen(version)
  <2>1. Fail(t, None) /\ None \in Binding /\ ~WillClear(queue[t][1])
    BY <1>2, <1>3 DEF BeginExchange, Binding, WillClear
  <2>2. QED
    BY <1>2, <2>1, FailStep
<1>4. CASE ~(tab[t].pending = None \/ tab[t].pending # Gen(version))
  BY <1>1, <1>4, PostedStep DEF BeginExchange, Gen
<1>5. QED
  BY <1>3, <1>4

\* BeginLogout
LEMMA BeginLogoutStep ==
  ASSUME IInv, NEW t \in Tabs, BeginLogout(t) PROVE IInv'
<1>1. Running(t, {"logout"}, "open")
  BY DEF BeginLogout
<1>2. lock = t /\ queue[t][1].kind = "logout"
  BY <1>1, AboutRunning
<1>3. CASE version = None
  <2>1. Fail(t, None) /\ None \in Binding /\ ~WillClear(queue[t][1])
    BY <1>2, <1>3 DEF BeginLogout, Binding, WillClear
  <2>2. QED
    BY <1>2, <2>1, FailStep
<1>4. CASE version # None
  BY <1>1, <1>4, PostedStep DEF BeginLogout
<1>5. QED
  BY <1>3, <1>4

\* BeginRefresh
LEMMA BeginRefreshStep ==
  ASSUME IInv, NEW t \in Tabs, BeginRefresh(t) PROVE IInv'
<1>1. Running(t, {"refresh"}, "open")
  BY DEF BeginRefresh
<1>2. PICK o : o = queue[t][1]
  OBVIOUS
<1>3. /\ lock = t /\ queue[t] # << >> /\ o \in Operation /\ Head(queue[t]) = o
      /\ o.kind = "refresh" /\ ~WillClear(o)
  BY <1>1, <1>2, AboutRunning DEF WillClear
<1>4. Gen(version) \in Binding
  BY AboutTab DEF Shape, Gen, Record, Binding
<1>5. PICK b : b \in Binding /\ b = Gen(version)
  BY <1>4
<1>6. PICK op : op = [o EXCEPT !.binding = b]
  OBVIOUS
<1>7. /\ op \in Operation /\ op.kind = o.kind /\ op.current = o.current /\ op.fresh = o.fresh
  BY <1>3, <1>5, <1>6 DEF Operation
<1>8. CASE Fail(t, Gen(version))
  BY <1>2, <1>3, <1>4, <1>8, FailStep
<1>9. CASE Done(t)
  BY <1>2, <1>3, <1>9, DoneStep
<1>10. CASE /\ Active(version)
            /\ IF op.had # version.gen
               THEN /\ Proceed(t, To(op, "asking"))
                    /\ Broadcast(t, [type |-> "request", gen |-> version.gen])
               ELSE /\ Proceed(t, [To(op, "posted") EXCEPT !.claims = TRUE])
                    /\ UNCHANGED inbox
            /\ UNCHANGED <<version, lock, tab, adopting, minted, calls, reloads, announced>>
  <2>1. PICK A \in SUBSET Adoption : A = adopting[t]
    BY AboutTab
  <2>2. adopting' = [adopting EXCEPT ![t] = A]
    BY <1>10, <2>1, AboutTab DEF Shape
  <2>3. CASE op.had # version.gen
    <3>1. PICK p : p = To(op, "asking")
      OBVIOUS
    <3>2. p \in Operation /\ p.kind = o.kind /\ p.current = o.current /\ p.fresh = o.fresh
          /\ p.phase = "asking"
      BY <1>7, <3>1 DEF Operation, Phases, To
    <3>3. [type |-> "request", gen |-> version.gen] \in Message
      BY <1>10, AboutTab DEF Shape, Record, Message, Active
    <3>4. Messages(t) /\ (Told(t) => Told(t)')
      BY <1>10, <2>3, <3>3, AboutTab, Heard
    <3>5. queue' = [queue EXCEPT ![t] = <<p>> \o Tail(queue[t])]
      BY <1>10, <2>3, <3>1 DEF Proceed
    <3>6. QED
      BY <1>2, <1>3, <1>10, <2>1, <2>2, <3>2, <3>4, <3>5, AsksNext
  <2>4. CASE op.had = version.gen
    <3>1. PICK p : p = [To(op, "posted") EXCEPT !.claims = TRUE]
      OBVIOUS
    <3>2. p \in Operation /\ p.kind = o.kind /\ p.current = o.current /\ p.fresh = o.fresh
          /\ p.phase = "posted"
      BY <1>7, <3>1 DEF Operation, Phases, To
    <3>3. Messages(t) /\ (Told(t) => Told(t)')
      BY <1>10, <2>4, AboutTab, NothingSaid
    <3>4. queue' = [queue EXCEPT ![t] = <<p>> \o Tail(queue[t])]
      BY <1>10, <2>4, <3>1 DEF Proceed
    <3>5. QED
      BY <1>2, <1>3, <1>10, <2>1, <2>2, <3>2, <3>3, <3>4, AsksNext
  <2>5. QED
    BY <2>3, <2>4
<1>11. QED
  BY <1>3, <1>5, <1>6, <1>8, <1>9, <1>10 DEF BeginRefresh

\* EndAsking
LEMMA EndAskingStep ==
  ASSUME IInv, NEW t \in Tabs, EndAsking(t) PROVE IInv'
<1>1. Running(t, {"refresh"}, "asking")
  BY DEF EndAsking
<1>2. PICK o : o = queue[t][1]
  OBVIOUS
<1>3. /\ lock = t /\ queue[t] # << >> /\ o \in Operation /\ Head(queue[t]) = o
      /\ o.kind = "refresh" /\ ~WillClear(o)
  BY <1>1, <1>2, AboutRunning DEF WillClear
<1>4. PICK A : A = {a \in adopting[t] : ~a.asked}
  OBVIOUS
<1>5. A \in SUBSET Adoption /\ A \subseteq adopting[t]
  BY <1>4, AboutTab
<1>6. /\ adopting' = [adopting EXCEPT ![t] = A] /\ version' = version /\ minted' = minted
      /\ announced' = announced /\ Messages(t) /\ (Told(t) => Told(t)')
  BY <1>4, AboutTab, NothingSaid DEF EndAsking
<1>7. CASE Reusable(t, Head(queue[t]))
  <2>1. PICK m : m = Unshared(tab[t], o)
    OBVIOUS
  <2>2. m \in Memory /\ m.token = tab[t].token /\ m.accept = tab[t].accept /\ m.wiped = tab[t].wiped
    BY <1>3, <2>1, AboutTab, UnsharedFacts
  <2>3. /\ queue' = [queue EXCEPT ![t] = Tail(queue[t])] /\ tab' = [tab EXCEPT ![t] = m]
        /\ lock' = None
    BY <1>3, <1>7, <2>1 DEF EndAsking, Finish
  <2>4. lock' # t /\ lock' \in {None, lock}
    BY <2>3, AboutTab
  <2>5. QED
    BY <1>2, <1>3, <1>5, <1>6, <2>2, <2>3, <2>4, Dropped
<1>8. CASE ~Reusable(t, Head(queue[t]))
  <2>1. PICK p : p = [To(o, "posted") EXCEPT !.claims = TRUE]
    OBVIOUS
  <2>2. p \in Operation /\ p.kind = o.kind /\ p.current = o.current /\ p.fresh = o.fresh
        /\ p.phase = "posted"
    BY <1>3, <2>1 DEF Operation, Phases, To
  <2>3. /\ queue' = [queue EXCEPT ![t] = <<p>> \o Tail(queue[t])] /\ tab' = tab /\ lock' = lock
    BY <1>3, <1>8, <2>1 DEF EndAsking, Proceed
  <2>4. QED
    BY <1>2, <1>3, <1>5, <1>6, <2>2, <2>3, AsksNext
<1>9. QED
  BY <1>7, <1>8

\* BeginClear
LEMMA BeginClearStep ==
  ASSUME IInv, NEW t \in Tabs, BeginClear(t) PROVE IInv'
<1>1. Running(t, {"clear"}, "open")
  BY DEF BeginClear
<1>2. PICK o : o = queue[t][1]
  OBVIOUS
<1>3. /\ lock = t /\ queue[t] # << >> /\ o \in Operation /\ Head(queue[t]) = o
      /\ o.kind = "clear" /\ o.current /\ OpOK(o) /\ ~WillClear(o)
  BY <1>1, <1>2, AboutRunning DEF WillClear
<1>4. PICK A \in SUBSET Adoption, m \in Memory : A = adopting[t] /\ m = tab[t]
  BY AboutTab
<1>5. Quiet(m, A)
  <2>1. 1 \in DOMAIN queue[t] /\ QueueOK(queue[t], tab[t], adopting[t])
    BY <1>3, AboutTab DEF TabOK
  <2>2. QED
    BY <1>2, <1>3, <1>4, <2>1 DEF QueueOK
<1>6. /\ adopting' = [adopting EXCEPT ![t] = A] /\ tab' = tab /\ tab' = [tab EXCEPT ![t] = m]
      /\ version' = version /\ minted' = minted /\ announced' = announced
  BY <1>4, AboutTab DEF BeginClear, Shape
<1>7. Messages(t) /\ (Told(t) => Told(t)')
  BY AboutTab, NothingSaid DEF BeginClear
<1>8. CASE o.binding # None /\ o.binding = Gen(version)
  <2>1. PICK op : op = To(o, "deactivating")
    OBVIOUS
  <2>2. /\ op \in Operation /\ op.kind = o.kind /\ op.phase = "deactivating"
        /\ op.current = o.current /\ op.fresh = o.fresh /\ op.binding = o.binding
        /\ op.entry = o.entry
    BY <1>3, <2>1 DEF Operation, Phases, To
  <2>3. OpOK(op) /\ HeadOK(op, m, A)
    BY <1>3, <1>5, <1>8, <2>2 DEF OpOK, HeadOK
  <2>4. queue' = [queue EXCEPT ![t] = <<op>> \o Tail(queue[t])] /\ lock' = t
    BY <1>3, <1>8, <2>1 DEF BeginClear, Proceed
  <2>5. QED
    BY <1>2, <1>3, <1>4, <1>6, <1>7, <2>2, <2>3, <2>4, Proceeded
<1>9. CASE ~(o.binding # None /\ o.binding = Gen(version))
  <2>1. queue' = [queue EXCEPT ![t] = Tail(queue[t])] /\ lock' = None
    BY <1>3, <1>9 DEF BeginClear, Finish
  <2>2. lock' # t /\ lock' \in {None, lock}
    BY <2>1, AboutTab
  <2>3. /\ m.token = tab[t].token /\ m.accept = tab[t].accept /\ m.wiped = tab[t].wiped
        /\ A \subseteq adopting[t] /\ ~WillClear(queue[t][1]) /\ queue[t] # << >>
        /\ tab' = [tab EXCEPT ![t] = m]
    BY <1>2, <1>3, <1>4, <1>6
  <2>4. QED
    BY <1>6, <1>7, <2>1, <2>2, <2>3, Dropped, ZenonT(30)
<1>10. QED
  BY <1>8, <1>9

\* BeginPeerClear
LEMMA BeginPeerClearStep ==
  ASSUME IInv, NEW t \in Tabs, BeginPeerClear(t) PROVE IInv'
<1>1. Running(t, {"peerClear"}, "open")
  BY DEF BeginPeerClear
<1>2. PICK o : o = queue[t][1]
  OBVIOUS
<1>3. /\ lock = t /\ queue[t] # << >> /\ o \in Operation /\ Head(queue[t]) = o
      /\ o.kind = "peerClear" /\ Tail(queue[t]) \in Seq(Operation)
  BY <1>1, <1>2, AboutRunning DEF Faded
<1>4. CASE version # None /\ ~version.active /\ version.gen = o.binding
  <2>1. PICK r : r = Aborted(Tail(queue[t]))
    OBVIOUS
  <2>2. Faded(Tail(queue[t]), r)
    BY <1>3, <2>1, AbortedFades
  <2>3. PICK m : m = Invalidated(tab[t], TRUE)
    OBVIOUS
  <2>4. m \in Memory /\ Quiet(m, {})
    BY <2>3, AboutTab, ClearedFacts
  <2>5. /\ TabStep(t, r, m, {}) /\ lock' = None /\ inbox' = inbox /\ announced' = announced
    BY <1>3, <1>4, <2>1, <2>3, AboutTab DEF BeginPeerClear, Finish, TabStep, Shape
  <2>6. QED
    BY <1>3, <2>2, <2>4, <2>5, WipedAndEnded
<1>5. CASE ~(version # None /\ ~version.active /\ version.gen = o.binding)
  <2>1. PICK A \in SUBSET Adoption, m \in Memory : A = adopting[t] /\ m = tab[t]
    BY AboutTab
  <2>2. /\ queue' = [queue EXCEPT ![t] = Tail(queue[t])] /\ lock' = None
        /\ tab' = [tab EXCEPT ![t] = m] /\ adopting' = [adopting EXCEPT ![t] = A]
        /\ version' = version /\ minted' = minted /\ announced' = announced
    BY <1>3, <1>5, <2>1, AboutTab DEF BeginPeerClear, Finish, Shape
  <2>3. Messages(t) /\ (Told(t) => Told(t)')
    BY AboutTab, NothingSaid DEF BeginPeerClear
  <2>4. lock' # t /\ lock' \in {None, lock}
    BY <2>2, AboutTab
  <2>5. (version # None /\ ~version.active) => ~WillClear(o)
    BY <1>3, <1>5 DEF WillClear, Gen
  <2>6. QED
    BY <1>2, <1>3, <2>1, <2>2, <2>3, <2>4, <2>5, Dropped
<1>6. QED
  BY <1>4, <1>5

\* Navigates and Refused
LEMMA AnsweredStep ==
  ASSUME IInv, NEW t \in Tabs, Navigates(t) \/ Refused(t) PROVE IInv'
<1>1. Running(t, {"login", "exchange", "refresh", "logout"}, "posted")
  BY DEF Navigates, Refused, Running
<1>2. PICK o : o = queue[t][1]
  OBVIOUS
<1>3. /\ lock = t /\ o \in Operation /\ Head(queue[t]) = o /\ ~WillClear(o)
  BY <1>1, <1>2, AboutRunning DEF WillClear
<1>4. o.binding \in Binding
  BY <1>3 DEF Operation
<1>5. Done(t) \/ Fail(t, o.binding)
  BY <1>3 DEF Navigates, Refused
<1>6. QED
  BY <1>2, <1>3, <1>4, <1>5, DoneStep, FailStep

----------------------------------------------------------------------------
(***************************************************************************)
(* The record.                                                             *)
(***************************************************************************)
\* Every generation is still one after another is made.
LEMMA Grown ==
  ASSUME minted \in Nat, minted' = minted + 1
  PROVE  /\ Operation \subseteq Operation' /\ Memory \subseteq Memory'
         /\ Message \subseteq Message' /\ Adoption \subseteq Adoption'
         /\ \A b \in Binding : b # minted + 1
<1>1. /\ Generation \subseteq Generation' /\ Binding \subseteq Binding'
      /\ \A b \in Binding : b # minted + 1
  BY BrowserAssumption DEF Generation, Binding
<1>2. Operation \subseteq Operation'
  BY <1>1 DEF Operation
<1>3. Memory \subseteq Memory'
  BY <1>1 DEF Memory
<1>4. Message \subseteq Message' /\ Adoption \subseteq Adoption'
  BY <1>1 DEF Message, Adoption
<1>5. QED
  BY <1>1, <1>2, <1>3, <1>4

\* The holder of the lock writes a record.
LEMMA RecordStep ==
  ASSUME IInv, NEW t \in Tabs, NEW K, NEW before, Running(t, K, before),
         NEW after \in {"published", "deactivated"}, NEW active \in BOOLEAN,
         after = "published" => active,
         after = "deactivated" => ~active /\ before = "deactivating",
         minted' = minted + 1, announced' = FALSE,
         version' = [gen |-> minted + 1, active |-> active],
         Proceed(t, To(Head(queue[t]), after)),
         UNCHANGED <<lock, tab, adopting, inbox>>
  PROVE  IInv'
<1>1. Shape /\ lock = t /\ t # None /\ minted \in Nat
  BY AboutTab, AboutRunning DEF Shape
<1>2. PICK o : o = queue[t][1]
  OBVIOUS
<1>3. /\ queue[t] # << >> /\ o \in Operation /\ Head(queue[t]) = o /\ o.phase = before
      /\ o.current /\ HeadOK(o, tab[t], adopting[t]) /\ OpOK(o)
  BY <1>2, AboutRunning
<1>4. PICK op : op = To(o, after)
  OBVIOUS
<1>5. /\ op \in Operation /\ op.kind = o.kind /\ op.phase = after
      /\ op.current = o.current /\ op.fresh = o.fresh /\ op.binding = o.binding
      /\ op.entry = o.entry
  BY <1>3, <1>4 DEF Operation, Phases, To
<1>6. PICK q \in Seq(Operation) : q = queue[t]
  BY AboutTab
<1>7. PICK p : p = <<op>> \o Tail(q)
  OBVIOUS
<1>8. /\ p \in Seq(Operation) /\ p # << >> /\ DOMAIN p = DOMAIN q /\ p[1] = op
      /\ \A i \in DOMAIN p : i # 1 => p[i] = q[i]
  <2>1. PICK r : r = Tail(q)
    OBVIOUS
  <2>2. /\ DOMAIN q = 1 .. Len(q) /\ Len(q) \in Nat \ {0}
        /\ DOMAIN r = 1 .. Len(q) - 1
        /\ \A i \in 1 .. Len(q) - 1 : r[i] = q[i + 1]
        /\ r \in Seq(Operation)
    BY <1>3, <1>6, <2>1, TailFacts
  <2>3. r \in Seq(Operation)
    BY <2>2
  <2>4. /\ p \in Seq(Operation) /\ p # << >>
        /\ DOMAIN r = 1 .. Len(r) /\ Len(r) \in Nat
        /\ DOMAIN p = 1 .. Len(r) + 1
        /\ p[1] = op
        /\ \A i \in 1 .. Len(r) : p[i + 1] = r[i]
    BY <1>5, <1>7, <2>1, <2>3, ConsFacts
  <2>5. PICK n \in Nat : n = Len(r)
    BY <2>4
  <2>6. Len(q) = n + 1
    BY <2>1, <2>2, <2>5
  <2>7. DOMAIN q = 1 .. n + 1 /\ DOMAIN p = 1 .. n + 1 /\ \A i \in 1 .. n : p[i + 1] = q[i + 1]
    BY <2>2, <2>4, <2>5, <2>6
  <2>8. ASSUME NEW i \in 1 .. n + 1, i # 1 PROVE p[i] = q[i]
    <3>1. i - 1 \in 1 .. n /\ (i - 1) + 1 = i
      BY <2>8
    <3>2. PICK j \in 1 .. n : j + 1 = i
      BY <3>1
    <3>3. QED
      BY <2>7, <3>2
  <2>9. QED
    BY <2>4, <2>7, <2>8
<1>9. /\ queue'[t] = p /\ \A u \in Tabs \ {t} : queue'[u] = queue[u]
      /\ queue' \in [Tabs -> Seq(Operation)]
  BY <1>1, <1>3, <1>4, <1>6, <1>7, <1>8 DEF Proceed, Shape
<1>10. Shape'
  <2>1. /\ Seq(Operation) \subseteq Seq(Operation') /\ Memory \subseteq Memory'
        /\ Seq(Message) \subseteq Seq(Message') /\ SUBSET Adoption \subseteq SUBSET (Adoption')
    BY <1>1, Grown
  <2>2. /\ queue' \in [Tabs -> Seq(Operation')] /\ tab' \in [Tabs -> Memory']
        /\ inbox' \in [Tabs -> Seq(Message')] /\ adopting' \in [Tabs -> SUBSET (Adoption')]
    BY <1>1, <1>9, <2>1 DEF Shape
  <2>3. minted' \in Nat /\ version' \in Record'
    BY <1>1 DEF Record, Generation
  <2>4. lock' \in Tabs \cup {None} /\ announced' \in BOOLEAN
        /\ (lock' # None => queue'[lock'] # << >>)
    BY <1>1, <1>8, <1>9
  <2>5. QED
    BY <2>2, <2>3, <2>4 DEF Shape
<1>11. Gen(version)' = minted + 1 /\ version' # None /\ Gen(version') = minted + 1
       /\ version'.active = active
  BY <1>1, BrowserAssumption DEF Gen
<1>12. ASSUME NEW x \in Operation PROVE OpOK(x) => OpOK(x)'
  <2>1. x.binding # Gen(version)'
    BY <1>1, <1>11, <1>12, Grown DEF Operation
  <2>2. QED
    BY <2>1 DEF OpOK
<1>13. \A u \in Tabs : tab'[u] = tab[u] /\ adopting'[u] = adopting[u] /\ Due(u)' /\ TabOK(u)
  BY <1>11 DEF Due, IInv
<1>14. TabOK(t)'
  <2>1. WipedOK(tab[t], adopting[t])'
    BY <1>13 DEF WipedOK, TabOK
  <2>2. QueueOK(q, tab[t], adopting[t])
    BY <1>6, <1>13 DEF TabOK
  <2>3. \A i \in DOMAIN q : q[i] \in Operation
    BY <1>6
  <2>4. ASSUME NEW i \in DOMAIN p
        PROVE  /\ OpOK(p[i])'
               /\ i # 1 => p[i].phase = "queued"
               /\ p[i].kind = "clear" /\ p[i].current =>
                    Quiet(tab[t], adopting[t])' /\ \A j \in 1 .. (i - 1) : ~p[j].current
    <3>1. OpOK(p[i])'
      <4>1. CASE i = 1
        <5>1. OpOK(op)
          BY <1>3, <1>5 DEF OpOK
        <5>2. QED
          BY <1>5, <1>8, <1>12, <4>1, <5>1
      <4>2. CASE i # 1
        BY <1>8, <1>12, <2>2, <2>3, <4>2 DEF QueueOK
      <4>3. QED
        BY <4>1, <4>2
    <3>2. i \in DOMAIN q /\ p[i].kind = q[i].kind /\ p[i].current = q[i].current
      BY <1>2, <1>5, <1>6, <1>8
    <3>3. i # 1 => p[i].phase = "queued"
      BY <1>8, <2>2, <3>2 DEF QueueOK
    <3>4. ASSUME p[i].kind = "clear" /\ p[i].current
          PROVE  Quiet(tab[t], adopting[t])' /\ \A j \in 1 .. (i - 1) : ~p[j].current
      <4>1. Quiet(tab[t], adopting[t]) /\ \A j \in 1 .. (i - 1) : ~q[j].current
        BY <2>2, <3>2, <3>4 DEF QueueOK
      <4>2. \A j \in 1 .. (i - 1) : j \in DOMAIN p
        <5>1. PICK n \in Nat : DOMAIN p = 1 .. n
          BY <1>8
        <5>2. QED
          BY <5>1
      <4>3. \A j \in 1 .. (i - 1) : p[j].current = q[j].current
        BY <1>2, <1>5, <1>6, <1>8, <4>2
      <4>4. QED
        BY <1>13, <4>1, <4>3 DEF Quiet
    <3>5. QED
      BY <3>1, <3>3, <3>4
  <2>5. QueueOK(queue[t], tab[t], adopting[t])'
    BY <1>9, <2>4 DEF QueueOK
  <2>6. HeadOK(queue[t][1], tab[t], adopting[t])'
    <3>1. queue'[t][1] = op
      BY <1>8, <1>9
    <3>2. after = "deactivated" => Quiet(tab[t], adopting[t])'
      BY <1>3, <1>13 DEF HeadOK, Quiet
    <3>3. QED
      BY <1>5, <1>11, <3>1, <3>2 DEF HeadOK, Active
  <2>7. QED
    BY <1>13, <2>1, <2>5, <2>6 DEF TabOK
<1>15. ASSUME NEW u \in Tabs \ {t} PROVE TabOK(u)'
  <2>1. lock' # u
    BY <1>1
  <2>2. WipedOK(tab[u], adopting[u])'
    BY <1>13 DEF WipedOK, TabOK
  <2>3. \A i \in DOMAIN queue[u] : queue[u][i] \in Operation
    BY <1>1 DEF Shape
  <2>4. QueueOK(queue[u], tab[u], adopting[u])
    BY <1>13 DEF TabOK
  <2>5. QueueOK(queue[u], tab[u], adopting[u])'
    <3>1. \A i \in DOMAIN queue[u] : OpOK(queue[u][i]) => OpOK(queue[u][i])'
      BY <1>9, <1>11, <2>3, <1>1, Grown DEF OpOK, Operation
    <3>2. QED
      BY <1>9, <1>13, <2>4, <3>1 DEF QueueOK, Quiet
  <2>6. QED
    BY <1>13, <2>1, <2>2, <2>5 DEF TabOK
<1>16. QED
  BY <1>10, <1>14, <1>15 DEF IInv

\* PublishVersion and WriteInactive
LEMMA WriteStep ==
  ASSUME IInv, NEW t \in Tabs, PublishVersion(t) \/ WriteInactive(t) PROVE IInv'
<1>1. CASE PublishVersion(t)
  BY <1>1, RecordStep DEF PublishVersion
<1>2. CASE WriteInactive(t)
  BY <1>2, RecordStep DEF WriteInactive
<1>3. QED
  BY <1>1, <1>2

\* PublishToken
LEMMA PublishTokenStep ==
  ASSUME IInv, NEW t \in Tabs, PublishToken(t) PROVE IInv'
<1>1. Running(t, {"exchange", "refresh"}, "published")
  BY DEF PublishToken
<1>2. PICK o : o = queue[t][1]
  OBVIOUS
<1>3. /\ lock = t /\ queue[t] # << >> /\ o \in Operation /\ Head(queue[t]) = o /\ o.current
      /\ o.kind # "clear" /\ o.fresh /\ Active(version) /\ Tail(queue[t]) \in Seq(Operation)
  <2>1. /\ o \in Operation /\ o.kind \in {"exchange", "refresh"} /\ o.phase = "published"
        /\ o.current /\ OpOK(o) /\ HeadOK(o, tab[t], adopting[t])
        /\ lock = t /\ queue[t] # << >> /\ Head(queue[t]) = o
        /\ Tail(queue[t]) \in Seq(Operation)
    BY <1>1, <1>2, AboutRunning DEF Faded
  <2>2. QED
    BY <2>1 DEF OpOK, HeadOK
<1>4. PICK r : r = Outdated(Tail(queue[t]))
  OBVIOUS
<1>5. Faded(Tail(queue[t]), r)
  BY <1>3, <1>4, OutdatedFades
<1>6. PICK gen : gen = version.gen
  OBVIOUS
<1>7. gen \in Generation /\ gen \in Binding /\ version # None
  BY <1>3, <1>6, AboutTab DEF Active, Shape, Record, Binding
<1>8. PICK n : n = Unshared(tab[t], o)
  OBVIOUS
<1>9. n \in Memory
  BY <1>3, <1>8, AboutTab, UnsharedFacts
<1>10. PICK pending \in Binding : pending = IF o.kind = "exchange" THEN None ELSE n.pending
  BY <1>9 DEF Memory, Binding
<1>11. PICK m : m = [n EXCEPT !.token = gen, !.binding = gen, !.accept = TRUE, !.wiped = FALSE,
                              !.pending = pending]
  OBVIOUS
<1>12. m \in Memory /\ ~m.wiped
  BY <1>7, <1>9, <1>11 DEF Memory
<1>13. m = [n EXCEPT !.token = gen, !.binding = gen, !.accept = TRUE, !.wiped = @ /\ ~o.fresh,
                     !.pending = IF o.kind = "exchange" THEN None ELSE @]
  <2>1. n.wiped \in BOOLEAN /\ ~(n.wiped /\ ~o.fresh)
    BY <1>3, <1>9 DEF Memory
  <2>2. (n.wiped /\ ~o.fresh) = FALSE
    BY <2>1
  <2>3. QED
    BY <1>10, <1>11, <2>2, Zenon
<1>14. TabStep(t, r, m, {})
  <2>1. queue' = [queue EXCEPT ![t] = r] /\ adopting' = [adopting EXCEPT ![t] = {}]
        /\ minted' = minted /\ version' = version
    BY <1>4 DEF PublishToken, Finish
  <2>2. tab' = [tab EXCEPT ![t] = Published(tab[t], o)] /\ Published(tab[t], o) = m
    BY <1>3, <1>6, <1>8, <1>13, Zenon DEF PublishToken, Published
  <2>3. tab' = [tab EXCEPT ![t] = m]
    BY <2>2, Zenon
  <2>4. QED
    BY <2>1, <2>3 DEF TabStep
<1>15. Messages(t)
  <2>1. [type |-> "token", gen |-> gen] \in Message
    BY <1>7 DEF Message
  <2>2. QED
    BY <1>6, <2>1, AboutTab, Heard DEF PublishToken
<1>16. News(t) /\ lock' # t /\ lock' \in {None, lock}
  BY <1>3, AboutTab DEF News, PublishToken, Finish
<1>17. WipedOK(m, {}) /\ DueIn(t, r, m)
  BY <1>3, <1>12 DEF WipedOK, DueIn, Active
<1>18. QuietKept(t, m, {})
  BY <1>2, <1>3, NoClearBehind
<1>19. {} \in SUBSET Adoption
  OBVIOUS
<1>20. QED
  BY <1>3, <1>5, <1>12, <1>14, <1>15, <1>16, <1>17, <1>18, <1>19, Ended

\* AfterInactive
LEMMA AfterInactiveStep ==
  ASSUME IInv, NEW t \in Tabs, AfterInactive(t) PROVE IInv'
<1>1. Running(t, Deactivating, "deactivated")
  BY DEF AfterInactive
<1>2. PICK o : o = queue[t][1]
  OBVIOUS
<1>3. /\ lock = t /\ queue[t] # << >> /\ o \in Operation /\ Head(queue[t]) = o /\ o.current
      /\ OpOK(o) /\ version # None /\ ~version.active /\ Quiet(tab[t], adopting[t])
      /\ Faded(Tail(queue[t]), Tail(queue[t])) /\ Tail(queue[t]) \in Seq(Operation)
  <2>1. /\ o \in Operation /\ o.phase = "deactivated"
        /\ o.current /\ OpOK(o) /\ HeadOK(o, tab[t], adopting[t])
        /\ lock = t /\ queue[t] # << >> /\ Head(queue[t]) = o
        /\ Faded(Tail(queue[t]), Tail(queue[t])) /\ Tail(queue[t]) \in Seq(Operation)
    BY <1>1, <1>2, AboutRunning DEF Faded
  <2>2. QED
    BY <2>1 DEF HeadOK
<1>4. PICK gen : gen = version.gen
  OBVIOUS
<1>5. gen \in Generation /\ gen \in Binding /\ gen = Gen(version)
  BY <1>3, <1>4, AboutTab DEF Gen, Shape, Record, Binding
<1>6. version' = version /\ minted' = minted /\ announced' = TRUE
      /\ Broadcast(t, [type |-> "clear", gen |-> gen])
  BY <1>4 DEF AfterInactive
<1>7. Messages(t) /\ News(t)
  <2>1. PICK msg \in Message : msg = [type |-> "clear", gen |-> gen]
    BY <1>5 DEF Message
  <2>2. Broadcast(t, msg) /\ msg = [type |-> "clear", gen |-> Gen(version)]
    BY <1>5, <1>6, <2>1
  <2>3. Messages(t) /\ \A u \in Tabs \ {t} : Told(u)'
    BY <1>6, <2>2, AboutTab, Heard
  <2>4. QED
    BY <1>6, <2>3 DEF News
<1>8. CASE /\ o.kind = "login"
           /\ tab' = [tab EXCEPT ![t] = [@ EXCEPT !.binding = version.gen, !.pending = version.gen]]
           /\ queue' = [queue EXCEPT ![t] =
                  <<[To(o, "posted") EXCEPT !.claims = TRUE, !.binding = version.gen]>>
                     \o Outdated(Tail(@))]
           /\ adopting' = [adopting EXCEPT ![t] = {}]
           /\ lock' = lock
  <2>1. PICK r : r = Outdated(Tail(queue[t]))
    OBVIOUS
  <2>2. Faded(Tail(queue[t]), r)
    BY <1>3, <2>1, OutdatedFades
  <2>3. PICK m : m = [tab[t] EXCEPT !.binding = gen, !.pending = gen]
    OBVIOUS
  <2>4. m \in Memory /\ m.token = tab[t].token /\ m.accept = tab[t].accept
    BY <1>5, <2>3, AboutTab DEF Memory
  <2>5. Quiet(m, {})
    BY <1>3, <2>4 DEF Quiet
  <2>6. PICK op : op = [To(o, "posted") EXCEPT !.claims = TRUE, !.binding = gen]
    OBVIOUS
  <2>7. /\ op \in Operation /\ op.kind = o.kind /\ op.phase = "posted"
        /\ op.current = o.current /\ op.fresh = o.fresh
    BY <1>3, <1>5, <2>6 DEF Operation, Phases, To
  <2>8. OpOK(op) /\ HeadOK(op, m, {}) /\ op.kind # "clear"
    BY <1>3, <1>8, <2>7 DEF OpOK, HeadOK
  <2>9. TabStep(t, <<op>> \o r, m, {})
    BY <1>4, <1>6, <1>8, <2>1, <2>3, <2>6, AboutTab DEF TabStep, Shape
  <2>10. WipedOK(m, {}) /\ QuietKept(t, m, {}) /\ DueIn(t, <<op>> \o r, m)
    BY <2>5 DEF WipedOK, QuietKept, DueIn, Quiet
  <2>11. {} \in SUBSET Adoption /\ lock' = t
    BY <1>3, <1>8
  <2>12. QED
    BY <1>2, <1>3, <1>7, <2>2, <2>4, <2>7, <2>8, <2>9, <2>10, <2>11, Continued
<1>9. CASE /\ o.kind # "login"
           /\ tab' = [tab EXCEPT ![t].binding = version.gen]
           /\ Finish(t, Tail(queue[t]))
           /\ adopting' = adopting
  <2>1. PICK r : r = Tail(queue[t])
    OBVIOUS
  <2>2. PICK m : m = [tab[t] EXCEPT !.binding = gen]
    OBVIOUS
  <2>3. m \in Memory /\ m.token = tab[t].token /\ m.accept = tab[t].accept
    BY <1>5, <2>2, AboutTab DEF Memory
  <2>4. Quiet(m, {})
    BY <1>3, <2>3 DEF Quiet
  <2>5. TabStep(t, r, m, {})
    BY <1>3, <1>4, <1>6, <1>9, <2>1, <2>2, AboutTab DEF TabStep, Shape, Finish, Quiet
  <2>6. WipedOK(m, {}) /\ QuietKept(t, m, {}) /\ DueIn(t, r, m)
    BY <2>4 DEF WipedOK, QuietKept, DueIn, Quiet
  <2>7. {} \in SUBSET Adoption /\ lock' # t /\ lock' \in {None, lock}
    BY <1>9, AboutTab DEF Finish
  <2>8. QED
    BY <1>3, <1>7, <2>1, <2>3, <2>5, <2>6, <2>7, Ended
<1>10. QED
  BY <1>3, <1>8, <1>9 DEF AfterInactive

----------------------------------------------------------------------------
(***************************************************************************)
(* Messages and adoptions.                                                 *)
(***************************************************************************)
\* ReceiveRequest
LEMMA ReceiveRequestStep ==
  ASSUME IInv, NEW t \in Tabs, ReceiveRequest(t) PROVE IInv'
<1>1. /\ inbox[t] # << >> /\ Head(inbox[t]).type = "request"
      /\ version' = version /\ minted' = minted /\ lock' = lock /\ announced' = announced
      /\ queue' = queue /\ tab' = tab /\ adopting' = adopting
  BY DEF ReceiveRequest, Receive
<1>2. inbox[t] \in Seq(Message) /\ \A u \in Tabs : inbox[u] \in Seq(Message)
  BY AboutTab DEF Shape
<1>3. PICK h \in Message : h = Head(inbox[t])
  BY <1>1, <1>2, TailFacts
<1>4. PICK msg : msg = [type |-> "token", gen |-> h.gen]
  OBVIOUS
<1>5. msg \in Message
  BY <1>3, <1>4 DEF Message
<1>6. inbox' = [u \in Tabs |-> IF u = t THEN Tail(inbox[u])
                              ELSE IF tab[t].token = h.gen THEN Append(inbox[u], msg)
                              ELSE inbox[u]]
  BY <1>3, <1>4 DEF ReceiveRequest
<1>7. PICK news : news = [type |-> "clear", gen |-> Gen(version)]
  OBVIOUS
<1>8. \A u \in Tabs : /\ Told(u) <=> Contains(inbox[u], news)
                      /\ Told(u)' <=> Contains(inbox'[u], news)
  BY <1>1, <1>7 DEF Told, Gen, Contains
<1>9. \A u \in Tabs \ {t} : Append(inbox[u], msg) \in Seq(Message)
                           /\ (Contains(inbox[u], news) => Contains(Append(inbox[u], msg), news))
  <2>1. ASSUME NEW u \in Tabs \ {t}
        PROVE  Append(inbox[u], msg) \in Seq(Message)
               /\ (Contains(inbox[u], news) => Contains(Append(inbox[u], msg), news))
    <3>1. PICK box \in Seq(Message) : box = inbox[u]
      BY <1>2
    <3>2. Append(box, msg) \in Seq(Message)
      BY <1>5, <3>1, AppendFacts
    <3>3. Contains(box, news) => Contains(Append(box, msg), news)
      BY <1>5, <3>1, StillThere
    <3>4. QED
      BY <3>1, <3>2, <3>3
  <2>2. QED
    BY <2>1
<1>10. Tail(inbox[t]) \in Seq(Message)
       /\ (Contains(inbox[t], news) => Contains(Tail(inbox[t]), news))
  <2>1. PICK box \in Seq(Message) : box = inbox[t]
    BY <1>2
  <2>2. box # << >> /\ Head(box) # news
    BY <1>1, <1>7, <2>1
  <2>3. Tail(box) \in Seq(Message)
    BY <2>1, <2>2, TailFacts
  <2>4. Contains(box, news) => Contains(Tail(box), news)
    BY <2>1, <2>2, StillBehind
  <2>5. QED
    BY <2>1, <2>3, <2>4
<1>11. inbox' \in [Tabs -> Seq(Message)]
  BY <1>2, <1>6, <1>9, <1>10
<1>12. /\ inbox'[t] = Tail(inbox[t])
       /\ \A u \in Tabs \ {t} : inbox'[u] = Append(inbox[u], msg) \/ inbox'[u] = inbox[u]
  BY <1>6
<1>13. \A u \in Tabs : Told(u) => Told(u)'
  BY <1>8, <1>9, <1>10, <1>12
<1>14. Messages(t) /\ News(t)
  BY <1>1, <1>11, <1>13, SameTypes, AboutTab DEF Messages, News, Shape
<1>15. PICK A \in SUBSET Adoption, m \in Memory, r \in Seq(Operation) :
         A = adopting[t] /\ m = tab[t] /\ r = queue[t]
  BY AboutTab
<1>16. TabStep(t, r, m, A)
  BY <1>1, <1>15, AboutTab DEF TabStep, Shape
<1>17. Faded(queue[t], r) /\ WipedOK(m, A) /\ (lock = t => HeadOK(queue[t][1], m, A))
  BY <1>15, SelfFaded, AboutTab DEF TabOK
<1>18. QuietKept(t, m, A)
  BY <1>15, StaysQuiet
<1>19. DueIn(t, r, m)
  BY <1>1, <1>13, <1>15, DueKept
<1>20. QED
  BY <1>1, <1>14, <1>15, <1>16, <1>17, <1>18, <1>19, InPlace

\* ReceiveClear
LEMMA ReceiveClearStep ==
  ASSUME IInv, NEW t \in Tabs, ReceiveClear(t) PROVE IInv'
<1>1. /\ inbox[t] # << >> /\ Head(inbox[t]).type = "clear"
      /\ version' = version /\ minted' = minted /\ lock' = lock /\ announced' = announced
      /\ tab' = tab /\ adopting' = adopting
  BY DEF ReceiveClear, Receive
<1>2. inbox' = [inbox EXCEPT ![t] = Tail(inbox[t])]
  BY AboutTab DEF ReceiveClear, Shape
<1>3. /\ Messages(t) /\ News(t) /\ Head(inbox[t]) \in Message
      /\ Told(t) => Told(t)' \/ Head(inbox[t]) = [type |-> "clear", gen |-> Gen(version)]
  BY <1>1, <1>2, AboutTab, Taken
<1>4. PICK gen \in Binding : gen = Head(inbox[t]).gen
  BY <1>3 DEF Message, Binding
<1>5. PICK op : op = NewOp(t, "peerClear", gen)
  OBVIOUS
<1>6. /\ op \in Operation /\ OpOK(op) /\ op.phase = "queued" /\ op.current
      /\ op.kind = "peerClear" /\ op.binding = gen
  BY <1>4, <1>5, NewOpOK DEF Kinds
<1>7. WillClear(op) \/ (Told(t) => Told(t)')
  BY <1>3, <1>4, <1>6 DEF WillClear
<1>8. PICK A \in SUBSET Adoption, m \in Memory, r \in Seq(Operation) :
        A = adopting[t] /\ m = tab[t] /\ r = queue[t]
  BY AboutTab
<1>9. TabStep(t, Append(r, op), m, A)
  BY <1>1, <1>4, <1>5, <1>8, AboutTab DEF ReceiveClear, TabStep, Shape
<1>10. Faded(queue[t], r) /\ WipedOK(m, A)
  BY <1>8, SelfFaded, AboutTab DEF TabOK
<1>11. QuietKept(t, m, A) /\ (Quiet(tab[t], adopting[t]) => Quiet(m, A))
  BY <1>8, StaysQuiet
<1>12. DueIn(t, Append(r, op), m)
  BY <1>1, <1>6, <1>7, <1>8, <1>10, DueAppend
<1>13. QED
  BY <1>1, <1>3, <1>6, <1>8, <1>9, <1>10, <1>11, <1>12, Appended

\* ReceiveToken
LEMMA ReceiveTokenStep ==
  ASSUME IInv, NEW t \in Tabs, ReceiveToken(t) PROVE IInv'
<1>1. /\ inbox[t] # << >> /\ Head(inbox[t]).type = "token"
      /\ version' = version /\ minted' = minted /\ lock' = lock /\ announced' = announced
      /\ tab' = tab /\ queue' = queue
  BY DEF ReceiveToken, Receive
<1>2. inbox' = [inbox EXCEPT ![t] = Tail(inbox[t])]
  BY AboutTab DEF ReceiveToken, Shape
<1>3. /\ Messages(t) /\ News(t) /\ Head(inbox[t]) \in Message /\ (Told(t) => Told(t)')
  <2>1. Head(inbox[t]) # [type |-> "clear", gen |-> Gen(version)]
    BY <1>1
  <2>2. Shape
    BY AboutTab
  <2>3. QED
    BY <1>1, <1>2, <2>1, <2>2, Taken
<1>4. PICK m \in Memory, r \in Seq(Operation) : m = tab[t] /\ r = queue[t]
  BY AboutTab
<1>5. PICK asked \in BOOLEAN : asked = IsAsking(t)
  BY AboutTab DEF IsAsking, Operation
<1>6. PICK a : a = [gen |-> Head(inbox[t]).gen, asked |-> asked]
  OBVIOUS
<1>7. a \in Adoption /\ a.asked = asked
  BY <1>3, <1>6 DEF Adoption, Message
<1>8. PICK A : A = adopting'[t]
  OBVIOUS
<1>9. /\ adopting' = [adopting EXCEPT ![t] = A]
      /\ A = adopting[t] \/ (A = adopting[t] \cup {a} /\ (asked \/ m.accept))
  <2>1. \/ adopting' = adopting
        \/ /\ adopting' = [adopting EXCEPT ![t] = @ \cup {a}]
           /\ asked \/ tab[t].accept
    BY <1>5, <1>6 DEF ReceiveToken
  <2>2. QED
    BY <1>4, <1>8, <2>1, AboutTab DEF Shape
<1>10. A \in SUBSET Adoption
  BY <1>7, <1>9, AboutTab
<1>11. TabStep(t, r, m, A)
  BY <1>1, <1>4, <1>9, AboutTab DEF TabStep, Shape
<1>12. Faded(queue[t], r)
  BY <1>4, SelfFaded
<1>13. WipedOK(m, A)
  BY <1>4, <1>7, <1>9, AboutTab DEF TabOK, WipedOK
<1>14. ASSUME asked
       PROVE  /\ queue[t] # << >> /\ queue[t][1].current /\ queue[t][1].phase = "asking"
              /\ queue[t][1].kind # "clear"
  <2>1. queue[t] # << >> /\ queue[t][1].current /\ queue[t][1].phase = "asking"
    BY <1>5, <1>14, AboutTab DEF IsAsking
  <2>2. QED
    BY <2>1, AboutTab DEF OpOK
<1>15. QuietKept(t, m, A)
  <2>1. CASE asked
    BY <1>14, <2>1, NoClearBehind
  <2>2. CASE ~asked
    <3>1. Quiet(tab[t], adopting[t]) => Quiet(m, A)
      BY <1>4, <1>9, <2>2 DEF Quiet
    <3>2. QED
      BY <3>1, StaysQuiet
  <2>3. QED
    BY <2>1, <2>2
<1>16. ASSUME lock = t PROVE HeadOK(queue[t][1], m, A)
  <2>1. HeadOK(queue[t][1], tab[t], adopting[t])
    BY <1>16, AboutTab DEF TabOK
  <2>2. CASE asked
    BY <1>14, <2>2 DEF HeadOK
  <2>3. CASE ~asked
    <3>1. Quiet(tab[t], adopting[t]) => Quiet(m, A)
      BY <1>4, <1>9, <2>3 DEF Quiet
    <3>2. QED
      BY <2>1, <3>1 DEF HeadOK
  <2>4. QED
    BY <2>2, <2>3
<1>17. DueIn(t, r, m)
  BY <1>1, <1>3, <1>4, DueKept
<1>18. QED
  BY <1>1, <1>3, <1>4, <1>10, <1>11, <1>12, <1>13, <1>15, <1>16, <1>17, InPlace

\* Adopt
LEMMA AdoptStep ==
  ASSUME IInv, NEW t \in Tabs, NEW a \in adopting[t], Adopt(t, a) PROVE IInv'
<1>1. a \in Adoption /\ ~Quiet(tab[t], adopting[t])
  BY AboutTab DEF Quiet
<1>2. /\ version' = version /\ minted' = minted /\ lock' = lock /\ announced' = announced
      /\ inbox' = inbox /\ Messages(t) /\ News(t) /\ (Told(t) => Told(t)')
  BY AboutTab, NothingSaid DEF Adopt
<1>3. CASE Adoptable(t, a)
  <2>1. Active(version) /\ version # None /\ a.gen \in Binding /\ a.asked \in BOOLEAN
    BY <1>1, <1>3 DEF Adoptable, Active, Adoption, Binding
  <2>2. tab[t].wiped => a.asked
    BY AboutTab DEF TabOK, WipedOK
  <2>3. PICK m : m = [tab[t] EXCEPT !.token = a.gen, !.binding = a.gen, !.accept = TRUE,
                                    !.wiped = FALSE]
    OBVIOUS
  <2>4. m \in Memory /\ ~m.wiped
    BY <2>1, <2>3, AboutTab DEF Memory
  <2>5. m = [tab[t] EXCEPT !.token = a.gen, !.binding = a.gen, !.accept = TRUE,
                           !.wiped = @ /\ ~a.asked]
    <3>1. (tab[t].wiped /\ ~a.asked) = FALSE
      BY <2>2
    <3>2. QED
      BY <2>3, <3>1, Zenon
  <2>6. PICK r : r = Outdated(queue[t])
    OBVIOUS
  <2>7. Faded(queue[t], r)
    BY <2>6, AboutTab, OutdatedFades
  <2>8. TabStep(t, r, m, {})
    <3>1. queue' = [queue EXCEPT ![t] = r] /\ adopting' = [adopting EXCEPT ![t] = {}]
      BY <1>3, <2>6, AboutTab DEF Adopt, Shape
    <3>2. tab' = [tab EXCEPT ![t] = m]
      BY <1>3, <2>5, Zenon DEF Adopt, Adopted
    <3>3. QED
      BY <1>2, <3>1, <3>2 DEF TabStep
  <2>9. QuietKept(t, m, {})
    BY <1>1, StaysQuiet
  <2>10. lock = t => HeadOK(queue[t][1], m, {})
    BY <1>1, <2>1, AboutTab DEF TabOK, HeadOK
  <2>11. WipedOK(m, {}) /\ DueIn(t, r, m) /\ {} \in SUBSET Adoption
    BY <2>1, <2>4 DEF WipedOK, DueIn, Active
  <2>12. QED
    BY <1>2, <2>4, <2>7, <2>8, <2>9, <2>10, <2>11, InPlace
<1>4. CASE ~Adoptable(t, a)
  <2>1. PICK m \in Memory, r \in Seq(Operation) : m = tab[t] /\ r = queue[t]
    BY AboutTab
  <2>2. PICK A \in SUBSET Adoption : A = adopting[t] \ {a}
    BY AboutTab
  <2>3. TabStep(t, r, m, A)
    BY <1>2, <1>4, <2>1, <2>2, AboutTab DEF Adopt, TabStep, Shape
  <2>4. Faded(queue[t], r)
    BY <2>1, SelfFaded
  <2>5. WipedOK(m, A) /\ (lock = t => HeadOK(queue[t][1], m, A))
    BY <1>1, <2>1, <2>2, AboutTab DEF TabOK, WipedOK, HeadOK
  <2>6. QuietKept(t, m, A)
    BY <1>1, StaysQuiet
  <2>7. DueIn(t, r, m)
    BY <1>2, <2>1, DueKept
  <2>8. QED
    BY <1>2, <2>1, <2>2, <2>3, <2>4, <2>5, <2>6, <2>7, InPlace
<1>5. QED
  BY <1>3, <1>4

----------------------------------------------------------------------------
(***************************************************************************)
(* The invariant.                                                          *)
(***************************************************************************)
\* Both kinds of browser the model starts from are in order.
LEMMA InitOK ==
  ASSUME Init PROVE IInv
<1>1. NewContext(None) \in Memory /\ NewContext(None).token = None /\ ~NewContext(None).wiped
  BY DEF NewContext, Memory, Binding
<1>2. /\ << >> \in Seq(Operation) /\ << >> \in Seq(Message) /\ {} \in SUBSET Adoption
  OBVIOUS
<1>3. minted \in Nat /\ version \in Record \cup {None}
  <2>1. CASE version = None /\ minted = 0
    BY <2>1
  <2>2. CASE version = [gen |-> 1, active |-> TRUE] /\ minted = 1
    BY <2>2 DEF Record, Generation
  <2>3. QED
    BY <2>1, <2>2 DEF Init
<1>4. Shape
  BY <1>1, <1>2, <1>3 DEF Init, Shape
<1>5. ASSUME NEW t \in Tabs PROVE TabOK(t)
  <2>1. /\ tab[t] = NewContext(None) /\ queue[t] = << >> /\ adopting[t] = {} /\ lock # t
    BY BrowserAssumption DEF Init
  <2>2. QED
    BY <1>1, <2>1 DEF TabOK, WipedOK, QueueOK, Due
<1>6. QED
  BY <1>4, <1>5 DEF IInv

\* Nothing happens.
LEMMA Stuttering ==
  ASSUME IInv, UNCHANGED vars PROVE IInv'
<1>1. Shape'
  BY SameTypes DEF IInv, Shape, vars
<1>2. ASSUME NEW t \in Tabs PROVE TabOK(t)'
  <2>1. TabOK(t) /\ queue' = queue /\ tab' = tab /\ adopting' = adopting /\ lock' = lock
        /\ version' = version /\ inbox' = inbox /\ announced' = announced
    BY DEF IInv, vars
  <2>2. \A op : (OpOK(op)' <=> OpOK(op)) /\ (WillClear(op)' <=> WillClear(op))
    BY <2>1 DEF OpOK, WillClear, Gen
  <2>3. WipedOK(tab[t], adopting[t])'
    BY <2>1 DEF TabOK, WipedOK
  <2>4. QueueOK(queue[t], tab[t], adopting[t])'
    BY <2>1, <2>2 DEF TabOK, QueueOK, Quiet
  <2>5. lock' = t => HeadOK(queue[t][1], tab[t], adopting[t])'
    BY <2>1 DEF TabOK, HeadOK, Active, Gen, Quiet
  <2>6. Due(t)'
    BY <2>1, <2>2 DEF TabOK, Due, Told, Gen
  <2>7. QED
    BY <2>3, <2>4, <2>5, <2>6 DEF TabOK
<1>3. QED
  BY <1>1, <1>2 DEF IInv

\* Every action keeps the invariant.
LEMMA NextOK ==
  ASSUME IInv, Next PROVE IInv'
<1>1. ASSUME NEW t \in Tabs, Call(t) PROVE IInv'
  <2>1. ASSUME refresh(t) PROVE IInv'
    BY <2>1, QueuedStep DEF refresh
  <2>2. ASSUME NEW kind \in {"exchange", "logout"}, exchangeOrLogout(t, kind) PROVE IInv'
    BY <2>2, QueuedStep DEF exchangeOrLogout
  <2>3. QED
    BY <1>1, <2>1, <2>2, LoginStep, ClearStep DEF Call
<1>2. ASSUME NEW t \in Tabs, Step(t) PROVE IInv'
  BY <1>2, ReadVersionStep, AcquireStep, SupersededStep, BeginLoginStep, BeginExchangeStep,
     BeginRefreshStep, BeginLogoutStep, BeginClearStep, BeginPeerClearStep, EndAskingStep, AnsweredStep,
     LoggedOutStep, WriteStep, PublishTokenStep, AfterInactiveStep, ReceiveRequestStep,
     ReceiveClearStep, ReceiveTokenStep, AdoptStep DEF Step
<1>3. QED
  BY <1>1, <1>2, ReloadStep, Stuttering DEF Next, Idle

(***************************************************************************)
(* What a tab has taken in, has begun and has yet to be told is consistent *)
(* with the record in IndexedDB, whatever the tabs do.                     *)
(***************************************************************************)
THEOREM Invariance == Spec => []IInv
<1>1. Init => IInv
  BY InitOK
<1>2. IInv /\ [Next]_vars => IInv'
  BY NextOK, Stuttering
<1>3. QED
  BY <1>1, <1>2, PTL DEF Spec

(***************************************************************************)
(* TypeOK: memory, operations and messages are well-formed in every        *)
(* reachable state, and who holds the lock has an operation to run.        *)
(***************************************************************************)
THEOREM TypeCorrect == Spec => []TypeOK
<1>1. IInv => TypeOK
  <2>1. SUFFICES ASSUME IInv PROVE TypeOK
    OBVIOUS
  <2>2. ASSUME NEW t \in Tabs
        PROVE  /\ tab[t] \in Memory
               /\ \A i \in DOMAIN queue[t] : queue[t][i] \in Operation
               /\ \A i \in DOMAIN inbox[t] : inbox[t][i] \in Message
               /\ adopting[t] \subseteq Adoption
    <3>1. /\ tab[t] \in Memory /\ queue[t] \in Seq(Operation) /\ inbox[t] \in Seq(Message)
          /\ adopting[t] \subseteq Adoption
      BY <2>1 DEF IInv, Shape
    <3>2. QED
      BY <3>1
  <2>3. QED
    BY <2>1, <2>2 DEF IInv, Shape, TypeOK, Record
<1>2. QED
  BY <1>1, Invariance, PTL

(***************************************************************************)
(* ClearedStaysCleared: no late answer of the vault and no late message    *)
(* gives a cleared tab a token, for any number of tabs and calls.          *)
(***************************************************************************)
THEOREM ClearedForGood == Spec => []ClearedStaysCleared
<1>1. IInv => ClearedStaysCleared
  BY DEF IInv, TabOK, WipedOK, ClearedStaysCleared
<1>2. QED
  BY <1>1, Invariance, PTL

(***************************************************************************)
(* LogoutReachesEveryTab: once every message is handled, no tab holds a    *)
(* token unless the record is active, or was never announced.              *)
(***************************************************************************)
THEOREM LogoutIsHeard == Spec => []LogoutReachesEveryTab
<1>1. IInv => LogoutReachesEveryTab
  <2>1. SUFFICES ASSUME IInv, AtRest, announced, NEW t \in Tabs, tab[t].token # None
                 PROVE  Active(version)
    BY DEF LogoutReachesEveryTab
  <2>2. queue[t] = << >> /\ inbox[t] = << >>
    BY <2>1 DEF AtRest
  <2>3. Due(t)
    BY <2>1 DEF IInv, TabOK
  <2>4. QED
    BY <2>1, <2>2, <2>3 DEF Due, Told, Active
<1>2. QED
  BY <1>1, Invariance, PTL

\* Only the two writers change the record.
LEMMA Writers ==
  ASSUME Next, version' # version
  PROVE  \E t \in Tabs : PublishVersion(t) \/ WriteInactive(t)
<1>1. \A t : Done(t) => version' = version
  BY DEF Done
<1>2. \A t, b : Fail(t, b) => version' = version
  BY <1>1 DEF Fail, Forfeit
<1>3. \A t \in Tabs : Call(t) \/ Reload(t) => version' = version
  BY DEF Call, login, refresh, clear, exchangeOrLogout, Reload
<1>4. ASSUME NEW t \in Tabs, Step(t), ~PublishVersion(t), ~WriteInactive(t)
      PROVE  version' = version
  <2>1. BeginLogin(t) \/ BeginExchange(t) \/ BeginRefresh(t) \/ BeginLogout(t)
        \/ BeginClear(t) \/ BeginPeerClear(t) \/ EndAsking(t) => version' = version
    BY <1>1, <1>2 DEF BeginLogin, BeginExchange, BeginRefresh, BeginLogout, BeginClear,
       BeginPeerClear, EndAsking
  <2>2. Navigates(t) \/ LoggedOut(t) \/ Refused(t) \/ PublishToken(t) \/ AfterInactive(t)
        \/ Acquire(t) \/ Superseded(t) => version' = version
    BY <1>1, <1>2 DEF Navigates, LoggedOut, Refused, PublishToken, AfterInactive, Acquire,
       Superseded
  <2>3. ReceiveRequest(t) \/ ReceiveClear(t) \/ ReceiveToken(t)
        \/ (\E a \in adopting[t] : Adopt(t, a))
        \/ (\E i \in DOMAIN queue[t] : readVersion(t, i)) => version' = version
    BY DEF ReceiveRequest, ReceiveClear, ReceiveToken, Receive, Adopt, readVersion
  <2>4. QED
    BY <1>4, <2>1, <2>2, <2>3 DEF Step
<1>5. QED
  BY <1>3, <1>4 DEF Next, Idle, vars

(***************************************************************************)
(* ClearIsAboutItsEntry: a clear deactivates only the generation that was  *)
(* on record when it was called, or when its read of the record was        *)
(* answered if its tab knew none, however long it waited for the lock.     *)
(***************************************************************************)
THEOREM ClearsAreScoped == Spec => ClearIsAboutItsEntry
<1> DEFINE About == \A t \in Tabs :
             lock = t /\ Head(queue[t]).kind = "clear" /\ version' # version =>
               Gen(version) = Head(queue[t]).entry
<1>1. IInv /\ [Next]_vars => [About]_vars
  <2>1. SUFFICES ASSUME IInv, Next, NEW t \in Tabs, lock = t, Head(queue[t]).kind = "clear",
                        version' # version
                 PROVE  Gen(version) = Head(queue[t]).entry
    OBVIOUS
  <2>2. PICK u \in Tabs : PublishVersion(u) \/ WriteInactive(u)
    BY <2>1, Writers
  <2>3. u = t /\ queue[t] # << >> /\ Head(queue[t]) = queue[t][1]
    BY <2>1, <2>2, AboutTab DEF PublishVersion, WriteInactive, Running
  <2>4. Running(t, Deactivating, "deactivating")
    BY <2>1, <2>2, <2>3 DEF PublishVersion, WriteInactive, Running
  <2>5. /\ queue[t][1].kind = "clear" /\ queue[t][1].phase = "deactivating" /\ queue[t][1].current
        /\ OpOK(queue[t][1]) /\ HeadOK(queue[t][1], tab[t], adopting[t])
    BY <2>1, <2>3, <2>4, AboutRunning
  <2>6. QED
    BY <2>3, <2>5 DEF OpOK, HeadOK
<1>2. QED
  BY <1>1, Invariance, PTL DEF Spec, ClearIsAboutItsEntry
=============================================================================
