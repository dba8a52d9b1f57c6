----------------------------- MODULE WebhooksProofs -----------------------------
(***************************************************************************)
(* Procurement webhooks for any subscriptions, processes, requests and     *)
(* limits: deliveries are accepted once and given up after all attempts,   *)
(* and failing subscriptions are paused.                                   *)
(***************************************************************************)
EXTENDS ProcurementWebhooks, FiniteSetTheorems, SequenceTheorems, TLAPS

Status == {"ACTIVE", "PAUSED"}
Row == [of : Subscriptions, status : {"PENDING", "SUCCEEDED", "FAILED"}, attempt : Nat,
        retry : {"none", "later", "due"}, final : {"none", "recent", "old"}]
Snapshot == [id : Nat, row : Row, copy : Status]

\* A delivery's row is saved between these steps of its attempt.
BeforeSave == {"post", "saveDelivery"}
AfterSave == {"saveSubscription", "count", "pause"}

Steps == {"idle", "create", "saveStatus"} \cup BeforeSave \cup AfterSave
Work == [at : Steps,
         todo : Seq(Snapshot), job : {"retry", "replay"}, id : Nat, attempt : Nat, ok : BOOLEAN,
         of : Subscriptions, copy : Status, seen : Status]

\* What a scan has left to retry was due when it was loaded.
TodoOK(todo, job, ids) ==
  job = "retry" => \A n \in DOMAIN todo :
    todo[n].id \in ids /\ todo[n].row.status = "FAILED" /\ todo[n].row.retry = "due"

\* A request that attempts a delivery knows its id, and no other knows one.
WorkOK(w, ids) ==
  /\ w.at \in BeforeSave \cup AfterSave => w.id \in ids
  /\ w.at \notin BeforeSave \cup AfterSave => w.id = 0
  /\ w.at \in {"count", "pause"} => Terminal(w)
  /\ TodoOK(w.todo, w.job, ids)

WebhooksTypeOK ==
  /\ subscriptions \in [Subscriptions -> Status]
  /\ deliveries \in Seq(Row)
  /\ ahead \in [Ids -> SUBSET Ids]
  /\ workers \in [Workers -> Work]
  /\ \A r \in Workers : WorkOK(workers[r], Ids)
  /\ posts \in [Ids -> Nat]
  /\ acks \in [Ids -> Nat]
  /\ overlapped \in [Ids -> BOOLEAN]
  /\ cut \in [Ids -> BOOLEAN]
  /\ forced \in [Subscriptions -> BOOLEAN]
  /\ reverted \in [Subscriptions -> BOOLEAN]
  /\ unchecked \in [Subscriptions -> BOOLEAN]

-------------------------------------------------------------------------------
(* Types *)

\* Rows are numbered from 1.
LEMMA IdsAreNumbers ==
  ASSUME WebhooksTypeOK
  PROVE  Len(deliveries) \in Nat /\ Ids = 1..Len(deliveries) /\ 0 \notin Ids
BY DEF WebhooksTypeOK, Ids

\* Nothing to do is a kind of work.
LEMMA IdleType ==
  Idle \in Work /\ (\A ids : WorkOK(Idle, ids)) /\ Idle.id = 0 /\ Idle.at = "idle" /\ Idle.todo = <<>>
<1>1. (CHOOSE s \in Subscriptions : TRUE) \in Subscriptions
  BY WebhooksAssumption
<1>2. <<>> \in Seq(Snapshot) /\ DOMAIN <<>> = {}
  OBVIOUS
<1>3. QED
  BY <1>1, <1>2 DEF Idle, Work, WorkOK, TodoOK, Status, Steps, BeforeSave, AfterSave

\* The handler that becomes something else is the only one that changes.
LEMMA BecomeEffect ==
  ASSUME workers \in [Workers -> Work], NEW r \in Workers, NEW w \in Work, Become(r, w)
  PROVE  /\ workers' \in [Workers -> Work] /\ workers'[r] = w
         /\ \A q \in Workers \ {r} : workers'[q] = workers[q]
BY DEF Become

\* A handler that goes on with what it has loaded becomes idle, copies a delivery,
\* or posts one, which is marked unless it is due now and nobody else's.
LEMMA ProceedEffect ==
  ASSUME WebhooksTypeOK, NEW r \in Workers, NEW todo \in Seq(Snapshot),
         NEW job \in {"retry", "replay"}, TodoOK(todo, job, Ids), Proceed(r, todo, job)
  PROVE  \E w \in Work :
           /\ WorkOK(w, Ids) /\ Become(r, w)
           /\ \/ w.at \in {"idle", "create"} /\ UNCHANGED overlapped
              \/ /\ w.at = "post"
                 /\ overlapped' \in [Ids -> BOOLEAN]
                 /\ \A d \in Ids : ~overlapped'[d] => ~overlapped[d]
                 /\ ~overlapped'[w.id] =>
                      /\ deliveries[w.id].status = "FAILED" /\ deliveries[w.id].retry = "due"
                      /\ w.attempt = deliveries[w.id].attempt + 1
                      /\ \A q \in Workers \ {r} : workers[q].id # w.id
<1>1. CASE Become(r, Idle) /\ UNCHANGED overlapped
  BY <1>1, IdleType
<1> DEFINE Rest(n) == SubSeq(todo, n + 1, Len(todo))
           Task(n, step, id, attempt) ==
             [at |-> step, todo |-> Rest(n), job |-> job, id |-> id, attempt |-> attempt, ok |-> FALSE,
              of |-> todo[n].row.of, copy |-> todo[n].copy, seen |-> "ACTIVE"]
<1>2. ASSUME NEW n \in DOMAIN todo, NEW step \in {"create", "post"}, NEW id \in Nat, NEW attempt \in Nat,
             step = "create" => id = 0, step = "post" => id \in Ids
      PROVE  LET w == Task(n, step, id, attempt)
             IN  w \in Work /\ WorkOK(w, Ids) /\ w.at = step /\ w.id = id /\ w.attempt = attempt
  <2> DEFINE rest == Rest(n)
             w == Task(n, step, id, attempt)
  <2>1. todo[n] \in Snapshot
    OBVIOUS
  <2>2. rest \in Seq(Snapshot)
    BY SubSeqProperties
  <2>3. \A m \in DOMAIN rest : \E k \in DOMAIN todo : rest[m] = todo[k]
    BY SubSeqProperties
  <2>4. TodoOK(rest, job, Ids)
    BY <2>3 DEF TodoOK
  <2>5. w = [at |-> step, todo |-> rest, job |-> job, id |-> id, attempt |-> attempt, ok |-> FALSE,
             of |-> todo[n].row.of, copy |-> todo[n].copy, seen |-> "ACTIVE"]
    OBVIOUS
  <2> HIDE DEF rest, w
  <2>6. w \in Work
    BY <2>1, <2>2, <2>5 DEF Work, Snapshot, Row, Status, Steps, BeforeSave
  <2>7. w.at = step /\ w.id = id /\ w.attempt = attempt /\ w.todo = rest /\ w.job = job
    BY <2>5
  <2>8. WorkOK(w, Ids)
    BY <1>2, <2>4, <2>7 DEF WorkOK, BeforeSave, AfterSave
  <2>9. QED
    BY <2>6, <2>7, <2>8 DEF w
<1> HIDE DEF Task
<1>3. ASSUME NEW n \in DOMAIN todo, Become(r, Task(n, "create", 0, 0)), UNCHANGED overlapped
      PROVE  \E w \in Work : WorkOK(w, Ids) /\ Become(r, w) /\ w.at = "create"
  BY <1>2, <1>3
<1>4. ASSUME NEW n \in DOMAIN todo, job = "retry", NEW d, d = todo[n],
             Become(r, Task(n, "post", d.id, d.row.attempt + 1)),
             overlapped' = [overlapped EXCEPT ![d.id] =
               \/ @ \/ deliveries[d.id] # d.row
               \/ \E other \in Workers \ {r} : workers[other].id = d.id]
      PROVE  \E w \in Work :
               /\ WorkOK(w, Ids) /\ Become(r, w) /\ w.at = "post"
               /\ overlapped' \in [Ids -> BOOLEAN]
               /\ \A e \in Ids : ~overlapped'[e] => ~overlapped[e]
               /\ ~overlapped'[w.id] =>
                    /\ deliveries[w.id].status = "FAILED" /\ deliveries[w.id].retry = "due"
                    /\ w.attempt = deliveries[w.id].attempt + 1
                    /\ \A q \in Workers \ {r} : workers[q].id # w.id
  <2>1. d \in Snapshot
    BY <1>4
  <2>2. d.id \in Nat /\ d.row.attempt + 1 \in Nat
    BY <2>1 DEF Snapshot, Row
  <2>3. d.id \in Ids /\ d.row.status = "FAILED" /\ d.row.retry = "due"
    BY <1>4 DEF TodoOK
  <2>4. PICK w \in Work : /\ WorkOK(w, Ids) /\ Become(r, w) /\ w.at = "post"
                          /\ w.id = d.id /\ w.attempt = d.row.attempt + 1
    BY <1>2, <1>4, <2>2, <2>3
  <2>5. overlapped' \in [Ids -> BOOLEAN] /\ \A e \in Ids : ~overlapped'[e] => ~overlapped[e]
    BY <1>4, <2>3 DEF WebhooksTypeOK
  <2>6. ~overlapped'[d.id] => deliveries[d.id] = d.row /\ \A q \in Workers \ {r} : workers[q].id # d.id
    BY <1>4, <2>3 DEF WebhooksTypeOK
  <2>7. QED
    BY <2>3, <2>4, <2>5, <2>6
<1>5. QED
  <2>1. CASE Become(r, Idle) /\ UNCHANGED overlapped
    BY <1>1, <2>1
  <2>2. CASE job = "replay" /\ ~(Become(r, Idle) /\ UNCHANGED overlapped)
    BY <1>3, <2>2 DEF Proceed, Task
  <2>3. CASE job = "retry" /\ ~(Become(r, Idle) /\ UNCHANGED overlapped)
    BY <1>4, <2>3 DEF Proceed, Task
  <2>4. QED
    BY <2>1, <2>2, <2>3

\* A handler's todo list is taken from what it loads.
LEMMA LoadAllEffect ==
  ASSUME WebhooksTypeOK, NEW r \in Workers, NEW ids \in SUBSET Ids, NEW job \in {"retry", "replay"},
         NEW order \in SetToSeqs(ids), LoadAll(r, order, job),
         job = "retry" => \A d \in ids : deliveries[d].status = "FAILED" /\ deliveries[d].retry = "due"
  PROVE  \E todo \in Seq(Snapshot) : TodoOK(todo, job, Ids) /\ Proceed(r, todo, job)
<1>1. order \in [1..Cardinality(ids) -> ids] /\ Proceed(r, [n \in DOMAIN order |-> Loaded(order[n])], job)
  BY DEF LoadAll, SetToSeqs
<1> DEFINE todo == [n \in DOMAIN order |-> Loaded(order[n])]
<1>2. Cardinality(ids) \in Nat
  <2>1. IsFiniteSet(Ids)
    BY IdsAreNumbers, FS_Interval
  <2>2. QED
    BY <2>1, FS_Subset, FS_CardinalityType
<1>3. \A d \in Ids : Loaded(d) \in Snapshot
  <2> SUFFICES ASSUME NEW d \in Ids PROVE Loaded(d) \in Snapshot
    OBVIOUS
  <2>1. d \in Nat /\ deliveries[d] \in Row
    BY IdsAreNumbers DEF WebhooksTypeOK
  <2>2. subscriptions[deliveries[d].of] \in Status
    BY <2>1 DEF WebhooksTypeOK, Row
  <2>3. QED
    BY <2>1, <2>2 DEF Loaded, Snapshot
<1>4. \A n \in 1..Cardinality(ids) : order[n] \in Ids /\ todo[n] = Loaded(order[n])
  BY <1>1
<1>5. todo \in [1..Cardinality(ids) -> Snapshot]
  BY <1>1, <1>3, <1>4
<1>6. todo \in Seq(Snapshot)
  BY <1>2, <1>5, IsASeq
<1>7. TodoOK(todo, job, Ids)
  BY <1>1, <1>4 DEF TodoOK, Loaded
<1>8. QED
  BY <1>1, <1>6, <1>7

\* A handler that takes its next step keeps what it has in memory.
LEMMA GotoEffect ==
  ASSUME WebhooksTypeOK, NEW r \in Workers, NEW step \in Steps, Goto(r, step)
  PROVE  \E w \in Work :
           /\ Become(r, w) /\ w.at = step
           /\ w.todo = workers[r].todo /\ w.job = workers[r].job /\ w.id = workers[r].id
           /\ w.attempt = workers[r].attempt /\ w.ok = workers[r].ok
           /\ w.of = workers[r].of /\ w.copy = workers[r].copy
<1> DEFINE w == [workers[r] EXCEPT !.at = step]
<1>1. workers[r] \in Work
  BY DEF WebhooksTypeOK
<1>2. /\ w \in Work /\ w.at = step
      /\ w.todo = workers[r].todo /\ w.job = workers[r].job /\ w.id = workers[r].id
      /\ w.attempt = workers[r].attempt /\ w.ok = workers[r].ok
      /\ w.of = workers[r].of /\ w.copy = workers[r].copy
  BY <1>1 DEF Work
<1>3. Become(r, w)
  BY DEF Goto, Become
<1>4. QED
  BY <1>2, <1>3

\* A post leaves its answer in memory.
LEMMA PostEffect ==
  ASSUME WebhooksTypeOK, NEW r \in Workers, NEW answer \in BOOLEAN,
         Become(r, [workers[r] EXCEPT !.at = "saveDelivery", !.ok = answer])
  PROVE  \E w \in Work :
           /\ Become(r, w) /\ w.at = "saveDelivery" /\ w.ok = answer
           /\ w.todo = workers[r].todo /\ w.job = workers[r].job /\ w.id = workers[r].id
           /\ w.attempt = workers[r].attempt /\ w.of = workers[r].of
<1> DEFINE w == [workers[r] EXCEPT !.at = "saveDelivery", !.ok = answer]
<1>1. workers[r] \in Work
  BY DEF WebhooksTypeOK
<1>2. /\ w \in Work /\ w.at = "saveDelivery" /\ w.ok = answer
      /\ w.todo = workers[r].todo /\ w.job = workers[r].job /\ w.id = workers[r].id
      /\ w.attempt = workers[r].attempt /\ w.of = workers[r].of
  BY <1>1 DEF Work, Steps, BeforeSave
<1>3. QED
  BY <1>2

\* The history of a new delivery starts with 0 and FALSE.
LEMMA CountersExtend ==
  ASSUME NEW n \in Nat, NEW f \in [1..n -> Nat]
  PROVE  /\ Append(f, 0) \in [1..(n + 1) -> Nat]
         /\ \A d \in 1..n : Append(f, 0)[d] = f[d]
         /\ Append(f, 0)[n + 1] = 0
<1>1. f \in Seq(Nat) /\ 0 \in Nat
  BY IsASeq
<1>2. Len(f) = n
  BY <1>1, LenProperties
<1>3. /\ Append(f, 0) \in Seq(Nat) /\ Len(Append(f, 0)) = n + 1
      /\ \A d \in 1..n : Append(f, 0)[d] = f[d]
      /\ Append(f, 0)[n + 1] = 0
  BY <1>1, <1>2, AppendProperties
<1>4. Append(f, 0) \in [1..(n + 1) -> Nat]
  BY <1>3, LenProperties
<1>5. QED
  BY <1>3, <1>4

\* Likewise for flags.
LEMMA FlagsExtend ==
  ASSUME NEW n \in Nat, NEW f \in [1..n -> BOOLEAN]
  PROVE  /\ Append(f, FALSE) \in [1..(n + 1) -> BOOLEAN]
         /\ \A d \in 1..n : Append(f, FALSE)[d] = f[d]
<1>1. f \in Seq(BOOLEAN) /\ FALSE \in BOOLEAN
  BY IsASeq
<1>2. Len(f) = n
  BY <1>1, LenProperties
<1>3. /\ Append(f, FALSE) \in Seq(BOOLEAN) /\ Len(Append(f, FALSE)) = n + 1
      /\ \A d \in 1..n : Append(f, FALSE)[d] = f[d]
      /\ Append(f, FALSE)[n + 1] = FALSE
  BY <1>1, <1>2, AppendProperties
<1>4. Append(f, FALSE) \in [1..(n + 1) -> BOOLEAN]
  BY <1>3, LenProperties
<1>5. QED
  BY <1>3, <1>4

\* A new delivery is numbered and attempted for the first time.
LEMMA CreateEffect ==
  ASSUME WebhooksTypeOK, NEW r \in Workers, DeliverToSubscription(r)
  PROVE  /\ deliveries' \in Seq(Row)
         /\ Ids' = Ids \cup {Len(deliveries) + 1} /\ Len(deliveries) + 1 \notin Ids
         /\ \A d \in Ids : /\ deliveries'[d] = deliveries[d] /\ posts'[d] = posts[d] /\ acks'[d] = acks[d]
                           /\ overlapped'[d] = overlapped[d] /\ cut'[d] = cut[d]
         /\ LET d == Len(deliveries) + 1
            IN  posts'[d] = 0 /\ acks'[d] = 0 /\ deliveries'[d].status = "PENDING"
         /\ posts' \in [Ids' -> Nat] /\ acks' \in [Ids' -> Nat]
         /\ overlapped' \in [Ids' -> BOOLEAN] /\ cut' \in [Ids' -> BOOLEAN]
         /\ \E w \in Work : /\ Become(r, w) /\ w.at = "post" /\ w.id = Len(deliveries) + 1 /\ w.attempt = 1
                            /\ w.todo = workers[r].todo /\ w.job = workers[r].job
<1> DEFINE n == Len(deliveries)
           row == [of |-> workers[r].of, status |-> "PENDING", attempt |-> 1, retry |-> "none", final |-> "none"]
<1>1. n \in Nat /\ Ids = 1..n /\ deliveries \in Seq(Row) /\ workers[r] \in Work
  BY IdsAreNumbers DEF WebhooksTypeOK
<1>2. row \in Row /\ row.status = "PENDING"
  BY <1>1 DEF Row, Work
<1>3. deliveries' = Append(deliveries, row)
  BY DEF DeliverToSubscription
<1> HIDE DEF row
<1>4. /\ deliveries' \in Seq(Row) /\ Len(deliveries') = n + 1
      /\ \A d \in 1..n : deliveries'[d] = deliveries[d]
      /\ deliveries'[n + 1] = row
  BY <1>1, <1>2, <1>3, AppendProperties
<1>5. Ids' = 1..(n + 1) /\ Ids' = Ids \cup {n + 1} /\ n + 1 \notin Ids
  BY <1>1, <1>4 DEF Ids
<1>7. /\ posts' = Append(posts, 0) /\ acks' = Append(acks, 0)
      /\ overlapped' = Append(overlapped, FALSE) /\ cut' = Append(cut, FALSE)
      /\ Become(r, [workers[r] EXCEPT !.at = "post", !.id = n + 1, !.attempt = 1])
  BY DEF DeliverToSubscription
<1> HIDE DEF n
<1>8. \E w \in Work : /\ Become(r, w) /\ w.at = "post" /\ w.id = n + 1 /\ w.attempt = 1
                     /\ w.todo = workers[r].todo /\ w.job = workers[r].job
  <2> DEFINE w == [workers[r] EXCEPT !.at = "post", !.id = n + 1, !.attempt = 1]
  <2>1. n + 1 \in Nat
    BY <1>1
  <2>2. w \in Work
    BY <1>1, <2>1 DEF Work, Steps, BeforeSave
  <2>3. w.at = "post" /\ w.id = n + 1 /\ w.attempt = 1
        /\ w.todo = workers[r].todo /\ w.job = workers[r].job
    BY <1>1 DEF Work
  <2>4. QED
    BY <1>7, <2>2, <2>3
<1>9. /\ posts' \in [1..(n + 1) -> Nat] /\ acks' \in [1..(n + 1) -> Nat]
      /\ \A d \in Ids : posts'[d] = posts[d] /\ acks'[d] = acks[d]
      /\ posts'[n + 1] = 0 /\ acks'[n + 1] = 0
  <2>1. posts \in [1..n -> Nat] /\ acks \in [1..n -> Nat] /\ 0 \in Nat
    BY <1>1 DEF WebhooksTypeOK
  <2>2. /\ Append(posts, 0) \in [1..(n + 1) -> Nat] /\ \A d \in 1..n : Append(posts, 0)[d] = posts[d]
        /\ Append(posts, 0)[n + 1] = 0
    BY <1>1, <2>1, CountersExtend
  <2>3. /\ Append(acks, 0) \in [1..(n + 1) -> Nat] /\ \A d \in 1..n : Append(acks, 0)[d] = acks[d]
        /\ Append(acks, 0)[n + 1] = 0
    BY <1>1, <2>1, CountersExtend
  <2>4. QED
    BY <1>1, <1>7, <2>2, <2>3
<1>10. /\ overlapped' \in [1..(n + 1) -> BOOLEAN] /\ cut' \in [1..(n + 1) -> BOOLEAN]
       /\ \A d \in Ids : overlapped'[d] = overlapped[d] /\ cut'[d] = cut[d]
  <2>1. overlapped \in [1..n -> BOOLEAN] /\ cut \in [1..n -> BOOLEAN] /\ FALSE \in BOOLEAN
    BY <1>1 DEF WebhooksTypeOK
  <2>2. /\ Append(overlapped, FALSE) \in [1..(n + 1) -> BOOLEAN]
        /\ \A d \in 1..n : Append(overlapped, FALSE)[d] = overlapped[d]
    BY <1>1, <2>1, FlagsExtend
  <2>3. /\ Append(cut, FALSE) \in [1..(n + 1) -> BOOLEAN]
        /\ \A d \in 1..n : Append(cut, FALSE)[d] = cut[d]
    BY <1>1, <2>1, FlagsExtend
  <2>4. QED
    BY <1>1, <1>7, <2>2, <2>3
<1>11. QED
  BY <1>1, <1>2, <1>4, <1>5, <1>8, <1>9, <1>10 DEF n

\* A handler's new work keeps the types of all work.
LEMMA WorkersTyped ==
  ASSUME WebhooksTypeOK, NEW r \in Workers, NEW w \in Work, Become(r, w), WorkOK(w, Ids'), Ids \subseteq Ids'
  PROVE  workers' \in [Workers -> Work] /\ \A q \in Workers : WorkOK(workers'[q], Ids')
<1>1. /\ workers' \in [Workers -> Work] /\ workers'[r] = w
      /\ \A q \in Workers \ {r} : workers'[q] = workers[q]
  BY BecomeEffect DEF WebhooksTypeOK
<1>2. ASSUME NEW q \in Workers PROVE WorkOK(workers[q], Ids')
  <2>1. WorkOK(workers[q], Ids)
    BY DEF WebhooksTypeOK
  <2>2. QED
    BY <2>1 DEF WorkOK, TodoOK
<1>3. QED
  BY <1>1, <1>2

\* The handlers' steps that leave deliveries and what is counted of them alone
\* give one handler other work: none, a copy to make, a step further with the
\* same delivery once its row is saved, or the post of a row that is due and
\* nobody else's, or marked.
OtherWork(r) ==
  \E w \in Work :
    /\ WorkOK(w, Ids) /\ Become(r, w)
    /\ workers[r].at \notin BeforeSave
    /\ UNCHANGED <<deliveries, posts, acks, cut>>
    /\ overlapped' \in [Ids -> BOOLEAN]
    /\ \A d \in Ids : ~overlapped'[d] => ~overlapped[d]
    /\ \/ w.at \in {"idle", "create", "saveStatus"}
       \/ w.at \in AfterSave /\ workers[r].at \in AfterSave /\ w.id = workers[r].id
       \/ /\ w.at = "post"
          /\ ~overlapped'[w.id] =>
               /\ deliveries[w.id].status = "FAILED" /\ deliveries[w.id].retry = "due"
               /\ w.attempt = deliveries[w.id].attempt + 1
               /\ \A q \in Workers \ {r} : workers[q].id # w.id

\* Going on with a list that is typed is such a step.
LEMMA ProceedIsOtherWork ==
  ASSUME WebhooksTypeOK, NEW r \in Workers, NEW todo \in Seq(Snapshot),
         NEW job \in {"retry", "replay"}, TodoOK(todo, job, Ids), Proceed(r, todo, job),
         workers[r].at \notin BeforeSave, UNCHANGED <<deliveries, posts, acks, cut>>
  PROVE  OtherWork(r) /\ workers'[r].at \in {"idle", "create", "post"}
<1>1. PICK w \in Work :
        /\ WorkOK(w, Ids) /\ Become(r, w)
        /\ \/ w.at \in {"idle", "create"} /\ UNCHANGED overlapped
           \/ /\ w.at = "post"
              /\ overlapped' \in [Ids -> BOOLEAN]
              /\ \A d \in Ids : ~overlapped'[d] => ~overlapped[d]
              /\ ~overlapped'[w.id] =>
                   /\ deliveries[w.id].status = "FAILED" /\ deliveries[w.id].retry = "due"
                   /\ w.attempt = deliveries[w.id].attempt + 1
                   /\ \A q \in Workers \ {r} : workers[q].id # w.id
  BY ProceedEffect
<1>2. workers'[r] = w
  BY <1>1, BecomeEffect DEF WebhooksTypeOK
<1>3. overlapped \in [Ids -> BOOLEAN]
  BY DEF WebhooksTypeOK
<1>4. QED
  BY <1>1, <1>2, <1>3 DEF OtherWork

\* So are the next delivery of a handler,
LEMMA NextDeliveryIsOtherWork ==
  ASSUME WebhooksTypeOK, NEW r \in Workers, NextDelivery(r),
         workers[r].at \notin BeforeSave, UNCHANGED <<deliveries, posts, acks, cut>>
  PROVE  OtherWork(r) /\ workers'[r].at \in {"idle", "create", "post"}
<1>1. workers[r] \in Work /\ WorkOK(workers[r], Ids)
  BY DEF WebhooksTypeOK
<1>2. /\ workers[r].todo \in Seq(Snapshot) /\ workers[r].job \in {"retry", "replay"}
      /\ TodoOK(workers[r].todo, workers[r].job, Ids)
  BY <1>1 DEF Work, WorkOK
<1>3. QED
  BY <1>2, ProceedIsOtherWork DEF NextDelivery

\* a scan,
LEMMA LoadAllIsOtherWork ==
  ASSUME WebhooksTypeOK, NEW r \in Workers, NEW ids \in SUBSET Ids, NEW job \in {"retry", "replay"},
         NEW order \in SetToSeqs(ids), LoadAll(r, order, job),
         job = "retry" => \A d \in ids : deliveries[d].status = "FAILED" /\ deliveries[d].retry = "due"
  PROVE  OtherWork(r) /\ workers'[r].at \in {"idle", "create", "post"}
<1>1. PICK todo \in Seq(Snapshot) : TodoOK(todo, job, Ids) /\ Proceed(r, todo, job)
  BY LoadAllEffect
<1>2. workers[r].at \notin BeforeSave /\ UNCHANGED <<deliveries, posts, acks, cut>>
  BY DEF LoadAll, At, tables, BeforeSave
<1>3. QED
  BY <1>1, <1>2, ProceedIsOtherWork

\* a step further with a delivery whose row is saved,
LEMMA GotoIsOtherWork ==
  ASSUME WebhooksTypeOK, NEW r \in Workers, NEW step \in {"count", "pause"}, Goto(r, step),
         workers[r].at \in AfterSave, Terminal(workers[r]),
         UNCHANGED <<deliveries, posts, acks, cut, overlapped>>
  PROVE  /\ OtherWork(r)
         /\ workers'[r].at = step /\ Terminal(workers'[r])
         /\ workers'[r].of = workers[r].of /\ workers'[r].copy = workers[r].copy
<1>1. PICK w \in Work :
        /\ Become(r, w) /\ w.at = step
        /\ w.todo = workers[r].todo /\ w.job = workers[r].job /\ w.id = workers[r].id
        /\ w.attempt = workers[r].attempt /\ w.ok = workers[r].ok
        /\ w.of = workers[r].of /\ w.copy = workers[r].copy
  BY GotoEffect DEF Steps, AfterSave
<1>2. WorkOK(workers[r], Ids) /\ overlapped \in [Ids -> BOOLEAN]
  BY DEF WebhooksTypeOK
<1>3. Terminal(w)
  BY <1>1 DEF Terminal
<1>4. WorkOK(w, Ids) /\ w.at \in AfterSave
  BY <1>1, <1>2, <1>3 DEF WorkOK, BeforeSave, AfterSave
<1>5. workers[r].at \notin BeforeSave
  BY DEF BeforeSave, AfterSave
<1>6. workers'[r] = w
  BY <1>1, BecomeEffect DEF WebhooksTypeOK
<1>7. QED
  BY <1>1, <1>2, <1>3, <1>4, <1>5, <1>6 DEF OtherWork

\* and a request.
LEMMA RequestIsOtherWork ==
  ASSUME WebhooksTypeOK, NEW r \in Workers, NEW w \in Work, Become(r, w), WorkOK(w, Ids),
         w.at \in {"idle", "create", "saveStatus"}, workers[r].at \notin BeforeSave,
         UNCHANGED <<deliveries, posts, acks, cut, overlapped>>
  PROVE  OtherWork(r)
BY DEF OtherWork, WebhooksTypeOK

-------------------------------------------------------------------------------
(* The steps *)

\* What a request becomes knows no delivery.
LEMMA RequestWork ==
  ASSUME NEW w \in Work, w.id = 0, w.todo = <<>>, w.at \in {"create", "saveStatus"}
  PROVE  WorkOK(w, Ids)
<1>1. DOMAIN <<>> = {}
  OBVIOUS
<1>2. QED
  BY <1>1 DEF WorkOK, TodoOK, BeforeSave, AfterSave

\* A request or scan starts with a handler that is idle, and leaves the tables
\* and what is noted of subscriptions alone.
Started(r) ==
  /\ At(r, "idle") /\ OtherWork(r) /\ workers'[r].at \in {"idle", "create", "post", "saveStatus"}
  /\ UNCHANGED <<subscriptions, forced, reverted, unchecked>>

\* retryFailedDeliveries,
LEMMA RetryStarts ==
  ASSUME WebhooksTypeOK, NEW r \in Workers, RetryFailedDeliveries(r)
  PROVE  Started(r)
<1> DEFINE ids == Oldest
<1>1. ids \in SUBSET Ids /\ \A d \in ids : deliveries[d].status = "FAILED" /\ deliveries[d].retry = "due"
  BY DEF Oldest, Due
<1>2. PICK order \in SetToSeqs(ids) : LoadAll(r, order, "retry")
  BY DEF RetryFailedDeliveries
<1> HIDE DEF ids
<1>3. OtherWork(r) /\ workers'[r].at \in {"idle", "create", "post"}
  BY <1>1, <1>2, LoadAllIsOtherWork
<1>4. At(r, "idle") /\ UNCHANGED <<subscriptions, forced, reverted, unchecked>>
  BY <1>2 DEF LoadAll, tables
<1>5. QED
  BY <1>3, <1>4 DEF Started

\* replayTerminalFailures,
LEMMA ReplayAllStarts ==
  ASSUME WebhooksTypeOK, NEW r \in Workers, ReplayTerminalFailures(r)
  PROVE  Started(r)
<1>1. PICK ids \in SUBSET Ids : \E order \in SetToSeqs(ids) : LoadAll(r, order, "replay")
  BY DEF ReplayTerminalFailures
<1>2. PICK order \in SetToSeqs(ids) : LoadAll(r, order, "replay")
  BY <1>1
<1>3. OtherWork(r) /\ workers'[r].at \in {"idle", "create", "post"}
  BY <1>2, LoadAllIsOtherWork
<1>4. At(r, "idle") /\ UNCHANGED <<subscriptions, forced, reverted, unchecked>>
  BY <1>2 DEF LoadAll, tables
<1>5. QED
  BY <1>3, <1>4 DEF Started

\* and the requests for one subscription or delivery.
LEMMA RequestStarts ==
  ASSUME WebhooksTypeOK, NEW r \in Workers, NEW w \in Work, WorkOK(w, Ids), Become(r, w),
         w.at \in {"create", "saveStatus"}, At(r, "idle"), UNCHANGED <<tables, crashes, history>>
  PROVE  Started(r)
<1>1. workers'[r] = w
  BY BecomeEffect DEF WebhooksTypeOK
<1>2. workers[r].at \notin BeforeSave
  BY DEF At, BeforeSave
<1>3. UNCHANGED <<deliveries, posts, acks, cut, overlapped>> /\ UNCHANGED <<subscriptions, forced, reverted, unchecked>>
  BY DEF tables, history
<1>4. OtherWork(r)
  BY <1>2, <1>3, RequestIsOtherWork
<1>5. QED
  BY <1>1, <1>3, <1>4 DEF Started

\* dispatchProcurementEvent,
LEMMA DispatchStarts ==
  ASSUME WebhooksTypeOK, NEW r \in Workers, NEW s \in Subscriptions, Dispatch(r, s)
  PROVE  Started(r)
<1> DEFINE w == [Idle EXCEPT !.at = "create", !.of = s]
<1>1. Idle \in Work /\ Idle.id = 0 /\ Idle.todo = <<>>
  BY IdleType
<1>2. w \in Work /\ w.at = "create" /\ w.id = 0 /\ w.todo = <<>>
  BY <1>1 DEF Work, Steps
<1>3. Become(r, w) /\ At(r, "idle") /\ UNCHANGED <<tables, crashes, history>>
  BY DEF Dispatch
<1> HIDE DEF w
<1>4. QED
  BY <1>2, <1>3, RequestWork, RequestStarts

\* replayDelivery
LEMMA ReplayStarts ==
  ASSUME WebhooksTypeOK, NEW r \in Workers, NEW d \in Ids, ReplayDelivery(r, d)
  PROVE  Started(r)
<1> DEFINE s == deliveries[d].of
           copy == subscriptions[s]
           w == [Idle EXCEPT !.at = "create", !.of = s, !.copy = copy]
<1>1. Idle \in Work /\ Idle.id = 0 /\ Idle.todo = <<>>
  BY IdleType
<1>2. s \in Subscriptions /\ copy \in Status
  <2>1. deliveries[d] \in Row
    BY IdsAreNumbers DEF WebhooksTypeOK
  <2>2. QED
    BY <2>1 DEF Row, WebhooksTypeOK
<1>3. Become(r, w) /\ At(r, "idle") /\ UNCHANGED <<tables, crashes, history>>
  BY DEF ReplayDelivery
<1> HIDE DEF s, copy
<1>4. w \in Work /\ w.at = "create" /\ w.id = 0 /\ w.todo = <<>>
  BY <1>1, <1>2 DEF Work, Steps
<1> HIDE DEF w
<1>5. QED
  BY <1>3, <1>4, RequestWork, RequestStarts

\* and updateSubscriptionStatus.
LEMMA LoadForStatusStarts ==
  ASSUME WebhooksTypeOK, NEW r \in Workers, NEW s \in Subscriptions, NEW status \in Status,
         NEW force \in BOOLEAN, LoadForStatus(r, s, status, force)
  PROVE  Started(r)
<1> DEFINE seen == subscriptions[s]
           w == [Idle EXCEPT !.at = "saveStatus", !.of = s, !.copy = status, !.ok = force, !.seen = seen]
<1>1. seen \in Status
  BY DEF WebhooksTypeOK
<1>2. Idle \in Work /\ Idle.id = 0 /\ Idle.todo = <<>>
  BY IdleType
<1>3. Become(r, w) /\ At(r, "idle") /\ UNCHANGED <<tables, crashes, history>>
  BY DEF LoadForStatus
<1> HIDE DEF seen
<1>4. w \in Work /\ w.at = "saveStatus" /\ w.id = 0 /\ w.todo = <<>>
  BY <1>1, <1>2 DEF Work, Steps
<1> HIDE DEF w
<1>5. QED
  BY <1>3, <1>4, RequestWork, RequestStarts

\* A handler that is through with a delivery goes on with the next.
LeavesOff(r) == OtherWork(r) /\ workers'[r].at \in {"idle", "create", "post"}

\* A step further with a delivery that failed for good.
GoesTo(r, step) ==
  /\ OtherWork(r)
  /\ workers'[r].at = step /\ Terminal(workers'[r])
  /\ workers'[r].of = workers[r].of /\ workers'[r].copy = workers[r].copy

\* After the save of the subscription a terminal failure is counted; anybody else is done.
LEMMA SaveSubscriptionEffect ==
  ASSUME WebhooksTypeOK, NEW r \in Workers, SaveSubscription(r)
  PROVE  IF Terminal(workers[r]) THEN GoesTo(r, "count") ELSE LeavesOff(r)
<1>1. workers[r].at = "saveSubscription" /\ UNCHANGED <<deliveries, posts, acks, cut>>
  BY DEF SaveSubscription, At
<1>2. workers[r].at \in AfterSave /\ workers[r].at \notin BeforeSave
  BY <1>1 DEF BeforeSave, AfterSave
<1>3. CASE Terminal(workers[r])
  <2>1. Goto(r, "count") /\ UNCHANGED overlapped
    BY <1>3 DEF SaveSubscription
  <2>2. QED
    BY <1>1, <1>2, <1>3, <2>1, GotoIsOtherWork DEF GoesTo
<1>4. CASE ~Terminal(workers[r])
  <2>1. NextDelivery(r)
    BY <1>4 DEF SaveSubscription
  <2>2. QED
    BY <1>1, <1>2, <1>4, <2>1, NextDeliveryIsOtherWork DEF LeavesOff
<1>5. QED
  BY <1>3, <1>4

\* maybeAutoPauseSubscription counts.
LEMMA CountFailuresEffect ==
  ASSUME WebhooksTypeOK, NEW r \in Workers, CountFailures(r)
  PROVE  IF workers[r].copy = "ACTIVE" /\ Failing(workers[r].of) THEN GoesTo(r, "pause") ELSE LeavesOff(r)
<1>1. workers[r].at = "count" /\ UNCHANGED <<deliveries, posts, acks, cut>>
  BY DEF CountFailures, At, tables
<1>2. workers[r].at \in AfterSave /\ workers[r].at \notin BeforeSave
  BY <1>1 DEF BeforeSave, AfterSave
<1>3. Terminal(workers[r])
  <2>1. WorkOK(workers[r], Ids)
    BY DEF WebhooksTypeOK
  <2>2. QED
    BY <1>1, <2>1 DEF WorkOK
<1>4. CASE workers[r].copy = "ACTIVE" /\ Failing(workers[r].of)
  <2>1. Goto(r, "pause") /\ UNCHANGED overlapped
    BY <1>4 DEF CountFailures
  <2>2. QED
    BY <1>1, <1>2, <1>3, <1>4, <2>1, GotoIsOtherWork DEF GoesTo
<1>5. CASE ~(workers[r].copy = "ACTIVE" /\ Failing(workers[r].of))
  <2>1. NextDelivery(r)
    BY <1>5 DEF CountFailures
  <2>2. QED
    BY <1>1, <1>2, <1>5, <2>1, NextDeliveryIsOtherWork DEF LeavesOff
<1>6. QED
  BY <1>4, <1>5

\* It pauses.
LEMMA AutoPauseEffect ==
  ASSUME WebhooksTypeOK, NEW r \in Workers, AutoPause(r)
  PROVE  LeavesOff(r)
<1>1. workers[r].at = "pause" /\ UNCHANGED <<deliveries, posts, acks, cut>> /\ NextDelivery(r)
  BY DEF AutoPause, At
<1>2. workers[r].at \notin BeforeSave
  BY <1>1 DEF BeforeSave
<1>3. QED
  BY <1>1, <1>2, NextDeliveryIsOtherWork DEF LeavesOff

\* updateSubscriptionStatus saves.
LEMMA SaveStatusEffect ==
  ASSUME WebhooksTypeOK, NEW r \in Workers, SaveStatus(r)
  PROVE  LeavesOff(r)
<1>1. /\ workers[r].at = "saveStatus" /\ Become(r, Idle)
      /\ UNCHANGED <<deliveries, posts, acks, cut, overlapped>>
  BY DEF SaveStatus, At
<1>2. workers[r].at \notin BeforeSave
  BY <1>1 DEF BeforeSave
<1>3. workers'[r] = Idle
  BY <1>1, BecomeEffect, IdleType DEF WebhooksTypeOK
<1>4. QED
  BY <1>1, <1>2, <1>3, IdleType, RequestIsOtherWork DEF LeavesOff

\* What Next does to deliveries and handlers.
LEMMA StepKinds ==
  ASSUME WebhooksTypeOK, Next
  PROVE  \/ \E r \in Workers :
              \/ Started(r)
              \/ DeliverToSubscription(r) \/ Post(r) \/ SaveDelivery(r) \/ Crash(r)
              \/ SaveSubscription(r) \/ CountFailures(r) \/ AutoPause(r) \/ SaveStatus(r)
         \/ \E d \in Ids : BackoffEnds(d) \/ DayEnds(d)
<1>1. \A r \in CronJobs : r \in Workers
  BY DEF Workers
<1>2. \A r \in Requests : r \in Workers
  BY DEF Workers
<1>3. \A r \in Mortal : r \in Workers
  BY WebhooksAssumption DEF Workers
<1>4. ASSUME NEW r \in CronJobs, RetryFailedDeliveries(r) PROVE Started(r)
  BY <1>1, <1>4, RetryStarts
<1>9. ASSUME NEW r \in Requests, NEW s \in Subscriptions, Dispatch(r, s) PROVE Started(r)
  BY <1>2, <1>9, DispatchStarts
<1>5. ASSUME NEW r \in Requests, NEW s \in Administered,
             \/ \E force \in BOOLEAN : LoadForStatus(r, s, "ACTIVE", force)
             \/ LoadForStatus(r, s, "PAUSED", FALSE)
      PROVE  Started(r)
  <2>1. s \in Subscriptions
    BY WebhooksAssumption
  <2>2. ASSUME NEW force \in BOOLEAN, LoadForStatus(r, s, "ACTIVE", force) PROVE Started(r)
    BY <1>2, <2>1, <2>2, LoadForStatusStarts DEF Status
  <2>3. CASE LoadForStatus(r, s, "PAUSED", FALSE)
    BY <1>2, <2>1, <2>3, LoadForStatusStarts DEF Status
  <2>4. QED
    BY <1>5, <2>2, <2>3
<1>6. ASSUME NEW r \in Requests, NEW d \in Ids, ReplayDelivery(r, d) PROVE Started(r)
  BY <1>2, <1>6, ReplayStarts
<1>7. ASSUME NEW r \in Requests, ReplayTerminalFailures(r) PROVE Started(r)
  BY <1>2, <1>7, ReplayAllStarts
<1>8. QED
  BY <1>1, <1>2, <1>3, <1>4, <1>5, <1>6, <1>7, <1>9 DEF Next, AttemptStep

-------------------------------------------------------------------------------
(* Type correctness *)

HandlersTyped ==
  /\ deliveries \in Seq(Row)
  /\ workers \in [Workers -> Work]
  /\ \A r \in Workers : WorkOK(workers[r], Ids)
  /\ posts \in [Ids -> Nat]
  /\ acks \in [Ids -> Nat]
  /\ overlapped \in [Ids -> BOOLEAN]
  /\ cut \in [Ids -> BOOLEAN]

StatusesTyped ==
  /\ subscriptions \in [Subscriptions -> Status]
  /\ forced \in [Subscriptions -> BOOLEAN]
  /\ reverted \in [Subscriptions -> BOOLEAN]
  /\ unchecked \in [Subscriptions -> BOOLEAN]

\* Saving a row keeps the ids.
LEMMA SaveRow ==
  ASSUME WebhooksTypeOK, NEW d \in Ids, NEW row \in Row, deliveries' = [deliveries EXCEPT ![d] = row]
  PROVE  /\ deliveries' \in Seq(Row) /\ Ids' = Ids
         /\ deliveries'[d] = row /\ \A e \in Ids \ {d} : deliveries'[e] = deliveries[e]
<1>1. deliveries \in Seq(Row) /\ d \in 1..Len(deliveries)
  BY IdsAreNumbers DEF WebhooksTypeOK
<1>2. QED
  BY <1>1 DEF Ids

\* The handlers' steps between their own.
LEMMA OtherWorkTyped ==
  ASSUME WebhooksTypeOK, NEW r \in Workers, OtherWork(r)
  PROVE  HandlersTyped'
<1>1. PICK w \in Work : WorkOK(w, Ids) /\ Become(r, w)
  BY DEF OtherWork
<1>2. UNCHANGED <<deliveries, posts, acks, cut>> /\ overlapped' \in [Ids -> BOOLEAN]
  BY DEF OtherWork
<1>3. Ids' = Ids
  BY <1>2 DEF Ids
<1>4. workers' \in [Workers -> Work] /\ \A q \in Workers : WorkOK(workers'[q], Ids')
  BY <1>1, <1>3, WorkersTyped
<1>5. QED
  BY <1>2, <1>3, <1>4 DEF WebhooksTypeOK, HandlersTyped

\* A new row.
LEMMA CreateTyped ==
  ASSUME WebhooksTypeOK, NEW r \in Workers, DeliverToSubscription(r)
  PROVE  HandlersTyped'
<1>1. PICK w \in Work : /\ Become(r, w) /\ w.at = "post" /\ w.id = Len(deliveries) + 1
                        /\ w.todo = workers[r].todo /\ w.job = workers[r].job
  BY CreateEffect
<1>2. Ids' = Ids \cup {Len(deliveries) + 1}
  BY CreateEffect
<1>3. WorkOK(workers[r], Ids)
  BY DEF WebhooksTypeOK
<1>4. WorkOK(w, Ids')
  BY <1>1, <1>2, <1>3 DEF WorkOK, TodoOK, BeforeSave, AfterSave
<1>5. workers' \in [Workers -> Work] /\ \A q \in Workers : WorkOK(workers'[q], Ids')
  BY <1>1, <1>2, <1>4, WorkersTyped
<1>6. QED
  BY <1>5, CreateEffect DEF HandlersTyped

\* What a handler attempts.
LEMMA AttemptedType ==
  ASSUME NEW w \in Work
  PROVE  /\ Attempted(w) \in Row
         /\ Attempted(w).of = w.of /\ Attempted(w).attempt = w.attempt
         /\ Attempted(w).status = IF w.ok THEN "SUCCEEDED" ELSE "FAILED"
         /\ Attempted(w).retry = IF w.ok \/ Terminal(w) THEN "none" ELSE "later"
         /\ Attempted(w).final = IF Terminal(w) THEN "recent" ELSE "none"
<1>1. w.of \in Subscriptions /\ w.attempt \in Nat
  BY DEF Work
<1>2. QED
  BY <1>1 DEF Attempted, Row

\* A post.
LEMMA PostTyped ==
  ASSUME WebhooksTypeOK, NEW r \in Workers, Post(r)
  PROVE  HandlersTyped'
<1>1. PICK answer \in BOOLEAN :
        /\ Become(r, [workers[r] EXCEPT !.at = "saveDelivery", !.ok = answer])
        /\ acks' = Counted(acks, workers[r].id, IF answer THEN 1 ELSE 0)
  BY DEF Post
<1>2. PICK w \in Work :
        /\ Become(r, w) /\ w.at = "saveDelivery" /\ w.ok = answer
        /\ w.todo = workers[r].todo /\ w.job = workers[r].job /\ w.id = workers[r].id
        /\ w.attempt = workers[r].attempt /\ w.of = workers[r].of
  BY <1>1, PostEffect
<1>3. /\ UNCHANGED <<deliveries, overlapped, cut>> /\ workers[r].at = "post"
      /\ posts' = Counted(posts, workers[r].id, 1)
  BY DEF Post, At, tables
<1>4. Ids' = Ids
  BY <1>3 DEF Ids
<1>5. WorkOK(workers[r], Ids)
  BY DEF WebhooksTypeOK
<1>6. WorkOK(w, Ids')
  BY <1>2, <1>3, <1>4, <1>5 DEF WorkOK, BeforeSave, AfterSave
<1>7. workers' \in [Workers -> Work] /\ \A q \in Workers : WorkOK(workers'[q], Ids')
  BY <1>2, <1>4, <1>6, WorkersTyped
<1>8. posts \in [Ids -> Nat] /\ acks \in [Ids -> Nat] /\ workers[r].id \in Ids
  BY <1>3, <1>5 DEF WebhooksTypeOK, WorkOK, BeforeSave
<1>9. posts' \in [Ids -> Nat] /\ acks' \in [Ids -> Nat]
  BY <1>1, <1>3, <1>8 DEF Counted
<1>10. QED
  BY <1>3, <1>4, <1>7, <1>9 DEF WebhooksTypeOK, HandlersTyped

\* A saved row.
LEMMA SaveDeliveryTyped ==
  ASSUME WebhooksTypeOK, NEW r \in Workers, SaveDelivery(r)
  PROVE  HandlersTyped'
<1>1. /\ workers[r] \in Work /\ WorkOK(workers[r], Ids) /\ workers[r].at = "saveDelivery"
      /\ Goto(r, "saveSubscription")
      /\ deliveries' = [deliveries EXCEPT ![workers[r].id] = Attempted(workers[r])]
      /\ UNCHANGED <<posts, acks, overlapped, cut>>
  BY DEF WebhooksTypeOK, SaveDelivery, At, history
<1>2. workers[r].id \in Ids
  BY <1>1 DEF WorkOK, BeforeSave
<1>3. deliveries' \in Seq(Row) /\ Ids' = Ids
  BY <1>1, <1>2, AttemptedType, SaveRow
<1>4. PICK w \in Work :
        /\ Become(r, w) /\ w.at = "saveSubscription"
        /\ w.todo = workers[r].todo /\ w.job = workers[r].job /\ w.id = workers[r].id
  BY <1>1, GotoEffect DEF Steps, AfterSave
<1>5. WorkOK(w, Ids')
  BY <1>1, <1>2, <1>3, <1>4 DEF WorkOK, BeforeSave, AfterSave
<1>6. workers' \in [Workers -> Work] /\ \A q \in Workers : WorkOK(workers'[q], Ids')
  BY <1>3, <1>4, <1>5, WorkersTyped
<1>7. QED
  BY <1>1, <1>3, <1>6 DEF WebhooksTypeOK, HandlersTyped

\* A handler that dies.
LEMMA CrashTyped ==
  ASSUME WebhooksTypeOK, NEW r \in Workers, Crash(r)
  PROVE  HandlersTyped'
<1>1. /\ workers[r] \in Work /\ WorkOK(workers[r], Ids) /\ Become(r, Idle)
      /\ UNCHANGED <<deliveries, posts, acks, overlapped>>
      /\ cut' = IF At(r, "saveDelivery") \/ At(r, "post") THEN [cut EXCEPT ![workers[r].id] = TRUE] ELSE cut
  BY DEF WebhooksTypeOK, Crash, tables
<1>2. Ids' = Ids
  BY <1>1 DEF Ids
<1>3. workers' \in [Workers -> Work] /\ \A q \in Workers : WorkOK(workers'[q], Ids')
  BY <1>1, <1>2, IdleType, WorkersTyped
<1>4. cut' \in [Ids -> BOOLEAN]
  BY <1>1 DEF WebhooksTypeOK
<1>5. QED
  BY <1>1, <1>2, <1>3, <1>4 DEF WebhooksTypeOK, HandlersTyped

\* Time passes.
LEMMA TimeTyped ==
  ASSUME WebhooksTypeOK, NEW d \in Ids, BackoffEnds(d) \/ DayEnds(d)
  PROVE  /\ HandlersTyped' /\ Ids' = Ids
         /\ UNCHANGED <<subscriptions, workers, posts, acks, overlapped, cut, forced, reverted, unchecked>>
         /\ \A e \in Ids : /\ deliveries'[e].of = deliveries[e].of /\ deliveries'[e].status = deliveries[e].status
                           /\ deliveries'[e].attempt = deliveries[e].attempt
                           /\ deliveries'[e].retry = "none" <=> deliveries[e].retry = "none"
                           /\ deliveries'[e].final = "recent" => deliveries[e].final = "recent"
<1>1. PICK row \in Row : /\ deliveries' = [deliveries EXCEPT ![d] = row]
                         /\ row.of = deliveries[d].of /\ row.status = deliveries[d].status
                         /\ row.attempt = deliveries[d].attempt
                         /\ row.retry = "none" <=> deliveries[d].retry = "none"
                         /\ row.final = "recent" => deliveries[d].final = "recent"
  <2>1. deliveries[d] \in Row
    BY IdsAreNumbers DEF WebhooksTypeOK
  <2>2. CASE BackoffEnds(d)
    <3> DEFINE row == [deliveries[d] EXCEPT !.retry = "due"]
    <3>1. deliveries' = [deliveries EXCEPT ![d] = row] /\ deliveries[d].retry = "later"
      BY <2>2 DEF BackoffEnds
    <3>2. row \in Row /\ row.of = deliveries[d].of /\ row.status = deliveries[d].status
          /\ row.attempt = deliveries[d].attempt /\ row.retry = "due" /\ row.final = deliveries[d].final
      BY <2>1 DEF Row
    <3> HIDE DEF row
    <3>3. QED
      BY <3>1, <3>2
  <2>3. CASE DayEnds(d)
    <3> DEFINE row == [deliveries[d] EXCEPT !.final = "old"]
    <3>1. deliveries' = [deliveries EXCEPT ![d] = row]
      BY <2>3 DEF DayEnds
    <3>2. row \in Row /\ row.of = deliveries[d].of /\ row.status = deliveries[d].status
          /\ row.attempt = deliveries[d].attempt /\ row.retry = deliveries[d].retry /\ row.final = "old"
      BY <2>1 DEF Row
    <3> HIDE DEF row
    <3>3. QED
      BY <3>1, <3>2
  <2>4. QED
    BY <2>2, <2>3
<1>2. /\ deliveries' \in Seq(Row) /\ Ids' = Ids
      /\ deliveries'[d] = row /\ \A e \in Ids \ {d} : deliveries'[e] = deliveries[e]
  BY <1>1, SaveRow
<1>3. UNCHANGED <<subscriptions, workers, posts, acks, overlapped, cut, forced, reverted, unchecked>>
  BY DEF BackoffEnds, DayEnds, history
<1>4. HandlersTyped'
  BY <1>2, <1>3 DEF WebhooksTypeOK, HandlersTyped
<1>5. QED
  BY <1>1, <1>2, <1>3, <1>4

\* What is known of subscriptions.
LEMMA StatusesStayTyped ==
  ASSUME WebhooksTypeOK, NEW r \in Workers,
         \/ SaveSubscription(r) \/ CountFailures(r) \/ AutoPause(r) \/ SaveStatus(r) \/ Crash(r)
         \/ UNCHANGED <<subscriptions, forced, reverted, unchecked>>
  PROVE  StatusesTyped'
<1>1. /\ subscriptions \in [Subscriptions -> Status] /\ forced \in [Subscriptions -> BOOLEAN]
      /\ reverted \in [Subscriptions -> BOOLEAN] /\ unchecked \in [Subscriptions -> BOOLEAN]
      /\ workers[r] \in Work
  BY DEF WebhooksTypeOK
<1>2. workers[r].of \in Subscriptions /\ workers[r].copy \in Status
  BY <1>1 DEF Work
<1>3. CASE SaveSubscription(r)
  BY <1>1, <1>2, <1>3 DEF SaveSubscription, StatusesTyped
<1>4. CASE CountFailures(r)
  BY <1>1, <1>4 DEF CountFailures, StatusesTyped, tables
<1>5. CASE AutoPause(r)
  BY <1>1, <1>2, <1>5 DEF AutoPause, StatusesTyped, Status
<1>6. CASE SaveStatus(r)
  BY <1>1, <1>2, <1>6 DEF SaveStatus, StatusesTyped
<1>7. CASE Crash(r)
  BY <1>1, <1>2, <1>7 DEF Crash, StatusesTyped, tables
<1>8. CASE UNCHANGED <<subscriptions, forced, reverted, unchecked>>
  BY <1>1, <1>8 DEF StatusesTyped
<1>9. QED
  BY <1>3, <1>4, <1>5, <1>6, <1>7, <1>8

\* At first no handler has anything to do and no delivery exists.
LEMMA WebhooksTypeInit == Init => WebhooksTypeOK
<1> SUFFICES ASSUME Init PROVE WebhooksTypeOK
  OBVIOUS
<1>1. Idle \in Work /\ \A ids : WorkOK(Idle, ids)
  BY IdleType
<1>2. workers = [r \in Workers |-> Idle]
  BY DEF Init
<1> HIDE DEF Idle
<1>3. workers \in [Workers -> Work] /\ \A r \in Workers : WorkOK(workers[r], Ids)
  BY <1>1, <1>2
<1>4. deliveries \in Seq(Row) /\ Ids = {}
  BY DEF Init, Ids
<1>5. /\ posts \in [Ids -> Nat] /\ acks \in [Ids -> Nat]
      /\ overlapped \in [Ids -> BOOLEAN] /\ cut \in [Ids -> BOOLEAN]
  BY <1>4 DEF Init
<1>8. ahead \in [Ids -> SUBSET Ids]
  BY <1>4 DEF Init
<1>6. /\ subscriptions \in [Subscriptions -> Status] /\ forced \in [Subscriptions -> BOOLEAN]
      /\ reverted \in [Subscriptions -> BOOLEAN] /\ unchecked \in [Subscriptions -> BOOLEAN]
  BY DEF Init, Status
<1>7. QED
  BY <1>3, <1>4, <1>5, <1>6, <1>8 DEF WebhooksTypeOK

\* What is ahead of a row are rows: a new row has none ahead of it, a saved row
\* leaves the queue, and one that becomes due queues behind those that are.
LEMMA AheadTyped == WebhooksTypeOK /\ Next => ahead' \in [Ids' -> SUBSET Ids']
<1> SUFFICES ASSUME WebhooksTypeOK, Next PROVE ahead' \in [Ids' -> SUBSET Ids']
  OBVIOUS
<1>1. ahead \in [Ids -> SUBSET Ids] /\ Ids = 1..Len(deliveries) /\ Len(deliveries) \in Nat
  BY IdsAreNumbers DEF WebhooksTypeOK
<1>2. ASSUME UNCHANGED tables PROVE ahead' \in [Ids' -> SUBSET Ids']
  BY <1>1, <1>2 DEF tables, Ids
<1>3. ASSUME UNCHANGED <<deliveries, ahead>> PROVE ahead' \in [Ids' -> SUBSET Ids']
  BY <1>1, <1>3 DEF Ids
<1>4. ASSUME NEW r \in Workers, DeliverToSubscription(r) PROVE ahead' \in [Ids' -> SUBSET Ids']
  <2> DEFINE n == Len(deliveries)
  <2>0. Ids' = Ids \cup {n + 1}
    BY <1>4, CreateEffect
  <2>1. Ids' = 1..(n + 1)
    BY <1>1, <2>0
  <2>2. ahead \in Seq(SUBSET Ids) /\ Len(ahead) = n /\ {} \in SUBSET Ids
    BY <1>1, IsASeq, LenProperties
  <2>3. ahead' = Append(ahead, {})
    BY <1>4 DEF DeliverToSubscription
  <2>4. ahead' \in Seq(SUBSET Ids) /\ Len(ahead') = n + 1
    BY <2>2, <2>3, AppendProperties
  <2>5. ahead' \in [1..(n + 1) -> SUBSET Ids]
    BY <2>4, LenProperties
  <2>6. SUBSET Ids \subseteq SUBSET Ids'
    BY <1>1, <2>1
  <2>7. QED
    BY <2>1, <2>5, <2>6
<1>5. ASSUME NEW r \in Workers, SaveDelivery(r) PROVE ahead' \in [Ids' -> SUBSET Ids']
  <2>1. ahead' = [d \in Ids |-> IF d = workers[r].id THEN {} ELSE ahead[d] \ {workers[r].id}]
    BY <1>5 DEF SaveDelivery
  <2>2. Ids' = Ids
    BY <1>5 DEF SaveDelivery, Ids, WebhooksTypeOK
  <2>3. QED
    BY <1>1, <2>1, <2>2
<1>6. ASSUME NEW d \in Ids, BackoffEnds(d) PROVE ahead' \in [Ids' -> SUBSET Ids']
  <2>1. Ids' = Ids
    BY <1>6, TimeTyped
  <2>2. QED
    BY <1>1, <1>6, <2>1 DEF BackoffEnds
<1>7. ASSUME NEW d \in Ids, DayEnds(d) PROVE ahead' \in [Ids' -> SUBSET Ids']
  <2>1. Ids' = Ids
    BY <1>7, TimeTyped
  <2>2. QED
    BY <1>1, <1>7, <2>1 DEF DayEnds
<1>8. ASSUME NEW r \in Workers, AttemptStep(r) PROVE ahead' \in [Ids' -> SUBSET Ids']
  <2>1. CASE Post(r) \/ CountFailures(r)
    BY <1>2, <2>1 DEF Post, CountFailures
  <2>2. CASE SaveSubscription(r) \/ AutoPause(r)
    BY <1>3, <2>2 DEF SaveSubscription, AutoPause
  <2>3. QED
    BY <1>4, <1>5, <1>8, <2>1, <2>2 DEF AttemptStep
<1>9. ASSUME NEW r, RetryFailedDeliveries(r) \/ ReplayTerminalFailures(r) PROVE UNCHANGED tables
  BY <1>9 DEF RetryFailedDeliveries, ReplayTerminalFailures, LoadAll
<1>10. ASSUME NEW r,
              \/ \E s \in Subscriptions : Dispatch(r, s)
              \/ \E s \in Administered, status \in Status, force \in BOOLEAN : LoadForStatus(r, s, status, force)
              \/ \E d \in Ids : ReplayDelivery(r, d)
              \/ Crash(r)
       PROVE  UNCHANGED tables
  BY <1>10 DEF Dispatch, LoadForStatus, ReplayDelivery, Crash
<1>11. ASSUME NEW r, SaveStatus(r) PROVE UNCHANGED <<deliveries, ahead>>
  BY <1>11 DEF SaveStatus
<1>12. CASE \E r \in Requests : \E s \in Administered :
              \/ \E force \in BOOLEAN : LoadForStatus(r, s, "ACTIVE", force)
              \/ LoadForStatus(r, s, "PAUSED", FALSE)
  BY <1>2, <1>10, <1>12 DEF Status
<1>13. QED
  BY <1>2, <1>3, <1>6, <1>7, <1>8, <1>9, <1>10, <1>11, <1>12 DEF Next

\* Every step keeps the types.
LEMMA WebhooksTypeNext == WebhooksTypeOK /\ [Next]_vars => WebhooksTypeOK'
<1> SUFFICES ASSUME WebhooksTypeOK, [Next]_vars PROVE WebhooksTypeOK'
  OBVIOUS
<1>1. CASE UNCHANGED vars
  BY <1>1 DEF WebhooksTypeOK, vars, tables, history, Ids
<1>2. CASE Next
  <2>1. HandlersTyped' /\ StatusesTyped'
    <3>1. ASSUME NEW r \in Workers, Started(r) PROVE HandlersTyped' /\ StatusesTyped'
      BY <3>1, OtherWorkTyped, StatusesStayTyped DEF Started
    <3>2. ASSUME NEW r \in Workers, DeliverToSubscription(r) PROVE HandlersTyped' /\ StatusesTyped'
      <4>1. UNCHANGED <<subscriptions, forced, reverted, unchecked>>
        BY <3>2 DEF DeliverToSubscription
      <4>2. QED
        BY <3>2, <4>1, CreateTyped, StatusesStayTyped
    <3>3. ASSUME NEW r \in Workers, Post(r) PROVE HandlersTyped' /\ StatusesTyped'
      <4>1. UNCHANGED <<subscriptions, forced, reverted, unchecked>>
        BY <3>3 DEF Post, tables
      <4>2. QED
        BY <3>3, <4>1, PostTyped, StatusesStayTyped
    <3>4. ASSUME NEW r \in Workers, SaveDelivery(r) PROVE HandlersTyped' /\ StatusesTyped'
      <4>1. UNCHANGED <<subscriptions, forced, reverted, unchecked>>
        BY <3>4 DEF SaveDelivery, history
      <4>2. QED
        BY <3>4, <4>1, SaveDeliveryTyped, StatusesStayTyped
    <3>5. ASSUME NEW r \in Workers, Crash(r) PROVE HandlersTyped' /\ StatusesTyped'
      BY <3>5, CrashTyped, StatusesStayTyped
    <3>6. ASSUME NEW r \in Workers,
                 SaveSubscription(r) \/ CountFailures(r) \/ AutoPause(r) \/ SaveStatus(r)
          PROVE  HandlersTyped' /\ StatusesTyped'
      <4>1. OtherWork(r)
        BY <3>6, SaveSubscriptionEffect, CountFailuresEffect, AutoPauseEffect, SaveStatusEffect
        DEF GoesTo, LeavesOff
      <4>2. QED
        BY <3>6, <4>1, OtherWorkTyped, StatusesStayTyped
    <3>7. ASSUME NEW d \in Ids, BackoffEnds(d) \/ DayEnds(d) PROVE HandlersTyped' /\ StatusesTyped'
      BY <3>7, TimeTyped DEF WebhooksTypeOK, StatusesTyped
    <3>8. QED
      BY <1>2, <3>1, <3>2, <3>3, <3>4, <3>5, <3>6, <3>7, StepKinds
  <2>2. QED
    BY <1>2, <2>1, AheadTyped DEF HandlersTyped, StatusesTyped, WebhooksTypeOK
<1>3. QED
  BY <1>1, <1>2

\* Every state is typed: a handler that is posting or saving knows its
\* delivery, one that counts or pauses saw it fail for good, and what is left
\* to be retried was due when it was loaded.
THEOREM WebhooksTypeCorrect == Spec => []WebhooksTypeOK
BY WebhooksTypeInit, WebhooksTypeNext, PTL DEF Spec

-------------------------------------------------------------------------------
(* Deliveries *)

\* What a row says once its attempt is over, and the one attempt under way,
\* unless two processes attempted it from the same row or one died over it.
Settled(d) ==
  /\ acks[d] = IF deliveries[d].status = "SUCCEEDED" THEN 1 ELSE 0
  /\ deliveries[d].attempt = posts[d] /\ posts[d] <= MaxAttempts
  /\ deliveries[d].status = "FAILED" => (deliveries[d].retry = "none" <=> posts[d] = MaxAttempts)

UnderWay(w, d) ==
  /\ w.at = "post" => acks[d] = 0 /\ w.attempt = posts[d] + 1 /\ w.attempt <= MaxAttempts
  /\ w.at = "saveDelivery" =>
       acks[d] = (IF w.ok THEN 1 ELSE 0) /\ w.attempt = posts[d] /\ w.attempt <= MaxAttempts

Kept(d) ==
  Undisturbed(d) =>
    /\ \A r, q \in Workers : workers[r].id = d /\ workers[q].id = d => r = q
    /\ \A r \in Workers : workers[r].id = d => UnderWay(workers[r], d)
    /\ (\A r \in Workers : workers[r].id = d => workers[r].at \in AfterSave) => Settled(d)

DeliveriesKept == \A d \in Ids : Kept(d)

\* A handler that has nothing to do with a delivery, before and after its step,
\* leaves it as it is.
LEMMA OthersKeep ==
  ASSUME WebhooksTypeOK, NEW r \in Workers, NEW d \in Ids, Kept(d), NEW w \in Work, Become(r, w),
         workers[r].id # d, w.id # d,
         deliveries'[d] = deliveries[d], posts'[d] = posts[d], acks'[d] = acks[d],
         ~overlapped'[d] => ~overlapped[d], ~cut'[d] => ~cut[d]
  PROVE  Kept(d)'
<1>1. workers'[r] = w /\ \A q \in Workers \ {r} : workers'[q] = workers[q]
  BY BecomeEffect DEF WebhooksTypeOK
<1>2. \A q \in Workers : workers'[q].id = d <=> workers[q].id = d
  BY <1>1
<1>3. \A q \in Workers : workers[q].id = d => workers'[q] = workers[q]
  BY <1>1
<1> SUFFICES ASSUME Undisturbed(d)'
             PROVE  /\ \A q, p \in Workers : workers'[q].id = d /\ workers'[p].id = d => q = p
                    /\ \A q \in Workers : workers'[q].id = d => UnderWay(workers[q], d)'
                    /\ (\A q \in Workers : workers'[q].id = d => workers'[q].at \in AfterSave) => Settled(d)'
  BY DEF Kept
<1>4. Undisturbed(d)
  BY DEF Undisturbed
<1>5. \A q \in Workers : workers'[q].id = d => UnderWay(workers[q], d)'
  BY <1>2, <1>3, <1>4 DEF Kept, UnderWay
<1>6. (\A q \in Workers : workers'[q].id = d => workers'[q].at \in AfterSave) => Settled(d)'
  BY <1>2, <1>3, <1>4 DEF Kept, Settled
<1>7. QED
  BY <1>2, <1>4, <1>5, <1>6 DEF Kept

\* The only handler of a delivery, before and after its step, decides what is
\* kept of it.
LEMMA OwnerKeeps ==
  ASSUME WebhooksTypeOK, NEW r \in Workers, NEW d, NEW w \in Work, Become(r, w),
         \A q \in Workers \ {r} : workers[q].id # d,
         w.id = d => UnderWay(w, d)',
         (w.id = d => w.at \in AfterSave) => Settled(d)'
  PROVE  Kept(d)'
<1>1. workers'[r] = w /\ \A q \in Workers \ {r} : workers'[q] = workers[q]
  BY BecomeEffect DEF WebhooksTypeOK
<1>2. \A q \in Workers : workers'[q].id = d => q = r
  BY <1>1
<1>3. \A q \in Workers : workers'[q].id = d => UnderWay(workers[q], d)'
  BY <1>1, <1>2 DEF UnderWay
<1>4. (\A q \in Workers : workers'[q].id = d => workers'[q].at \in AfterSave) => Settled(d)'
  BY <1>1
<1>5. QED
  BY <1>2, <1>3, <1>4 DEF Kept

\* The steps that leave the deliveries alone.
LEMMA OtherWorkKeeps ==
  ASSUME WebhooksTypeOK, NEW r \in Workers, OtherWork(r), NEW d \in Ids, Kept(d)
  PROVE  Kept(d)'
<1>1. PICK w \in Work :
        /\ WorkOK(w, Ids) /\ Become(r, w)
        /\ \/ w.at \in {"idle", "create", "saveStatus"}
           \/ w.at \in AfterSave /\ workers[r].at \in AfterSave /\ w.id = workers[r].id
           \/ /\ w.at = "post"
              /\ ~overlapped'[w.id] =>
                   /\ deliveries[w.id].status = "FAILED" /\ deliveries[w.id].retry = "due"
                   /\ w.attempt = deliveries[w.id].attempt + 1
                   /\ \A q \in Workers \ {r} : workers[q].id # w.id
  BY DEF OtherWork
<1>2. /\ workers[r].at \notin BeforeSave /\ UNCHANGED <<deliveries, posts, acks, cut>>
      /\ ~overlapped'[d] => ~overlapped[d]
  BY DEF OtherWork
<1>3. WorkOK(workers[r], Ids) /\ workers[r] \in Work /\ 0 \notin Ids
  BY IdsAreNumbers DEF WebhooksTypeOK
<1>4. CASE workers[r].id # d /\ w.id # d
  BY <1>1, <1>2, <1>4, OthersKeep
<1>5. CASE ~(workers[r].id # d /\ w.id # d)
  <2> SUFFICES ASSUME Undisturbed(d)' PROVE Kept(d)'
    BY DEF Kept
  <2>1. Undisturbed(d) /\ ~overlapped'[d]
    BY <1>2 DEF Undisturbed
  <2>2. workers[r].id = d => workers[r].at \in AfterSave
    BY <1>2, <1>3 DEF WorkOK
  <2>3. \A q \in Workers \ {r} : workers[q].id # d
    <3>1. CASE workers[r].id = d
      BY <2>1, <3>1 DEF Kept
    <3>2. CASE w.id = d /\ workers[r].id # d
      <4>1. w.at = "post"
        BY <1>1, <1>3, <3>2 DEF WorkOK, BeforeSave, AfterSave
      <4>2. w.at \notin AfterSave /\ w.at \notin {"idle", "create", "saveStatus"}
        BY <4>1 DEF AfterSave
      <4>3. QED
        BY <1>1, <2>1, <3>2, <4>2
    <3>3. QED
      BY <1>5, <3>1, <3>2
  <2>4. Settled(d)
    BY <2>1, <2>2, <2>3 DEF Kept
  <2>5. Settled(d)'
    BY <1>2, <2>4 DEF Settled
  <2>6. w.id = d => UnderWay(w, d)'
    <3>1. CASE w.at # "post"
      <4>1. w.at # "saveDelivery"
        BY <1>1, <3>1 DEF AfterSave
      <4>2. QED
        BY <3>1, <4>1 DEF UnderWay
    <3>2. CASE w.at = "post" /\ w.id = d
      <4>1. w.at \notin AfterSave /\ w.at \notin {"idle", "create", "saveStatus"}
        BY <3>2 DEF AfterSave
      <4>2. /\ deliveries[d].status = "FAILED" /\ deliveries[d].retry = "due"
            /\ w.attempt = deliveries[d].attempt + 1
        BY <1>1, <2>1, <3>2, <4>1
      <4>3. posts[d] \in Nat
        BY DEF WebhooksTypeOK
      <4>4. acks[d] = 0 /\ w.attempt = posts[d] + 1 /\ w.attempt <= MaxAttempts
        BY <2>4, <4>2, <4>3, WebhooksAssumption DEF Settled
      <4>5. QED
        BY <1>2, <3>2, <4>4 DEF UnderWay
    <3>3. QED
      BY <3>1, <3>2
  <2>7. QED
    BY <1>1, <2>3, <2>5, <2>6, OwnerKeeps
<1>6. QED
  BY <1>4, <1>5

\* A new delivery was not posted yet.
LEMMA CreateKeeps ==
  ASSUME WebhooksTypeOK, DeliveriesKept, NEW r \in Workers, DeliverToSubscription(r)
  PROVE  DeliveriesKept'
<1>0. PICK n \in Nat : n = Len(deliveries) + 1
  BY IdsAreNumbers
<1>1. PICK w \in Work : Become(r, w) /\ w.at = "post" /\ w.id = n /\ w.attempt = 1
  BY <1>0, CreateEffect
<1>2. /\ Ids' = Ids \cup {n} /\ n \notin Ids /\ posts'[n] = 0 /\ acks'[n] = 0
      /\ \A d \in Ids : /\ deliveries'[d] = deliveries[d] /\ posts'[d] = posts[d] /\ acks'[d] = acks[d]
                        /\ overlapped'[d] = overlapped[d] /\ cut'[d] = cut[d]
  BY <1>0, CreateEffect
<1>3. n # 0 /\ 0 \notin Ids
  BY <1>0, IdsAreNumbers
<1>4. \A q \in Workers : workers[q].id \in Ids \cup {0}
  BY DEF WebhooksTypeOK, WorkOK
<1>5. workers[r].id = 0
  BY DEF WebhooksTypeOK, WorkOK, DeliverToSubscription, At, BeforeSave, AfterSave
<1>6. ASSUME NEW d \in Ids PROVE Kept(d)'
  <2>1. workers[r].id # d /\ w.id # d /\ Kept(d)
    BY <1>1, <1>2, <1>3, <1>5 DEF DeliveriesKept
  <2>2. QED
    BY <1>1, <1>2, <2>1, OthersKeep
<1>7. Kept(n)'
  <2>1. \A q \in Workers \ {r} : workers[q].id # n
    BY <1>2, <1>3, <1>4
  <2>2. UnderWay(w, n)'
    BY <1>1, <1>2, WebhooksAssumption DEF UnderWay
  <2>3. w.id = n /\ w.at \notin AfterSave
    BY <1>1 DEF AfterSave
  <2>4. QED
    BY <1>1, <2>1, <2>2, <2>3, OwnerKeeps
<1>8. QED
  BY <1>2, <1>6, <1>7 DEF DeliveriesKept

\* A post is counted before its answer is saved.
LEMMA PostKeeps ==
  ASSUME WebhooksTypeOK, NEW r \in Workers, Post(r), NEW d \in Ids, Kept(d)
  PROVE  Kept(d)'
<1>1. PICK answer \in BOOLEAN :
        /\ Become(r, [workers[r] EXCEPT !.at = "saveDelivery", !.ok = answer])
        /\ acks' = Counted(acks, workers[r].id, IF answer THEN 1 ELSE 0)
  BY DEF Post
<1>2. PICK w \in Work :
        /\ Become(r, w) /\ w.at = "saveDelivery" /\ w.ok = answer
        /\ w.id = workers[r].id /\ w.attempt = workers[r].attempt
  BY <1>1, PostEffect
<1>3. /\ UNCHANGED <<deliveries, overlapped, cut>> /\ workers[r].at = "post"
      /\ posts' = Counted(posts, workers[r].id, 1)
  BY DEF Post, At, tables
<1>4. posts \in [Ids -> Nat] /\ acks \in [Ids -> Nat]
  BY DEF WebhooksTypeOK
<1>5. CASE workers[r].id # d
  <2>1. posts'[d] = posts[d] /\ acks'[d] = acks[d]
    BY <1>1, <1>3, <1>4, <1>5 DEF Counted
  <2>2. QED
    BY <1>2, <1>3, <1>5, <2>1, OthersKeep
<1>6. CASE workers[r].id = d
  <2> SUFFICES ASSUME Undisturbed(d)' PROVE Kept(d)'
    BY DEF Kept
  <2>1. Undisturbed(d)
    BY <1>3 DEF Undisturbed
  <2>2. \A q \in Workers \ {r} : workers[q].id # d
    BY <1>6, <2>1 DEF Kept
  <2>3. acks[d] = 0 /\ w.attempt = posts[d] + 1 /\ w.attempt <= MaxAttempts
    BY <1>2, <1>3, <1>6, <2>1 DEF Kept, UnderWay
  <2>4. acks'[d] = (IF w.ok THEN 1 ELSE 0) /\ posts'[d] = posts[d] + 1
    BY <1>1, <1>2, <1>3, <1>4, <1>6, <2>1, <2>3 DEF Counted
  <2>5. UnderWay(w, d)'
    BY <1>2, <2>3, <2>4 DEF UnderWay
  <2>6. w.id = d /\ w.at \notin AfterSave
    BY <1>2, <1>6 DEF AfterSave
  <2>7. QED
    BY <1>2, <2>2, <2>5, <2>6, OwnerKeeps
<1>7. QED
  BY <1>5, <1>6

\* The saved row says what was attempted.
LEMMA SaveDeliveryKeeps ==
  ASSUME WebhooksTypeOK, NEW r \in Workers, SaveDelivery(r), NEW d \in Ids, Kept(d)
  PROVE  Kept(d)'
<1>1. /\ workers[r] \in Work /\ WorkOK(workers[r], Ids) /\ workers[r].at = "saveDelivery"
      /\ Goto(r, "saveSubscription")
      /\ deliveries' = [deliveries EXCEPT ![workers[r].id] = Attempted(workers[r])]
      /\ UNCHANGED <<posts, acks, overlapped, cut>>
  BY DEF WebhooksTypeOK, SaveDelivery, At, history
<1>2. workers[r].id \in Ids
  BY <1>1 DEF WorkOK, BeforeSave
<1>3. /\ deliveries'[workers[r].id] = Attempted(workers[r])
      /\ \A e \in Ids \ {workers[r].id} : deliveries'[e] = deliveries[e]
  BY <1>1, <1>2, AttemptedType, SaveRow
<1>4. PICK w \in Work : Become(r, w) /\ w.at = "saveSubscription" /\ w.id = workers[r].id
  BY <1>1, GotoEffect DEF Steps, AfterSave
<1>5. CASE workers[r].id # d
  BY <1>1, <1>3, <1>4, <1>5, OthersKeep
<1>6. CASE workers[r].id = d
  <2> SUFFICES ASSUME Undisturbed(d)' PROVE Kept(d)'
    BY DEF Kept
  <2>1. Undisturbed(d)
    BY <1>1 DEF Undisturbed
  <2>2. \A q \in Workers \ {r} : workers[q].id # d
    BY <1>6, <2>1 DEF Kept
  <2>3. /\ acks[d] = (IF workers[r].ok THEN 1 ELSE 0)
        /\ workers[r].attempt = posts[d] /\ workers[r].attempt <= MaxAttempts
    BY <1>1, <1>6, <2>1 DEF Kept, UnderWay
  <2>4. posts[d] \in Nat /\ workers[r].ok \in BOOLEAN
    BY <1>1 DEF WebhooksTypeOK, Work
  <2>5. /\ deliveries'[d].attempt = workers[r].attempt
        /\ deliveries'[d].status = IF workers[r].ok THEN "SUCCEEDED" ELSE "FAILED"
        /\ deliveries'[d].retry = IF workers[r].ok \/ Terminal(workers[r]) THEN "none" ELSE "later"
    BY <1>1, <1>3, <1>6, AttemptedType
  <2>6. Settled(d)'
    BY <1>1, <2>3, <2>4, <2>5, WebhooksAssumption DEF Settled, Terminal
  <2>7. UnderWay(w, d)'
    BY <1>4 DEF UnderWay
  <2>8. QED
    BY <1>4, <2>2, <2>6, <2>7, OwnerKeeps
<1>7. QED
  BY <1>5, <1>6

\* A handler that dies leaves a delivery settled, or cut.
LEMMA CrashKeeps ==
  ASSUME WebhooksTypeOK, NEW r \in Workers, Crash(r), NEW d \in Ids, Kept(d)
  PROVE  Kept(d)'
<1>1. /\ workers[r] \in Work /\ WorkOK(workers[r], Ids) /\ Become(r, Idle)
      /\ UNCHANGED <<deliveries, posts, acks, overlapped>>
      /\ cut' = IF At(r, "saveDelivery") \/ At(r, "post") THEN [cut EXCEPT ![workers[r].id] = TRUE] ELSE cut
      /\ cut \in [Ids -> BOOLEAN]
  BY DEF WebhooksTypeOK, Crash, tables
<1>2. Idle \in Work /\ Idle.id = 0 /\ d # 0
  BY IdleType, IdsAreNumbers
<1>3. ~cut'[d] => ~cut[d]
  BY <1>1
<1> HIDE DEF Idle
<1>4. CASE workers[r].id # d
  BY <1>1, <1>2, <1>3, <1>4, OthersKeep
<1>5. CASE workers[r].id = d
  <2> SUFFICES ASSUME Undisturbed(d)' PROVE Kept(d)'
    BY DEF Kept
  <2>1. Undisturbed(d) /\ ~cut'[d]
    BY <1>1, <1>3 DEF Undisturbed
  <2>2. \A q \in Workers \ {r} : workers[q].id # d
    BY <1>5, <2>1 DEF Kept
  <2>3. workers[r].at \notin BeforeSave
    BY <1>1, <1>5, <2>1 DEF At, BeforeSave
  <2>4. workers[r].at \in AfterSave
    BY <1>1, <1>2, <1>5, <2>3 DEF WorkOK
  <2>5. Settled(d)
    BY <2>1, <2>2, <2>4 DEF Kept
  <2>6. Settled(d)'
    BY <1>1, <2>5 DEF Settled
  <2>7. QED
    BY <1>1, <1>2, <2>2, <2>6, OwnerKeeps
<1>6. QED
  BY <1>4, <1>5

\* Time changes nothing of it.
LEMMA TimeKeeps ==
  ASSUME WebhooksTypeOK, NEW e \in Ids, BackoffEnds(e) \/ DayEnds(e), NEW d \in Ids, Kept(d)
  PROVE  Kept(d)'
<1>1. /\ UNCHANGED <<workers, posts, acks, overlapped, cut>>
      /\ deliveries'[d].status = deliveries[d].status /\ deliveries'[d].attempt = deliveries[d].attempt
      /\ deliveries'[d].retry = "none" <=> deliveries[d].retry = "none"
  BY TimeTyped
<1>2. Settled(d)' <=> Settled(d)
  BY <1>1 DEF Settled
<1>3. Undisturbed(d)' <=> Undisturbed(d)
  BY <1>1 DEF Undisturbed
<1>4. \A r \in Workers : UnderWay(workers[r], d)' <=> UnderWay(workers[r], d)
  BY <1>1 DEF UnderWay
<1>5. QED
  BY <1>1, <1>2, <1>3, <1>4 DEF Kept

\* Every step keeps what a delivery's row says of its posts.
LEMMA DeliveriesKeptNext == WebhooksTypeOK /\ DeliveriesKept /\ [Next]_vars => DeliveriesKept'
<1> SUFFICES ASSUME WebhooksTypeOK, DeliveriesKept, [Next]_vars PROVE DeliveriesKept'
  OBVIOUS
<1>1. CASE UNCHANGED vars
  <2>1. UNCHANGED <<deliveries, workers, posts, acks, overlapped, cut>>
    BY <1>1 DEF vars, tables, history
  <2>2. QED
    BY <2>1 DEF DeliveriesKept, Kept, Undisturbed, UnderWay, Settled, Ids
<1>2. CASE Next
  <2>1. ASSUME NEW r \in Workers,
               \/ OtherWork(r) \/ Post(r) \/ SaveDelivery(r) \/ Crash(r)
        PROVE  DeliveriesKept'
    <3>1. Ids' = Ids
      <4>1. CASE OtherWork(r) \/ Post(r) \/ Crash(r)
        BY <4>1 DEF OtherWork, Post, Crash, tables, Ids
      <4>2. CASE SaveDelivery(r)
        BY <4>2 DEF SaveDelivery, Ids, WebhooksTypeOK
      <4>3. QED
        BY <2>1, <4>1, <4>2
    <3>2. ASSUME NEW d \in Ids PROVE Kept(d)'
      BY <2>1, OtherWorkKeeps, PostKeeps, SaveDeliveryKeeps, CrashKeeps DEF DeliveriesKept
    <3>3. QED
      BY <3>1, <3>2 DEF DeliveriesKept
  <2>2. ASSUME NEW e \in Ids, BackoffEnds(e) \/ DayEnds(e) PROVE DeliveriesKept'
    <3>1. Ids' = Ids
      BY <2>2, TimeTyped
    <3>2. ASSUME NEW d \in Ids PROVE Kept(d)'
      BY <2>2, TimeKeeps DEF DeliveriesKept
    <3>3. QED
      BY <3>1, <3>2 DEF DeliveriesKept
  <2>3. ASSUME NEW r \in Workers, Started(r) PROVE OtherWork(r)
    BY <2>3 DEF Started
  <2>4. ASSUME NEW r \in Workers,
               SaveSubscription(r) \/ CountFailures(r) \/ AutoPause(r) \/ SaveStatus(r)
        PROVE  OtherWork(r)
    BY <2>4, SaveSubscriptionEffect, CountFailuresEffect, AutoPauseEffect, SaveStatusEffect
    DEF GoesTo, LeavesOff
  <2>5. QED
    BY <1>2, <2>1, <2>2, <2>3, <2>4, StepKinds, CreateKeeps
<1>3. QED
  BY <1>1, <1>2

\* The endpoint accepts a delivery once and the row says so, unless two
\* processes attempted it from the same row or one died over it, for any
\* number of processes, requests and attempts.
THEOREM DeliveriesAreAcceptedOnce == Spec => []AcceptedOnce
<1>1. Init => DeliveriesKept
  BY DEF Init, DeliveriesKept, Ids
<1>2. WebhooksTypeOK /\ DeliveriesKept => AcceptedOnce
  BY DEF DeliveriesKept, Kept, Settled, AcceptedOnce, Attempting
<1>3. QED
  BY <1>1, <1>2, WebhooksTypeInit, WebhooksTypeNext, DeliveriesKeptNext, PTL DEF Spec

\* A delivery is given up after exactly MaxAttempts posts, and its row counts
\* them, under the same condition.
THEOREM DeliveriesGetAllAttempts == Spec => []GivenUpAfterAllAttempts
<1>1. Init => DeliveriesKept
  BY DEF Init, DeliveriesKept, Ids
<1>2. WebhooksTypeOK /\ DeliveriesKept => GivenUpAfterAllAttempts
  BY DEF DeliveriesKept, Kept, Settled, GivenUpAfterAllAttempts, Attempting
<1>3. QED
  BY <1>1, <1>2, WebhooksTypeInit, WebhooksTypeNext, DeliveriesKeptNext, PTL DEF Spec

-------------------------------------------------------------------------------
(* Failing subscriptions *)

\* A handler that saw a subscription's delivery fail for good and is on its way
\* to pause it.
WillPause(w, s) ==
  /\ w.of = s /\ Terminal(w)
  /\ w.at \in {"saveSubscription", "pause"} \/ (w.at = "count" /\ w.copy = "ACTIVE")

PausedOrSoon(s) ==
  Failing(s) /\ ~reverted[s] /\ ~unchecked[s] =>
    subscriptions[s] = "PAUSED" \/ forced[s] \/ \E r \in Workers : WillPause(workers[r], s)

FailingKept == \A s \in Subscriptions : PausedOrSoon(s)

\* Fewer failures are no more than Threshold if more were not.
LEMMA FailingShrinks ==
  ASSUME WebhooksTypeOK, NEW s, RecentTerminalFailures(s)' \subseteq RecentTerminalFailures(s), Failing(s)'
  PROVE  Failing(s)
<1> DEFINE before == RecentTerminalFailures(s)
           after == RecentTerminalFailures(s)'
<1>1. IsFiniteSet(before) /\ before \subseteq Ids
  <2>1. IsFiniteSet(Ids)
    BY IdsAreNumbers, FS_Interval
  <2>2. before \subseteq Ids
    BY DEF RecentTerminalFailures
  <2>3. QED
    BY <2>1, <2>2, FS_Subset
<1>2. Cardinality(after) >= Threshold
  BY DEF Failing
<1> HIDE DEF before, after
<1>3. IsFiniteSet(after) /\ Cardinality(after) <= Cardinality(before)
  BY <1>1, FS_Subset DEF before, after
<1>4. Cardinality(after) \in Nat /\ Cardinality(before) \in Nat
  BY <1>1, <1>3, FS_CardinalityType
<1>5. Cardinality(before) >= Threshold
  BY <1>2, <1>3, <1>4, WebhooksAssumption
<1>6. QED
  BY <1>5 DEF Failing, before

\* A step keeps a failing subscription paused, or about to be, when no delivery
\* fails, its status and what is noted of it stand, and the handler that will
\* pause it still will.
LEMMA PausedOrSoonKept ==
  ASSUME WebhooksTypeOK, NEW r \in Workers, NEW w \in Work, Become(r, w), NEW s \in Subscriptions, PausedOrSoon(s),
         RecentTerminalFailures(s)' \subseteq RecentTerminalFailures(s),
         ~reverted'[s] => ~reverted[s], ~unchecked'[s] => ~unchecked[s],
         Failing(s) /\ ~reverted'[s] /\ ~unchecked'[s] /\ (subscriptions[s] = "PAUSED" \/ forced[s]) =>
           subscriptions'[s] = "PAUSED" \/ forced'[s],
         Failing(s) /\ ~reverted'[s] /\ ~unchecked'[s] /\ WillPause(workers[r], s) =>
           WillPause(w, s) \/ subscriptions'[s] = "PAUSED"
  PROVE  PausedOrSoon(s)'
<1> SUFFICES ASSUME Failing(s)', ~reverted'[s], ~unchecked'[s]
             PROVE  subscriptions'[s] = "PAUSED" \/ forced'[s] \/ \E q \in Workers : WillPause(workers'[q], s)
  BY DEF PausedOrSoon, WillPause
<1>1. workers'[r] = w /\ \A q \in Workers \ {r} : workers'[q] = workers[q]
  BY BecomeEffect DEF WebhooksTypeOK
<1>2. Failing(s)
  BY FailingShrinks
<1>3. subscriptions[s] = "PAUSED" \/ forced[s] \/ \E q \in Workers : WillPause(workers[q], s)
  BY <1>2 DEF PausedOrSoon
<1>4. ASSUME NEW q \in Workers, WillPause(workers[q], s)
      PROVE  subscriptions'[s] = "PAUSED" \/ \E p \in Workers : WillPause(workers'[p], s)
  <2>1. CASE q = r
    BY <1>1, <1>2, <1>4, <2>1
  <2>2. CASE q # r
    BY <1>1, <1>4, <2>2
  <2>3. QED
    BY <2>1, <2>2
<1>5. QED
  BY <1>2, <1>3, <1>4

\* What OtherWork leaves alone.
LEMMA OtherWorkWorker ==
  ASSUME WebhooksTypeOK, NEW r \in Workers, OtherWork(r)
  PROVE  /\ workers'[r] \in Work /\ Become(r, workers'[r])
         /\ \A s : RecentTerminalFailures(s)' = RecentTerminalFailures(s)
<1>1. PICK w \in Work : Become(r, w)
  BY DEF OtherWork
<1>2. workers'[r] = w
  BY <1>1, BecomeEffect DEF WebhooksTypeOK
<1>3. deliveries' = deliveries
  BY DEF OtherWork
<1>4. \A s : RecentTerminalFailures(s)' = RecentTerminalFailures(s)
  BY <1>3 DEF RecentTerminalFailures, Ids
<1>5. QED
  BY <1>1, <1>2, <1>4

\* A worker that starts pauses nothing and resumes nothing.
LEMMA StartedKeepsPaused ==
  ASSUME WebhooksTypeOK, NEW r \in Workers, Started(r), NEW s \in Subscriptions, PausedOrSoon(s)
  PROVE  PausedOrSoon(s)'
<1>1. ~WillPause(workers[r], s)
  BY DEF Started, At, WillPause
<1>2. OtherWork(r) /\ UNCHANGED <<subscriptions, forced, reverted, unchecked>>
  BY DEF Started
<1>3. /\ workers'[r] \in Work /\ Become(r, workers'[r])
      /\ RecentTerminalFailures(s)' = RecentTerminalFailures(s)
  BY <1>2, OtherWorkWorker
<1> DEFINE w == workers'[r]
<1> HIDE DEF w
<1>4. w \in Work /\ Become(r, w)
  BY <1>3 DEF w
<1>5. QED
  BY <1>1, <1>2, <1>3, <1>4, PausedOrSoonKept

\* A new row has not failed.
LEMMA CreateKeepsPaused ==
  ASSUME WebhooksTypeOK, NEW r \in Workers, DeliverToSubscription(r), NEW s \in Subscriptions, PausedOrSoon(s)
  PROVE  PausedOrSoon(s)'
<1>1. PICK w \in Work : Become(r, w)
  BY CreateEffect
<1>2. RecentTerminalFailures(s)' \subseteq RecentTerminalFailures(s)
  <2>1. PICK n \in Nat : n = Len(deliveries) + 1
    BY IdsAreNumbers
  <2>2. /\ Ids' = Ids \cup {n} /\ deliveries'[n].status = "PENDING"
        /\ \A d \in Ids : deliveries'[d] = deliveries[d]
    BY <2>1, CreateEffect
  <2>3. QED
    BY <2>2 DEF RecentTerminalFailures
<1>3. ~WillPause(workers[r], s)
  BY DEF DeliverToSubscription, At, WillPause
<1>4. UNCHANGED <<subscriptions, forced, reverted, unchecked>>
  BY DEF DeliverToSubscription
<1>5. QED
  BY <1>1, <1>2, <1>3, <1>4, PausedOrSoonKept

\* Neither has one that is posted.
LEMMA PostKeepsPaused ==
  ASSUME WebhooksTypeOK, NEW r \in Workers, Post(r), NEW s \in Subscriptions, PausedOrSoon(s)
  PROVE  PausedOrSoon(s)'
<1>1. PICK answer \in BOOLEAN : Become(r, [workers[r] EXCEPT !.at = "saveDelivery", !.ok = answer])
  BY DEF Post
<1>2. PICK w \in Work : Become(r, w)
  BY <1>1, PostEffect
<1>3. deliveries' = deliveries /\ UNCHANGED <<subscriptions, forced, reverted, unchecked>>
  BY DEF Post, tables
<1>4. RecentTerminalFailures(s)' = RecentTerminalFailures(s)
  BY <1>3 DEF RecentTerminalFailures, Ids
<1>5. ~WillPause(workers[r], s)
  BY DEF Post, At, WillPause
<1>6. QED
  BY <1>2, <1>3, <1>4, <1>5, PausedOrSoonKept

\* Whoever saves that a delivery failed for good is on its way to pause.
LEMMA SaveDeliveryKeepsPaused ==
  ASSUME WebhooksTypeOK, NEW r \in Workers, SaveDelivery(r), NEW s \in Subscriptions, PausedOrSoon(s)
  PROVE  PausedOrSoon(s)'
<1>1. /\ workers[r] \in Work /\ WorkOK(workers[r], Ids) /\ workers[r].at = "saveDelivery"
      /\ Goto(r, "saveSubscription")
      /\ deliveries' = [deliveries EXCEPT ![workers[r].id] = Attempted(workers[r])]
      /\ UNCHANGED <<subscriptions, forced, reverted, unchecked>>
  BY DEF WebhooksTypeOK, SaveDelivery, At, history
<1>2. workers[r].id \in Ids
  BY <1>1 DEF WorkOK, BeforeSave
<1>3. /\ Ids' = Ids /\ deliveries'[workers[r].id] = Attempted(workers[r])
      /\ \A e \in Ids \ {workers[r].id} : deliveries'[e] = deliveries[e]
  BY <1>1, <1>2, AttemptedType, SaveRow
<1>4. PICK w \in Work :
        /\ Become(r, w) /\ w.at = "saveSubscription"
        /\ w.attempt = workers[r].attempt /\ w.ok = workers[r].ok /\ w.of = workers[r].of
  BY <1>1, GotoEffect DEF Steps, AfterSave
<1>5. CASE Terminal(workers[r]) /\ workers[r].of = s
  <2>1. WillPause(w, s)
    BY <1>4, <1>5 DEF WillPause, Terminal
  <2>2. workers'[r] = w
    BY <1>4, BecomeEffect DEF WebhooksTypeOK
  <2>3. QED
    BY <2>1, <2>2 DEF PausedOrSoon, WillPause
<1>6. CASE ~(Terminal(workers[r]) /\ workers[r].of = s)
  <2>1. /\ Attempted(workers[r]).of = workers[r].of
        /\ Attempted(workers[r]).final = "recent" => Terminal(workers[r])
    BY <1>1, AttemptedType
  <2>2. RecentTerminalFailures(s)' \subseteq RecentTerminalFailures(s)
    BY <1>3, <1>6, <2>1 DEF RecentTerminalFailures
  <2>3. ~WillPause(workers[r], s)
    BY <1>1 DEF WillPause
  <2>4. QED
    BY <1>1, <1>4, <2>2, <2>3, PausedOrSoonKept
<1>7. QED
  BY <1>5, <1>6

\* The copy that is saved has the status there is, or is noted as reverting it.
LEMMA SaveSubscriptionKeepsPaused ==
  ASSUME WebhooksTypeOK, NEW r \in Workers, SaveSubscription(r), NEW s \in Subscriptions, PausedOrSoon(s)
  PROVE  PausedOrSoon(s)'
<1>1. /\ workers[r] \in Work /\ workers[r].at = "saveSubscription"
      /\ subscriptions' = [subscriptions EXCEPT ![workers[r].of] = workers[r].copy]
      /\ reverted' = [reverted EXCEPT ![workers[r].of] = @ \/ subscriptions[workers[r].of] # workers[r].copy]
      /\ UNCHANGED <<forced, unchecked>>
      /\ subscriptions \in [Subscriptions -> Status] /\ reverted \in [Subscriptions -> BOOLEAN]
  BY DEF WebhooksTypeOK, SaveSubscription, At
<1>2. workers[r].copy \in Status
  BY <1>1 DEF Work
<1>3. /\ ~reverted'[s] => ~reverted[s] /\ subscriptions'[s] = subscriptions[s]
      /\ workers[r].of = s => subscriptions'[s] = workers[r].copy
  BY <1>1
<1>4. PICK w \in Work :
        /\ Become(r, w) /\ RecentTerminalFailures(s)' = RecentTerminalFailures(s)
        /\ Terminal(workers[r]) => Terminal(w) /\ w.at = "count" /\ w.of = workers[r].of /\ w.copy = workers[r].copy
  BY SaveSubscriptionEffect, OtherWorkWorker DEF GoesTo, LeavesOff
<1>5. WillPause(workers[r], s) => WillPause(w, s) \/ subscriptions'[s] = "PAUSED"
  BY <1>2, <1>3, <1>4 DEF WillPause, Status
<1>6. QED
  BY <1>1, <1>3, <1>4, <1>5, PausedOrSoonKept

\* Whoever counts pauses a failing subscription it knows as active.
LEMMA CountFailuresKeepsPaused ==
  ASSUME WebhooksTypeOK, NEW r \in Workers, CountFailures(r), NEW s \in Subscriptions, PausedOrSoon(s)
  PROVE  PausedOrSoon(s)'
<1>1. workers[r].at = "count" /\ UNCHANGED <<subscriptions, forced, reverted, unchecked>>
  BY DEF CountFailures, At, tables
<1>2. PICK w \in Work :
        /\ Become(r, w) /\ RecentTerminalFailures(s)' = RecentTerminalFailures(s)
        /\ workers[r].copy = "ACTIVE" /\ Failing(workers[r].of) =>
             Terminal(w) /\ w.at = "pause" /\ w.of = workers[r].of
  BY CountFailuresEffect, OtherWorkWorker DEF GoesTo, LeavesOff
<1>3. Failing(s) /\ WillPause(workers[r], s) => WillPause(w, s)
  BY <1>1, <1>2 DEF WillPause
<1>4. QED
  BY <1>1, <1>2, <1>3, PausedOrSoonKept

\* Then it is paused.
LEMMA AutoPauseKeepsPaused ==
  ASSUME WebhooksTypeOK, NEW r \in Workers, AutoPause(r), NEW s \in Subscriptions, PausedOrSoon(s)
  PROVE  PausedOrSoon(s)'
<1>1. /\ subscriptions' = [subscriptions EXCEPT ![workers[r].of] = "PAUSED"]
      /\ forced' = [forced EXCEPT ![workers[r].of] = FALSE]
      /\ UNCHANGED <<reverted, unchecked>>
      /\ subscriptions \in [Subscriptions -> Status] /\ forced \in [Subscriptions -> BOOLEAN]
  BY DEF WebhooksTypeOK, AutoPause
<1>2. IF workers[r].of = s THEN subscriptions'[s] = "PAUSED"
      ELSE subscriptions'[s] = subscriptions[s] /\ forced'[s] = forced[s]
  BY <1>1
<1>3. PICK w \in Work : Become(r, w) /\ RecentTerminalFailures(s)' = RecentTerminalFailures(s)
  BY AutoPauseEffect, OtherWorkWorker DEF LeavesOff
<1>4. WillPause(workers[r], s) => subscriptions'[s] = "PAUSED"
  BY <1>2 DEF WillPause
<1>5. QED
  BY <1>1, <1>2, <1>3, <1>4, PausedOrSoonKept

\* An admin resumes it with forceResume, or by a decision that does not hold any more.
LEMMA SaveStatusKeepsPaused ==
  ASSUME WebhooksTypeOK, NEW r \in Workers, SaveStatus(r), NEW s \in Subscriptions, PausedOrSoon(s)
  PROVE  PausedOrSoon(s)'
<1>1. /\ workers[r] \in Work /\ workers[r].at = "saveStatus"
      /\ subscriptions' = [subscriptions EXCEPT ![workers[r].of] = workers[r].copy]
      /\ forced' = [forced EXCEPT ![workers[r].of] = workers[r].copy = "ACTIVE" /\ (workers[r].ok \/ @)]
      /\ reverted' = [reverted EXCEPT ![workers[r].of] =
            @ \/ subscriptions[workers[r].of] # workers[r].seen
              \/ (workers[r].copy = "ACTIVE" /\ ~MayResume(workers[r].of, workers[r].ok))]
      /\ unchecked' = unchecked
      /\ subscriptions \in [Subscriptions -> Status] /\ forced \in [Subscriptions -> BOOLEAN]
      /\ reverted \in [Subscriptions -> BOOLEAN]
  BY DEF WebhooksTypeOK, SaveStatus, At
<1>2. workers[r].copy \in Status /\ subscriptions[s] \in Status
  BY <1>1 DEF Work
<1>3. CASE workers[r].of = s
  <2>1. /\ subscriptions'[s] = workers[r].copy
        /\ forced'[s] <=> workers[r].copy = "ACTIVE" /\ (workers[r].ok \/ forced[s])
    BY <1>1, <1>3
  <2>2. ~reverted'[s] => ~reverted[s] /\ (workers[r].copy = "ACTIVE" => MayResume(s, workers[r].ok))
    BY <1>1, <1>3
  <2>3. Failing(s) /\ ~reverted'[s] /\ (subscriptions[s] = "PAUSED" \/ forced[s]) =>
          subscriptions'[s] = "PAUSED" \/ forced'[s]
    BY <1>2, <2>1, <2>2 DEF MayResume, Status
  <2>4. QED
    <3>1. PICK w \in Work : Become(r, w) /\ RecentTerminalFailures(s)' = RecentTerminalFailures(s)
      BY SaveStatusEffect, OtherWorkWorker DEF LeavesOff
    <3>2. ~WillPause(workers[r], s)
      BY <1>1 DEF WillPause
    <3>3. QED
      BY <1>1, <2>2, <2>3, <3>1, <3>2, PausedOrSoonKept
<1>4. CASE workers[r].of # s
  <2>1. subscriptions'[s] = subscriptions[s] /\ forced'[s] = forced[s] /\ reverted'[s] = reverted[s]
    BY <1>1, <1>4
  <2>2. PICK w \in Work : Become(r, w) /\ RecentTerminalFailures(s)' = RecentTerminalFailures(s)
    BY SaveStatusEffect, OtherWorkWorker DEF LeavesOff
  <2>3. ~WillPause(workers[r], s)
    BY <1>1 DEF WillPause
  <2>4. QED
    BY <1>1, <2>1, <2>2, <2>3, PausedOrSoonKept
<1>5. QED
  BY <1>3, <1>4

\* Whoever dies before it counts leaves a note.
LEMMA CrashKeepsPaused ==
  ASSUME WebhooksTypeOK, NEW r \in Workers, Crash(r), NEW s \in Subscriptions, PausedOrSoon(s)
  PROVE  PausedOrSoon(s)'
<1>1. /\ Become(r, Idle) /\ UNCHANGED <<deliveries, subscriptions, forced, reverted>>
      /\ unchecked' = [unchecked EXCEPT ![workers[r].of] =
            @ \/ (Terminal(workers[r]) /\ workers[r].at \in {"saveSubscription", "count", "pause"})]
      /\ unchecked \in [Subscriptions -> BOOLEAN]
  BY DEF WebhooksTypeOK, Crash, tables
<1>2. ~unchecked'[s] => ~unchecked[s] /\ ~WillPause(workers[r], s)
  BY <1>1 DEF WillPause
<1>3. RecentTerminalFailures(s)' = RecentTerminalFailures(s)
  BY <1>1 DEF RecentTerminalFailures, Ids
<1>4. Idle \in Work
  BY IdleType
<1> HIDE DEF Idle
<1>5. QED
  BY <1>1, <1>2, <1>3, <1>4, PausedOrSoonKept

\* Time makes failures old.
LEMMA TimeKeepsPaused ==
  ASSUME WebhooksTypeOK, NEW d \in Ids, BackoffEnds(d) \/ DayEnds(d), NEW s \in Subscriptions, PausedOrSoon(s)
  PROVE  PausedOrSoon(s)'
<1>1. /\ Ids' = Ids /\ UNCHANGED <<subscriptions, workers, forced, reverted, unchecked>>
      /\ \A e \in Ids : /\ deliveries'[e].of = deliveries[e].of /\ deliveries'[e].status = deliveries[e].status
                        /\ deliveries'[e].final = "recent" => deliveries[e].final = "recent"
  BY TimeTyped
<1>2. RecentTerminalFailures(s)' \subseteq RecentTerminalFailures(s)
  BY <1>1 DEF RecentTerminalFailures
<1>3. Failing(s)' => Failing(s)
  BY <1>2, FailingShrinks
<1>4. QED
  BY <1>1, <1>3 DEF PausedOrSoon, WillPause

\* Every step keeps a failing subscription paused, or about to be.
LEMMA FailingKeptNext == WebhooksTypeOK /\ FailingKept /\ [Next]_vars => FailingKept'
<1> SUFFICES ASSUME WebhooksTypeOK, [Next]_vars, NEW s \in Subscriptions, PausedOrSoon(s)
             PROVE  PausedOrSoon(s)'
  BY DEF FailingKept
<1>1. CASE UNCHANGED vars
  <2>1. UNCHANGED <<subscriptions, deliveries, workers, forced, reverted, unchecked>>
    BY <1>1 DEF vars, tables, history
  <2>2. Failing(s)' <=> Failing(s)
    BY <2>1 DEF Failing, RecentTerminalFailures, Ids
  <2>3. QED
    BY <2>1, <2>2 DEF PausedOrSoon, WillPause
<1>2. CASE Next
  BY <1>2, StepKinds, StartedKeepsPaused, CreateKeepsPaused, PostKeepsPaused, SaveDeliveryKeepsPaused,
     SaveSubscriptionKeepsPaused, CountFailuresKeepsPaused, AutoPauseKeepsPaused, SaveStatusKeepsPaused,
     CrashKeepsPaused, TimeKeepsPaused
<1>3. QED
  BY <1>1, <1>2

\* A subscription with Threshold recent terminal failures is paused or was
\* resumed with forceResume once no handler is on its way to pause it, unless a
\* status was overwritten or a handler died, however many count and save at once.
THEOREM FailingIsPaused == Spec => []PausedWhileFailing
<1>1. Init => FailingKept
  <2> SUFFICES ASSUME Init, NEW s \in Subscriptions PROVE PausedOrSoon(s)
    BY DEF FailingKept
  <2>1. RecentTerminalFailures(s) = {}
    BY DEF Init, RecentTerminalFailures, Ids
  <2>2. ~Failing(s)
    BY <2>1, FS_EmptySet, WebhooksAssumption DEF Failing
  <2>3. QED
    BY <2>2 DEF PausedOrSoon
<1>2. FailingKept => PausedWhileFailing
  BY DEF FailingKept, PausedOrSoon, WillPause, PausedWhileFailing
<1>3. QED
  BY <1>1, <1>2, WebhooksTypeInit, WebhooksTypeNext, FailingKeptNext, PTL DEF Spec
=============================================================================
