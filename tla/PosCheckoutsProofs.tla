--------------------------- MODULE PosCheckoutsProofs ---------------------------
(***************************************************************************)
(* Checkouts for any registers, carts and number of repeated, overlapping  *)
(* or broken off requests: goods move once, carts are sold once, voids are *)
(* reversed in the books, every cent in the journal is explained by a      *)
(* checkout or a settlement, and PosCheckouts implements GoodsAndBooks.    *)
(***************************************************************************)
EXTENDS PosCheckouts, CommonTheorems, SequenceTheorems

Steps == {"idle"} \cup IngestSteps \cup VoidSteps \cup Ended

PosTypeOK ==
  /\ checkouts \in [Checkouts -> CheckoutStatus]
  /\ movements \in [Checkouts -> Nat]
  /\ requests \in [Requests -> Request]
  /\ overlapped \in [Checkouts -> BOOLEAN]
  /\ RegisterTypeOK

\* A request's step says which operation it runs, and that it has a checkout.
RequestsOK ==
  \A r \in Requests :
    /\ At(r, "idle") => requests[r].op = "none"
    /\ requests[r].op # "none" => requests[r].checkout \in Checkouts
    /\ requests[r].step \in IngestSteps => requests[r].op = "ingest"
    /\ requests[r].step \in VoidSteps => requests[r].op = "void"

\* The steps of a request that has inserted the checkout itself.
OwnSteps == IngestSteps \ {"insert"}
Owns(r) == requests[r].step \in OwnSteps

\* The unique index lets one request own a checkout.
OneOwner ==
  \A r \in Requests : Owns(r) =>
    /\ checkouts[requests[r].checkout] # "NONE"
    /\ \A q \in Requests :
         Owns(q) /\ requests[q].checkout = requests[r].checkout => q = r

\* What the owner of a checkout has done with its goods.
GoodsOK ==
  \A r \in Requests : LET k == requests[r].checkout IN
    /\ requests[r].step \in {"assert", "process"} => movements[k] = 0
    /\ requests[r].step \in {"post", "cogs"} => movements[k] = 1
    /\ At(r, "process") /\ Dto[k].type = "RETURN" => movements[Dto[k].source] = 1

\* Nobody but the checkout that consumes it writes into a cart who consumed it,
\* and a request sells a cart it has loaded before anybody consumed it.
CartsOK ==
  /\ \A c \in Carts : carts[c].status \in {"NONE", "SUSPENDED"} => carts[c].consumedBy = None
  /\ \A w \in Clerks : editing[w] # None /\ editing[w].what = "cart" =>
       /\ editing[w].loaded.status \in {"NONE", "SUSPENDED"}
       /\ editing[w].loaded.consumedBy = None
       /\ editing[w].entity.consumedBy = None
  /\ \A r \in Requests : At(r, "process") =>
       /\ requests[r].cart = None <=> Dto[requests[r].checkout].cart = None
       /\ requests[r].cart # None => requests[r].cart.consumedBy = None

-------------------------------------------------------------------------------
(* Types *)

\* A request that goes on keeps its operation and its checkout.
LEMMA GotoEffect ==
  ASSUME requests \in [Requests -> Request], NEW r \in Requests, NEW step \in Steps, Goto(r, step)
  PROVE  /\ requests' \in [Requests -> Request]
         /\ requests'[r].step = step
         /\ requests'[r].op = requests[r].op
         /\ requests'[r].checkout = requests[r].checkout
         /\ \A q \in Requests \ {r} : requests'[q] = requests[q]
BY DEF Goto, Request, Steps

\* A request that begins was idle.
LEMMA BeginEffect ==
  ASSUME requests \in [Requests -> Request], NEW r \in Requests, NEW k \in Checkouts,
         NEW op \in {"ingest", "void"}, NEW step \in Steps, Begin(r, op, k, step)
  PROVE  /\ requests' \in [Requests -> Request]
         /\ requests[r].step = "idle"
         /\ requests'[r].step = step
         /\ requests'[r].op = op
         /\ requests'[r].checkout = k
         /\ \A q \in Requests \ {r} : requests'[q] = requests[q]
BY DEF Begin, At, Request, Steps

\* A request that has found all it needs goes on with the cart it has loaded.
LEMMA AssertEffect ==
  ASSUME requests \in [Requests -> Request], RegisterTypeOK, NEW r \in Requests,
         requests[r].checkout \in Checkouts, AssertUsable(r), ~Goto(r, "fail")
  PROVE  LET dto == Dto[requests[r].checkout] IN
         /\ requests' \in [Requests -> Request]
         /\ SessionUsable(dto) /\ CartAvailable(dto) /\ SourceSaleProcessed(dto)
         /\ requests[r].step = "assert"
         /\ requests'[r].step = "process"
         /\ requests'[r].op = requests[r].op
         /\ requests'[r].checkout = requests[r].checkout
         /\ requests'[r].cart = IF dto.cart = None THEN None ELSE carts[dto.cart]
         /\ \A q \in Requests \ {r} : requests'[q] = requests[q]
<1> DEFINE dto == Dto[requests[r].checkout]
           loaded == IF dto.cart = None THEN None ELSE carts[dto.cart]
<1>1. loaded \in Cart \cup {None}
  BY PosAssumption DEF RegisterTypeOK
<1>3. requests' = [requests EXCEPT ![r] = [@ EXCEPT !.step = "process", !.cart = loaded]]
      /\ SessionUsable(dto) /\ CartAvailable(dto) /\ SourceSaleProcessed(dto) /\ At(r, "assert")
  BY DEF AssertUsable
<1> HIDE DEF loaded
<1>4. requests' \in [Requests -> Request]
  BY <1>1, <1>3 DEF Request, IngestSteps
<1>5. /\ requests'[r].step = "process"
      /\ requests'[r].op = requests[r].op
      /\ requests'[r].checkout = requests[r].checkout
      /\ requests'[r].cart = loaded
      /\ \A q \in Requests \ {r} : requests'[q] = requests[q]
  BY <1>3 DEF Request
<1>6. QED
  BY <1>3, <1>4, <1>5 DEF At, loaded

\* Loading and saving entities keeps the types of the register's tables.
LEMMA RegisterType ==
  ASSUME RegisterTypeOK, NEW w \in Clerks, RegisterStep(w)
  PROVE  RegisterTypeOK'
<1> USE DEF RegisterTypeOK
<1>1. ASSUME NEW edit \in Edit, Load(w, edit) PROVE RegisterTypeOK'
  BY <1>1 DEF Load
<1>2. ASSUME NEW s \in Sessions, OpenSession(w, s) \/ CloseSession(w, s) PROVE RegisterTypeOK'
  <2>1. PICK entity \in SessionStatus : LoadSession(w, s, entity)
    BY <1>2 DEF OpenSession, CloseSession, SessionStatus
  <2>2. [what |-> "session", id |-> s, entity |-> entity] \in Edit
    BY DEF Edit
  <2>3. QED
    BY <1>1, <2>1, <2>2 DEF LoadSession
<1>3. ASSUME NEW c \in Carts,
             \/ SuspendCart(w, c) \/ ResumeSuspendedCart(w, c)
             \/ DiscardSuspendedCart(w, c) \/ UpdateSuspendedCart(w, c)
      PROVE  RegisterTypeOK'
  <2>1. carts[c] \in Cart /\ NoCart \in Cart
    BY DEF Cart, NoCart, CartStatus
  <2>2. PICK entity \in Cart : LoadCart(w, c, entity)
    BY <1>3, <2>1 DEF SuspendCart, ResumeSuspendedCart, DiscardSuspendedCart, UpdateSuspendedCart,
                      Cart, CartStatus
  <2>3. [what |-> "cart", id |-> c, loaded |-> carts[c], entity |-> entity] \in Edit
    BY <2>1 DEF Edit
  <2>4. QED
    BY <1>1, <2>2, <2>3 DEF LoadCart
<1>4. ASSUME SaveSession(w) PROVE RegisterTypeOK'
  <2>1. editing[w] # None /\ editing[w].what = "session"
    BY <1>4 DEF SaveSession
  <2>2. editing[w].id \in Sessions /\ editing[w].entity \in SessionStatus
    BY <2>1 DEF Edit
  <2>3. QED
    BY <1>4, <2>2 DEF SaveSession
<1>5. ASSUME SaveCart(w) PROVE RegisterTypeOK'
  <2>1. editing[w] # None /\ editing[w].what = "cart"
    BY <1>5 DEF SaveCart
  <2>2. editing[w].id \in Carts /\ editing[w].entity \in Cart
    BY <2>1 DEF Edit
  <2>3. QED
    BY <1>5, <2>2 DEF SaveCart, CartSaved
<1>6. QED
  BY <1>2, <1>3, <1>4, <1>5 DEF RegisterStep

\* A cart saved over another is a cart.
LEMMA CartSavedType ==
  ASSUME RegisterTypeOK, NEW c \in Carts, NEW loaded, NEW entity \in Cart,
         CartSaved(c, loaded, entity), UNCHANGED <<sessions, editing>>
  PROVE  RegisterTypeOK'
BY DEF RegisterTypeOK, CartSaved

\* Every step keeps the types.
LEMMA PosTypeStep == ASSUME PosTypeOK, RequestsOK, CartsOK, [PosNext]_posVars PROVE PosTypeOK'
<1> USE PosAssumption DEF PosTypeOK
<1> DEFINE K(r) == requests[r].checkout
<1>1. ASSUME NEW r \in Requests, NEW step \in Steps, Goto(r, step),
             UNCHANGED <<movements, overlapped, registerVars>>,
             \/ UNCHANGED checkouts
             \/ \E k \in Checkouts, status \in CheckoutStatus : checkouts' = [checkouts EXCEPT ![k] = status]
      PROVE  PosTypeOK'
  BY <1>1, GotoEffect DEF registerVars, RegisterTypeOK
<1>2. ASSUME NEW r \in Requests, NEW k \in Checkouts, Ingest(r, k) \/ VoidCheckout(r, k)
      PROVE  PosTypeOK'
  <2>1. PICK op \in {"ingest", "void"}, step \in Steps : Begin(r, op, k, step)
    BY <1>2 DEF Ingest, VoidCheckout, Steps, IngestSteps, VoidSteps, Ended
  <2>2. requests' \in [Requests -> Request]
    BY <2>1, BeginEffect
  <2>3. UNCHANGED <<checkouts, movements, registerVars>> /\ overlapped' \in [Checkouts -> BOOLEAN]
    BY <1>2 DEF Ingest, VoidCheckout
  <2>4. QED
    BY <2>2, <2>3 DEF registerVars, RegisterTypeOK
<1>3. ASSUME NEW r \in Requests, RequestStep(r) \/ Crash(r), K(r) \in Checkouts,
             ~AssertUsable(r), ~Process(r)
      PROVE  PosTypeOK'
  <2>1. PICK step \in Steps : Goto(r, step)
    BY <1>3 DEF RequestStep, InsertCheckout, Refuse, Fail, PostSale, PostCogs, PostingFails,
                UpdateVoided, ReverseSale, ReversalFails, Crash, Steps, IngestSteps, VoidSteps, Ended
  <2>2. UNCHANGED <<movements, overlapped, registerVars>>
    BY <1>3 DEF RequestStep, InsertCheckout, Refuse, Fail, PostSale, PostCogs, PostingFails,
                UpdateVoided, ReverseSale, ReversalFails, Crash
  <2>3. \/ UNCHANGED checkouts
        \/ \E status \in CheckoutStatus : checkouts' = [checkouts EXCEPT ![K(r)] = status]
    BY <1>3 DEF RequestStep, InsertCheckout, Refuse, Fail, PostSale, PostCogs, PostingFails,
                UpdateVoided, ReverseSale, ReversalFails, Crash, CheckoutStatus
  <2>4. QED
    BY <1>1, <1>3, <2>1, <2>2, <2>3
<1>4. ASSUME NEW r \in Requests, K(r) \in Checkouts, AssertUsable(r) PROVE PosTypeOK'
  <2>1. requests' \in [Requests -> Request]
    BY <1>4, AssertEffect, GotoEffect DEF Steps, IngestSteps
  <2>2. QED
    BY <1>4, <2>1 DEF AssertUsable, registerVars, RegisterTypeOK
<1>5. ASSUME NEW r \in Requests, K(r) \in Checkouts, Process(r), CartsOK PROVE PosTypeOK'
  <2>1. requests' \in [Requests -> Request]
    BY <1>5, GotoEffect DEF Process, Steps, IngestSteps
  <2>2. checkouts' \in [Checkouts -> CheckoutStatus] /\ movements' \in [Checkouts -> Nat]
    BY <1>5 DEF Process, CheckoutStatus
  <2>3. overlapped' \in [Checkouts -> BOOLEAN]
    BY <1>5 DEF Process
  <2>4. RegisterTypeOK'
    <3>1. CASE requests[r].cart = None
      BY <1>5, <3>1 DEF Process, ConsumeCart, RegisterTypeOK
    <3>2. CASE requests[r].cart # None
      <4>1. requests[r].cart \in Cart /\ Dto[K(r)].cart \in Carts /\ At(r, "process")
        BY <1>5, <3>2 DEF Process, Request, CartsOK
      <4>2. [requests[r].cart EXCEPT !.status = "RESUMED", !.consumedBy = K(r)] \in Cart
        BY <1>5, <4>1 DEF Cart, CartStatus
      <4>3. QED
        BY <1>5, <3>2, <4>1, <4>2, CartSavedType DEF Process, ConsumeCart
    <3>3. QED
      BY <3>1, <3>2
  <2>5. QED
    BY <2>1, <2>2, <2>3, <2>4
<1>6. ASSUME NEW r \in Requests, RequestStep(r) \/ Crash(r) PROVE K(r) \in Checkouts
  BY <1>6 DEF RequestStep, InsertCheckout, AssertUsable, Refuse, Process, Fail, PostSale, PostCogs,
              PostingFails, UpdateVoided, ReverseSale, ReversalFails, Crash, Working, At, RequestsOK,
              IngestSteps, VoidSteps
<1>7. ASSUME NEW id, SettleReceivable(id) PROVE PosTypeOK'
  BY <1>7 DEF SettleReceivable, registerVars, RegisterTypeOK
<1>8. ASSUME NEW w \in Clerks, RegisterStep(w), UNCHANGED <<checkouts, movements, requests, overlapped>>
      PROVE  PosTypeOK'
  BY <1>8, RegisterType
<1>9. ASSUME UNCHANGED posVars PROVE PosTypeOK'
  BY <1>9 DEF posVars, registerVars, RegisterTypeOK
<1>10. QED
  BY <1>2, <1>3, <1>4, <1>5, <1>6, <1>7, <1>8, <1>9 DEF PosNext, RequestStep

-------------------------------------------------------------------------------
(* Requests *)

\* A request that takes a step is at one, and stays with its operation and its
\* checkout.
LEMMA StepEffect ==
  ASSUME PosTypeOK, RequestsOK, NEW r \in Requests, RequestStep(r) \/ Crash(r)
  PROVE  /\ requests[r].checkout \in Checkouts
         /\ \/ requests[r].step \in IngestSteps /\ requests'[r].step \in OwnSteps \cup Ended
            \/ requests[r].step \in VoidSteps /\ requests'[r].step \in {"reverse"} \cup Ended
         /\ requests'[r].op = requests[r].op
         /\ requests'[r].checkout = requests[r].checkout
         /\ \A q \in Requests \ {r} : requests'[q] = requests[q]
<1> USE DEF IngestSteps, VoidSteps, OwnSteps, Ended, At
<1>1. requests[r].step \in IngestSteps \cup VoidSteps
  BY DEF RequestStep, InsertCheckout, AssertUsable, Refuse, Process, Fail, PostSale, PostCogs,
         PostingFails, UpdateVoided, ReverseSale, ReversalFails, Crash, Working
<1>2. requests[r].checkout \in Checkouts
  BY <1>1 DEF RequestsOK
<1>3. ASSUME NEW step \in Steps, Goto(r, step),
             \/ requests[r].step \in IngestSteps /\ step \in OwnSteps \cup Ended
             \/ requests[r].step \in VoidSteps /\ step \in {"reverse"} \cup Ended
      PROVE  /\ \/ requests[r].step \in IngestSteps /\ requests'[r].step \in OwnSteps \cup Ended
                \/ requests[r].step \in VoidSteps /\ requests'[r].step \in {"reverse"} \cup Ended
             /\ requests'[r].op = requests[r].op
             /\ requests'[r].checkout = requests[r].checkout
             /\ \A q \in Requests \ {r} : requests'[q] = requests[q]
  BY <1>3, GotoEffect DEF PosTypeOK
<1>4. CASE AssertUsable(r) /\ ~Goto(r, "fail")
  BY <1>2, <1>4, AssertEffect DEF PosTypeOK
<1>5. CASE ~AssertUsable(r) \/ Goto(r, "fail")
  <2>1. PICK step \in Steps :
          /\ Goto(r, step)
          /\ \/ requests[r].step \in IngestSteps /\ step \in OwnSteps \cup Ended
             \/ requests[r].step \in VoidSteps /\ step \in {"reverse"} \cup Ended
    <3>1. CASE RequestStep(r)
      BY <1>5, <3>1 DEF RequestStep, InsertCheckout, AssertUsable, Refuse, Process, Fail, PostSale,
             PostCogs, PostingFails, UpdateVoided, ReverseSale, ReversalFails, Steps
    <3>2. CASE Crash(r)
      BY <1>1, <3>2 DEF Crash, Steps
    <3>3. QED
      BY <3>1, <3>2
  <2>2. QED
    BY <1>2, <1>3, <2>1
<1>6. QED
  BY <1>4, <1>5

\* A request that begins was idle and begins with an operation of its own.
LEMMA FirstEffect ==
  ASSUME PosTypeOK, NEW r \in Requests, NEW k \in Checkouts, Ingest(r, k) \/ VoidCheckout(r, k)
  PROVE  /\ UNCHANGED <<checkouts, movements, entries, registerVars>>
         /\ requests[r].step = "idle"
         /\ requests'[r].checkout = k
         /\ \/ requests'[r].op = "ingest" /\ requests'[r].step \in {"insert", "done"}
            \/ /\ requests'[r].op = "void" /\ requests'[r].step \in {"void", "error"}
               /\ checkouts[k] # "NONE"
         /\ \A q \in Requests \ {r} : requests'[q] = requests[q]
<1>1. PICK op \in {"ingest", "void"}, step \in Steps :
        /\ Begin(r, op, k, step)
        /\ UNCHANGED <<checkouts, movements, entries, registerVars>>
        /\ \/ op = "ingest" /\ step \in {"insert", "done"}
           \/ op = "void" /\ step \in {"void", "error"} /\ checkouts[k] # "NONE"
  BY DEF Ingest, VoidCheckout, Steps, IngestSteps, VoidSteps, Ended
<1>2. QED
  BY <1>1, BeginEffect DEF PosTypeOK

\* Every step keeps a request's step in agreement with its operation.
LEMMA RequestsStep == ASSUME PosTypeOK, RequestsOK, [PosNext]_posVars PROVE RequestsOK'
<1> USE DEF IngestSteps, VoidSteps, OwnSteps, Ended, At
<1>1. ASSUME NEW r \in Requests, RequestStep(r) \/ Crash(r) PROVE RequestsOK'
  BY <1>1, StepEffect DEF RequestsOK
<1>2. ASSUME NEW r \in Requests, NEW k \in Checkouts, Ingest(r, k) \/ VoidCheckout(r, k)
      PROVE  RequestsOK'
  BY <1>2, FirstEffect DEF RequestsOK
<1>3. CASE UNCHANGED requests
  BY <1>3 DEF RequestsOK
<1>4. QED
  BY <1>1, <1>2, <1>3 DEF PosNext, SettleReceivable, posVars

-------------------------------------------------------------------------------
(* Goods *)

\* What a request may do to the row and the goods of its checkout.
LEMMA RowEffect ==
  ASSUME PosTypeOK, RequestsOK, NEW r \in Requests, RequestStep(r) \/ Crash(r),
         NEW k, k = requests[r].checkout
  PROVE  \/ /\ At(r, "insert") /\ requests'[r].step = "assert"
            /\ checkouts[k] = "NONE"
            /\ checkouts' = [checkouts EXCEPT ![k] = "RECEIVED"]
            /\ UNCHANGED movements
         \/ /\ At(r, "assert") /\ requests'[r].step = "process"
            /\ SourceSaleProcessed(Dto[k])
            /\ UNCHANGED <<checkouts, movements>>
         \/ /\ At(r, "process") /\ Process(r) /\ requests'[r].step \in {"post", "fail"}
            /\ checkouts' = [checkouts EXCEPT ![k] = "PROCESSED"]
            /\ movements[k] = 0 => movements' = [movements EXCEPT ![k] = 1]
         \/ /\ At(r, "fail") /\ requests'[r].step = "error"
            /\ checkouts' = [checkouts EXCEPT ![k] = "FAILED"]
            /\ UNCHANGED movements
         \/ /\ At(r, "void") /\ requests'[r].step = "reverse"
            /\ checkouts' = [checkouts EXCEPT ![k] = "VOIDED"]
            /\ UNCHANGED movements
         \/ /\ At(r, "post") /\ requests'[r].step = "cogs"
            /\ UNCHANGED <<checkouts, movements>>
         \/ /\ Owns(r) /\ requests'[r].step = "fail"
            /\ UNCHANGED <<checkouts, movements>>
         \/ /\ requests'[r].step \in Ended
            /\ UNCHANGED <<checkouts, movements>>
<1> USE DEF PosTypeOK
<1>1. k \in Checkouts
  BY StepEffect
<1>2. ASSUME NEW step \in Steps, Goto(r, step) PROVE requests'[r].step = step
  BY <1>2, GotoEffect
<1> USE DEF Steps, IngestSteps, VoidSteps, Ended, OwnSteps, Owns, At
<1>3. CASE InsertCheckout(r)
  BY <1>2, <1>3 DEF InsertCheckout
<1>4. CASE AssertUsable(r)
  BY <1>1, <1>2, <1>4, AssertEffect DEF AssertUsable
<1>5. CASE Process(r)
  <2>1. movements[k] \in Nat
    BY <1>1
  <2>2. movements' = [movements EXCEPT ![k] = movements[k] + 1]
    BY <1>5 DEF Process
  <2>3. ASSUME movements[k] = 0 PROVE movements' = [movements EXCEPT ![k] = 1]
    <3>1. movements[k] + 1 = 1
      BY <2>3
    <3>2. QED
      BY <2>2, <3>1
  <2>4. QED
    BY <1>2, <1>5, <2>3 DEF Process
<1>6. CASE Fail(r)
  BY <1>2, <1>6 DEF Fail
<1>7. CASE UpdateVoided(r)
  BY <1>2, <1>7 DEF UpdateVoided
<1>8. CASE Refuse(r)
  BY <1>2, <1>8 DEF Refuse
<1>9. CASE PostSale(r)
  BY <1>2, <1>9 DEF PostSale
<1>10. CASE PostCogs(r) \/ PostingFails(r) \/ ReverseSale(r) \/ ReversalFails(r) \/ Crash(r)
  BY <1>2, <1>10 DEF PostCogs, PostingFails, ReverseSale, ReversalFails, Crash
<1>11. QED
  BY <1>3, <1>4, <1>5, <1>6, <1>7, <1>8, <1>9, <1>10 DEF RequestStep

\* A row, once stored, is owned by the request that stored it alone.
LEMMA OneOwnerStep ==
  ASSUME PosTypeOK, RequestsOK, OneOwner, [PosNext]_posVars
  PROVE  OneOwner'
<1> USE DEF OneOwner, Owns
<1>1. ASSUME NEW r \in Requests, RequestStep(r) \/ Crash(r) PROVE OneOwner'
  <2> DEFINE k == requests[r].checkout
  <2>1. /\ k \in Checkouts /\ requests'[r].checkout = k
        /\ \A q \in Requests \ {r} : requests'[q] = requests[q]
    BY <1>1, StepEffect
  <2>2. \/ UNCHANGED checkouts
        \/ \E status \in CheckoutStatus \ {"NONE"} : checkouts' = [checkouts EXCEPT ![k] = status]
    BY <1>1, RowEffect DEF CheckoutStatus
  <2>3. CASE Owns(r) \/ requests'[r].step \notin OwnSteps
    <3>1. \A j \in Checkouts : checkouts[j] # "NONE" => checkouts'[j] # "NONE"
      BY <2>1, <2>2 DEF PosTypeOK
    <3>2. \A q \in Requests : /\ requests'[q].checkout = requests[q].checkout
                              /\ Owns(q)' => Owns(q)
      BY <2>1, <2>3
    <3>3. \A q \in Requests : Owns(q) => requests[q].checkout \in Checkouts
      BY DEF RequestsOK, OwnSteps
    <3>4. QED
      BY <3>1, <3>2, <3>3
  <2>4. CASE ~Owns(r) /\ requests'[r].step \in OwnSteps
    <3>1. checkouts[k] = "NONE" /\ checkouts' = [checkouts EXCEPT ![k] = "RECEIVED"]
      BY <1>1, <2>4, RowEffect DEF OwnSteps, IngestSteps, Ended, At
    <3>2. \A q \in Requests : ~(Owns(q) /\ requests[q].checkout = k)
      BY <3>1
    <3>3. QED
      BY <2>1, <3>1, <3>2 DEF PosTypeOK
  <2>5. QED
    BY <2>3, <2>4
<1>2. ASSUME NEW r \in Requests, NEW k \in Checkouts, Ingest(r, k) \/ VoidCheckout(r, k)
      PROVE  OneOwner'
  BY <1>2, FirstEffect DEF OwnSteps, IngestSteps
<1>3. CASE UNCHANGED <<checkouts, requests>>
  BY <1>3
<1>4. QED
  BY <1>1, <1>2, <1>3 DEF PosNext, SettleReceivable, posVars

\* The owner moves the goods once, and the goods of a return after those of the sale.
LEMMA GoodsStep ==
  ASSUME PosTypeOK, RequestsOK, OneOwner, GoodsOK, MovedOnce, [PosNext]_posVars
  PROVE  GoodsOK' /\ MovedOnce'
<1> USE PosAssumption DEF GoodsOK, MovedOnce
<1>1. ASSUME NEW r \in Requests, RequestStep(r) \/ Crash(r) PROVE GoodsOK' /\ MovedOnce'
  <2> DEFINE k == requests[r].checkout
  <2>1. /\ k \in Checkouts /\ requests'[r].checkout = k
        /\ \A q \in Requests \ {r} : requests'[q] = requests[q]
    BY <1>1, StepEffect
  <2>2. checkouts \in [Checkouts -> CheckoutStatus] /\ movements \in [Checkouts -> Nat]
    BY DEF PosTypeOK
  <2>3. \A q \in Requests : requests[q].step \in {"assert", "process", "post", "cogs"} => Owns(q)
    BY DEF Owns, OwnSteps, IngestSteps
  <2>4. CASE At(r, "insert") /\ requests'[r].step = "assert"
    <3>1. checkouts[k] = "NONE" /\ checkouts' = [checkouts EXCEPT ![k] = "RECEIVED"] /\ UNCHANGED movements
      BY <1>1, <2>4, RowEffect DEF At, Ended, Owns, OwnSteps
    <3>2. QED
      BY <2>1, <2>2, <2>4, <3>1 DEF At
  <2>5. CASE At(r, "process") /\ Process(r)
    <3>1. /\ movements[k] = 0 /\ requests'[r].step \in {"post", "fail"}
          /\ checkouts' = [checkouts EXCEPT ![k] = "PROCESSED"]
          /\ movements' = [movements EXCEPT ![k] = 1]
      <4>1. movements[k] = 0 /\ movements[k] + 1 = 1
        BY <2>1, <2>2, <2>5 DEF At
      <4>2. movements' = [movements EXCEPT ![k] = movements[k] + 1]
        BY <2>5 DEF Process
      <4>3. requests'[r].step \in {"post", "fail"}
        BY <2>5, GotoEffect DEF Process, Steps, IngestSteps, PosTypeOK
      <4>4. QED
        BY <2>5, <4>1, <4>2, <4>3 DEF Process
    <3>2. \A q \in Requests \ {r} : Owns(q) => requests[q].checkout # k
      BY <2>3, <2>5 DEF OneOwner, At
    <3>3. MovedOnce'
      BY <2>1, <2>2, <3>1
    <3>4. ASSUME NEW q \in Requests \ {r} PROVE LET j == requests[q].checkout IN
            /\ requests[q].step \in {"assert", "process"} => movements'[j] = 0
            /\ requests[q].step \in {"post", "cogs"} => movements'[j] = 1
            /\ At(q, "process") /\ Dto[j].type = "RETURN" => movements'[Dto[j].source] = 1
      BY <2>2, <2>3, <3>1, <3>2
    <3>5. QED
      BY <2>1, <2>2, <3>1, <3>3, <3>4 DEF At
  <2>6. CASE ~Process(r) /\ ~(At(r, "insert") /\ requests'[r].step = "assert")
    <3>1. /\ UNCHANGED movements
          /\ \/ UNCHANGED checkouts
             \/ \E status \in {"FAILED", "VOIDED"} : checkouts' = [checkouts EXCEPT ![k] = status]
      BY <1>1, <2>6, RowEffect
    <3>2. MovedOnce'
      BY <2>1, <2>2, <3>1
    <3>3. \/ At(r, "assert") /\ requests'[r].step = "process" /\ SourceSaleProcessed(Dto[k])
          \/ At(r, "post") /\ requests'[r].step = "cogs"
          \/ requests'[r].step \in {"error", "reverse", "fail", "done", "crashed"}
      BY <1>1, <2>6, RowEffect DEF Ended
    <3>4. ASSUME NEW q \in Requests \ {r} PROVE
            /\ requests'[q] = requests[q] /\ UNCHANGED movements
      BY <2>1, <3>1
    <3>5. LET j == requests'[r].checkout IN
            /\ requests'[r].step \in {"assert", "process"} => movements'[j] = 0
            /\ requests'[r].step \in {"post", "cogs"} => movements'[j] = 1
            /\ requests'[r].step = "process" /\ Dto[j].type = "RETURN" => movements'[Dto[j].source] = 1
      BY <2>1, <3>1, <3>3 DEF At, SourceSaleProcessed
    <3>6. QED
      BY <3>2, <3>4, <3>5 DEF At
  <2>7. QED
    BY <2>4, <2>5, <2>6 DEF Process
<1>2. ASSUME NEW r \in Requests, NEW k \in Checkouts, Ingest(r, k) \/ VoidCheckout(r, k)
      PROVE  GoodsOK' /\ MovedOnce'
  BY <1>2, FirstEffect DEF At
<1>3. CASE UNCHANGED <<checkouts, movements, requests>>
  BY <1>3 DEF At
<1>4. QED
  BY <1>1, <1>2, <1>3 DEF PosNext, SettleReceivable, posVars

-------------------------------------------------------------------------------
(* Carts *)

\* What saving an entity does to a cart: it writes no consumer, and where it
\* has not overwritten anything there was none.
LEMMA SavedCart ==
  ASSUME RegisterTypeOK, CartsOK, NEW w \in Clerks, RegisterStep(w)
  PROVE  \A c \in Carts :
           \/ carts'[c] = carts[c] /\ staleCart'[c] = staleCart[c]
           \/ /\ carts'[c].consumedBy = None
              /\ ~staleCart'[c] => ~staleCart[c] /\ carts[c].consumedBy = None
<1>1. CASE UNCHANGED <<carts, staleCart>>
  BY <1>1
<1>2. CASE SaveCart(w) /\ ~UNCHANGED <<carts, staleCart>>
  <2>1. editing[w] # None /\ editing[w].what = "cart" /\ editing[w].id \in Carts
    BY <1>2 DEF SaveCart, RegisterTypeOK, Edit
  <2>2. CartSaved(editing[w].id, editing[w].loaded, editing[w].entity)
    BY <1>2 DEF SaveCart
  <2>3. editing[w].loaded.consumedBy = None /\ editing[w].entity.consumedBy = None
    BY <2>1 DEF CartsOK
  <2>4. QED
    BY <2>1, <2>2, <2>3 DEF CartSaved, RegisterTypeOK
<1>3. QED
  BY <1>1, <1>2 DEF RegisterStep, OpenSession, CloseSession, SuspendCart, ResumeSuspendedCart,
                    DiscardSuspendedCart, UpdateSuspendedCart, LoadSession, LoadCart, Load, SaveSession

\* A clerk loads carts that nobody has consumed.
LEMMA LoadedCart ==
  ASSUME RegisterTypeOK, CartsOK, NEW w \in Clerks, RegisterStep(w)
  PROVE  \A v \in Clerks :
           editing'[v] # None /\ editing'[v].what = "cart" =>
             /\ editing'[v].loaded.status \in {"NONE", "SUSPENDED"}
             /\ editing'[v].loaded.consumedBy = None
             /\ editing'[v].entity.consumedBy = None
<1> USE DEF RegisterTypeOK, CartsOK
<1>1. ASSUME NEW s \in Sessions, OpenSession(w, s) \/ CloseSession(w, s)
      PROVE  \A v \in Clerks : editing'[v] = editing[v] \/ editing'[v].what = "session"
  BY <1>1 DEF OpenSession, CloseSession, LoadSession, Load
<1>2. ASSUME NEW c \in Carts,
             \/ SuspendCart(w, c) \/ ResumeSuspendedCart(w, c)
             \/ DiscardSuspendedCart(w, c) \/ UpdateSuspendedCart(w, c)
      PROVE  \A v \in Clerks : \/ editing'[v] = editing[v]
                              \/ /\ editing'[v].loaded.status \in {"NONE", "SUSPENDED"}
                                 /\ editing'[v].loaded.consumedBy = None
                                 /\ editing'[v].entity.consumedBy = None
  <2>1. PICK entity \in Cart : /\ LoadCart(w, c, entity) /\ entity.consumedBy = None
                              /\ carts[c].status \in {"NONE", "SUSPENDED"}
    <3>1. carts[c] \in Cart
      OBVIOUS
    <3>2. CASE SuspendCart(w, c)
      <4>1. PICK s \in Sessions \cup {None} :
              LoadCart(w, c, [status |-> "SUSPENDED", session |-> s, consumedBy |-> None])
        BY <3>2 DEF SuspendCart
      <4>2. [status |-> "SUSPENDED", session |-> s, consumedBy |-> None] \in Cart
        BY DEF Cart, CartStatus
      <4>3. QED
        BY <3>2, <4>1, <4>2 DEF SuspendCart
    <3>3. CASE ResumeSuspendedCart(w, c) \/ DiscardSuspendedCart(w, c) \/ UpdateSuspendedCart(w, c)
      BY <3>1, <3>3 DEF ResumeSuspendedCart, DiscardSuspendedCart, UpdateSuspendedCart, Cart, CartStatus
    <3>4. QED
      BY <1>2, <3>2, <3>3
  <2>2. editing' = [editing EXCEPT ![w] =
          [what |-> "cart", id |-> c, loaded |-> carts[c], entity |-> entity]]
    BY <2>1 DEF LoadCart, Load
  <2>3. QED
    BY <2>1, <2>2
<1>3. CASE SaveSession(w) \/ SaveCart(w)
  BY <1>3 DEF SaveSession, SaveCart
<1>4. QED
  BY <1>1, <1>2, <1>3 DEF RegisterStep

\* Carts are saved without a consumer but by the checkout that consumes them.
LEMMA CartsStep ==
  ASSUME PosTypeOK, RequestsOK, CartsOK, [PosNext]_posVars
  PROVE  CartsOK'
<1> DEFINE K(r) == requests[r].checkout
<1> USE PosAssumption DEF PosTypeOK
<1>1. ASSUME NEW w \in Clerks, RegisterStep(w), UNCHANGED requests PROVE CartsOK'
  <2>1. \A c \in Carts : carts'[c].status \in {"NONE", "SUSPENDED"} => carts'[c].consumedBy = None
    BY <1>1, SavedCart DEF CartsOK
  <2>2. QED
    BY <1>1, <2>1, LoadedCart DEF CartsOK, At
<1>2. ASSUME NEW r \in Requests, RequestStep(r) \/ Crash(r) PROVE CartsOK'
  <2>1. /\ K(r) \in Checkouts
        /\ \A q \in Requests \ {r} : requests'[q] = requests[q]
        /\ requests'[r].checkout = K(r)
    BY <1>2, StepEffect
  <2>2. UNCHANGED editing
    BY <1>2 DEF RequestStep, InsertCheckout, AssertUsable, Refuse, Process, Fail, PostSale, PostCogs,
             PostingFails, UpdateVoided, ReverseSale, ReversalFails, Crash, registerVars
  <2>3. \A c \in Carts : carts'[c].status \in {"NONE", "SUSPENDED"} => carts'[c].consumedBy = None
    <3>1. CASE Process(r) /\ requests[r].cart # None
      <4>1. requests[r].cart \in Cart
        BY <3>1 DEF Request
      <4>2. [requests[r].cart EXCEPT !.status = "RESUMED", !.consumedBy = K(r)].status = "RESUMED"
        BY <4>1 DEF Cart
      <4>3. QED
        BY <3>1, <4>2 DEF Process, ConsumeCart, CartSaved, CartsOK, RegisterTypeOK
    <3>2. CASE ~Process(r) \/ requests[r].cart = None
      <4>1. UNCHANGED carts
        BY <1>2, <3>2 DEF RequestStep, InsertCheckout, AssertUsable, Refuse, Process, Fail, PostSale,
             PostCogs, PostingFails, UpdateVoided, ReverseSale, ReversalFails, Crash, registerVars, ConsumeCart
      <4>2. QED
        BY <4>1 DEF CartsOK
    <3>3. QED
      BY <3>1, <3>2
  <2>4. requests'[r].step = "process" =>
          /\ requests'[r].cart = None <=> Dto[K(r)].cart = None
          /\ requests'[r].cart # None => requests'[r].cart.consumedBy = None
    <3>1. SUFFICES ASSUME requests'[r].step = "process"
                   PROVE  /\ requests'[r].cart = None <=> Dto[K(r)].cart = None
                          /\ requests'[r].cart # None => requests'[r].cart.consumedBy = None
      OBVIOUS
    <3>2. AssertUsable(r) /\ ~Goto(r, "fail")
      <4>1. ASSUME NEW step \in Steps \ {"process"} PROVE ~Goto(r, step)
        BY <3>1, <4>1, GotoEffect
      <4>2. QED
        BY <1>2, <4>1 DEF RequestStep, InsertCheckout, AssertUsable, Refuse, Process, Fail, PostSale,
             PostCogs, PostingFails, UpdateVoided, ReverseSale, ReversalFails, Crash,
             Steps, IngestSteps, VoidSteps, Ended
    <3>3. /\ CartAvailable(Dto[K(r)])
          /\ requests'[r].cart = IF Dto[K(r)].cart = None THEN None ELSE carts[Dto[K(r)].cart]
      BY <2>1, <3>2, AssertEffect
    <3>4. CASE Dto[K(r)].cart = None
      BY <3>3, <3>4
    <3>5. CASE Dto[K(r)].cart # None
      <4>1. Dto[K(r)].cart \in Carts
        BY <2>1, <3>5
      <4>2. carts[Dto[K(r)].cart] \in Cart /\ carts[Dto[K(r)].cart].status = "SUSPENDED"
        BY <3>3, <3>5, <4>1 DEF RegisterTypeOK, CartAvailable
      <4>3. QED
        BY <3>3, <3>5, <4>1, <4>2 DEF CartsOK
    <3>6. QED
      BY <3>4, <3>5
  <2>5. QED
    BY <2>1, <2>2, <2>3, <2>4 DEF CartsOK, At
<1>3. ASSUME NEW r \in Requests, NEW k \in Checkouts, Ingest(r, k) \/ VoidCheckout(r, k)
      PROVE  CartsOK'
  <2>1. /\ UNCHANGED <<carts, editing>>
        /\ requests'[r].step # "process"
        /\ \A q \in Requests \ {r} : requests'[q] = requests[q]
    BY <1>3, FirstEffect DEF registerVars
  <2>2. QED
    BY <2>1 DEF CartsOK, At
<1>4. CASE UNCHANGED <<carts, editing, requests>>
  BY <1>4 DEF CartsOK, At
<1>5. QED
  BY <1>1, <1>2, <1>3, <1>4 DEF PosNext, SettleReceivable, posVars, registerVars

\* A cart that was never overwritten is sold to the checkout it names.
LEMMA CartSoldStep ==
  ASSUME PosTypeOK, RequestsOK, GoodsOK, CartsOK, CartSoldOnce, [PosNext]_posVars
  PROVE  CartSoldOnce'
<1> USE PosAssumption DEF CartSoldOnce, Consumers
<1>1. ASSUME NEW w \in Clerks, RegisterStep(w), UNCHANGED movements PROVE CartSoldOnce'
  <2>1. SUFFICES ASSUME NEW c \in Carts, ~staleCart'[c]
                 PROVE  Consumers(c) = {k \in Checkouts : k = carts'[c].consumedBy}
    BY <1>1
  <2>2. ~staleCart[c] /\ carts'[c].consumedBy = carts[c].consumedBy
    BY <1>1, <2>1, SavedCart DEF PosTypeOK
  <2>3. QED
    BY <2>2
<1>2. ASSUME NEW r \in Requests, NEW k \in Checkouts, k = requests[r].checkout, Process(r) PROVE CartSoldOnce'
  <2>1. movements[k] = 0 /\ movements \in [Checkouts -> Nat] /\ At(r, "process")
    BY <1>2 DEF Process, At, GoodsOK, PosTypeOK
  <2>2. movements' = [movements EXCEPT ![k] = 1]
    <3>1. movements[k] + 1 = 1
      BY <2>1
    <3>2. movements' = [movements EXCEPT ![k] = movements[k] + 1]
      BY <1>2 DEF Process
    <3>3. QED
      BY <3>1, <3>2
  <2>3. \A c \in Carts : Dto[k].cart # c => Consumers(c)' = Consumers(c)
    BY <1>2, <2>1, <2>2
  <2>4. ASSUME Dto[k].cart \in Carts
        PROVE  Consumers(Dto[k].cart)' = Consumers(Dto[k].cart) \cup {k}
    <3>1. \A j \in Checkouts : movements'[j] > 0 <=> movements[j] > 0 \/ j = k
      BY <1>2, <2>1, <2>2
    <3>2. QED
      BY <1>2, <3>1
  <2>5. CASE requests[r].cart = None
    <3>1. Dto[k].cart = None /\ UNCHANGED <<carts, staleCart>>
      BY <1>2, <2>1, <2>5 DEF Process, ConsumeCart, CartsOK
    <3>2. QED
      BY <2>3, <3>1
  <2>6. CASE requests[r].cart # None
    <3> DEFINE c == Dto[k].cart
               loaded == requests[r].cart
               entity == [loaded EXCEPT !.status = "RESUMED", !.consumedBy = k]
    <3>1. c \in Carts /\ loaded \in Cart /\ loaded.consumedBy = None
      BY <1>2, <2>1, <2>6 DEF CartsOK, PosTypeOK, Request
    <3>2. entity.consumedBy = k
      BY <3>1 DEF Cart
    <3>3. CartSaved(c, loaded, entity)
      BY <1>2, <2>6 DEF Process, ConsumeCart
    <3>4. /\ carts'[c].consumedBy = k
          /\ ~staleCart'[c] => ~staleCart[c] /\ carts[c] = loaded
          /\ \A d \in Carts \ {c} : carts'[d] = carts[d] /\ staleCart'[d] = staleCart[d]
      BY <3>1, <3>2, <3>3 DEF CartSaved, PosTypeOK, RegisterTypeOK
    <3>5. ~staleCart'[c] => Consumers(c)' = {j \in Checkouts : j = carts'[c].consumedBy}
      <4>1. ~staleCart'[c] => Consumers(c) = {}
        BY <3>1, <3>4
      <4>2. QED
        BY <1>2, <2>4, <3>1, <3>4, <4>1
    <3>6. \A d \in Carts \ {c} : ~staleCart'[d] => Consumers(d)' = {j \in Checkouts : j = carts'[d].consumedBy}
      BY <2>3, <3>4
    <3> HIDE DEF Consumers, c
    <3>7. QED
      BY <3>5, <3>6
  <2>7. QED
    BY <2>5, <2>6
<1>3. ASSUME NEW r \in Requests, RequestStep(r) \/ Crash(r) PROVE CartSoldOnce'
  <2>1. CASE Process(r)
    BY <1>2, <1>3, <2>1, StepEffect
  <2>2. CASE ~Process(r)
    <3>1. UNCHANGED <<carts, staleCart, movements>>
      BY <1>3, <2>2 DEF RequestStep, InsertCheckout, AssertUsable, Refuse, Fail, PostSale, PostCogs,
             PostingFails, UpdateVoided, ReverseSale, ReversalFails, Crash, registerVars
    <3>2. QED
      BY <3>1
  <2>3. QED
    BY <2>1, <2>2
<1>4. CASE UNCHANGED <<carts, staleCart, movements>>
  BY <1>4
<1>5. QED
  BY <1>1, <1>3, <1>4, FirstEffect DEF PosNext, SettleReceivable, posVars, registerVars

-------------------------------------------------------------------------------
(* The journal *)

Columns == {"lines", "reverses", "reversedBy"}

\* A sale is out of the books exactly when its void has an entry.
EntriesOK ==
  /\ \A key \in PostedKeys : DOMAIN entries[key] = Columns
  /\ \A k \in Checkouts :
       /\ SaleKey(k) \in PostedKeys => entries[SaleKey(k)].reversedBy \in {NoEntry, VoidKey(k)}
       /\ VoidKey(k) \in PostedKeys <=> BooksOf(k) = "reversed"

\* Sales, their costs, their voids and settlements have keys of their own.
LEMMA KeysDiffer ==
  ASSUME NEW k \in Checkouts
  PROVE  /\ SaleKey(k) # VoidKey(k) /\ VoidKey(k) # NoEntry
         /\ \A j \in Checkouts :
              /\ SaleKey(j) = SaleKey(k) => j = k
              /\ VoidKey(j) = VoidKey(k) => j = k
              /\ SaleKey(j) # VoidKey(k) /\ SaleKey(j) # CogsKey(k) /\ VoidKey(j) # CogsKey(k)
         /\ \A id : SaleKey(k) # SettlementKey(id) /\ VoidKey(k) # SettlementKey(id)
<1>1. VoidKey(k) # NoEntry
  BY PosAssumption, JournalAssumption DEF VoidKey
<1>2. QED
  BY <1>1 DEF SaleKey, CogsKey, VoidKey, SettlementKey

\* post() adds one entry at most, and leaves the others alone.
LEMMA PostedEffect ==
  ASSUME NEW key, NEW lines, entries' = Posted(key, lines)
  PROVE  /\ PostedKeys' = PostedKeys \cup {key}
         /\ \A other \in PostedKeys : entries'[other] = entries[other]
         /\ key \notin PostedKeys =>
              /\ entries'[key].lines = lines
              /\ entries'[key].reversedBy = NoEntry
              /\ DOMAIN entries'[key] = Columns
<1>1. CASE key \in PostedKeys
  BY <1>1 DEF Posted, PostedKeys
<1>2. CASE key \notin PostedKeys
  <2> DEFINE row == [lines |-> lines, reverses |-> NoEntry, reversedBy |-> NoEntry]
  <2>1. entries' = WithEntry(key, row)
    BY <1>2 DEF Posted
  <2>2. row.lines = lines /\ row.reversedBy = NoEntry /\ DOMAIN row = Columns
    BY DEF Columns
  <2> HIDE DEF row
  <2>3. QED
    BY <1>2, <2>1, <2>2 DEF WithEntry, PostedKeys
<1>3. QED
  BY <1>1, <1>2

\* reverse() adds the reversal of an original that has none, and marks the original.
LEMMA ReversedEffect ==
  ASSUME NEW original, NEW key, original # key, entries' = Reversed(original, key),
         \A other \in PostedKeys : DOMAIN entries[other] = Columns
  PROVE  IF original \notin PostedKeys \/ key \in PostedKeys THEN UNCHANGED entries
         ELSE /\ PostedKeys' = PostedKeys \cup {key}
              /\ \A other \in PostedKeys \ {original} : entries'[other] = entries[other]
              /\ entries'[original].reversedBy = key
              /\ entries'[original].lines = entries[original].lines
              /\ entries'[key].lines = Swapped(entries[original].lines)
              /\ \A other \in PostedKeys' : DOMAIN entries'[other] = Columns
<1>1. CASE original \notin PostedKeys \/ key \in PostedKeys
  BY <1>1 DEF Reversed
<1>2. CASE original \in PostedKeys /\ key \notin PostedKeys
  <2> DEFINE swapped == Swapped(entries[original].lines)
             row == [lines |-> swapped, reverses |-> original, reversedBy |-> NoEntry]
             more == WithEntry(key, row)
  <2>1. entries' = [more EXCEPT ![original] = [@ EXCEPT !.reversedBy = key]]
    BY <1>2 DEF Reversed
  <2>2. DOMAIN row = Columns /\ row.lines = swapped
    BY DEF Columns
  <2> HIDE DEF row
  <2>3. /\ DOMAIN more = PostedKeys \cup {key}
        /\ more[key] = row
        /\ \A other \in PostedKeys : more[other] = entries[other]
    BY <1>2 DEF WithEntry
  <2> HIDE DEF more
  <2>4. /\ PostedKeys' = PostedKeys \cup {key}
        /\ \A other \in PostedKeys \ {original} : entries'[other] = entries[other]
        /\ entries'[key] = row
        /\ entries'[original] = [entries[original] EXCEPT !.reversedBy = key]
    BY <1>2, <2>1, <2>3 DEF PostedKeys
  <2>5. /\ entries'[original].reversedBy = key
        /\ entries'[original].lines = entries[original].lines
        /\ DOMAIN entries'[original] = Columns
    BY <1>2, <2>4 DEF Columns
  <2>6. QED
    BY <1>2, <2>2, <2>4, <2>5
<1>3. QED
  BY <1>1, <1>2

\* An entry of another kind changes nothing about sales.
LEMMA OtherEntry ==
  ASSUME EntriesOK, NEW key, NEW lines, entries' = Posted(key, lines),
         \A k \in Checkouts : key # SaleKey(k) /\ key # VoidKey(k)
  PROVE  EntriesOK' /\ \A k \in Checkouts : BooksOf(k)' = BooksOf(k)
<1>1. /\ PostedKeys' = PostedKeys \cup {key}
      /\ \A other \in PostedKeys : entries'[other] = entries[other]
      /\ \A other \in PostedKeys' : DOMAIN entries'[other] = Columns
  BY PostedEffect DEF EntriesOK
<1>2. \A k \in Checkouts :
        /\ SaleKey(k) \in PostedKeys' <=> SaleKey(k) \in PostedKeys
        /\ VoidKey(k) \in PostedKeys' <=> VoidKey(k) \in PostedKeys
        /\ SaleKey(k) \in PostedKeys => entries'[SaleKey(k)] = entries[SaleKey(k)]
  BY <1>1
<1>3. \A k \in Checkouts : BooksOf(k)' = BooksOf(k)
  BY <1>2 DEF BooksOf
<1>4. QED
  BY <1>1, <1>2, <1>3 DEF EntriesOK

\* A sale enters the books, unless it is in them.
LEMMA SaleEntry ==
  ASSUME EntriesOK, NEW k \in Checkouts, NEW lines, entries' = Posted(SaleKey(k), lines)
  PROVE  /\ EntriesOK'
         /\ \A j \in Checkouts \ {k} : BooksOf(j)' = BooksOf(j)
         /\ \/ BooksOf(k) = "none" /\ BooksOf(k)' = "booked"
            \/ BooksOf(k)' = BooksOf(k)
<1>1. /\ PostedKeys' = PostedKeys \cup {SaleKey(k)}
      /\ \A other \in PostedKeys : entries'[other] = entries[other]
      /\ \A other \in PostedKeys' : DOMAIN entries'[other] = Columns
      /\ SaleKey(k) \notin PostedKeys => entries'[SaleKey(k)].reversedBy = NoEntry
  BY PostedEffect DEF EntriesOK
<1>2. \A j \in Checkouts :
        /\ VoidKey(j) \in PostedKeys' <=> VoidKey(j) \in PostedKeys
        /\ SaleKey(j) \in PostedKeys => entries'[SaleKey(j)] = entries[SaleKey(j)]
        /\ j # k => (SaleKey(j) \in PostedKeys' <=> SaleKey(j) \in PostedKeys)
  BY <1>1, KeysDiffer
<1>3. \A j \in Checkouts \ {k} : BooksOf(j)' = BooksOf(j)
  BY <1>2 DEF BooksOf
<1>4. CASE SaleKey(k) \in PostedKeys
  <2>1. SaleKey(k) \in PostedKeys' /\ BooksOf(k)' = BooksOf(k)
    BY <1>1, <1>2, <1>4 DEF BooksOf
  <2>2. QED
    BY <1>1, <1>2, <1>3, <1>4, <2>1 DEF EntriesOK
<1>5. CASE SaleKey(k) \notin PostedKeys
  <2>1. SaleKey(k) \in PostedKeys' /\ BooksOf(k) = "none" /\ BooksOf(k)' = "booked"
    BY <1>1, <1>5 DEF BooksOf
  <2>2. QED
    BY <1>1, <1>2, <1>3, <1>5, <2>1 DEF EntriesOK
<1>6. QED
  BY <1>4, <1>5

\* A sale leaves the books when its void is reversed, and is not in them afterwards.
LEMMA VoidEntry ==
  ASSUME EntriesOK, NEW k \in Checkouts, entries' = Reversed(SaleKey(k), VoidKey(k))
  PROVE  /\ EntriesOK'
         /\ \A j \in Checkouts \ {k} : BooksOf(j)' = BooksOf(j)
         /\ \/ BooksOf(k) = "booked" /\ BooksOf(k)' = "reversed"
            \/ BooksOf(k)' = BooksOf(k) /\ BooksOf(k) # "booked"
<1>1. CASE SaleKey(k) \notin PostedKeys \/ VoidKey(k) \in PostedKeys
  <2>1. UNCHANGED entries
    BY <1>1 DEF Reversed
  <2>2. EntriesOK' /\ \A j \in Checkouts : BooksOf(j)' = BooksOf(j)
    BY <2>1 DEF EntriesOK, PostedKeys, BooksOf
  <2>3. BooksOf(k) # "booked"
    BY <1>1 DEF EntriesOK, BooksOf
  <2>4. QED
    BY <2>2, <2>3
<1>2. CASE SaleKey(k) \in PostedKeys /\ VoidKey(k) \notin PostedKeys
  <2>1. /\ PostedKeys' = PostedKeys \cup {VoidKey(k)}
        /\ \A other \in PostedKeys \ {SaleKey(k)} : entries'[other] = entries[other]
        /\ entries'[SaleKey(k)].reversedBy = VoidKey(k)
        /\ \A other \in PostedKeys' : DOMAIN entries'[other] = Columns
    BY <1>2, KeysDiffer, ReversedEffect DEF EntriesOK
  <2>2. \A j \in Checkouts \ {k} :
          /\ VoidKey(j) \in PostedKeys' <=> VoidKey(j) \in PostedKeys
          /\ SaleKey(j) \in PostedKeys' <=> SaleKey(j) \in PostedKeys
          /\ SaleKey(j) \in PostedKeys => entries'[SaleKey(j)] = entries[SaleKey(j)]
    BY <2>1, KeysDiffer
  <2>3. \A j \in Checkouts \ {k} : BooksOf(j)' = BooksOf(j)
    BY <2>2 DEF BooksOf
  <2>4. BooksOf(k) = "booked"
    BY <1>2 DEF EntriesOK, BooksOf
  <2>5. BooksOf(k)' = "reversed" /\ SaleKey(k) \in PostedKeys' /\ VoidKey(k) \in PostedKeys'
    BY <1>2, <2>1, KeysDiffer DEF BooksOf
  <2>6. QED
    BY <2>1, <2>2, <2>3, <2>4, <2>5 DEF EntriesOK
<1>3. QED
  BY <1>1, <1>2

\* What a step may do to the books: those of one checkout change at most, and
\* only when a request posts it or reverses it.
LEMMA BooksEffect ==
  ASSUME PosTypeOK, RequestsOK, EntriesOK, [PosNext]_posVars
  PROVE  /\ EntriesOK'
         /\ \/ \A j \in Checkouts : BooksOf(j)' = BooksOf(j)
            \/ \E r \in Requests, k \in Checkouts :
                 /\ k = requests[r].checkout
                 /\ \A j \in Checkouts \ {k} : BooksOf(j)' = BooksOf(j)
                 /\ \/ /\ At(r, "post") /\ PostSale(r)
                       /\ BooksOf(k) = "none" /\ BooksOf(k)' = "booked"
                    \/ /\ At(r, "reverse") /\ ReverseSale(r)
                       /\ BooksOf(k) = "booked" /\ BooksOf(k)' = "reversed"
<1>1. CASE UNCHANGED entries
  BY <1>1 DEF EntriesOK, PostedKeys, BooksOf
<1>2. ASSUME NEW r \in Requests, RequestStep(r) PROVE requests[r].checkout \in Checkouts
  BY <1>2, StepEffect
<1>3. ASSUME NEW r \in Requests, PostSale(r), ~UNCHANGED entries,
             NEW k \in Checkouts, k = requests[r].checkout
      PROVE  /\ EntriesOK'
             /\ \A j \in Checkouts \ {k} : BooksOf(j)' = BooksOf(j)
             /\ \/ At(r, "post") /\ BooksOf(k) = "none" /\ BooksOf(k)' = "booked"
                \/ BooksOf(k)' = BooksOf(k)
  <2>1. At(r, "post") /\ entries' = Posted(SaleKey(k), SaleLines(Dto[k]))
    BY <1>3 DEF PostSale
  <2>2. QED
    BY <2>1, SaleEntry
<1>4. ASSUME NEW r \in Requests, PostCogs(r), ~UNCHANGED entries,
             NEW k \in Checkouts, k = requests[r].checkout
      PROVE  EntriesOK' /\ \A j \in Checkouts : BooksOf(j)' = BooksOf(j)
  <2>1. PICK cost \in Costs : entries' = Posted(CogsKey(k), CogsLines(Dto[k], cost))
    BY <1>4 DEF PostCogs
  <2>2. \A j \in Checkouts : CogsKey(k) # SaleKey(j) /\ CogsKey(k) # VoidKey(j)
    BY KeysDiffer
  <2>3. QED
    BY <2>1, <2>2, OtherEntry
<1>5. ASSUME NEW r \in Requests, ReverseSale(r), NEW k \in Checkouts, k = requests[r].checkout
      PROVE  /\ EntriesOK'
             /\ \A j \in Checkouts \ {k} : BooksOf(j)' = BooksOf(j)
             /\ \/ At(r, "reverse") /\ BooksOf(k) = "booked" /\ BooksOf(k)' = "reversed"
                \/ BooksOf(k)' = BooksOf(k)
  <2>1. At(r, "reverse") /\ entries' = Reversed(SaleKey(k), VoidKey(k))
    BY <1>5 DEF ReverseSale
  <2>2. QED
    BY <2>1, VoidEntry
<1>6. ASSUME NEW id, SettleReceivable(id)
      PROVE  EntriesOK' /\ \A j \in Checkouts : BooksOf(j)' = BooksOf(j)
  <2>1. PICK lines : entries' = Posted(SettlementKey(id), lines)
    BY <1>6 DEF SettleReceivable
  <2>2. \A j \in Checkouts : SettlementKey(id) # SaleKey(j) /\ SettlementKey(id) # VoidKey(j)
    BY KeysDiffer
  <2>3. QED
    BY <2>1, <2>2, OtherEntry
<1>7. \/ UNCHANGED entries
      \/ \E r \in Requests : RequestStep(r) /\ (PostSale(r) \/ PostCogs(r) \/ ReverseSale(r))
      \/ \E id \in DOMAIN Settlements : SettleReceivable(id)
  BY FirstEffect DEF PosNext, posVars, RequestStep, InsertCheckout, AssertUsable, Refuse, Process, Fail,
       PostingFails, UpdateVoided, ReversalFails, Crash
<1>8. QED
  <2>1. CASE UNCHANGED entries
    BY <1>1, <2>1
  <2>2. CASE \E id \in DOMAIN Settlements : SettleReceivable(id)
    BY <1>6, <2>2
  <2>3. ASSUME NEW r \in Requests, RequestStep(r), ~UNCHANGED entries,
               NEW k \in Checkouts, k = requests[r].checkout,
               PostSale(r) \/ PostCogs(r) \/ ReverseSale(r)
        PROVE  /\ EntriesOK'
               /\ \/ \A j \in Checkouts : BooksOf(j)' = BooksOf(j)
                  \/ /\ \A j \in Checkouts \ {k} : BooksOf(j)' = BooksOf(j)
                     /\ \/ /\ At(r, "post") /\ PostSale(r)
                           /\ BooksOf(k) = "none" /\ BooksOf(k)' = "booked"
                        \/ /\ At(r, "reverse") /\ ReverseSale(r)
                           /\ BooksOf(k) = "booked" /\ BooksOf(k)' = "reversed"
    <3>1. CASE PostSale(r)
      BY <1>3, <2>3, <3>1
    <3>2. CASE PostCogs(r)
      BY <1>4, <2>3, <3>2
    <3>3. CASE ReverseSale(r)
      BY <1>5, <2>3, <3>3
    <3>4. QED
      BY <2>3, <3>1, <3>2, <3>3
  <2>4. QED
    BY <1>2, <1>7, <2>1, <2>2, <2>3

-------------------------------------------------------------------------------
(* What the accounts say *)

\* The amount of a tender is a natural number.
LEMMA AmountsOf == ASSUME NEW tenders \in Tenders PROVE \A n \in DOMAIN tenders : tenders[n].amount \in Nat
<1> DEFINE Tender == [method : STRING, amount : Nat]
<1>1. \A t \in Tender : t.amount \in Nat
  OBVIOUS
<1>2. tenders \in Seq(Tender)
  BY DEF Tenders
<1> HIDE DEF Tender
<1>3. DOMAIN tenders = 1..Len(tenders)
  BY <1>2
<1>4. \A n \in 1..Len(tenders) : tenders[n] \in Tender
  BY <1>2, ElementOfSeq
<1>5. QED
  BY <1>1, <1>3, <1>4

\* So is the sum of those in cash, and of all.
LEMMA TendersType ==
  ASSUME NEW tenders \in Tenders, NEW S \in SUBSET (DOMAIN tenders)
  PROVE  SumOver(S, LAMBDA n : tenders[n].amount) \in Nat
<1> DEFINE amount == [n \in S |-> tenders[n].amount]
<1>1. IsFiniteSet(S)
  BY FS_Interval, FS_Subset DEF Tenders
<1>2. \A n \in S : amount[n] \in Nat
  BY AmountsOf
<1> HIDE DEF amount
<1>3. SumFunctionOnSet(amount, S) \in Nat
  BY <1>1, <1>2, SumNat
<1>4. QED
  BY <1>3 DEF SumOver, amount

\* Half a cent rounded up never makes a share of more than the whole.
LEMMA SharesStayWithin ==
  ASSUME NEW cash \in Nat, NEW whole \in Nat \ {0}, cash <= whole, NEW settled \in Nat
  PROVE  RoundedShare(cash, settled, whole) \in 0..settled
<1> DEFINE dividend == 2 * cash * settled + whole
           divisor == 2 * whole
           share == dividend \div divisor
<1>1. cash * settled \in Nat /\ whole * settled \in Nat /\ cash * settled <= whole * settled
  OBVIOUS
<1>2. /\ dividend \in Nat /\ divisor \in Nat \ {0}
      /\ dividend <= 2 * (whole * settled) + whole
      /\ 2 * (whole * settled) + whole < divisor * (settled + 1)
  BY <1>1
<1>3. share \in Nat /\ divisor * share <= dividend
  <2> HIDE DEF dividend, divisor
  <2>1. QED
    BY <1>2
<1>4. share <= settled
  <2> HIDE DEF dividend, divisor, share
  <2>1. SUFFICES ASSUME share >= settled + 1 PROVE FALSE
    BY <1>3
  <2>2. divisor * share >= divisor * (settled + 1)
    BY <1>2, <1>3, <2>1
  <2>3. /\ divisor * share \in Int /\ divisor * (settled + 1) \in Int
        /\ whole * settled \in Nat
    BY <1>1, <1>2, <1>3
  <2>4. QED
    BY <1>2, <1>3, <2>2, <2>3
<1>5. RoundedShare(cash, settled, whole) = share
  BY DEF RoundedShare
<1>6. QED
  BY <1>3, <1>4, <1>5

\* However tenders are split, the parts are not negative and add up to what was
\* settled, so that the lines posted for them are debits.
LEMMA SplitAddsUp ==
  ASSUME NEW tenders \in Tenders, NEW settled \in Nat
  PROVE  LET split == SplitTenders(tenders, settled)
         IN  /\ split.cash \in Nat /\ split.clearing \in Nat
             /\ split.cash + split.clearing = settled
<1> DEFINE InCash == {n \in DOMAIN tenders : tenders[n].method = "CASH"}
           Others == DOMAIN tenders \ InCash
           cash  == SumOver(InCash, LAMBDA n : tenders[n].amount)
           rest  == SumOver(Others, LAMBDA n : tenders[n].amount)
           whole == SumOver(DOMAIN tenders, LAMBDA n : tenders[n].amount)
           share == IF whole = 0 THEN settled ELSE RoundedShare(cash, settled, whole)
<1>1. cash \in Nat /\ rest \in Nat /\ whole \in Nat
  BY TendersType
<1>2. SplitTenders(tenders, settled) = [cash |-> share, clearing |-> settled - share]
  BY DEF SplitTenders
<1>3. whole = cash + rest
  <2> DEFINE amount == [n \in DOMAIN tenders |-> tenders[n].amount]
  <2>1. IsFiniteSet(InCash) /\ IsFiniteSet(Others)
    <3>1. IsFiniteSet(DOMAIN tenders)
      BY FS_Interval DEF Tenders
    <3>2. QED
      BY <3>1, FS_Subset
  <2>2. \A n \in DOMAIN tenders : amount[n] \in Int
    BY AmountsOf
  <2>3. InCash \cup Others = DOMAIN tenders /\ InCash \cap Others = {}
    OBVIOUS
  <2>4. /\ \A n \in InCash : [m \in InCash |-> tenders[m].amount][n] = amount[n]
        /\ \A n \in Others : [m \in Others |-> tenders[m].amount][n] = amount[n]
    OBVIOUS
  <2> HIDE DEF InCash, Others
  <2>5. /\ cash = SumFunctionOnSet(amount, InCash) /\ rest = SumFunctionOnSet(amount, Others)
        /\ whole = SumFunctionOnSet(amount, DOMAIN tenders)
    BY <2>1, <2>4, SumSame DEF SumOver
  <2> HIDE DEF amount, cash, rest, whole
  <2>6. SumFunctionOnSet(amount, InCash \cup Others)
          = SumFunctionOnSet(amount, InCash) + SumFunctionOnSet(amount, Others)
    BY <2>1, <2>2, <2>3, SumUnion
  <2>7. QED
    BY <2>3, <2>5, <2>6
<1> HIDE DEF cash, rest, whole
<1>4. share \in 0..settled
  <2>1. cash <= whole
    BY <1>1, <1>3
  <2>2. CASE whole = 0
    BY <2>2
  <2>3. CASE whole # 0
    BY <1>1, <2>1, <2>3, SharesStayWithin
  <2>4. QED
    BY <2>2, <2>3
<1> HIDE DEF share
<1>5. QED
  BY <1>2, <1>4

Codes == {"CASH", "TENDER_CLEARING", "ACCOUNTS_RECEIVABLE", "SERVICE_REVENUE", "TAX_PAYABLE"}

\* What a checkout adds to the money received, the money owed, the revenue and
\* the tax; a return takes it away.
Signed(k, amount) == IF Dto[k].type = "SALE" THEN amount ELSE -amount
RetainedOf == [k \in Checkouts |-> Signed(k, Retained(Dto[k]))]
OwedOf     == [k \in Checkouts |-> Signed(k, Owed(Dto[k]))]
RevenueOf  == [k \in Checkouts |-> Signed(k, Revenue(Dto[k]))]
TaxOf      == [k \in Checkouts |-> Signed(k, Dto[k].tax)]

\* The amounts of a checkout are natural numbers.
LEMMA AmountsType ==
  ASSUME NEW k \in Checkouts
  PROVE  /\ Retained(Dto[k]) \in Nat /\ Owed(Dto[k]) \in Nat /\ Revenue(Dto[k]) \in Nat
         /\ Dto[k].tax \in Nat
         /\ RetainedOf[k] \in Int /\ OwedOf[k] \in Int /\ RevenueOf[k] \in Int /\ TaxOf[k] \in Int
<1>1. /\ Dto[k].total \in Nat /\ Dto[k].tax \in Nat /\ Dto[k].paid \in Nat /\ Dto[k].change \in Nat
  BY AmountsAssumption
<1>2. Retained(Dto[k]) \in Nat /\ Revenue(Dto[k]) \in Nat
  BY <1>1 DEF Retained, Revenue, Max0
<1>3. Owed(Dto[k]) \in Nat
  BY <1>1, <1>2 DEF Owed, Max0
<1> HIDE DEF Retained, Owed, Revenue
<1>4. QED
  BY <1>1, <1>2, <1>3 DEF RetainedOf, OwedOf, RevenueOf, TaxOf, Signed

\* What the entry of a checkout adds to the accounts.
LEMMA SaleLinesAre ==
  ASSUME NEW k \in Checkouts
  PROVE  LET lines == SaleLines(Dto[k])
         IN  /\ lines \in Lines
             /\ lines["CASH"] + lines["TENDER_CLEARING"] = RetainedOf[k]
             /\ lines["ACCOUNTS_RECEIVABLE"] = OwedOf[k]
             /\ lines["SERVICE_REVENUE"] = -RevenueOf[k]
             /\ lines["TAX_PAYABLE"] = -TaxOf[k]
             /\ \A account \in Accounts \ Codes : lines[account] = 0
<1> DEFINE dto == Dto[k]
           split == SplitTenders(dto.tenders, Retained(dto))
           owed == Owed(dto)
           revenue == Revenue(dto)
           retained == Retained(dto)
           tax == dto.tax
           tenders == TenderLines(split)
           sale == [tenders EXCEPT !["ACCOUNTS_RECEIVABLE"] = owed,
                                   !["SERVICE_REVENUE"]     = -revenue,
                                   !["TAX_PAYABLE"]         = -tax]
<1>1. retained \in Nat /\ owed \in Nat /\ revenue \in Nat /\ tax \in Nat
  BY AmountsType
<1>2. split.cash \in Int /\ split.clearing \in Int /\ split.cash + split.clearing = retained
  BY <1>1, SplitAddsUp, AmountsAssumption
<1>3. SaleLines(dto) = IF dto.type = "SALE" THEN sale ELSE Swapped(sale)
  BY DEF SaleLines
<1>4. Codes \subseteq Accounts
  BY AmountsAssumption DEF Codes
<1> HIDE DEF split, owed, revenue, retained, tax
<1>5. /\ tenders \in Lines
      /\ tenders["CASH"] = split.cash /\ tenders["TENDER_CLEARING"] = split.clearing
      /\ \A account \in Accounts \ {"CASH", "TENDER_CLEARING"} : tenders[account] = 0
  BY <1>2, <1>4 DEF TenderLines, Lines, Codes
<1> HIDE DEF tenders
<1>6. /\ sale \in Lines
      /\ sale["CASH"] + sale["TENDER_CLEARING"] = retained
      /\ sale["ACCOUNTS_RECEIVABLE"] = owed
      /\ sale["SERVICE_REVENUE"] = -revenue /\ sale["TAX_PAYABLE"] = -tax
      /\ \A account \in Accounts \ Codes : sale[account] = 0
  BY <1>1, <1>2, <1>4, <1>5 DEF Lines, Codes
<1>7. /\ RetainedOf[k] = Signed(k, retained) /\ OwedOf[k] = Signed(k, owed)
      /\ RevenueOf[k] = Signed(k, revenue) /\ TaxOf[k] = Signed(k, tax)
  BY DEF RetainedOf, OwedOf, RevenueOf, TaxOf, retained, owed, revenue, tax
<1> HIDE DEF sale
<1>8. CASE dto.type = "SALE"
  BY <1>3, <1>6, <1>7, <1>8 DEF Signed
<1>9. CASE dto.type # "SALE"
  <2>1. /\ Swapped(sale) \in Lines
        /\ \A account \in Accounts : Swapped(sale)[account] = -sale[account]
    BY <1>6 DEF Swapped, Lines
  <2>2. \A account \in Accounts : sale[account] \in Int
    BY <1>6 DEF Lines
  <2>3. QED
    BY <1>1, <1>3, <1>4, <1>6, <1>7, <1>9, <2>1, <2>2 DEF Signed, Codes
<1>10. QED
  BY <1>8, <1>9

\* The entry of a cost touches none of these accounts.
LEMMA CogsLinesAre ==
  ASSUME NEW k \in Checkouts, NEW cost \in Costs
  PROVE  LET lines == CogsLines(Dto[k], cost)
         IN  lines \in Lines /\ \A account \in Codes : lines[account] = 0
<1> DEFINE sale == [account \in Accounts |-> CASE account = "COGS"      -> cost
                                              [] account = "INVENTORY" -> -cost
                                              [] OTHER -> 0]
<1>1. cost \in Int /\ Codes \subseteq Accounts
  BY AmountsAssumption DEF Codes
<1>2. sale \in Lines /\ \A account \in Codes : sale[account] = 0
  BY <1>1 DEF Lines, Codes
<1>3. CogsLines(Dto[k], cost) = IF Dto[k].type = "SALE" THEN sale ELSE Swapped(sale)
  BY DEF CogsLines
<1> HIDE DEF sale
<1>4. Swapped(sale) \in Lines /\ \A account \in Codes : Swapped(sale)[account] = 0
  BY <1>1, <1>2 DEF Swapped, Lines
<1>5. QED
  BY <1>2, <1>3, <1>4

\* The entry of a settlement: money received, and that much less owed.
LEMMA SettlementLinesAre ==
  ASSUME NEW id \in DOMAIN Settlements
  PROVE  LET lines == SettlementLines(Settlements[id])
         IN  /\ Settlements[id].amount \in Nat
             /\ lines \in Lines
             /\ lines["CASH"] + lines["TENDER_CLEARING"] = Settlements[id].amount
             /\ lines["ACCOUNTS_RECEIVABLE"] = -Settlements[id].amount
             /\ lines["SERVICE_REVENUE"] = 0 /\ lines["TAX_PAYABLE"] = 0
<1> DEFINE amount == Settlements[id].amount
           split == SplitTenders(Settlements[id].tenders, amount)
           tenders == TenderLines(split)
<1>1. amount \in Nat
  BY AmountsAssumption
<1>2. split.cash \in Int /\ split.clearing \in Int /\ split.cash + split.clearing = amount
  <2>1. Settlements[id].tenders \in Tenders
    BY AmountsAssumption
  <2>2. split.cash \in Nat /\ split.clearing \in Nat /\ split.cash + split.clearing = amount
    BY <1>1, <2>1, SplitAddsUp
  <2>3. QED
    BY <2>2
<1>3. SettlementLines(Settlements[id]) = [tenders EXCEPT !["ACCOUNTS_RECEIVABLE"] = -amount]
  BY DEF SettlementLines
<1>4. Codes \subseteq Accounts
  BY AmountsAssumption DEF Codes
<1> HIDE DEF split, amount
<1>5. /\ tenders \in Lines
      /\ tenders["CASH"] = split.cash /\ tenders["TENDER_CLEARING"] = split.clearing
      /\ \A account \in Accounts \ {"CASH", "TENDER_CLEARING"} : tenders[account] = 0
  BY <1>2, <1>4 DEF TenderLines, Lines, Codes
<1> HIDE DEF tenders
<1> DEFINE lines == SettlementLines(Settlements[id])
<1>6. /\ lines \in Lines
      /\ lines["CASH"] + lines["TENDER_CLEARING"] = amount
      /\ lines["ACCOUNTS_RECEIVABLE"] = -amount
      /\ lines["SERVICE_REVENUE"] = 0 /\ lines["TAX_PAYABLE"] = 0
  BY <1>1, <1>2, <1>3, <1>4, <1>5 DEF Lines, Codes
<1>7. QED
  BY <1>1, <1>6 DEF amount

\* The lines of the entries, and which of them a checkout has.
JournalOK ==
  /\ IsFiniteSet(PostedKeys)
  /\ \A key \in PostedKeys : entries[key].lines \in Lines
  /\ \A k \in Checkouts :
       SaleKey(k) \in PostedKeys => entries[SaleKey(k)].lines = SaleLines(Dto[k])

\* One more entry changes a balance by its amount.
LEMMA BalanceGrows ==
  ASSUME JournalOK, NEW key, key \notin PostedKeys, PostedKeys' = PostedKeys \cup {key},
         \A other \in PostedKeys : entries'[other].lines = entries[other].lines,
         entries'[key].lines \in Lines, NEW account \in Accounts
  PROVE  /\ Balance(account) \in Int
         /\ Balance(account)' = Balance(account) + entries'[key].lines[account]
<1> DEFINE F == [other \in PostedKeys |-> entries[other].lines[account]]
           G == [other \in PostedKeys' |-> entries'[other].lines[account]]
<1>1. /\ IsFiniteSet(PostedKeys)
      /\ \A other \in PostedKeys : F[other] \in Int
  BY DEF JournalOK, Lines
<1>2. /\ \A other \in PostedKeys : G[other] = F[other]
      /\ G[key] = entries'[key].lines[account] /\ G[key] \in Int
  BY DEF Lines
<1>3. Balance(account) = SumFunctionOnSet(F, PostedKeys)
  BY DEF Balance, SumOver
<1>4. Balance(account)' = SumFunctionOnSet(G, PostedKeys')
  BY DEF Balance, SumOver
<1> HIDE DEF F, G
<1>5. SumFunctionOnSet(G, PostedKeys \cup {key}) = G[key] + SumFunctionOnSet(G, PostedKeys)
  BY <1>1, <1>2, SumAdd
<1>6. SumFunctionOnSet(G, PostedKeys) = SumFunctionOnSet(F, PostedKeys)
  BY <1>1, <1>2, SumSame
<1>7. SumFunctionOnSet(F, PostedKeys) \in Int
  BY <1>1, SumType
<1>8. QED
  BY <1>2, <1>3, <1>4, <1>5, <1>6, <1>7

\* No entry changes an amount: no balance changes.
LEMMA BalanceStays ==
  ASSUME UNCHANGED entries, NEW account PROVE Balance(account)' = Balance(account)
BY DEF Balance, PostedKeys, SumOver

\* The sums over checkouts, with their amounts as functions.
LEMMA OfCheckoutsAre ==
  ASSUME NEW S \in SUBSET Checkouts, IsFiniteSet(S)
  PROVE  /\ SumOver(S, LAMBDA k : IF Dto[k].type = "SALE" THEN Retained(Dto[k]) ELSE -Retained(Dto[k]))
              = SumFunctionOnSet(RetainedOf, S)
         /\ SumOver(S, LAMBDA k : IF Dto[k].type = "SALE" THEN Owed(Dto[k]) ELSE -Owed(Dto[k]))
              = SumFunctionOnSet(OwedOf, S)
         /\ SumOver(S, LAMBDA k : IF Dto[k].type = "SALE" THEN Revenue(Dto[k]) ELSE -Revenue(Dto[k]))
              = SumFunctionOnSet(RevenueOf, S)
         /\ SumOver(S, LAMBDA k : IF Dto[k].type = "SALE" THEN Dto[k].tax ELSE -Dto[k].tax)
              = SumFunctionOnSet(TaxOf, S)
<1>1. SumFunctionOnSet([k \in S |-> IF Dto[k].type = "SALE" THEN Retained(Dto[k]) ELSE -Retained(Dto[k])], S)
        = SumFunctionOnSet(RetainedOf, S)
  <2> DEFINE F == [k \in S |-> IF Dto[k].type = "SALE" THEN Retained(Dto[k]) ELSE -Retained(Dto[k])]
  <2>1. \A k \in S : F[k] = RetainedOf[k]
    BY DEF RetainedOf, Signed
  <2> HIDE DEF F
  <2>2. SumFunctionOnSet(F, S) = SumFunctionOnSet(RetainedOf, S)
    BY <2>1, SumSame
  <2>3. QED
    BY <2>2 DEF F
<1>2. SumFunctionOnSet([k \in S |-> IF Dto[k].type = "SALE" THEN Owed(Dto[k]) ELSE -Owed(Dto[k])], S)
        = SumFunctionOnSet(OwedOf, S)
  <2> DEFINE F == [k \in S |-> IF Dto[k].type = "SALE" THEN Owed(Dto[k]) ELSE -Owed(Dto[k])]
  <2>1. \A k \in S : F[k] = OwedOf[k]
    BY DEF OwedOf, Signed
  <2> HIDE DEF F
  <2>2. SumFunctionOnSet(F, S) = SumFunctionOnSet(OwedOf, S)
    BY <2>1, SumSame
  <2>3. QED
    BY <2>2 DEF F
<1>3. SumFunctionOnSet([k \in S |-> IF Dto[k].type = "SALE" THEN Revenue(Dto[k]) ELSE -Revenue(Dto[k])], S)
        = SumFunctionOnSet(RevenueOf, S)
  <2> DEFINE F == [k \in S |-> IF Dto[k].type = "SALE" THEN Revenue(Dto[k]) ELSE -Revenue(Dto[k])]
  <2>1. \A k \in S : F[k] = RevenueOf[k]
    BY DEF RevenueOf, Signed
  <2> HIDE DEF F
  <2>2. SumFunctionOnSet(F, S) = SumFunctionOnSet(RevenueOf, S)
    BY <2>1, SumSame
  <2>3. QED
    BY <2>2 DEF F
<1>4. SumFunctionOnSet([k \in S |-> IF Dto[k].type = "SALE" THEN Dto[k].tax ELSE -Dto[k].tax], S)
        = SumFunctionOnSet(TaxOf, S)
  <2> DEFINE F == [k \in S |-> IF Dto[k].type = "SALE" THEN Dto[k].tax ELSE -Dto[k].tax]
  <2>1. \A k \in S : F[k] = TaxOf[k]
    BY DEF TaxOf, Signed
  <2> HIDE DEF F
  <2>2. SumFunctionOnSet(F, S) = SumFunctionOnSet(TaxOf, S)
    BY <2>1, SumSame
  <2>3. QED
    BY <2>2 DEF F
<1>5. QED
  BY <1>1, <1>2, <1>3, <1>4 DEF SumOver

\* The checkouts in force and the settlements, with their amounts as functions.
AmountOf == [id \in DOMAIN Settlements |-> Settlements[id].amount]
SettledIds == {id \in DOMAIN Settlements : SettlementKey(id) \in PostedKeys}

BooksFinite == IsFiniteSet(Booked) /\ IsFiniteSet(SettledIds)

AccountsAddUp ==
  /\ Balance("CASH") + Balance("TENDER_CLEARING")
       = SumFunctionOnSet(RetainedOf, Booked) + SumFunctionOnSet(AmountOf, SettledIds)
  /\ Balance("ACCOUNTS_RECEIVABLE")
       = SumFunctionOnSet(OwedOf, Booked) - SumFunctionOnSet(AmountOf, SettledIds)
  /\ Balance("SERVICE_REVENUE") = -SumFunctionOnSet(RevenueOf, Booked)
  /\ Balance("TAX_PAYABLE") = -SumFunctionOnSet(TaxOf, Booked)

\* The sum of settlements, with their amounts as a function.
LEMMA SettledIs ==
  ASSUME NEW S \in SUBSET (DOMAIN Settlements), IsFiniteSet(S)
  PROVE  SumOver(S, LAMBDA id : Settlements[id].amount) = SumFunctionOnSet(AmountOf, S)
<1> DEFINE F == [id \in S |-> Settlements[id].amount]
<1>1. \A id \in S : F[id] = AmountOf[id]
  BY DEF AmountOf
<1> HIDE DEF F
<1>2. SumFunctionOnSet(F, S) = SumFunctionOnSet(AmountOf, S)
  BY <1>1, SumSame
<1>3. QED
  BY <1>2 DEF F, SumOver

\* AccountsAgree is a statement about these sums.
LEMMA AccountsMean == ASSUME BooksFinite PROVE AccountsAgree <=> AccountsAddUp
<1>1. /\ OfCheckouts(Retained) = SumFunctionOnSet(RetainedOf, Booked)
      /\ OfCheckouts(Owed) = SumFunctionOnSet(OwedOf, Booked)
      /\ OfCheckouts(Revenue) = SumFunctionOnSet(RevenueOf, Booked)
      /\ OfCheckouts(LAMBDA dto : dto.tax) = SumFunctionOnSet(TaxOf, Booked)
  <2>1. Booked \in SUBSET Checkouts /\ IsFiniteSet(Booked)
    BY DEF BooksFinite, Booked
  <2> HIDE DEF Booked
  <2>2. QED
    BY <2>1, OfCheckoutsAre DEF OfCheckouts
<1>2. Settled = SumFunctionOnSet(AmountOf, SettledIds)
  BY SettledIs DEF Settled, SettledIds, BooksFinite
<1>3. QED
  BY <1>1, <1>2 DEF AccountsAgree, AccountsAddUp

\* A checkout is in force when its books say so.
LEMMA BookedAre == Booked = {k \in Checkouts : BooksOf(k) = "booked"}
BY DEF Booked, BooksOf

\* Lines that say what a step adds to what was received from checkouts, what they
\* owe, their revenue and tax, and what was settled.
Says(lines, retained, owed, revenue, tax, amount) ==
  /\ retained \in Int /\ owed \in Int /\ revenue \in Int /\ tax \in Int /\ amount \in Int
  /\ lines["CASH"] + lines["TENDER_CLEARING"] = retained + amount
  /\ lines["ACCOUNTS_RECEIVABLE"] + amount = owed
  /\ lines["SERVICE_REVENUE"] + revenue = 0
  /\ lines["TAX_PAYABLE"] + tax = 0

\* The step that does it.
Adds(retained, owed, revenue, tax, amount) ==
  /\ SumFunctionOnSet(RetainedOf, Booked)' = SumFunctionOnSet(RetainedOf, Booked) + retained
  /\ SumFunctionOnSet(OwedOf, Booked)' = SumFunctionOnSet(OwedOf, Booked) + owed
  /\ SumFunctionOnSet(RevenueOf, Booked)' = SumFunctionOnSet(RevenueOf, Booked) + revenue
  /\ SumFunctionOnSet(TaxOf, Booked)' = SumFunctionOnSet(TaxOf, Booked) + tax
  /\ SumFunctionOnSet(AmountOf, SettledIds)' = SumFunctionOnSet(AmountOf, SettledIds) + amount

\* The lines are added to the accounts.
BalancesMove(lines) ==
  \A account \in Codes :
    /\ lines[account] \in Int /\ Balance(account) \in Int
    /\ Balance(account)' = Balance(account) + lines[account]

\* A new entry with the right lines.
LEMMA NewEntry ==
  ASSUME JournalOK, NEW key, key \notin PostedKeys, NEW lines \in Lines, entries' = Posted(key, lines),
         \A k \in Checkouts : key = SaleKey(k) => lines = SaleLines(Dto[k])
  PROVE  /\ JournalOK'
         /\ PostedKeys' = PostedKeys \cup {key}
         /\ BalancesMove(lines)
<1>1. /\ PostedKeys' = PostedKeys \cup {key}
      /\ \A other \in PostedKeys : entries'[other] = entries[other]
      /\ entries'[key].lines = lines
  BY PostedEffect
<1>2. IsFiniteSet(PostedKeys')
  BY <1>1, FS_AddElement DEF JournalOK
<1>3. \A other \in PostedKeys : entries'[other].lines = entries[other].lines
  BY <1>1
<1>4. JournalOK'
  BY <1>1, <1>2, <1>3 DEF JournalOK
<1>5. \A account \in Accounts : /\ Balance(account) \in Int
                                /\ Balance(account)' = Balance(account) + lines[account]
  BY <1>1, <1>3, BalanceGrows
<1>6. Codes \subseteq Accounts
  BY AmountsAssumption DEF Codes
<1>7. QED
  BY <1>1, <1>4, <1>5, <1>6 DEF Lines, BalancesMove

\* The sums over a finite set are integers.
LEMMA SumsType ==
  ASSUME BooksFinite
  PROVE  /\ SumFunctionOnSet(RetainedOf, Booked) \in Int
         /\ SumFunctionOnSet(OwedOf, Booked) \in Int
         /\ SumFunctionOnSet(RevenueOf, Booked) \in Int
         /\ SumFunctionOnSet(TaxOf, Booked) \in Int
         /\ SumFunctionOnSet(AmountOf, SettledIds) \in Int
<1>1. IsFiniteSet(Booked) /\ IsFiniteSet(SettledIds)
  BY DEF BooksFinite
<1>2. \A k \in Booked : RetainedOf[k] \in Int /\ OwedOf[k] \in Int /\ RevenueOf[k] \in Int /\ TaxOf[k] \in Int
  BY AmountsType DEF Booked
<1>3. \A id \in SettledIds : AmountOf[id] \in Int
  BY SettlementLinesAre DEF SettledIds, AmountOf
<1>4. QED
  BY <1>1, <1>2, <1>3, SumType

\* An entry whose lines say what the step adds keeps the accounts adding up.
LEMMA AccountsMove ==
  ASSUME BooksFinite, AccountsAddUp, NEW lines, BalancesMove(lines),
         NEW retained, NEW owed, NEW revenue, NEW tax, NEW amount,
         Says(lines, retained, owed, revenue, tax, amount), Adds(retained, owed, revenue, tax, amount)
  PROVE  AccountsAddUp'
<1> DEFINE R == SumFunctionOnSet(RetainedOf, Booked)
           O == SumFunctionOnSet(OwedOf, Booked)
           V == SumFunctionOnSet(RevenueOf, Booked)
           T == SumFunctionOnSet(TaxOf, Booked)
           A == SumFunctionOnSet(AmountOf, SettledIds)
<1>1. R \in Int /\ O \in Int /\ V \in Int /\ T \in Int /\ A \in Int
  BY SumsType
<1>2. R' = R + retained /\ O' = O + owed /\ V' = V + revenue /\ T' = T + tax /\ A' = A + amount
  BY DEF Adds
<1>3. /\ Balance("CASH") + Balance("TENDER_CLEARING") = R + A
      /\ Balance("ACCOUNTS_RECEIVABLE") = O - A
      /\ Balance("SERVICE_REVENUE") = -V
      /\ Balance("TAX_PAYABLE") = -T
  BY DEF AccountsAddUp
<1> HIDE DEF R, O, V, T, A
<1>4. /\ Balance("CASH")' = Balance("CASH") + lines["CASH"]
      /\ Balance("TENDER_CLEARING")' = Balance("TENDER_CLEARING") + lines["TENDER_CLEARING"]
      /\ Balance("ACCOUNTS_RECEIVABLE")' = Balance("ACCOUNTS_RECEIVABLE") + lines["ACCOUNTS_RECEIVABLE"]
      /\ Balance("SERVICE_REVENUE")' = Balance("SERVICE_REVENUE") + lines["SERVICE_REVENUE"]
      /\ Balance("TAX_PAYABLE")' = Balance("TAX_PAYABLE") + lines["TAX_PAYABLE"]
      /\ \A account \in Codes : lines[account] \in Int /\ Balance(account) \in Int
  BY DEF BalancesMove, Codes
<1>5. Balance("CASH")' + Balance("TENDER_CLEARING")' = R' + A'
  <2>1. /\ lines["CASH"] \in Int /\ Balance("CASH") \in Int
        /\ lines["TENDER_CLEARING"] \in Int /\ Balance("TENDER_CLEARING") \in Int
    BY <1>4 DEF Codes
  <2>2. Balance("CASH")' + Balance("TENDER_CLEARING")'
          = (Balance("CASH") + Balance("TENDER_CLEARING")) + (lines["CASH"] + lines["TENDER_CLEARING"])
    BY <1>4, <2>1
  <2>3. lines["CASH"] + lines["TENDER_CLEARING"] = retained + amount /\ retained \in Int /\ amount \in Int
    BY DEF Says
  <2>4. (R + A) + (retained + amount) = R' + A'
    BY <1>1, <1>2, <2>3
  <2>5. QED
    BY <1>3, <2>2, <2>3, <2>4
<1>6. /\ Balance("ACCOUNTS_RECEIVABLE")' = O' - A'
      /\ Balance("SERVICE_REVENUE")' = -V'
      /\ Balance("TAX_PAYABLE")' = -T'
  <2>1. /\ lines["ACCOUNTS_RECEIVABLE"] \in Int /\ lines["SERVICE_REVENUE"] \in Int
        /\ lines["TAX_PAYABLE"] \in Int
    BY <1>4 DEF Codes
  <2>2. /\ lines["ACCOUNTS_RECEIVABLE"] = owed - amount
        /\ lines["SERVICE_REVENUE"] = -revenue /\ lines["TAX_PAYABLE"] = -tax
        /\ owed \in Int /\ amount \in Int /\ revenue \in Int /\ tax \in Int
    <3>1. \A l, v, w \in Int : l + v = w => l = w - v
      OBVIOUS
    <3>2. \A l, v \in Int : l + v = 0 => l = -v
      OBVIOUS
    <3>3. /\ owed \in Int /\ amount \in Int /\ revenue \in Int /\ tax \in Int
          /\ lines["ACCOUNTS_RECEIVABLE"] + amount = owed
          /\ lines["SERVICE_REVENUE"] + revenue = 0 /\ lines["TAX_PAYABLE"] + tax = 0
      BY DEF Says
    <3>4. QED
      BY <2>1, <3>1, <3>2, <3>3
  <2>3. /\ (O - A) + (owed - amount) = O' - A'
        /\ -V + -revenue = -V' /\ -T + -tax = -T'
    BY <1>1, <1>2, <2>2
  <2>4. QED
    BY <1>3, <1>4, <2>2, <2>3
<1>7. QED
  BY <1>5, <1>6 DEF AccountsAddUp, R, O, V, T, A

\* A sale or return that is posted.
LEMMA SaleAddsUp ==
  ASSUME JournalOK, EntriesOK, BooksFinite, AccountsAddUp, NEW k \in Checkouts,
         SaleKey(k) \notin PostedKeys, entries' = Posted(SaleKey(k), SaleLines(Dto[k]))
  PROVE  JournalOK' /\ BooksFinite' /\ AccountsAddUp'
<1> DEFINE lines == SaleLines(Dto[k])
<1>1. /\ lines \in Lines
      /\ lines["CASH"] + lines["TENDER_CLEARING"] = RetainedOf[k]
      /\ lines["ACCOUNTS_RECEIVABLE"] = OwedOf[k]
      /\ lines["SERVICE_REVENUE"] = -RevenueOf[k]
      /\ lines["TAX_PAYABLE"] = -TaxOf[k]
  BY SaleLinesAre
<1> HIDE DEF lines
<1>2. entries' = Posted(SaleKey(k), lines)
  BY DEF lines
<1>3. \A j \in Checkouts : SaleKey(k) = SaleKey(j) => lines = SaleLines(Dto[j])
  BY KeysDiffer DEF lines
<1>4. /\ JournalOK'
      /\ PostedKeys' = PostedKeys \cup {SaleKey(k)}
      /\ BalancesMove(lines)
  BY <1>1, <1>2, <1>3, NewEntry
<1>5. Booked' = Booked \cup {k} /\ k \notin Booked
  <2>1. /\ \A j \in Checkouts \ {k} : BooksOf(j)' = BooksOf(j)
        /\ BooksOf(k) = "none"
        /\ BooksOf(k)' = "booked"
    <3>1. BooksOf(k) = "none"
      BY DEF BooksOf
    <3>2. entries'[SaleKey(k)].reversedBy = NoEntry
      BY <1>2, PostedEffect
    <3>3. BooksOf(k)' = "booked"
      BY <1>4, <3>2 DEF BooksOf
    <3>4. QED
      BY <1>2, <3>1, <3>3, SaleEntry
  <2>2. Booked' = {j \in Checkouts : BooksOf(j)' = "booked"}
    BY DEF Booked, BooksOf
  <2>3. QED
    BY <2>1, <2>2, BookedAre
<1>6. SettledIds' = SettledIds
  BY <1>4, KeysDiffer DEF SettledIds
<1>7. IsFiniteSet(Booked) /\ IsFiniteSet(SettledIds)
  BY DEF BooksFinite
<1>8. BooksFinite'
  <2>1. IsFiniteSet(Booked \cup {k})
    BY <1>7, FS_AddElement
  <2>2. QED
    BY <1>5, <1>6, <1>7, <2>1 DEF BooksFinite
<1>9. /\ RetainedOf[k] \in Int /\ OwedOf[k] \in Int /\ RevenueOf[k] \in Int /\ TaxOf[k] \in Int
      /\ \A j \in Booked : /\ RetainedOf[j] \in Int /\ OwedOf[j] \in Int
                           /\ RevenueOf[j] \in Int /\ TaxOf[j] \in Int
  BY AmountsType DEF Booked
<1>10. /\ SumFunctionOnSet(RetainedOf, Booked \cup {k}) = RetainedOf[k] + SumFunctionOnSet(RetainedOf, Booked)
       /\ SumFunctionOnSet(OwedOf, Booked \cup {k}) = OwedOf[k] + SumFunctionOnSet(OwedOf, Booked)
       /\ SumFunctionOnSet(RevenueOf, Booked \cup {k}) = RevenueOf[k] + SumFunctionOnSet(RevenueOf, Booked)
       /\ SumFunctionOnSet(TaxOf, Booked \cup {k}) = TaxOf[k] + SumFunctionOnSet(TaxOf, Booked)
  BY <1>5, <1>7, <1>9, SumAdd
<1>11. QED
  <2> HIDE DEF Booked, SettledIds, BooksFinite
  <2>1. /\ SumFunctionOnSet(RetainedOf, Booked') = RetainedOf[k] + SumFunctionOnSet(RetainedOf, Booked)
        /\ SumFunctionOnSet(OwedOf, Booked') = OwedOf[k] + SumFunctionOnSet(OwedOf, Booked)
        /\ SumFunctionOnSet(RevenueOf, Booked') = RevenueOf[k] + SumFunctionOnSet(RevenueOf, Booked)
        /\ SumFunctionOnSet(TaxOf, Booked') = TaxOf[k] + SumFunctionOnSet(TaxOf, Booked)
        /\ SumFunctionOnSet(AmountOf, SettledIds') = SumFunctionOnSet(AmountOf, SettledIds)
    BY <1>5, <1>6, <1>10
  <2>2. AccountsAddUp'
    <3>1. Adds(RetainedOf[k], OwedOf[k], RevenueOf[k], TaxOf[k], 0)
      BY <1>9, <2>1, SumsType DEF Adds
    <3>2. Says(lines, RetainedOf[k], OwedOf[k], RevenueOf[k], TaxOf[k], 0)
      BY <1>1, <1>9 DEF Says
    <3>3. QED
      BY <1>4, <3>1, <3>2, AccountsMove
  <2>3. QED
    BY <1>4, <1>8, <2>2

\* A cost that is posted.
LEMMA CogsAddUp ==
  ASSUME JournalOK, EntriesOK, BooksFinite, AccountsAddUp, NEW k \in Checkouts, NEW cost \in Costs,
         CogsKey(k) \notin PostedKeys, entries' = Posted(CogsKey(k), CogsLines(Dto[k], cost))
  PROVE  JournalOK' /\ BooksFinite' /\ AccountsAddUp'
<1> DEFINE lines == CogsLines(Dto[k], cost)
<1>1. lines \in Lines /\ \A account \in Codes : lines[account] = 0
  BY CogsLinesAre
<1> HIDE DEF lines
<1>2. entries' = Posted(CogsKey(k), lines)
  BY DEF lines
<1>3. \A j \in Checkouts : CogsKey(k) # SaleKey(j) /\ CogsKey(k) # VoidKey(j)
  BY KeysDiffer
<1>4. JournalOK' /\ PostedKeys' = PostedKeys \cup {CogsKey(k)} /\ BalancesMove(lines)
  BY <1>1, <1>2, <1>3, NewEntry
<1>5. \A j \in Checkouts : BooksOf(j)' = BooksOf(j)
  BY <1>2, <1>3, OtherEntry
<1>6. Booked' = Booked /\ SettledIds' = SettledIds
  <2>1. Booked' = {j \in Checkouts : BooksOf(j)' = "booked"}
    BY DEF Booked, BooksOf
  <2>2. \A id : SettlementKey(id) # CogsKey(k)
    BY DEF SettlementKey, CogsKey
  <2>3. QED
    BY <1>4, <1>5, <2>1, <2>2, BookedAre DEF SettledIds
<1> HIDE DEF Booked, SettledIds
<1>7. BooksFinite'
  BY <1>6 DEF BooksFinite
<1>8. Adds(0, 0, 0, 0, 0)
  BY <1>6, SumsType DEF Adds
<1>9. Says(lines, 0, 0, 0, 0, 0)
  BY <1>1 DEF Says, Codes
<1>10. QED
  BY <1>4, <1>7, <1>8, <1>9, AccountsMove

\* A settlement that is posted.
LEMMA SettlementAddsUp ==
  ASSUME JournalOK, EntriesOK, BooksFinite, AccountsAddUp, NEW id \in DOMAIN Settlements,
         SettlementKey(id) \notin PostedKeys,
         entries' = Posted(SettlementKey(id), SettlementLines(Settlements[id]))
  PROVE  JournalOK' /\ BooksFinite' /\ AccountsAddUp'
<1> DEFINE lines == SettlementLines(Settlements[id])
           amount == Settlements[id].amount
<1>1. /\ amount \in Nat
      /\ lines \in Lines
      /\ lines["CASH"] + lines["TENDER_CLEARING"] = amount
      /\ lines["ACCOUNTS_RECEIVABLE"] = -amount
      /\ lines["SERVICE_REVENUE"] = 0 /\ lines["TAX_PAYABLE"] = 0
  BY SettlementLinesAre
<1>2. AmountOf[id] = amount
  BY DEF AmountOf
<1> HIDE DEF lines, amount
<1>3. entries' = Posted(SettlementKey(id), lines)
  BY DEF lines
<1>4. \A j \in Checkouts : SettlementKey(id) # SaleKey(j) /\ SettlementKey(id) # VoidKey(j)
  BY KeysDiffer
<1>5. JournalOK' /\ PostedKeys' = PostedKeys \cup {SettlementKey(id)} /\ BalancesMove(lines)
  BY <1>1, <1>3, <1>4, NewEntry
<1>6. \A j \in Checkouts : BooksOf(j)' = BooksOf(j)
  BY <1>3, <1>4, OtherEntry
<1>7. Booked' = Booked
  <2>1. Booked' = {j \in Checkouts : BooksOf(j)' = "booked"}
    BY DEF Booked, BooksOf
  <2>2. QED
    BY <1>6, <2>1, BookedAre
<1>8. SettledIds' = SettledIds \cup {id} /\ id \notin SettledIds
  BY <1>5 DEF SettledIds, SettlementKey
<1>9. IsFiniteSet(SettledIds) /\ \A other \in SettledIds : AmountOf[other] \in Int
  BY SettlementLinesAre DEF BooksFinite, SettledIds, AmountOf
<1> HIDE DEF Booked, SettledIds
<1>10. BooksFinite'
  BY <1>7, <1>8, <1>9, FS_AddElement DEF BooksFinite
<1>11. SumFunctionOnSet(AmountOf, SettledIds \cup {id}) = AmountOf[id] + SumFunctionOnSet(AmountOf, SettledIds)
  BY <1>1, <1>2, <1>8, <1>9, SumAdd
<1>12. SumFunctionOnSet(AmountOf, SettledIds)' = SumFunctionOnSet(AmountOf, SettledIds) + amount
  <2>1. SumFunctionOnSet(AmountOf, SettledIds') = amount + SumFunctionOnSet(AmountOf, SettledIds)
    BY <1>2, <1>8, <1>11
  <2>2. SumFunctionOnSet(AmountOf, SettledIds)' = SumFunctionOnSet(AmountOf, SettledIds')
    BY DEF AmountOf
  <2>3. QED
    BY <1>1, <2>1, <2>2, SumsType
<1>13. Adds(0, 0, 0, 0, amount)
  BY <1>7, <1>12, SumsType DEF Adds
<1>14. Says(lines, 0, 0, 0, 0, amount)
  <2>1. 0 + amount = amount /\ -amount + amount = 0 /\ amount \in Int
    BY <1>1
  <2>2. QED
    BY <1>1, <2>1 DEF Says
<1>15. QED
  BY <1>5, <1>10, <1>13, <1>14, AccountsMove

\* A void that reverses a sale.
LEMMA VoidAddsUp ==
  ASSUME JournalOK, EntriesOK, BooksFinite, AccountsAddUp, NEW k \in Checkouts,
         SaleKey(k) \in PostedKeys, VoidKey(k) \notin PostedKeys,
         entries' = Reversed(SaleKey(k), VoidKey(k))
  PROVE  JournalOK' /\ BooksFinite' /\ AccountsAddUp'
<1> DEFINE sale == SaleLines(Dto[k])
           lines == Swapped(sale)
<1>1. /\ sale \in Lines
      /\ sale["CASH"] + sale["TENDER_CLEARING"] = RetainedOf[k]
      /\ sale["ACCOUNTS_RECEIVABLE"] = OwedOf[k]
      /\ sale["SERVICE_REVENUE"] = -RevenueOf[k]
      /\ sale["TAX_PAYABLE"] = -TaxOf[k]
  BY SaleLinesAre
<1>2. entries[SaleKey(k)].lines = sale
  BY DEF JournalOK
<1> HIDE DEF sale
<1>3. /\ PostedKeys' = PostedKeys \cup {VoidKey(k)}
      /\ \A other \in PostedKeys : entries'[other].lines = entries[other].lines
      /\ entries'[VoidKey(k)].lines = lines
  BY <1>2, KeysDiffer, ReversedEffect DEF EntriesOK
<1>4. lines \in Lines /\ \A account \in Accounts : lines[account] = -sale[account]
  BY <1>1 DEF Lines, Swapped
<1> HIDE DEF lines
<1>5. JournalOK'
  <2>1. IsFiniteSet(PostedKeys')
    BY <1>3, FS_AddElement DEF JournalOK
  <2>2. \A j \in Checkouts : SaleKey(j) # VoidKey(k)
    BY KeysDiffer
  <2>3. QED
    BY <1>3, <1>4, <2>1, <2>2 DEF JournalOK
<1>6. BalancesMove(lines)
  <2>1. \A account \in Accounts : /\ Balance(account) \in Int
                                  /\ Balance(account)' = Balance(account) + lines[account]
    BY <1>3, <1>4, BalanceGrows
  <2>2. Codes \subseteq Accounts
    BY AmountsAssumption DEF Codes
  <2>3. QED
    BY <1>4, <2>1, <2>2 DEF BalancesMove, Lines
<1>7. Booked' = Booked \ {k} /\ k \in Booked
  <2>1. /\ \A j \in Checkouts \ {k} : BooksOf(j)' = BooksOf(j)
        /\ BooksOf(k) = "booked" /\ BooksOf(k)' = "reversed"
    <3>1. BooksOf(k) = "booked"
      BY DEF EntriesOK, BooksOf
    <3>2. QED
      BY <3>1, VoidEntry
  <2>2. Booked' = {j \in Checkouts : BooksOf(j)' = "booked"}
    BY DEF Booked, BooksOf
  <2>3. QED
    BY <2>1, <2>2, BookedAre
<1>8. SettledIds' = SettledIds
  BY <1>3, KeysDiffer DEF SettledIds
<1>9. /\ IsFiniteSet(Booked)
      /\ RetainedOf[k] \in Int /\ OwedOf[k] \in Int /\ RevenueOf[k] \in Int /\ TaxOf[k] \in Int
      /\ \A j \in Booked : /\ RetainedOf[j] \in Int /\ OwedOf[j] \in Int
                           /\ RevenueOf[j] \in Int /\ TaxOf[j] \in Int
  BY AmountsType DEF Booked, BooksFinite
<1> HIDE DEF Booked, SettledIds
<1>10. BooksFinite'
  BY <1>7, <1>8, <1>9, FS_RemoveElement DEF BooksFinite
<1>11. /\ SumFunctionOnSet(RetainedOf, Booked) = RetainedOf[k] + SumFunctionOnSet(RetainedOf, Booked \ {k})
       /\ SumFunctionOnSet(OwedOf, Booked) = OwedOf[k] + SumFunctionOnSet(OwedOf, Booked \ {k})
       /\ SumFunctionOnSet(RevenueOf, Booked) = RevenueOf[k] + SumFunctionOnSet(RevenueOf, Booked \ {k})
       /\ SumFunctionOnSet(TaxOf, Booked) = TaxOf[k] + SumFunctionOnSet(TaxOf, Booked \ {k})
  BY <1>7, <1>9, SumRemove
<1>12. /\ SumFunctionOnSet(RetainedOf, Booked) = RetainedOf[k] + SumFunctionOnSet(RetainedOf, Booked')
       /\ SumFunctionOnSet(OwedOf, Booked) = OwedOf[k] + SumFunctionOnSet(OwedOf, Booked')
       /\ SumFunctionOnSet(RevenueOf, Booked) = RevenueOf[k] + SumFunctionOnSet(RevenueOf, Booked')
       /\ SumFunctionOnSet(TaxOf, Booked) = TaxOf[k] + SumFunctionOnSet(TaxOf, Booked')
  BY <1>7, <1>11
<1>13. /\ SumFunctionOnSet(RetainedOf, Booked') \in Int /\ SumFunctionOnSet(OwedOf, Booked') \in Int
       /\ SumFunctionOnSet(RevenueOf, Booked') \in Int /\ SumFunctionOnSet(TaxOf, Booked') \in Int
  <2>1. IsFiniteSet(Booked') /\ \A j \in Booked' : j \in Booked
    BY <1>7, <1>10 DEF BooksFinite
  <2>2. QED
    BY <1>9, <2>1, SumType
<1>14. Adds(-RetainedOf[k], -OwedOf[k], -RevenueOf[k], -TaxOf[k], 0)
  BY <1>8, <1>9, <1>12, <1>13, SumsType DEF Adds
<1>15. Says(lines, -RetainedOf[k], -OwedOf[k], -RevenueOf[k], -TaxOf[k], 0)
  <2>1. /\ lines["CASH"] = -sale["CASH"] /\ lines["TENDER_CLEARING"] = -sale["TENDER_CLEARING"]
        /\ lines["ACCOUNTS_RECEIVABLE"] = -sale["ACCOUNTS_RECEIVABLE"]
        /\ lines["SERVICE_REVENUE"] = -sale["SERVICE_REVENUE"]
        /\ lines["TAX_PAYABLE"] = -sale["TAX_PAYABLE"]
        /\ sale["CASH"] \in Int /\ sale["TENDER_CLEARING"] \in Int
    BY <1>1, <1>4, AmountsAssumption DEF Lines
  <2>2. QED
    BY <1>1, <1>9, <2>1 DEF Says
<1>16. QED
  BY <1>5, <1>6, <1>10, <1>14, <1>15, AccountsMove

\* What a step may do to the journal.
LEMMA JournalEffect ==
  ASSUME PosTypeOK, RequestsOK, [PosNext]_posVars
  PROVE  \/ UNCHANGED entries
         \/ \E k \in Checkouts :
              \/ IsPosted(Dto[k]) /\ entries' = Posted(SaleKey(k), SaleLines(Dto[k]))
              \/ \E cost \in Costs : entries' = Posted(CogsKey(k), CogsLines(Dto[k], cost))
              \/ entries' = Reversed(SaleKey(k), VoidKey(k))
         \/ \E id \in DOMAIN Settlements :
              entries' = Posted(SettlementKey(id), SettlementLines(Settlements[id]))
<1>1. ASSUME NEW r \in Requests, RequestStep(r) PROVE requests[r].checkout \in Checkouts
  BY <1>1, StepEffect
<1>2. CASE \E r \in Requests : RequestStep(r) /\ (PostSale(r) \/ PostCogs(r) \/ ReverseSale(r))
  BY <1>1, <1>2 DEF PostSale, PostCogs, ReverseSale
<1>3. CASE \E id \in DOMAIN Settlements : SettleReceivable(id)
  BY <1>3 DEF SettleReceivable
<1>4. QED
  BY <1>2, <1>3, FirstEffect DEF PosNext, posVars, RequestStep, InsertCheckout, AssertUsable, Refuse,
       Process, Fail, PostingFails, UpdateVoided, ReversalFails, Crash

\* An entry whose key is taken is not posted again.
LEMMA PostedTwice == ASSUME NEW key \in PostedKeys, NEW lines PROVE Posted(key, lines) = entries
BY DEF Posted

\* Every step keeps the accounts adding up.
LEMMA BooksStep ==
  ASSUME PosTypeOK, RequestsOK, EntriesOK, JournalOK, BooksFinite, AccountsAddUp, [PosNext]_posVars
  PROVE  JournalOK' /\ BooksFinite' /\ AccountsAddUp'
<1>1. CASE UNCHANGED entries
  <2>1. PostedKeys' = PostedKeys /\ Booked' = Booked /\ SettledIds' = SettledIds
    BY <1>1 DEF PostedKeys, Booked, SettledIds
  <2>2. \A account : Balance(account)' = Balance(account)
    BY <1>1, BalanceStays
  <2>3. QED
    BY <1>1, <2>1, <2>2 DEF JournalOK, BooksFinite, AccountsAddUp
<1>2. ASSUME NEW k \in Checkouts, entries' = Posted(SaleKey(k), SaleLines(Dto[k]))
      PROVE  JournalOK' /\ BooksFinite' /\ AccountsAddUp'
  BY <1>1, <1>2, SaleAddsUp, PostedTwice
<1>3. ASSUME NEW k \in Checkouts, NEW cost \in Costs, entries' = Posted(CogsKey(k), CogsLines(Dto[k], cost))
      PROVE  JournalOK' /\ BooksFinite' /\ AccountsAddUp'
  BY <1>1, <1>3, CogsAddUp, PostedTwice
<1>4. ASSUME NEW k \in Checkouts, entries' = Reversed(SaleKey(k), VoidKey(k))
      PROVE  JournalOK' /\ BooksFinite' /\ AccountsAddUp'
  <2>1. CASE SaleKey(k) \notin PostedKeys \/ VoidKey(k) \in PostedKeys
    BY <1>1, <1>4, <2>1 DEF Reversed
  <2>2. CASE SaleKey(k) \in PostedKeys /\ VoidKey(k) \notin PostedKeys
    BY <1>4, <2>2, VoidAddsUp
  <2>3. QED
    BY <2>1, <2>2
<1>5. ASSUME NEW id \in DOMAIN Settlements,
             entries' = Posted(SettlementKey(id), SettlementLines(Settlements[id]))
      PROVE  JournalOK' /\ BooksFinite' /\ AccountsAddUp'
  BY <1>1, <1>5, SettlementAddsUp, PostedTwice
<1>6. QED
  BY <1>1, <1>2, <1>3, <1>4, <1>5, JournalEffect

-------------------------------------------------------------------------------
(* Postings *)

\* The entry of a checkout balances, unless it is overpaid and names no change or
\* is taxed above its total.
LEMMA SaleBalances ==
  ASSUME NEW k \in Checkouts, IsPosted(Dto[k]), Dto[k].paid - Dto[k].change <= Dto[k].total,
         Dto[k].tax <= Dto[k].total
  PROVE  Balanced(SaleLines(Dto[k]))
<1> DEFINE lines == SaleLines(Dto[k])
           F == [account \in Accounts |-> lines[account]]
           retained == Retained(Dto[k])
           owed == Owed(Dto[k])
           revenue == Revenue(Dto[k])
           tax == Dto[k].tax
<1>1. /\ lines \in Lines
      /\ lines["CASH"] + lines["TENDER_CLEARING"] = RetainedOf[k]
      /\ lines["ACCOUNTS_RECEIVABLE"] = OwedOf[k]
      /\ lines["SERVICE_REVENUE"] = -RevenueOf[k]
      /\ lines["TAX_PAYABLE"] = -TaxOf[k]
      /\ \A account \in Accounts \ Codes : lines[account] = 0
  BY SaleLinesAre
<1>2. /\ retained \in Nat /\ owed \in Nat /\ revenue \in Nat /\ tax \in Nat
      /\ Dto[k].total \in Nat /\ Dto[k].total > 0
      /\ retained + owed = Dto[k].total /\ revenue + tax = Dto[k].total
  BY AmountsAssumption DEF Retained, Owed, Revenue, Max0, IsPosted
<1>3. /\ RetainedOf[k] = Signed(k, retained) /\ OwedOf[k] = Signed(k, owed)
      /\ RevenueOf[k] = Signed(k, revenue) /\ TaxOf[k] = Signed(k, tax)
  BY DEF RetainedOf, OwedOf, RevenueOf, TaxOf
<1> HIDE DEF lines, retained, owed, revenue, tax
<1>4. IsFiniteSet(Accounts) /\ Codes \subseteq Accounts /\ \A account \in Accounts : F[account] \in Int
  BY <1>1, JournalAssumption, AmountsAssumption DEF Codes, Lines
<1>5. /\ F["CASH"] + F["TENDER_CLEARING"] = Signed(k, retained)
      /\ F["ACCOUNTS_RECEIVABLE"] = Signed(k, owed)
      /\ F["SERVICE_REVENUE"] = -Signed(k, revenue)
      /\ F["TAX_PAYABLE"] = -Signed(k, tax)
      /\ \A account \in Accounts \ Codes : F[account] = 0
  BY <1>1, <1>3, <1>4 DEF Codes
<1>6. SumFunctionOnSet(F, Accounts) = 0
  <2> DEFINE A1 == Accounts \ {"CASH"}
             A2 == A1 \ {"TENDER_CLEARING"}
             A3 == A2 \ {"ACCOUNTS_RECEIVABLE"}
             A4 == A3 \ {"SERVICE_REVENUE"}
             A5 == A4 \ {"TAX_PAYABLE"}
  <2>1. /\ IsFiniteSet(A1) /\ IsFiniteSet(A2) /\ IsFiniteSet(A3) /\ IsFiniteSet(A4) /\ IsFiniteSet(A5)
    BY <1>4, FS_RemoveElement
  <2>2. /\ "CASH" \in Accounts /\ "TENDER_CLEARING" \in A1 /\ "ACCOUNTS_RECEIVABLE" \in A2
        /\ "SERVICE_REVENUE" \in A3 /\ "TAX_PAYABLE" \in A4
        /\ A1 \subseteq Accounts /\ A2 \subseteq Accounts /\ A3 \subseteq Accounts /\ A4 \subseteq Accounts
        /\ A5 = Accounts \ Codes
    BY <1>4 DEF Codes
  <2> HIDE DEF A5, F
  <2>3. SumFunctionOnSet(F, A5) = 0
    BY <1>5, <2>1, <2>2, SumZero
  <2> HIDE DEF A4
  <2>4. SumFunctionOnSet(F, A4) = F["TAX_PAYABLE"] + 0
    BY <1>4, <2>1, <2>2, <2>3, SumRemove DEF A5
  <2> HIDE DEF A3
  <2>5. SumFunctionOnSet(F, A3) = F["SERVICE_REVENUE"] + SumFunctionOnSet(F, A4)
    BY <1>4, <2>1, <2>2, SumRemove DEF A4
  <2> HIDE DEF A2
  <2>6. SumFunctionOnSet(F, A2) = F["ACCOUNTS_RECEIVABLE"] + SumFunctionOnSet(F, A3)
    BY <1>4, <2>1, <2>2, SumRemove DEF A3
  <2> HIDE DEF A1
  <2>7. SumFunctionOnSet(F, A1) = F["TENDER_CLEARING"] + SumFunctionOnSet(F, A2)
    BY <1>4, <2>1, <2>2, SumRemove DEF A2
  <2>8. SumFunctionOnSet(F, Accounts) = F["CASH"] + SumFunctionOnSet(F, A1)
    BY <1>4, <2>2, SumRemove DEF A1
  <2>9. /\ F["CASH"] \in Int /\ F["TENDER_CLEARING"] \in Int /\ F["ACCOUNTS_RECEIVABLE"] \in Int
        /\ F["SERVICE_REVENUE"] \in Int /\ F["TAX_PAYABLE"] \in Int
    BY <1>4 DEF Codes
  <2>10. SumFunctionOnSet(F, Accounts)
           = (F["CASH"] + F["TENDER_CLEARING"]) + F["ACCOUNTS_RECEIVABLE"] + F["SERVICE_REVENUE"] + F["TAX_PAYABLE"]
    BY <2>4, <2>5, <2>6, <2>7, <2>8, <2>9
  <2>11. QED
    BY <1>2, <1>5, <2>10 DEF Signed
<1>7. \E account \in Accounts : lines[account] # 0
  <2>1. SUFFICES ASSUME \A account \in Accounts : lines[account] = 0 PROVE FALSE
    OBVIOUS
  <2>2. lines["SERVICE_REVENUE"] = 0 /\ lines["TAX_PAYABLE"] = 0
    BY <1>4, <2>1 DEF Codes
  <2>3. revenue = 0 /\ tax = 0
    BY <1>1, <1>2, <1>3, <2>2 DEF Signed
  <2>4. QED
    BY <1>2, <2>3
<1>8. QED
  BY <1>6, <1>7 DEF Balanced, SumOver, lines

\* post() balances the entry of this checkout.
Bookable(k) ==
  /\ IsPosted(Dto[k])
  /\ Dto[k].paid - Dto[k].change <= Dto[k].total /\ Dto[k].tax <= Dto[k].total

\* A request that has moved the goods and has not posted them, or never will.
Unposted == {"post", "fail", "error", "crashed"}

PostingsOK ==
  \A k \in Checkouts : movements[k] = 1 /\ Bookable(k) =>
    SaleKey(k) \in PostedKeys \/ \E r \in Of(k, "ingest") : requests[r].step \in Unposted

\* No entry is ever removed.
LEMMA EntriesStay ==
  ASSUME PosTypeOK, RequestsOK, EntriesOK, [PosNext]_posVars
  PROVE  PostedKeys \subseteq PostedKeys'
<1>1. CASE UNCHANGED entries
  BY <1>1 DEF PostedKeys
<1>2. ASSUME NEW key, NEW lines, entries' = Posted(key, lines) PROVE PostedKeys \subseteq PostedKeys'
  BY <1>2, PostedEffect
<1>3. ASSUME NEW k \in Checkouts, entries' = Reversed(SaleKey(k), VoidKey(k))
      PROVE  PostedKeys \subseteq PostedKeys'
  <2>1. SaleKey(k) # VoidKey(k) /\ \A key \in PostedKeys : DOMAIN entries[key] = Columns
    BY KeysDiffer DEF EntriesOK
  <2>2. UNCHANGED entries \/ PostedKeys' = PostedKeys \cup {VoidKey(k)}
    BY <1>3, <2>1, ReversedEffect
  <2>3. QED
    BY <1>1, <2>2
<1>4. QED
  BY <1>1, <1>2, <1>3, JournalEffect

\* A request that moved the goods posts them, fails or is cut off.
LEMMA UnpostedStep ==
  ASSUME PosTypeOK, RequestsOK, NEW r \in Requests, RequestStep(r) \/ Crash(r),
         requests[r].step \in Unposted
  PROVE  requests'[r].step \in Unposted \/ (PostSale(r) /\ At(r, "post"))
<1> USE DEF Unposted
<1>1. ASSUME NEW step \in {"error", "crashed"}, Goto(r, step) PROVE requests'[r].step \in Unposted
  BY <1>1, GotoEffect DEF PosTypeOK, Steps, Ended
<1>2. Goto(r, "error") \/ Goto(r, "crashed") \/ (PostSale(r) /\ At(r, "post"))
  BY DEF RequestStep, InsertCheckout, AssertUsable, Refuse, Process, Fail, PostSale, PostCogs,
         PostingFails, UpdateVoided, ReverseSale, ReversalFails, Crash, At
<1>3. QED
  BY <1>1, <1>2

\* Every step keeps it.
LEMMA PostingsStep ==
  ASSUME PosTypeOK, RequestsOK, GoodsOK, EntriesOK, PostingsOK, [PosNext]_posVars
  PROVE  PostingsOK'
<1> SUFFICES ASSUME NEW k \in Checkouts, movements'[k] = 1, Bookable(k)
             PROVE  \/ SaleKey(k) \in PostedKeys'
                    \/ \E r \in Requests : /\ requests'[r].checkout = k /\ requests'[r].op = "ingest"
                                           /\ requests'[r].step \in Unposted
  BY DEF PostingsOK, Of
<1>1. PostedKeys \subseteq PostedKeys'
  BY EntriesStay
<1>2. ASSUME NEW r \in Requests, Process(r), k = requests[r].checkout
      PROVE  /\ requests'[r].checkout = k /\ requests'[r].op = "ingest"
             /\ requests'[r].step \in Unposted
  <2>1. requests[r].op = "ingest" /\ (Goto(r, "post") \/ Goto(r, "fail"))
    BY <1>2 DEF Process, At, RequestsOK, IngestSteps
  <2>2. QED
    BY <1>2, <2>1, GotoEffect DEF PosTypeOK, Steps, IngestSteps, Unposted
<1>3. CASE movements[k] # 1
  <2>1. PICK r \in Requests : Process(r)
    BY <1>3, FirstEffect DEF PosNext, posVars, RequestStep, InsertCheckout, AssertUsable, Refuse, Fail,
         PostSale, PostCogs, PostingFails, UpdateVoided, ReverseSale, ReversalFails, Crash, SettleReceivable
  <2>2. k = requests[r].checkout
    BY <1>3, <2>1 DEF Process, PosTypeOK
  <2>3. QED
    BY <1>2, <2>1, <2>2
<1>4. CASE movements[k] = 1 /\ SaleKey(k) \notin PostedKeys
  <2>1. PICK r \in Of(k, "ingest") : requests[r].step \in Unposted
    BY <1>4 DEF PostingsOK
  <2>2. CASE requests'[r] = requests[r]
    BY <2>1, <2>2 DEF Of
  <2>3. CASE requests'[r] # requests[r]
    <3>1. RequestStep(r) \/ Crash(r)
      <4>1. requests[r].step # "idle" /\ r \in Requests
        BY <2>1 DEF Unposted, Of
      <4>2. ASSUME NEW s \in Requests \ {r},
                   \/ RequestStep(s) \/ Crash(s)
                   \/ \E j \in Checkouts : Ingest(s, j) \/ VoidCheckout(s, j)
            PROVE  requests'[r] = requests[r]
        BY <4>1, <4>2, StepEffect, FirstEffect
      <4>3. ASSUME NEW j \in Checkouts, Ingest(r, j) \/ VoidCheckout(r, j) PROVE FALSE
        BY <4>1, <4>3, FirstEffect
      <4>4. QED
        BY <2>3, <4>1, <4>2, <4>3 DEF PosNext, posVars, SettleReceivable
    <3>2. requests'[r].checkout = k /\ requests'[r].op = "ingest"
      BY <2>1, <3>1, StepEffect DEF Of
    <3>3. CASE requests'[r].step \in Unposted
      BY <3>2, <3>3, <2>1 DEF Of
    <3>4. CASE PostSale(r) /\ At(r, "post")
      <4>1. Balanced(SaleLines(Dto[k])) /\ IsPosted(Dto[k])
        BY SaleBalances DEF Bookable
      <4>2. requests[r].checkout = k
        BY <2>1 DEF Of
      <4>3. entries' = Posted(SaleKey(k), SaleLines(Dto[k]))
        BY <3>4, <4>1, <4>2 DEF PostSale
      <4>4. QED
        BY <4>3, PostedEffect
    <3>5. QED
      BY <2>1, <3>1, <3>3, <3>4, UnpostedStep DEF Of
  <2>4. QED
    BY <2>2, <2>3
<1>5. QED
  BY <1>1, <1>3, <1>4

-------------------------------------------------------------------------------
(* Voids *)

\* Once a void has begun with no ingestion under way none begins any more, so
\* that a void that is done leaves the sale out of the books for good.
VoidsOK ==
  \A k \in Checkouts :
    /\ checkouts[k] = "VOIDED" => Of(k, "void") # {}
    /\ \A r \in Of(k, "void") :
         /\ checkouts[k] # "NONE"
         /\ ~overlapped[k] => Ingesting(k) = {}
         /\ ~overlapped[k] /\ At(r, "done") => BooksOf(k) # "booked"

\* Every step keeps voids and ingestions apart, unless one overlapped the other.
LEMMA VoidsStep ==
  ASSUME PosTypeOK, RequestsOK, EntriesOK, VoidsOK, [PosNext]_posVars
  PROVE  VoidsOK'
<1> USE DEF VoidsOK, Of, Ingesting
<1>1. ASSUME NEW r \in Requests, RequestStep(r) \/ Crash(r) PROVE VoidsOK'
  <2>1. PICK k \in Checkouts : k = requests[r].checkout
    BY <1>1, StepEffect
  <2>2. /\ requests[r].step \in IngestSteps => requests[r].op = "ingest"
        /\ requests[r].step \in VoidSteps => requests[r].op = "void"
        /\ requests'[r].op = requests[r].op /\ requests'[r].checkout = k
        /\ \A q \in Requests \ {r} : requests'[q] = requests[q]
    BY <1>1, <2>1, StepEffect DEF RequestsOK
  <2>3. UNCHANGED overlapped
    BY <1>1 DEF RequestStep, InsertCheckout, AssertUsable, Refuse, Process, Fail, PostSale, PostCogs,
             PostingFails, UpdateVoided, ReverseSale, ReversalFails, Crash
  <2>4. \A j \in Checkouts : Of(j, "void")' = Of(j, "void") /\ Ingesting(j)' \subseteq Ingesting(j)
    <3>1. requests'[r].step \in IngestSteps => requests[r].step \in IngestSteps
      BY <1>1, StepEffect DEF IngestSteps, VoidSteps, Ended
    <3>2. QED
      BY <2>1, <2>2, <3>1
  <2>5. \A j \in Checkouts :
          /\ checkouts[j] # "NONE" => checkouts'[j] # "NONE"
          /\ checkouts'[j] = "VOIDED" => checkouts[j] = "VOIDED" \/ (j = k /\ r \in Of(k, "void"))
    <3>1. \/ UNCHANGED checkouts
          \/ \E status \in CheckoutStatus \ {"NONE", "VOIDED"} : checkouts' = [checkouts EXCEPT ![k] = status]
          \/ At(r, "void") /\ checkouts' = [checkouts EXCEPT ![k] = "VOIDED"]
      BY <1>1, <2>1, RowEffect DEF CheckoutStatus
    <3>2. At(r, "void") => r \in Of(k, "void")
      BY <2>1, <2>2 DEF At, VoidSteps
    <3>3. QED
      BY <2>1, <3>1, <3>2 DEF PosTypeOK
  <2>6. ASSUME NEW j \in Checkouts, NEW q \in Of(j, "void"), ~overlapped[j], requests'[q].step = "done"
        PROVE  BooksOf(j)' # "booked"
    <3>1. Ingesting(j) = {}
      BY <2>6
    <3>2. ~(PostSale(r) /\ j = k)
      BY <2>1, <2>2, <3>1 DEF PostSale, At, IngestSteps
    <3>3. BooksOf(j)' = BooksOf(j) \/ BooksOf(j)' # "booked"
      <4>1. ASSUME NEW s \in Requests, PostSale(s), At(s, "post"), j = requests[s].checkout PROVE FALSE
        BY <3>1, <4>1 DEF At, IngestSteps, RequestsOK
      <4>2. QED
        BY <4>1, BooksEffect
    <3>4. CASE At(q, "done")
      BY <2>6, <3>3, <3>4
    <3>5. CASE ~At(q, "done")
      <4>1. q = r /\ j = k
        BY <2>1, <2>2, <2>6, <3>5 DEF At
      <4>2. ReverseSale(r)
        <5>1. ASSUME NEW step \in Steps \ {"done"} PROVE ~Goto(r, step)
          BY <2>6, <4>1, <5>1, GotoEffect DEF PosTypeOK
        <5>2. requests[r].step \notin IngestSteps
          BY <2>2, <2>6, <4>1
        <5>3. ~AssertUsable(r)
          BY <5>2 DEF AssertUsable, At, IngestSteps
        <5>4. QED
          BY <1>1, <5>1, <5>2, <5>3 DEF RequestStep, InsertCheckout, Refuse, Process, Fail, PostSale,
             PostCogs, PostingFails, UpdateVoided, ReversalFails, Crash, At, Steps, IngestSteps, VoidSteps, Ended
      <4>3. entries' = Reversed(SaleKey(k), VoidKey(k))
        BY <2>1, <4>2 DEF ReverseSale
      <4>4. QED
        BY <4>1, <4>3, VoidEntry
    <3>6. QED
      BY <3>4, <3>5
  <2>7. QED
    <3>1. SUFFICES ASSUME NEW j \in Checkouts
                   PROVE  /\ checkouts'[j] = "VOIDED" => Of(j, "void") # {}
                          /\ \A q \in Of(j, "void") :
                               /\ checkouts'[j] # "NONE"
                               /\ ~overlapped[j] => Ingesting(j)' = {}
                               /\ ~overlapped[j] /\ requests'[q].step = "done" => BooksOf(j)' # "booked"
      BY <2>3, <2>4 DEF At
    <3>2. QED
      BY <2>4, <2>5, <2>6
<1>2. ASSUME NEW r \in Requests, NEW k \in Checkouts, Ingest(r, k) \/ VoidCheckout(r, k)
      PROVE  VoidsOK'
  <2>1. /\ UNCHANGED <<checkouts, entries>>
        /\ requests[r].op = "none" /\ requests'[r].checkout = k
        /\ requests'[r].step # "done" \/ requests'[r].op = "ingest"
        /\ \A q \in Requests \ {r} : requests'[q] = requests[q]
    BY <1>2, FirstEffect DEF RequestsOK, At
  <2>2. \A j \in Checkouts : BooksOf(j)' = BooksOf(j)
    BY <2>1 DEF BooksOf, PostedKeys
  <2>3. CASE Ingest(r, k)
    <3>1. requests'[r].op = "ingest" /\ UNCHANGED overlapped
      BY <2>3, BeginEffect DEF Ingest, PosTypeOK, Steps, IngestSteps, Ended
    <3>2. requests'[r].step \in IngestSteps => checkouts[k] = "NONE"
      BY <2>3, BeginEffect DEF Ingest, PosTypeOK, Steps, IngestSteps, Ended
    <3>3. \A j \in Checkouts : Of(j, "void")' = Of(j, "void")
      BY <2>1, <3>1
    <3>4. \A j \in Checkouts : Ingesting(j)' = Ingesting(j) \/ checkouts[j] = "NONE"
      BY <2>1, <3>1, <3>2
    <3>5. \A q \in Requests : requests'[q].op = "void" => requests'[q] = requests[q]
      BY <2>1, <3>1
    <3>6. QED
      BY <2>1, <2>2, <3>1, <3>3, <3>4, <3>5 DEF At
  <2>4. CASE VoidCheckout(r, k)
    <3>1. /\ requests'[r].op = "void" /\ requests'[r].step # "done" /\ checkouts[k] # "NONE"
          /\ overlapped' = [overlapped EXCEPT ![k] = @ \/ Ingesting(k) # {}]
      BY <2>4, BeginEffect DEF VoidCheckout, PosTypeOK, Steps, VoidSteps, Ended
    <3>2. \A j \in Checkouts : /\ Ingesting(j)' = Ingesting(j)
                              /\ Of(j, "void")' = Of(j, "void") \cup (IF j = k THEN {r} ELSE {})
      BY <2>1, <3>1
    <3>3. ASSUME NEW j \in Checkouts, ~overlapped'[j]
          PROVE  ~overlapped[j] /\ (j = k => Ingesting(j) = {})
      BY <3>1, <3>3 DEF PosTypeOK
    <3>4. QED
      BY <2>1, <2>2, <3>1, <3>2, <3>3 DEF At
  <2>5. QED
    BY <1>2, <2>3, <2>4
<1>3. ASSUME UNCHANGED <<checkouts, requests, overlapped>> PROVE VoidsOK'
  <2>1. \A j \in Checkouts : BooksOf(j)' = BooksOf(j) \/ Ingesting(j) # {} \/ BooksOf(j)' # "booked"
    BY BooksEffect DEF RequestsOK, At, IngestSteps
  <2>2. QED
    BY <1>3, <2>1 DEF At
<1>4. QED
  BY <1>1, <1>2, <1>3 DEF PosNext, SettleReceivable, posVars

-------------------------------------------------------------------------------
(* The inductive invariant *)

PosIInv ==
  /\ PosTypeOK /\ RequestsOK /\ OneOwner
  /\ GoodsOK /\ MovedOnce
  /\ CartsOK /\ CartSoldOnce
  /\ EntriesOK /\ VoidsOK
  /\ JournalOK /\ BooksFinite /\ AccountsAddUp
  /\ PostingsOK

\* An empty shop satisfies it.
LEMMA PosInitIInv == PosInit => PosIInv
<1> SUFFICES ASSUME PosInit PROVE PosIInv
  OBVIOUS
<1> USE PosAssumption DEF PosInit, RegisterInit
<1>1. PosTypeOK
  <2>1. RegisterTypeOK
    BY DEF RegisterTypeOK, SessionStatus, Cart, CartStatus, NoCart
  <2>2. requests \in [Requests -> Request]
    BY DEF Request
  <2>3. QED
    BY <2>1, <2>2 DEF PosTypeOK, CheckoutStatus
<1>2. RequestsOK /\ OneOwner /\ GoodsOK /\ MovedOnce
  BY DEF RequestsOK, OneOwner, GoodsOK, MovedOnce, Owns, OwnSteps, IngestSteps, VoidSteps, At
<1>3. CartsOK
  BY DEF CartsOK, NoCart, At
<1>4. CartSoldOnce
  BY DEF CartSoldOnce, Consumers, NoCart
<1>5. PostedKeys = {}
  BY DEF LedgerEmpty, PostedKeys
<1>6. EntriesOK
  BY <1>5 DEF EntriesOK, BooksOf
<1>7. VoidsOK
  BY DEF VoidsOK, Of
<1>8. JournalOK /\ BooksFinite /\ PostingsOK
  <2>1. Booked = {} /\ SettledIds = {} /\ IsFiniteSet({})
    BY <1>5, FS_EmptySet DEF Booked, SettledIds
  <2>2. QED
    BY <1>5, <2>1 DEF JournalOK, BooksFinite, PostingsOK
<1>9. AccountsAddUp
  <2>1. Booked = {} /\ SettledIds = {}
    BY <1>5 DEF Booked, SettledIds
  <2>2. \A F : SumFunctionOnSet(F, {}) = 0
    BY SumEmpty
  <2>3. \A account : Balance(account) = 0
    BY <1>5, <2>2 DEF Balance, SumOver
  <2>4. SumFunctionOnSet(RetainedOf, Booked) = 0 /\ SumFunctionOnSet(OwedOf, Booked) = 0
        /\ SumFunctionOnSet(RevenueOf, Booked) = 0 /\ SumFunctionOnSet(TaxOf, Booked) = 0
        /\ SumFunctionOnSet(AmountOf, SettledIds) = 0
    BY <2>1, <2>2
  <2>5. QED
    BY <2>3, <2>4 DEF AccountsAddUp
<1>10. QED
  BY <1>1, <1>2, <1>3, <1>4, <1>6, <1>7, <1>8, <1>9 DEF PosIInv

\* Every step keeps it.
LEMMA PosNextIInv == PosIInv /\ [PosNext]_posVars => PosIInv'
BY PosTypeStep, RequestsStep, OneOwnerStep, GoodsStep, CartsStep, CartSoldStep, BooksEffect, VoidsStep,
   BooksStep, PostingsStep
   DEF PosIInv

\* The inductive invariant holds throughout.
LEMMA PosInvariant == PosSpec => []PosIInv
BY PosInitIInv, PosNextIInv, PTL DEF PosSpec

-------------------------------------------------------------------------------
(* What the registers can rely on *)

\* However often registers repeat a checkout, and wherever its requests stop,
\* ingest() moves its goods at most once, and its status says whether it did.
THEOREM GoodsMoveOnce == PosSpec => []MovedOnce
BY PosInvariant, PTL DEF PosIInv

\* ingest() sells a suspended cart to one checkout, the one the cart names, as
\* long as no request saves the cart from an outdated load.
THEOREM CartsAreSoldOnce == PosSpec => []CartSoldOnce
BY PosInvariant, PTL DEF PosIInv

\* Once every voidCheckout() of a checkout is done, its sale is reversed in the
\* books, unless a void overlapped an ingestion.
THEOREM VoidsAreReversed == PosSpec => []VoidedIsReversed
<1>1. PosIInv => VoidedIsReversed
  <2> SUFFICES ASSUME PosIInv, NEW k \in Checkouts, checkouts[k] = "VOIDED", ~overlapped[k],
                      \A r \in Of(k, "void") : requests[r].step = "done", SaleKey(k) \in PostedKeys
               PROVE  entries[SaleKey(k)].reversedBy = VoidKey(k)
    BY DEF VoidedIsReversed
  <2>1. PICK r \in Of(k, "void") : At(r, "done")
    BY DEF PosIInv, VoidsOK, At
  <2>2. BooksOf(k) # "booked"
    BY <2>1 DEF PosIInv, VoidsOK
  <2>3. QED
    BY <2>2 DEF PosIInv, EntriesOK, BooksOf
<1>2. QED
  BY <1>1, PosInvariant, PTL

\* What balance() reports is what the checkouts in force and the settlements add
\* up to, whatever amounts registers send and wherever their requests stop.
THEOREM AccountsAreExplained == PosSpec => []AccountsAgree
<1>1. PosIInv => AccountsAgree
  BY AccountsMean DEF PosIInv
<1>2. QED
  BY <1>1, PosInvariant, PTL

\* A cash sale or return whose requests all ended is in the books, unless it is
\* overpaid and names no change, or is taxed above its total.
THEOREM CheckoutsReachTheBooks == PosSpec => []ProcessedIsBooked
<1>1. PosIInv => ProcessedIsBooked
  <2> SUFFICES ASSUME PosIInv, NEW k \in Checkouts, movements[k] = 1, Bookable(k),
                      \A r \in Of(k, "ingest") : requests[r].step \in {"done"}
               PROVE  SaleKey(k) \in PostedKeys
    BY DEF ProcessedIsBooked, Bookable
  <2>1. \A r \in Of(k, "ingest") : requests[r].step \notin Unposted
    BY DEF Unposted
  <2>2. QED
    BY <2>1 DEF PosIInv, PostingsOK
<1>2. QED
  BY <1>1, PosInvariant, PTL

\* The empty shop keeps the promise.
LEMMA PromiseInit == PosInit => Promise!GoodsInit
<1> SUFFICES ASSUME PosInit PROVE Promise!GoodsInit
  OBVIOUS
<1>1. \A k \in Checkouts : GoodsOf(k) = 0 /\ BooksOf(k) = "none"
  BY DEF PosInit, GoodsOf, BooksOf, LedgerEmpty, PostedKeys
<1>2. QED
  BY <1>1 DEF Promise!GoodsInit

\* Every step of a register or a request is one of the promised ones, or none.
LEMMA PromiseStep == PosIInv /\ [PosNext]_posVars => [Promise!GoodsNext]_(Promise!goodsVars)
<1> SUFFICES ASSUME PosIInv, [PosNext]_posVars PROVE [Promise!GoodsNext]_(Promise!goodsVars)
  OBVIOUS
<1> USE PosAssumption DEF PosIInv
<1>1. /\ movements \in [Checkouts -> Nat] /\ movements' \in [Checkouts -> Nat]
  BY PosTypeStep DEF PosTypeOK
<1>2. ASSUME NEW r \in Requests, Process(r), NEW k \in Checkouts, k = requests[r].checkout
      PROVE  Promise!MoveGoods(k)
  <2>1. At(r, "process") /\ movements[k] = 0
    BY <1>2 DEF Process, GoodsOK, At
  <2>2. movements' = [movements EXCEPT ![k] = 1]
    <3>1. movements[k] + 1 = 1
      BY <2>1
    <3>2. movements' = [movements EXCEPT ![k] = movements[k] + 1]
      BY <1>2 DEF Process
    <3>3. QED
      BY <3>1, <3>2
  <2>3. Dto[k].source # None => Dto[k].source \in Checkouts /\ movements[Dto[k].source] = 1
    BY <1>2, <2>1 DEF GoodsOK
  <2>4. \A j \in Checkouts : BooksOf(j)' = BooksOf(j)
    BY <1>2 DEF Process, BooksOf, PostedKeys
  <2>5. QED
    BY <1>1, <2>1, <2>2, <2>3, <2>4 DEF Promise!MoveGoods, GoodsOf
<1>3. ASSUME NEW r \in Requests, PostSale(r), At(r, "post"), NEW k \in Checkouts, k = requests[r].checkout,
             \A j \in Checkouts \ {k} : BooksOf(j)' = BooksOf(j),
             BooksOf(k) = "none", BooksOf(k)' = "booked"
      PROVE  Promise!Book(k)
  <2>1. movements[k] = 1 /\ UNCHANGED movements
    BY <1>3 DEF PostSale, GoodsOK, At
  <2>2. QED
    BY <1>3, <2>1 DEF Promise!Book, GoodsOf
<1>4. ASSUME NEW r \in Requests, ReverseSale(r), NEW k \in Checkouts,
             \A j \in Checkouts \ {k} : BooksOf(j)' = BooksOf(j),
             BooksOf(k) = "booked", BooksOf(k)' = "reversed"
      PROVE  Promise!Unbook(k)
  BY <1>4 DEF Promise!Unbook, GoodsOf, ReverseSale
<1>5. CASE \E r \in Requests : Process(r)
  BY <1>2, <1>5 DEF Promise!GoodsNext, Process, At, IngestSteps, PosTypeOK, RequestsOK
<1>6. CASE ~\E r \in Requests : Process(r)
  <2>1. UNCHANGED movements
    BY <1>6, FirstEffect DEF PosNext, posVars, RequestStep, InsertCheckout, AssertUsable, Refuse, Fail,
         PostSale, PostCogs, PostingFails, UpdateVoided, ReverseSale, ReversalFails, Crash, SettleReceivable
  <2>2. CASE \A j \in Checkouts : BooksOf(j)' = BooksOf(j)
    BY <2>1, <2>2 DEF Promise!goodsVars, GoodsOf
  <2>3. CASE ~\A j \in Checkouts : BooksOf(j)' = BooksOf(j)
    BY <1>3, <1>4, <2>3, BooksEffect DEF Promise!GoodsNext
  <2>4. QED
    BY <2>2, <2>3
<1>7. QED
  BY <1>5, <1>6

\* PosCheckoutService implements GoodsAndBooks: goods move at most once, those of
\* a return after the sale's, and a checkout is booked at most once, after its
\* goods have moved, and unbooked at most once.
THEOREM CheckoutsKeepPromise == PosSpec => KeepsPromise
<1>1. PosSpec => []PosIInv
  BY PosInvariant
<1>2. QED
  BY <1>1, PromiseInit, PromiseStep, PTL DEF PosSpec, KeepsPromise, Promise!GoodsSpec
=============================================================================
