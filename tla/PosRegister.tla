------------------------------ MODULE PosRegister ------------------------------
(***************************************************************************)
(* PosRegisterService: register sessions and suspended carts of a branch.  *)
(* Every handler loads an entity without a lock or a transaction, checks   *)
(* and changes it in memory and saves it: Load... and Save are two steps.  *)
(* save() writes every column in which the entity differs from the row it  *)
(* then finds, so that a stale entity overwrites what others saved.        *)
(***************************************************************************)
EXTENDS Integers, FiniteSets

CONSTANTS
  Sessions,     \* register sessions that may be opened
  RegisterOf,   \* the register of each session
  Carts,        \* suspended carts that may be created (one per clientRef)
  Clerks,       \* requests to the register service
  Checkouts,    \* checkouts that may consume a cart
  None

VARIABLES
  sessions,    \* status of every register session
  carts,       \* table pos_suspended_carts
  editing,     \* what each clerk's request has in memory
  staleCart    \* history: a cart was saved over a version not loaded

registerVars == <<sessions, carts, editing, staleCart>>

SessionStatus == {"NONE", "OPEN", "CLOSED"}
CartStatus == {"NONE", "SUSPENDED", "RESUMED", "DISCARDED"}

\* consumedBy is metadata.consumedByCheckoutId.
Cart == [status : CartStatus, session : Sessions \cup {None}, consumedBy : Checkouts \cup {None}]
NoCart == [status |-> "NONE", session |-> None, consumedBy |-> None]

Edit == [what : {"session"}, id : Sessions, entity : SessionStatus]
          \cup [what : {"cart"}, id : Carts, loaded : Cart, entity : Cart]

RegisterInit ==
  /\ sessions = [s \in Sessions |-> "NONE"]
  /\ carts = [c \in Carts |-> NoCart]
  /\ editing = [w \in Clerks |-> None]
  /\ staleCart = [c \in Carts |-> FALSE]

Load(w, edit) ==
  /\ editing[w] = None
  /\ editing' = [editing EXCEPT ![w] = edit]
  /\ UNCHANGED <<sessions, carts, staleCart>>

LoadSession(w, s, entity) == Load(w, [what |-> "session", id |-> s, entity |-> entity])
LoadCart(w, c, entity) ==
  Load(w, [what |-> "cart", id |-> c, loaded |-> carts[c], entity |-> entity])

OpenSessions(registers) == {s \in Sessions : sessions[s] = "OPEN" /\ RegisterOf[s] \in registers}

\* openSession: an open session of the register (of the branch, for a shared
\* session) is returned instead.
OpenSession(w, s) ==
  /\ sessions[s] = "NONE"
  /\ \E shared \in BOOLEAN :
       OpenSessions(IF shared THEN {RegisterOf[z] : z \in Sessions} ELSE {RegisterOf[s]}) = {}
  /\ LoadSession(w, s, "OPEN")

CloseSession(w, s) ==
  /\ sessions[s] = "OPEN"
  /\ LoadSession(w, s, "CLOSED")

\* suspendCart: a cart of the same clientRef is returned instead.
SuspendCart(w, c) ==
  /\ carts[c].status = "NONE"
  /\ \E s \in {z \in Sessions : sessions[z] = "OPEN"} \cup {None} :
       LoadCart(w, c, [status |-> "SUSPENDED", session |-> s, consumedBy |-> None])

ResumeSuspendedCart(w, c) ==
  /\ carts[c].status = "SUSPENDED"
  /\ LoadCart(w, c, [carts[c] EXCEPT !.status = "RESUMED"])

DiscardSuspendedCart(w, c) ==
  /\ carts[c].status = "SUSPENDED"
  /\ LoadCart(w, c, [carts[c] EXCEPT !.status = "DISCARDED"])

\* updateSuspendedCart, ackKitchenCancellations: what they change is not
\* modelled, but they save the whole cart as they loaded it.
UpdateSuspendedCart(w, c) ==
  /\ carts[c].status = "SUSPENDED"
  /\ LoadCart(w, c, carts[c])

SaveSession(w) ==
  /\ editing[w] # None
  /\ editing[w].what = "session"
  /\ sessions' = [sessions EXCEPT ![editing[w].id] = editing[w].entity]
  /\ editing' = [editing EXCEPT ![w] = None]
  /\ UNCHANGED <<carts, staleCart>>

\* A cart row as save(entity) leaves it, and whether the entity was outdated.
CartSaved(c, loaded, entity) ==
  /\ carts' = [carts EXCEPT ![c] = entity]
  /\ staleCart' = [staleCart EXCEPT ![c] = @ \/ carts[c] # loaded]

\* A second cart of one clientRef meets the unique index.
SaveCart(w) ==
  /\ editing[w] # None
  /\ editing[w].what = "cart"
  /\ LET e == editing[w]
     IN  IF e.loaded.status = "NONE" /\ carts[e.id].status # "NONE"
         THEN UNCHANGED <<carts, staleCart>>
         ELSE CartSaved(e.id, e.loaded, e.entity)
  /\ editing' = [editing EXCEPT ![w] = None]
  /\ UNCHANGED sessions

RegisterStep(w) ==
  \/ \E s \in Sessions : OpenSession(w, s) \/ CloseSession(w, s)
  \/ \E c \in Carts : \/ SuspendCart(w, c) \/ ResumeSuspendedCart(w, c)
                      \/ DiscardSuspendedCart(w, c) \/ UpdateSuspendedCart(w, c)
  \/ SaveSession(w)
  \/ SaveCart(w)

RegisterTypeOK ==
  /\ sessions \in [Sessions -> SessionStatus]
  /\ carts \in [Carts -> Cart]
  /\ editing \in [Clerks -> Edit \cup {None}]
  /\ staleCart \in [Carts -> BOOLEAN]
=============================================================================
