---------------------------- MODULE BranchTransfers ----------------------------
(***************************************************************************)
(* BranchTransfersService: stock that moves between two branches.  Every   *)
(* handler is one database transaction of InventoryLedger: it loads the    *)
(* transfer (without a lock), makes the ledger calls of the transfer's     *)
(* items and saves the transfer's next status.                             *)
(*                                                                         *)
(* Other callers of the ledger (sales, restocks) run beside the transfers: *)
(* they are the constant Programs of InventoryLedger.                      *)
(***************************************************************************)
EXTENDS InventoryLedger, SequencesExt

CONSTANTS
  TransferIds,          \* transfers that may be created
  TransferQuantities,   \* quantities of an item
  ReorderQuantity       \* units of a purchase order that replenishment submits

BranchTransferStatus == {"NONE", "REQUESTED", "DISPATCHED", "RECEIVED", "CANCELLED"}

\* What a handler works on: the transfer, its status when loaded, the next one.
Handling == [transfer : TransferIds, loaded : BranchTransferStatus,
             next : BranchTransferStatus]

\* Nobody else calls adjustOutboundTransfers; rows of tables are finitely many.
ASSUME TransfersAssumption ==
  /\ TransferQuantities \subseteq Nat \ {0}
  /\ ReorderQuantity \in Nat \ {0}
  /\ None \notin Handling
  /\ IsFiniteSet(Products) /\ IsFiniteSet(TransferIds)
  /\ \A g \in Programs : \A n \in DOMAIN g.calls : g.calls[n].column # "outboundTransfers"

VARIABLES
  transfers,     \* tables branch_transfers and branch_transfer_items
  handling,      \* the transfer a transaction has loaded, None for other callers
  staleTransfer  \* history: a transfer was saved over a status not loaded

transferVars == <<transfers, handling, staleTransfer>>
allVars == <<ledgerVars, transferVars>>

\* One item per product: duplicates are refused and the index is unique.
BranchTransfer == [status : BranchTransferStatus, from : Branches, to : Branches,
                   items  : UNION {[P -> TransferQuantities] : P \in SUBSET Products}]

NoTransfer == [status |-> "NONE", from |-> CHOOSE b \in Branches : TRUE,
               to |-> CHOOSE b \in Branches : TRUE, items |-> <<>>]

TransfersInit ==
  /\ LedgerInit
  /\ transfers = [id \in TransferIds |-> NoTransfer]
  /\ handling = [t \in Transactions |-> None]
  /\ staleTransfer = [id \in TransferIds |-> FALSE]

\* create: one insert, after assertTransferDraftIsValid.
Create(id) ==
  /\ transfers[id].status = "NONE"
  /\ \E from, to \in Branches, P \in SUBSET Products \ {{}} :
       \E items \in [P -> TransferQuantities] :
         /\ from # to
         /\ transfers' = [transfers EXCEPT ![id] =
              [status |-> "REQUESTED", from |-> from, to |-> to, items |-> items]]
  /\ UNCHANGED <<ledgerVars, handling, staleTransfer>>

-------------------------------------------------------------------------------
(* The ledger calls of a handler *)

\* maybeCreateDraftPurchaseOrder: a draft that is submitted at once adds its
\* lines to the inbound units of the branch, in the same transaction.  Whether
\* it is, and what else the draft orders, depends on the branch's policy and on
\* the supplier's offers.
Reorders ==
  [p \in Products |-> {<<>>} \cup UNION {SetToSeqs(P) : P \in {Q \in SUBSET Products : p \in Q}}]

Reorder(branch, lines) ==
  [n \in DOMAIN lines |-> InCall("inboundOpenPo", branch, lines[n], ReorderQuantity)]

\* Mutant: what is available is not checked.
DispatchUnchecked(transfer, p) ==
  {<<InCall("outboundTransfers", transfer.from, p, transfer.items[p])>>
     \o Reorder(transfer.from, lines) : lines \in Reorders[p]}

DispatchItem(transfer, p) ==
  {<<InCall("availableToSell",   transfer.from, p, transfer.items[p]),
     InCall("outboundTransfers", transfer.from, p, transfer.items[p])>>
     \o Reorder(transfer.from, lines) : lines \in Reorders[p]}

\* Mutant: the units leave the origin at dispatch's reservation only.
ReceiveWithoutOrigin(transfer, p) ==
  {<<InCall("outboundTransfers", transfer.from, p, -transfer.items[p]),
     InCall("quantityOnHand",    transfer.to,   p, transfer.items[p])>>}

ReceiveItem(transfer, p) ==
  {<<InCall("outboundTransfers", transfer.from, p, -transfer.items[p]),
     InCall("quantityOnHand",    transfer.from, p, -transfer.items[p]),
     InCall("quantityOnHand",    transfer.to,   p, transfer.items[p])>>}

CancelItem(transfer, p) ==
  {<<InCall("outboundTransfers", transfer.from, p, -transfer.items[p])>>}

\* The items are loaded in no particular order, and handled one after the other.
Concatenations(firsts, rests) == {first \o rest : first \in firsts, rest \in rests}

Calls(ofItem) ==
  LET ofItems[P \in SUBSET DOMAIN ofItem] ==
        IF P = {} THEN {<<>>}
        ELSE UNION {Concatenations(ofItem[p], ofItems[P \ {p}]) : p \in P}
  IN  ofItems[DOMAIN ofItem]

Handle(t, id, next, programs) ==
  /\ \E calls \in programs : Begin(t, [atomic |-> TRUE, calls |-> calls])
  /\ handling' = [handling EXCEPT
       ![t] = [transfer |-> id, loaded |-> transfers[id].status, next |-> next]]
  /\ UNCHANGED <<transfers, staleTransfer>>

Dispatch(t, id) ==
  LET transfer == transfers[id]
  IN  /\ transfer.status = "REQUESTED"
      /\ Handle(t, id, "DISPATCHED",
                Calls([p \in DOMAIN transfer.items |-> DispatchItem(transfer, p)]))

Receive(t, id) ==
  LET transfer == transfers[id]
  IN  /\ transfer.status = "DISPATCHED"
      /\ Handle(t, id, "RECEIVED",
                Calls([p \in DOMAIN transfer.items |-> ReceiveItem(transfer, p)]))

\* Mutant: the reservation of a dispatched transfer is kept.
CancelKeeping(t, id) ==
  /\ transfers[id].status \in {"REQUESTED", "DISPATCHED"}
  /\ Handle(t, id, "CANCELLED", {<<>>})

Cancel(t, id) ==
  LET transfer == transfers[id]
  IN  /\ transfer.status \in {"REQUESTED", "DISPATCHED"}
      /\ Handle(t, id, "CANCELLED",
                IF transfer.status = "DISPATCHED"
                THEN Calls([p \in DOMAIN transfer.items |-> CancelItem(transfer, p)])
                ELSE {<<>>})

\* save(transfer), which always writes the status, and the commit.
SaveTransfer(t) ==
  LET h == handling[t]
  IN  /\ h # None
      /\ Commit(t)
      /\ transfers' = [transfers EXCEPT ![h.transfer].status = h.next]
      /\ staleTransfer' = [staleTransfer EXCEPT
           ![h.transfer] = @ \/ transfers[h.transfer].status # h.loaded]
      /\ UNCHANGED handling

OtherCaller(t) ==
  /\ \/ \E program \in Programs : Begin(t, program)
     \/ handling[t] = None /\ Commit(t)
  /\ UNCHANGED transferVars

TransfersNext ==
  \/ \E id \in TransferIds : Create(id)
  \/ \E t \in Transactions :
       \/ \E id \in TransferIds : Dispatch(t, id) \/ Receive(t, id) \/ Cancel(t, id)
       \/ SaveTransfer(t)
       \/ OtherCaller(t)
       \/ CallStep(t) /\ UNCHANGED transferVars
       \/ Rollback(t) /\ UNCHANGED transferVars

TransfersSpec == TransfersInit /\ [][TransfersNext]_allVars

-------------------------------------------------------------------------------
(* Properties *)

Receipts(id) ==
  {t \in Transactions : /\ transactions[t].status = "committed"
                        /\ handling[t] # None
                        /\ handling[t].transfer = id
                        /\ handling[t].next = "RECEIVED"}

\* A transfer moves its units when it is received and only then: one pair of
\* movements per item, unless two handlers of the transfer overlapped.
MovedWhenReceived ==
  \A id \in TransferIds : ~staleTransfer[id] =>
    \A p \in DOMAIN transfers[id].items :
      \A b \in Branches :
        SumOver({e \in stockMovements : e.transaction \in Receipts(id) /\ e.row = <<b, p>>},
                LAMBDA e : e.delta)
          = IF transfers[id].status # "RECEIVED" THEN 0
            ELSE CASE b = transfers[id].from -> -transfers[id].items[p]
                   [] b = transfers[id].to   -> transfers[id].items[p]
                   [] OTHER -> 0

\* However handlers overlap and fail, transfers create and destroy no unit: what
\* left one branch arrived in another.
TransfersConserveUnits ==
  \A p \in Products :
    SumOver({e \in stockMovements : e.row[2] = p /\ handling[e.transaction] # None},
            LAMBDA e : e.delta) = 0

\* outboundTransfers holds exactly the units that are on their way, unless
\* handlers of a transfer, or two calls on the row, overlapped.
OutboundMatchesDispatched ==
  \A k \in Keys :
    LET leaving == {id \in TransferIds : /\ transfers[id].from = k[1]
                                         /\ k[2] \in DOMAIN transfers[id].items}
    IN  ~staleRow[k] /\ (\A id \in leaving : ~staleTransfer[id]) =>
          OrNew(inventory[k]).outboundTransfers =
            OrNew(InitialRows[k]).outboundTransfers
              + SumOver({id \in leaving : transfers[id].status = "DISPATCHED"},
                        LAMBDA id : transfers[id].items[k[2]])

\* Units that a branch lacked at the start to cover what was reserved there.
InitialShortfall(k) ==
  LET row == OrNew(InitialRows[k])
  IN  NonNegative(row.outboundTransfers + row.safetyStock - row.quantityOnHand)

\* Movements of sales and other callers that took units from a row.
TakenByOthers(k) ==
  {e \in stockMovements : e.row = k /\ handling[e.transaction] = None /\ e.delta < 0}

\* A unit on its way is promised to no other transfer: as long as transactions do
\* not overlap, the stock of a branch covers the units it has dispatched and its
\* safety stock, up to what it lacked at the start and what others have sold.
UnitsOnTheirWayAreInStock ==
  ~disturbed =>
    \A k \in Keys : inventory[k] # None =>
      inventory[k].quantityOnHand + InitialShortfall(k)
          + SumOver(TakenByOthers(k), LAMBDA e : -e.delta)
        >= inventory[k].outboundTransfers + inventory[k].safetyStock

=============================================================================
