--------------------------- MODULE BranchInventory ---------------------------
(***************************************************************************)
(* The row of table branch_inventory and the pure part of                  *)
(* InventoryLedgerService: what one ledger call computes from the row it   *)
(* has read.  Who reads, writes, locks and commits is the business of the  *)
(* modules that use these operators.                                       *)
(*                                                                         *)
(* Columns nothing in the application writes (reservedQuantity and         *)
(* reservedStoreOps, always 0) are left out; safetyStock is kept because   *)
(* the projection subtracts it, but no operation changes it.               *)
(***************************************************************************)
EXTENDS Sums

Row == [quantityOnHand    : Nat,
        reservedOnline    : Nat,
        inboundOpenPo     : Nat,
        outboundTransfers : Nat,
        safetyStock       : Nat,
        availableToSell   : Nat]

NonNegative(n) == IF n < 0 THEN 0 ELSE n

\* What a buyer can be promised: stock minus every reservation, never below 0.
AvailableToSell(row) ==
  NonNegative(row.quantityOnHand - row.reservedOnline
                - row.outboundTransfers - row.safetyStock)

\* Every ledger operation ends by recomputing availableToSell.
ApplyAvailabilityProjection(row) ==
  [row EXCEPT !.availableToSell = AvailableToSell(row)]

\* loadOrCreateInventory, the "not found" case.
NewRow(safety) ==
  [quantityOnHand |-> 0, reservedOnline |-> 0, inboundOpenPo |-> 0,
   outboundTransfers |-> 0, safetyStock |-> safety, availableToSell |-> 0]

\* Mutant: the balance is not checked.
MovementUnchecked(row, delta) == row.quantityOnHand + delta \in Int

\* recordMovement: refused (BadRequest) when the stock would go negative.
MovementAllowed(row, delta) == row.quantityOnHand + delta \in Nat

RecordMovement(row, delta) ==
  ApplyAvailabilityProjection([row EXCEPT !.quantityOnHand = @ + delta])

\* Mutant: availableToSell is left as it was.
AdjustBucketOnly(row, bucket, delta) == [row EXCEPT ![bucket] = @ + delta]

\* adjustProjectionBucket (adjustInboundOpenPo, adjustReservedOnline and
\* adjustOutboundTransfers): refused when the bucket would go negative.
BucketAllowed(row, bucket, delta) == row[bucket] + delta \in Nat

AdjustProjectionBucket(row, bucket, delta) ==
  ApplyAvailabilityProjection([row EXCEPT ![bucket] = @ + delta])

\* syncProductStockQuantity: product.stockQuantity becomes the sum of what the
\* product's branches can sell.
ProductStock(rows, branches, p) ==
  SumOver(branches, LAMBDA b : NonNegative(rows[b, p].availableToSell))

\* TypeORM's save() of a loaded entity: it selects what is stored, updates the
\* columns in which the entity differs from that, and leaves the others as they
\* are stored when the UPDATE runs.
Column(entity, selected, stored) == IF entity # selected THEN entity ELSE stored

SavedRecord(entity, selected, stored) ==
  [c \in DOMAIN entity |-> Column(entity[c], selected[c], stored[c])]
=============================================================================
