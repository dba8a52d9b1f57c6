----------------------------- MODULE VendorPayouts -----------------------------
(***************************************************************************)
(* The automatic EBIRR payouts of OrdersService: once an order item's      *)
(* vendor was credited, the provider pays him and his wallet is debited.   *)
(* Every attempt leaves a row in payout_log; an admin may retry a FAILED   *)
(* one and reconcile one whose debit failed.  The handlers share the       *)
(* requests and the wallets of Wallets.                                    *)
(***************************************************************************)
EXTENDS Wallets, Sequences

CONSTANTS
  PayoutItems,      \* order items to be paid out
  PayoutOf,         \* the amount of each
  VendorOf,         \* its vendor
  MaxLogs           \* bound: rows of payout_log of an item

ASSUME VendorPayoutsAssumption ==
  /\ PayoutOf \in [PayoutItems -> Nat \ {0}] /\ VendorOf \in [PayoutItems -> Users]
  /\ PayoutItems \cap (TopUps \cup Withdrawals) = {} /\ MaxLogs \in Nat

VARIABLES
  payoutLogs,       \* the rows of each item, oldest first
  \* history
  paidOut,          \* how often the provider paid an item
  itemDebits,       \* how often its vendor's wallet was debited for it
  attemptsCrossed,  \* two handlers of an item overlapped
  attemptCut        \* a handler died, or the provider's answer was lost

payoutVars == <<payoutLogs, paidOut, itemDebits, attemptsCrossed, attemptCut>>
allVars == <<walletVars, payoutVars>>

PayoutsInit ==
  /\ WalletsInit
  /\ payoutLogs = [i \in PayoutItems |-> <<>>]
  /\ paidOut = [i \in PayoutItems |-> 0]
  /\ itemDebits = [i \in PayoutItems |-> 0]
  /\ attemptsCrossed = [i \in PayoutItems |-> FALSE]
  /\ attemptCut = [i \in PayoutItems |-> FALSE]

PayoutLog(status) == [status |-> status, reconcile |-> FALSE]
Latest(i) == payoutLogs[i][Len(payoutLogs[i])]
Attempted(i) == payoutLogs[i] # <<>>
SomeLog(i, log) == \E n \in DOMAIN payoutLogs[i] : payoutLogs[i][n] = log

LoadItem(r, i, task) ==
  /\ At(r, "idle")
  /\ Become(r, [Idle EXCEPT !.task = task, !.of = i])
  /\ attemptsCrossed' = [attemptsCrossed EXCEPT ![i] = @ \/ HandlingNow(i) # {}]
  /\ UNCHANGED <<walletTables, walletHistory, payoutLogs, paidOut, itemDebits, attemptCut>>

\* tryAutoEbirrPayoutForItem, after the payment was credited, or from
\* retryFailedAutoPayout for a FAILED row: the item's latest row decides.
MayTry(i) ==
  IF Attempted(i)
  THEN SomeLog(i, PayoutLog("FAILED")) /\ Latest(i).status = "FAILED"
  ELSE transactions[VendorOf[i]] > 0

TryPayout(r, i) == MayTry(i) /\ LoadItem(r, i, "logPayout")

\* A vendor without a phone number gets a FAILED row.
TryWithoutPhone(r, i) ==
  /\ MayTry(i) /\ At(r, "idle") /\ Len(payoutLogs[i]) < MaxLogs
  /\ payoutLogs' = [payoutLogs EXCEPT ![i] = Append(@, PayoutLog("FAILED"))]
  /\ End(r)
  /\ UNCHANGED <<walletTables, walletHistory, paidOut, itemDebits, attemptsCrossed, attemptCut>>

LogPayout(r) ==
  LET i == workers[r].of
  IN  /\ At(r, "logPayout") /\ Len(payoutLogs[i]) < MaxLogs
      /\ payoutLogs' = [payoutLogs EXCEPT ![i] = Append(@, PayoutLog("PENDING"))]
      /\ Become(r, [workers[r] EXCEPT !.task = "sendPayout", !.seen = Len(payoutLogs[i]) + 1])
      /\ UNCHANGED <<walletTables, walletHistory, paidOut, itemDebits, attemptsCrossed, attemptCut>>

\* sendPayout: the provider pays, refuses, or pays and is not heard.
SendItemPayout(r) ==
  LET i == workers[r].of
  IN  /\ At(r, "sendPayout")
      /\ \/ /\ paidOut' = [paidOut EXCEPT ![i] = @ + 1]
            /\ Goto(r, "savePayout")
            /\ UNCHANGED attemptCut
         \/ /\ paidOut' = [paidOut EXCEPT ![i] = @ + 1]
            /\ Goto(r, "failPayout")
            /\ attemptCut' = [attemptCut EXCEPT ![i] = TRUE]
         \/ Goto(r, "failPayout") /\ UNCHANGED <<paidOut, attemptCut>>
      /\ UNCHANGED <<walletTables, walletHistory, payoutLogs, itemDebits, attemptsCrossed>>

\* The outcome is saved; failPayout is the outer catch's save.
SavePayout(r) ==
  LET w == workers[r]
  IN  /\ w.task \in {"savePayout", "failPayout"}
      /\ payoutLogs' = [payoutLogs EXCEPT ![w.of][w.seen] =
                          PayoutLog(IF w.task = "savePayout" THEN "SUCCESS" ELSE "FAILED")]
      /\ IF w.task = "savePayout" THEN Goto(r, "debitPayout") ELSE End(r)
      /\ UNCHANGED <<walletTables, walletHistory, paidOut, itemDebits, attemptsCrossed, attemptCut>>

CanDebit(i) == balance[VendorOf[i]] >= PayoutOf[i]
DebitItem(i) ==
  /\ Move(VendorOf[i], -PayoutOf[i])
  /\ itemDebits' = [itemDebits EXCEPT ![i] = @ + 1]

\* debitWallet; when it refuses, the row asks for reconciliation ...
DebitPayout(r) ==
  LET w == workers[r]
  IN  /\ At(r, "debitPayout")
      /\ IF CanDebit(w.of)
         THEN DebitItem(w.of) /\ End(r) /\ UNCHANGED payoutLogs
         ELSE /\ payoutLogs' = [payoutLogs EXCEPT ![w.of][w.seen].reconcile = TRUE]
              /\ Goto(r, "logRefusal")
              /\ UNCHANGED <<balance, transactions, meant, clawedBack, clawedSince, stale,
                             everStale, itemDebits>>
      /\ UNCHANGED <<topUps, withdrawals, effects, payouts, crossed, interrupted,
                     paidOut, attemptsCrossed, attemptCut>>

\* ... and a FAILED row is written after it (logPayout).
LogRefusal(r) ==
  LET i == workers[r].of
  IN  /\ At(r, "logRefusal")
      /\ payoutLogs' = [payoutLogs EXCEPT ![i] = Append(@, PayoutLog("FAILED"))]
      /\ End(r)
      /\ UNCHANGED <<walletTables, walletHistory, paidOut, itemDebits, attemptsCrossed, attemptCut>>

\* The outer catch: a save that fails after the provider paid makes the payout
\* FAILED, whatever was saved before.
WriteFails(r) ==
  /\ workers[r].task \in {"savePayout", "debitPayout", "logRefusal"}
  /\ Goto(r, "failPayout")
  /\ attemptCut' = [attemptCut EXCEPT ![workers[r].of] = TRUE]
  /\ UNCHANGED <<walletTables, walletHistory, payoutLogs, paidOut, itemDebits, attemptsCrossed>>

\* reconcilePayoutDebitException.
LoadForReconciliation(r, i) ==
  /\ \E n \in DOMAIN payoutLogs[i] :
       /\ payoutLogs[i][n].status = "SUCCESS" /\ payoutLogs[i][n].reconcile
       /\ At(r, "idle")
       /\ Become(r, [Idle EXCEPT !.task = IF itemDebits[i] > 0 THEN "clearException" ELSE "debitException",
                                 !.of = i, !.seen = n])
  /\ attemptsCrossed' = [attemptsCrossed EXCEPT ![i] = @ \/ HandlingNow(i) # {}]
  /\ UNCHANGED <<walletTables, walletHistory, payoutLogs, paidOut, itemDebits, attemptCut>>

\* Mutant: the exception is closed although the wallet could not be debited.
DebitExceptionAnyway(r) ==
  LET i == workers[r].of
  IN  /\ At(r, "debitException")
      /\ Goto(r, "clearException")
      /\ UNCHANGED <<walletTables, walletHistory, payoutVars>>

DebitException(r) ==
  LET i == workers[r].of
  IN  /\ At(r, "debitException")
      /\ IF CanDebit(i)
         THEN DebitItem(i) /\ Goto(r, "clearException")
         ELSE End(r) /\ UNCHANGED <<balance, transactions, meant, clawedBack, clawedSince, stale,
                                    everStale, itemDebits>>
      /\ UNCHANGED <<topUps, withdrawals, effects, payouts, crossed, interrupted,
                     payoutLogs, paidOut, attemptsCrossed, attemptCut>>

ClearException(r) ==
  LET w == workers[r]
  IN  /\ w.task = "clearException"
      /\ payoutLogs' = [payoutLogs EXCEPT ![w.of][w.seen].reconcile = FALSE]
      /\ End(r)
      /\ UNCHANGED <<walletTables, walletHistory, paidOut, itemDebits, attemptsCrossed, attemptCut>>

ItemTasks == {"logPayout", "sendPayout", "savePayout", "failPayout", "debitPayout",
              "logRefusal", "debitException", "clearException"}

\* The process dies.
PayoutCrash(r) ==
  /\ workers[r].task \in ItemTasks
  /\ attemptCut' = [attemptCut EXCEPT ![workers[r].of] = TRUE]
  /\ End(r)
  /\ UNCHANGED <<walletTables, walletHistory, payoutLogs, paidOut, itemDebits, attemptsCrossed>>

PayoutStep(r) ==
  \/ \E i \in PayoutItems : TryPayout(r, i) \/ TryWithoutPhone(r, i) \/ LoadForReconciliation(r, i)
  \/ LogPayout(r) \/ SendItemPayout(r) \/ SavePayout(r) \/ DebitPayout(r)
  \/ LogRefusal(r) \/ WriteFails(r) \/ DebitException(r) \/ ClearException(r) \/ PayoutCrash(r)

PayoutsNext ==
  \/ \E t \in TopUps : RequestTopUp(t) /\ UNCHANGED payoutVars
  \/ \E w \in Withdrawals : RequestWithdrawal(w) /\ UNCHANGED payoutVars
  \/ \E r \in Workers :
       \/ workers[r].task \notin ItemTasks /\ WorkerStep(r) /\ UNCHANGED payoutVars
       \/ PayoutStep(r)

PayoutsSpec == PayoutsInit /\ [][PayoutsNext]_allVars

-------------------------------------------------------------------------------
(* Correctness *)

Flagged(i) == {n \in DOMAIN payoutLogs[i] : payoutLogs[i][n].reconcile}

\* An item's payouts reach the books: as long as no two handlers of the item
\* overlapped and none was cut off, the vendor's wallet is never debited more
\* often than the provider paid; once nobody is at work the debits and the
\* flagged payouts together are no more than were paid and, until the first
\* debit, every payout is flagged.  After it one may be missing: a retry pays
\* an item again whose debit failed, and reconciliation takes the debit of
\* either payout for that of both.
PayoutsReachTheBooks ==
  \A i \in PayoutItems : ~attemptsCrossed[i] /\ ~attemptCut[i] =>
    /\ itemDebits[i] <= paidOut[i]
    /\ HandlingNow(i) = {} =>
         /\ itemDebits[i] + Cardinality(Flagged(i)) <= paidOut[i]
         /\ itemDebits[i] = 0 => Cardinality(Flagged(i)) = paidOut[i]

=============================================================================
