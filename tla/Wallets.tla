-------------------------------- MODULE Wallets --------------------------------
(***************************************************************************)
(* WalletService and WithdrawalsService: the balance a user sees, the      *)
(* transactions that explain it, top-ups and withdrawals.                  *)
(*                                                                         *)
(* debitWallet, payWithWallet and approveTopUp lock the wallet's row from  *)
(* their first read to their commit, so that each is one step here.        *)
(* creditWallet and getWallet, which recomputes the balance on every read, *)
(* do not lock: they read, and write what they computed later.             *)
(***************************************************************************)
EXTENDS Integers, FiniteSets

CONSTANTS
  Users,
  Workers,        \* requests: each runs one handler
  Credits,        \* amounts a handler credits; a negative one is a clawback
  Payments,       \* amounts paid from a wallet
  TopUps,         \* top-up requests that may be made
  Withdrawals,    \* withdrawals that may be requested
  AmountOf,       \* of each top-up and withdrawal
  UserOf,         \* likewise
  Methods,        \* payout methods: "EBIRR" is paid out by the server
  None

ASSUME WalletsAssumption ==
  /\ Credits \subseteq Int /\ Payments \subseteq Nat
  /\ AmountOf \in [TopUps \cup Withdrawals -> Nat]
  /\ UserOf \in [TopUps \cup Withdrawals -> Users]
  /\ TopUps \cap Withdrawals = {}

VARIABLES
  balance,        \* wallet.balance
  transactions,   \* the sum of a wallet's rows in wallet_transaction
  topUps,         \* status of every top-up request
  withdrawals,    \* status and method of every withdrawal
  workers,        \* what every request is doing
  \* history
  meant,          \* what the handlers that ended meant to add to each wallet
  clawedBack,     \* what they took back with a negative credit
  clawedSince,    \* what they took back since the balance was last recalculated
  effects,        \* how often each top-up was deposited, each withdrawal debited
  payouts,        \* how often the provider paid each withdrawal
  stale,          \* the balance was last written from an outdated read
  everStale,      \* it has ever been
  crossed,        \* two handlers of one top-up or withdrawal overlapped
  interrupted     \* an approval was cut short after it paid or debited

walletTables == <<balance, transactions, topUps, withdrawals>>
walletHistory == <<meant, clawedBack, clawedSince, effects, payouts, stale, everStale,
                   crossed, interrupted>>
walletVars == <<walletTables, workers, walletHistory>>

Papers == TopUps \cup Withdrawals
Idle == [task |-> "idle", of |-> None, seen |-> 0, amount |-> 0]

WalletsInit ==
  /\ balance = [u \in Users |-> 0]
  /\ transactions = [u \in Users |-> 0]
  /\ topUps = [t \in TopUps |-> "NONE"]
  /\ withdrawals = [w \in Withdrawals |-> [status |-> "NONE", method |-> None]]
  /\ workers = [r \in Workers |-> Idle]
  /\ meant = [u \in Users |-> 0]
  /\ clawedBack = [u \in Users |-> 0]
  /\ clawedSince = [u \in Users |-> 0]
  /\ effects = [p \in Papers |-> 0]
  /\ payouts = [w \in Withdrawals |-> 0]
  /\ stale = [u \in Users |-> FALSE]
  /\ everStale = [u \in Users |-> FALSE]
  /\ crossed = [p \in Papers |-> FALSE]
  /\ interrupted = [w \in Withdrawals |-> FALSE]

-------------------------------------------------------------------------------
(* Requests and rows *)

At(r, task) == workers[r].task = task
Done == [Idle EXCEPT !.task = "done"]
Become(r, work) == workers' = [workers EXCEPT ![r] = work]
Goto(r, task) == workers' = [workers EXCEPT ![r].task = task]
End(r) == Become(r, Done)

Abs(amount) == IF amount < 0 THEN -amount ELSE amount
Clawed(amount) == IF amount < 0 THEN -amount ELSE 0

\* Writes a balance that was computed from an earlier read.
WriteBalance(u, new, isStale) ==
  /\ balance' = [balance EXCEPT ![u] = new]
  /\ stale' = [stale EXCEPT ![u] = isStale]
  /\ everStale' = [everStale EXCEPT ![u] = @ \/ isStale]

Record(u, amount) == transactions' = [transactions EXCEPT ![u] = @ + amount]
Mean(u, amount) == meant' = [meant EXCEPT ![u] = @ + amount]

\* A transaction that holds the row's lock adds to what it has read.  It keeps
\* a balance that was already wrong as wrong as it was.
Move(u, amount) ==
  /\ balance' = [balance EXCEPT ![u] = @ + amount]
  /\ Record(u, amount)
  /\ Mean(u, amount)
  /\ UNCHANGED <<clawedBack, clawedSince, stale, everStale>>

-------------------------------------------------------------------------------
(* Wallets *)

\* creditWallet: the unlocked read.
ReadForCredit(r, u, amount) ==
  /\ At(r, "idle")
  /\ Become(r, [task |-> "credit", of |-> u, seen |-> balance[u], amount |-> amount])
  /\ UNCHANGED <<walletTables, walletHistory>>

\* The transaction row carries the absolute amount, the balance the signed one.
Credit(r) ==
  LET u == workers[r].of
  IN  /\ At(r, "credit")
      /\ WriteBalance(u, workers[r].seen + workers[r].amount,
                      stale[u] \/ balance[u] # workers[r].seen)
      /\ Record(u, Abs(workers[r].amount))
      /\ Mean(u, workers[r].amount)
      /\ clawedBack' = [clawedBack EXCEPT ![u] = @ + Clawed(workers[r].amount)]
      /\ clawedSince' = [clawedSince EXCEPT ![u] = @ + Clawed(workers[r].amount)]
      /\ End(r)
      /\ UNCHANGED <<topUps, withdrawals, effects, payouts, crossed, interrupted>>

\* payWithWallet and debitWallet for a purchase or a subscription.
Pay(r, u, amount) ==
  /\ At(r, "idle")
  /\ balance[u] >= amount
  /\ Move(u, -amount)
  /\ End(r)
  /\ UNCHANGED <<topUps, withdrawals, effects, payouts, crossed, interrupted>>

\* getWallet: the sum of the transactions is read now ...
ReadForBalance(r, u, next) ==
  /\ At(r, "idle")
  /\ Become(r, [task |-> next, of |-> u, seen |-> transactions[u], amount |-> 0])

GetWallet(r, u) ==
  /\ ReadForBalance(r, u, "recalculate")
  /\ UNCHANGED <<walletTables, walletHistory>>

\* ... and written later.
RecalculateBalance(r) ==
  LET u == workers[r].of
  IN  /\ At(r, "recalculate")
      /\ WriteBalance(u, workers[r].seen, transactions[u] # workers[r].seen)
      /\ clawedSince' = [clawedSince EXCEPT ![u] = 0]
      /\ End(r)
      /\ UNCHANGED <<transactions, topUps, withdrawals, meant, clawedBack, effects, payouts, crossed, interrupted>>

-------------------------------------------------------------------------------
(* Top-ups *)

HandlingNow(p) == {r \in Workers : workers[r].of = p}
Load(r, p, task) ==
  /\ At(r, "idle")
  /\ Become(r, [Idle EXCEPT !.task = task, !.of = p])
  /\ crossed' = [crossed EXCEPT ![p] = @ \/ HandlingNow(p) # {}]
  /\ UNCHANGED <<walletTables, meant, clawedBack, clawedSince, effects, payouts, stale,
                 everStale, interrupted>>

\* Mutant: a decision can be taken on a request that was already decided.
LoadAnyTopUp(r, t) ==
  /\ topUps[t] # "NONE"
  /\ \E task \in {"approveTopUp", "rejectTopUp"} : Load(r, t, task)

RequestTopUp(t) ==
  /\ topUps[t] = "NONE"
  /\ topUps' = [topUps EXCEPT ![t] = "PENDING"]
  /\ UNCHANGED <<balance, transactions, withdrawals, workers, walletHistory>>

LoadTopUp(r, t) ==
  /\ topUps[t] = "PENDING"
  /\ \E task \in {"approveTopUp", "rejectTopUp"} : Load(r, t, task)

\* approveTopUp: the status loaded before the transaction is not tested again.
ApproveTopUp(r) ==
  LET t == workers[r].of
  IN  /\ At(r, "approveTopUp")
      /\ topUps' = [topUps EXCEPT ![t] = "APPROVED"]
      /\ Move(UserOf[t], AmountOf[t])
      /\ effects' = [effects EXCEPT ![t] = @ + 1]
      /\ End(r)
      /\ UNCHANGED <<withdrawals, payouts, crossed, interrupted>>

RejectTopUp(r) ==
  /\ At(r, "rejectTopUp")
  /\ topUps' = [topUps EXCEPT ![workers[r].of] = "REJECTED"]
  /\ End(r)
  /\ UNCHANGED <<balance, transactions, withdrawals, walletHistory>>

-------------------------------------------------------------------------------
(* Withdrawals *)

\* requestWithdrawal reads the wallet through getWallet and reserves nothing.
RequestWithdrawal(w) ==
  /\ withdrawals[w].status = "NONE"
  /\ balance[UserOf[w]] >= AmountOf[w]
  /\ \E method \in Methods :
       withdrawals' = [withdrawals EXCEPT ![w] = [status |-> "PENDING", method |-> method]]
  /\ UNCHANGED <<balance, transactions, topUps, workers, walletHistory>>

LoadForApproval(r, w) ==
  /\ withdrawals[w].status = "PENDING"
  /\ Load(r, w, IF withdrawals[w].method = "EBIRR" THEN "pay" ELSE "debit")

LoadForRejection(r, w) ==
  /\ withdrawals[w].status = "PENDING"
  /\ Load(r, w, "reject")

\* sendPayout: the provider pays and says so, pays and is not heard, or refuses.
SendPayout(r) ==
  LET w == workers[r].of
  IN  /\ At(r, "pay")
      /\ \/ /\ payouts' = [payouts EXCEPT ![w] = @ + 1]
            /\ \/ Goto(r, "debit") /\ UNCHANGED interrupted
               \/ End(r) /\ interrupted' = [interrupted EXCEPT ![w] = TRUE]
         \/ End(r) /\ UNCHANGED <<payouts, interrupted>>
      /\ UNCHANGED <<walletTables, meant, clawedBack, clawedSince, effects, stale, everStale,
                     crossed>>

\* Mutant: the balance is not tested.
DebitAnyBalance(r) ==
  LET w == workers[r].of
  IN  /\ At(r, "debit")
      /\ Move(UserOf[w], -AmountOf[w])
      /\ effects' = [effects EXCEPT ![w] = @ + 1]
      /\ Goto(r, "approve")
      /\ UNCHANGED <<topUps, withdrawals, payouts, crossed, interrupted>>

\* debitWallet; a refusal leaves the withdrawal PENDING, paid or not.
Debit(r) ==
  LET w == workers[r].of
  IN  /\ At(r, "debit")
      /\ IF balance[UserOf[w]] >= AmountOf[w]
         THEN /\ Move(UserOf[w], -AmountOf[w])
              /\ effects' = [effects EXCEPT ![w] = @ + 1]
              /\ Goto(r, "approve")
              /\ UNCHANGED interrupted
         ELSE /\ End(r)
              /\ interrupted' = [interrupted EXCEPT ![w] = @ \/ payouts[w] > 0]
              /\ UNCHANGED <<balance, transactions, meant, clawedBack, clawedSince, stale,
                             everStale, effects>>
      /\ UNCHANGED <<topUps, withdrawals, payouts, crossed>>

\* Mutant: the status stays PENDING.
ApproveUnsaved(r) ==
  /\ At(r, "approve")
  /\ End(r)
  /\ UNCHANGED <<walletTables, walletHistory>>

SaveApproval(r) ==
  /\ At(r, "approve")
  /\ withdrawals' = [withdrawals EXCEPT ![workers[r].of].status = "APPROVED"]
  /\ End(r)
  /\ UNCHANGED <<balance, transactions, topUps, walletHistory>>

\* Mutant: a rejection gives back what was never taken.
RejectCrediting(r) ==
  LET w == workers[r].of
  IN  /\ At(r, "reject")
      /\ withdrawals' = [withdrawals EXCEPT ![w].status = "REJECTED"]
      /\ Record(UserOf[w], AmountOf[w])
      /\ balance' = [balance EXCEPT ![UserOf[w]] = @ + AmountOf[w]]
      /\ End(r)
      /\ UNCHANGED <<topUps, walletHistory>>

RejectWithdrawal(r) ==
  /\ At(r, "reject")
  /\ withdrawals' = [withdrawals EXCEPT ![workers[r].of].status = "REJECTED"]
  /\ End(r)
  /\ UNCHANGED <<balance, transactions, topUps, walletHistory>>

\* The process dies between two steps of a handler.
Crash(r) ==
  /\ workers[r].task \notin {"idle", "done"}
  /\ End(r)
  /\ interrupted' =
       IF At(r, "approve") \/ At(r, "debit")
       THEN [interrupted EXCEPT ![workers[r].of] = @ \/ At(r, "approve") \/ payouts[workers[r].of] > 0]
       ELSE interrupted
  /\ UNCHANGED <<walletTables, meant, clawedBack, clawedSince, effects, payouts, stale,
                 everStale, crossed>>

WorkerStep(r) ==
  \/ \E u \in Users :
       \/ \E amount \in Credits : ReadForCredit(r, u, amount)
       \/ \E amount \in Payments : Pay(r, u, amount)
       \/ GetWallet(r, u)
  \/ Credit(r) \/ RecalculateBalance(r)
  \/ \E t \in TopUps : LoadTopUp(r, t)
  \/ ApproveTopUp(r) \/ RejectTopUp(r)
  \/ \E w \in Withdrawals : LoadForApproval(r, w) \/ LoadForRejection(r, w)
  \/ SendPayout(r) \/ Debit(r) \/ SaveApproval(r) \/ RejectWithdrawal(r)
  \/ Crash(r)

WalletsNext ==
  \/ \E t \in TopUps : RequestTopUp(t)
  \/ \E w \in Withdrawals : RequestWithdrawal(w)
  \/ \E r \in Workers : WorkerStep(r)

WalletsSpec == WalletsInit /\ [][WalletsNext]_walletVars

-------------------------------------------------------------------------------
(* Correctness *)

\* Whatever handlers credit, debit, claw back, approve and reject at once, the
\* rows of a wallet add up to what they meant, but that creditWallet writes a
\* clawback as if it had been paid, twice its amount too much.  The balance is
\* short of the rows by exactly what the next recalculation will pay back,
\* unless an unlocked read-and-write (creditWallet, recalculateBalance)
\* overwrote a change it had not seen.
BalanceExplained ==
  \A u \in Users :
    /\ transactions[u] = meant[u] + 2 * clawedBack[u]
    /\ ~stale[u] => balance[u] = transactions[u] - 2 * clawedSince[u]

\* As long as no such write was lost, nobody spends money his wallet does not
\* show: the test under the row's lock (payWithWallet, debitWallet) is the only
\* one that counts, requestWithdrawal reserves nothing.  A balance is below
\* zero by no more than disputes took back since it was last recalculated.
NeverOverspent ==
  \A u \in Users :
    ~everStale[u] => balance[u] + clawedSince[u] >= 0 /\ transactions[u] >= 0

\* A top-up is deposited exactly when it is approved, once, unless two handlers
\* of it overlapped: approveTopUp and rejectTopUp test a status they read
\* before, and outside, the transaction.
DepositedOnce ==
  \A t \in TopUps : ~crossed[t] => effects[t] = IF topUps[t] = "APPROVED" THEN 1 ELSE 0

\* A withdrawal is paid out and debited at most once and never after it was
\* rejected, and an approved one was debited, unless two handlers of it
\* overlapped or an approval was cut off between the payout and the status.
PaidOnce ==
  \A w \in Withdrawals :
    ~crossed[w] /\ ~interrupted[w] =>
      /\ payouts[w] <= 1 /\ effects[w] <= 1
      /\ withdrawals[w].status = "APPROVED" =>
           effects[w] = 1 /\ (withdrawals[w].method = "EBIRR" => payouts[w] = 1)
      /\ withdrawals[w].status = "REJECTED" => effects[w] = 0 /\ payouts[w] = 0
=============================================================================
