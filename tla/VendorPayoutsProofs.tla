-------------------------- MODULE VendorPayoutsProofs --------------------------
(***************************************************************************)
(* Wallets, withdrawals and automatic payouts, for any users, papers and   *)
(* number of overlapping requests: types, what a top-up and a withdrawal   *)
(* may do, and what a balance is worth.                                    *)
(***************************************************************************)
EXTENDS VendorPayouts, SequenceTheorems, FiniteSetTheorems, TLAPS

TopUpTasks == {"approveTopUp", "rejectTopUp"}
WithdrawalTasks == {"pay", "debit", "approve", "reject"}
BalanceTasks == {"credit", "recalculate"}
Tasks == {"idle", "done"} \cup BalanceTasks \cup TopUpTasks \cup WithdrawalTasks \cup ItemTasks
Work == [task : Tasks, of : Users \cup Papers \cup PayoutItems \cup {None}, seen : Int, amount : Int]
Log == [status : {"PENDING", "SUCCESS", "FAILED"}, reconcile : BOOLEAN]

\* What a request works on suits its task.
TargetOK(w) ==
  /\ w.task \in BalanceTasks => w.of \in Users
  /\ w.task \in TopUpTasks => w.of \in TopUps
  /\ w.task \in WithdrawalTasks => w.of \in Withdrawals
  /\ w.task \in ItemTasks => w.of \in PayoutItems

WorkersOK ==
  /\ workers \in [Workers -> Work]
  /\ \A r \in Workers : TargetOK(workers[r])

MoneyOK ==
  /\ balance \in [Users -> Int]
  /\ transactions \in [Users -> Int]
  /\ meant \in [Users -> Int]
  /\ clawedBack \in [Users -> Nat]
  /\ clawedSince \in [Users -> Nat]
  /\ stale \in [Users -> BOOLEAN]
  /\ everStale \in [Users -> BOOLEAN]

PapersOK ==
  /\ topUps \in [TopUps -> {"NONE", "PENDING", "APPROVED", "REJECTED"}]
  /\ withdrawals \in [Withdrawals -> [status : {"NONE", "PENDING", "APPROVED", "REJECTED"},
                                      method : Methods \cup {None}]]
  /\ effects \in [Papers -> Nat]
  /\ payouts \in [Withdrawals -> Nat]
  /\ crossed \in [Papers -> BOOLEAN]
  /\ interrupted \in [Withdrawals -> BOOLEAN]

LogsOK ==
  /\ payoutLogs \in [PayoutItems -> Seq(Log)]
  /\ paidOut \in [PayoutItems -> Nat]
  /\ itemDebits \in [PayoutItems -> Nat]
  /\ attemptsCrossed \in [PayoutItems -> BOOLEAN]
  /\ attemptCut \in [PayoutItems -> BOOLEAN]

PayoutsTypeOK == WorkersOK /\ MoneyOK /\ PapersOK /\ LogsOK

-------------------------------------------------------------------------------
(* Types *)

\* A request that takes up other work keeps every request's type.
LEMMA BecomeType ==
  ASSUME WorkersOK, NEW r \in Workers, NEW w \in Work, TargetOK(w), Become(r, w)
  PROVE  WorkersOK'
BY DEF WorkersOK, Become

\* Nor does an idle request work on anything.
LEMMA IdleType == Idle \in Work /\ Done \in Work /\ TargetOK(Done)
<1>1. Idle \in Work /\ Idle.task = "idle"
  BY DEF Idle, Work, Tasks
<1>2. Done \in Work /\ Done.task = "done"
  BY <1>1 DEF Done, Work, Tasks
<1>3. QED
  BY <1>1, <1>2 DEF TargetOK, BalanceTasks, TopUpTasks, WithdrawalTasks, ItemTasks

\* A request that ends keeps every request's type.
LEMMA EndType == ASSUME WorkersOK, NEW r \in Workers, End(r) PROVE WorkersOK'
BY IdleType, BecomeType DEF End

\* A request that goes on with a task of the same kind keeps its target.
LEMMA GotoType ==
  ASSUME WorkersOK, NEW r \in Workers, NEW task, Goto(r, task),
         \/ workers[r].task \in WithdrawalTasks /\ task \in WithdrawalTasks
         \/ workers[r].task \in ItemTasks /\ task \in ItemTasks
  PROVE  WorkersOK'
<1> DEFINE w == [workers[r] EXCEPT !.task = task]
<1>1. workers[r] \in Work /\ TargetOK(workers[r])
  BY DEF WorkersOK
<1>2. w \in Work
  BY <1>1 DEF Work, Tasks
<1>3. TargetOK(w)
  BY <1>1, <1>2 DEF TargetOK, Work, BalanceTasks, TopUpTasks, WithdrawalTasks, ItemTasks
<1>4. workers' = [workers EXCEPT ![r] = w]
  BY DEF Goto
<1>5. QED
  BY <1>2, <1>3, <1>4 DEF WorkersOK

\* A request that loads a paper is one that may (approveTopUp, approveWithdrawal, ...).
LEMMA LoadType ==
  ASSUME WorkersOK, PapersOK, NEW r \in Workers, NEW p \in Papers, NEW task, Load(r, p, task),
         \/ p \in TopUps /\ task \in TopUpTasks
         \/ p \in Withdrawals /\ task \in WithdrawalTasks
  PROVE  WorkersOK' /\ PapersOK'
<1> DEFINE w == [Idle EXCEPT !.task = task, !.of = p]
<1>1. w \in Work
  <2>1. Idle \in Work
    BY IdleType
  <2>2. task \in Tasks
    BY DEF Tasks
  <2>3. QED
    BY <2>1, <2>2 DEF Work
<1>2. w.task = task /\ w.of = p
  BY IdleType DEF Work
<1>3. TargetOK(w)
  BY <1>2 DEF TargetOK, BalanceTasks, TopUpTasks, WithdrawalTasks, ItemTasks
<1>4. Become(r, w)
  BY DEF Load
<1>5. WorkersOK'
  BY <1>1, <1>3, <1>4, BecomeType
<1>6. PapersOK'
  BY DEF Load, PapersOK, walletTables
<1>7. QED
  BY <1>5, <1>6

\* A transaction on a wallet leaves amounts of money (debitWallet and the others).
LEMMA MoveType ==
  ASSUME MoneyOK, NEW u \in Users, NEW amount \in Int, Move(u, amount)
  PROVE  MoneyOK'
BY DEF MoneyOK, Move, Record, Mean

\* What the requests on wallets, top-ups and withdrawals write keeps its type.
LEMMA WorkerStepType ==
  ASSUME PayoutsTypeOK, NEW r \in Workers, WorkerStep(r), UNCHANGED payoutVars
  PROVE  PayoutsTypeOK'
<1> USE WalletsAssumption DEF PayoutsTypeOK
<1>0. LogsOK'
  BY DEF LogsOK, payoutVars
<1>1. workers[r] \in Work /\ TargetOK(workers[r])
  BY DEF WorkersOK
<1>2. ASSUME NEW u \in Users, NEW amount \in Credits, ReadForCredit(r, u, amount)
      PROVE  PayoutsTypeOK'
  <2> DEFINE w == [task |-> "credit", of |-> u, seen |-> balance[u], amount |-> amount]
  <2>1. w \in Work /\ TargetOK(w)
    BY DEF Work, Tasks, TargetOK, BalanceTasks, TopUpTasks, WithdrawalTasks, ItemTasks, MoneyOK
  <2>2. WorkersOK'
    BY <1>2, <2>1, BecomeType DEF ReadForCredit
  <2>3. MoneyOK' /\ PapersOK'
    BY <1>2 DEF ReadForCredit, MoneyOK, PapersOK, walletTables, walletHistory
  <2>4. QED
    BY <1>0, <2>2, <2>3
<1>3. ASSUME NEW u \in Users, NEW amount \in Payments, Pay(r, u, amount)
      PROVE  PayoutsTypeOK'
  <2>1. WorkersOK'
    BY <1>3, EndType DEF Pay
  <2>2. MoneyOK'
    BY <1>3, MoveType DEF Pay
  <2>3. PapersOK'
    BY <1>3 DEF Pay, PapersOK
  <2>4. QED
    BY <1>0, <2>1, <2>2, <2>3
<1>4. ASSUME NEW u \in Users, GetWallet(r, u)
      PROVE  PayoutsTypeOK'
  <2> DEFINE w == [task |-> "recalculate", of |-> u, seen |-> transactions[u], amount |-> 0]
  <2>1. w \in Work /\ TargetOK(w)
    BY DEF Work, Tasks, TargetOK, BalanceTasks, TopUpTasks, WithdrawalTasks, ItemTasks, MoneyOK
  <2>2. WorkersOK'
    BY <1>4, <2>1, BecomeType DEF GetWallet, ReadForBalance
  <2>3. MoneyOK' /\ PapersOK'
    BY <1>4 DEF GetWallet, MoneyOK, PapersOK, walletTables, walletHistory
  <2>4. QED
    BY <1>0, <2>2, <2>3
<1>5. CASE Credit(r)
  <2>1. WorkersOK'
    BY <1>5, EndType DEF Credit
  <2>2. /\ workers[r].of \in Users
        /\ workers[r].seen \in Int /\ workers[r].amount \in Int
    BY <1>1, <1>5 DEF Credit, At, TargetOK, BalanceTasks, Work
  <2>3. Abs(workers[r].amount) \in Int /\ Clawed(workers[r].amount) \in Nat
    BY <2>2 DEF Abs, Clawed
  <2>4. MoneyOK'
    BY <1>5, <2>2, <2>3 DEF Credit, MoneyOK, WriteBalance, Record, Mean
  <2>5. PapersOK'
    BY <1>5 DEF Credit, PapersOK
  <2>6. QED
    BY <1>0, <2>1, <2>4, <2>5
<1>6. CASE RecalculateBalance(r)
  <2>1. WorkersOK'
    BY <1>6, EndType DEF RecalculateBalance
  <2>2. workers[r].of \in Users /\ workers[r].seen \in Int
    BY <1>1, <1>6 DEF RecalculateBalance, At, TargetOK, BalanceTasks, Work
  <2>3. MoneyOK'
    BY <1>6, <2>2 DEF RecalculateBalance, MoneyOK, WriteBalance
  <2>4. PapersOK'
    BY <1>6 DEF RecalculateBalance, PapersOK
  <2>5. QED
    BY <1>0, <2>1, <2>3, <2>4
<1>7. ASSUME NEW p \in Papers, NEW task, Load(r, p, task),
             \/ p \in TopUps /\ task \in TopUpTasks
             \/ p \in Withdrawals /\ task \in WithdrawalTasks
      PROVE  PayoutsTypeOK'
  <2>1. WorkersOK' /\ PapersOK'
    BY <1>7, LoadType
  <2>2. MoneyOK'
    BY <1>7 DEF Load, MoneyOK, walletTables
  <2>3. QED
    BY <1>0, <2>1, <2>2
<1>8. CASE ApproveTopUp(r)
  <2>1. WorkersOK'
    BY <1>8, EndType DEF ApproveTopUp
  <2>2. workers[r].of \in TopUps
    BY <1>1, <1>8 DEF ApproveTopUp, At, TargetOK, TopUpTasks
  <2>3. UserOf[workers[r].of] \in Users /\ AmountOf[workers[r].of] \in Int
    BY <2>2
  <2>4. MoneyOK'
    BY <1>8, <2>3, MoveType DEF ApproveTopUp
  <2>5. PapersOK'
    BY <1>8, <2>2 DEF ApproveTopUp, PapersOK, Papers
  <2>6. QED
    BY <1>0, <2>1, <2>4, <2>5
<1>9. CASE RejectTopUp(r)
  <2>1. WorkersOK'
    BY <1>9, EndType DEF RejectTopUp
  <2>2. MoneyOK' /\ PapersOK'
    BY <1>9 DEF RejectTopUp, MoneyOK, PapersOK, walletHistory
  <2>3. QED
    BY <1>0, <2>1, <2>2
<1>10. ASSUME At(r, "pay") \/ At(r, "debit") \/ At(r, "approve") \/ At(r, "reject")
       PROVE  /\ workers[r].of \in Withdrawals
              /\ UserOf[workers[r].of] \in Users
              /\ AmountOf[workers[r].of] \in Int /\ -AmountOf[workers[r].of] \in Int
  <2>1. workers[r].of \in Withdrawals
    BY <1>1, <1>10 DEF At, TargetOK, WithdrawalTasks
  <2>2. AmountOf[workers[r].of] \in Nat
    BY <2>1
  <2>3. QED
    BY <2>1, <2>2
<1>11. CASE SendPayout(r)
  <2>1. workers[r].task \in WithdrawalTasks /\ workers[r].of \in Withdrawals
    BY <1>10, <1>11 DEF SendPayout, At, WithdrawalTasks
  <2>2. Goto(r, "debit") \/ End(r)
    BY <1>11 DEF SendPayout
  <2>3. WorkersOK'
    BY <2>1, <2>2, GotoType, EndType DEF WithdrawalTasks
  <2>4. MoneyOK'
    BY <1>11 DEF SendPayout, MoneyOK, walletTables
  <2>5. PapersOK'
    <3>1. payouts' \in [Withdrawals -> Nat] /\ interrupted' \in [Withdrawals -> BOOLEAN]
      <4>1. /\ \/ payouts' = payouts
               \/ payouts' = [payouts EXCEPT ![workers[r].of] = @ + 1]
            /\ \/ interrupted' = interrupted
               \/ interrupted' = [interrupted EXCEPT ![workers[r].of] = TRUE]
        BY <1>11 DEF SendPayout
      <4>2. payouts \in [Withdrawals -> Nat] /\ interrupted \in [Withdrawals -> BOOLEAN]
        BY DEF PapersOK
      <4>3. payouts' \in [Withdrawals -> Nat]
        BY <4>1, <4>2, <2>1
      <4>4. interrupted' \in [Withdrawals -> BOOLEAN]
        BY <4>1, <4>2, <2>1
      <4>5. QED
        BY <4>3, <4>4
    <3>2. UNCHANGED <<topUps, withdrawals, effects, crossed>>
      BY <1>11 DEF SendPayout, walletTables
    <3>3. QED
      BY <3>1, <3>2 DEF PapersOK
  <2>6. QED
    BY <1>0, <2>3, <2>4, <2>5
<1>12. CASE Debit(r)
  <2>1. At(r, "debit") /\ workers[r].task \in WithdrawalTasks
    BY <1>12 DEF Debit, At, WithdrawalTasks
  <2>2. Goto(r, "approve") \/ End(r)
    BY <1>12 DEF Debit
  <2>3. WorkersOK'
    BY <2>1, <2>2, GotoType, EndType DEF WithdrawalTasks
  <2>4. MoneyOK'
    BY <1>10, <1>12, <2>1, MoveType DEF Debit, MoneyOK
  <2>5. effects' \in [Papers -> Nat] /\ interrupted' \in [Withdrawals -> BOOLEAN]
    <3>1. /\ \/ effects' = effects
             \/ effects' = [effects EXCEPT ![workers[r].of] = @ + 1]
          /\ \/ interrupted' = interrupted
             \/ \E b \in BOOLEAN : interrupted' = [interrupted EXCEPT ![workers[r].of] = b]
      BY <1>12 DEF Debit
    <3>2. QED
      BY <1>10, <2>1, <3>1 DEF PapersOK, Papers
  <2>6. PapersOK'
    BY <1>12, <2>5 DEF Debit, PapersOK
  <2>7. QED
    BY <1>0, <2>3, <2>4, <2>6
<1>13. CASE SaveApproval(r) \/ RejectWithdrawal(r)
  <2>1. WorkersOK'
    BY <1>13, EndType DEF SaveApproval, RejectWithdrawal
  <2>2. MoneyOK'
    BY <1>13 DEF SaveApproval, RejectWithdrawal, MoneyOK, walletHistory
  <2>3. PapersOK'
    <3>1. workers[r].of \in Withdrawals
      BY <1>10, <1>13 DEF SaveApproval, RejectWithdrawal
    <3>2. PICK status \in {"APPROVED", "REJECTED"} :
            withdrawals' = [withdrawals EXCEPT ![workers[r].of].status = status]
      BY <1>13 DEF SaveApproval, RejectWithdrawal
    <3>3. [withdrawals[workers[r].of] EXCEPT !.status = status]
             \in [status : {"NONE", "PENDING", "APPROVED", "REJECTED"}, method : Methods \cup {None}]
      BY <3>1 DEF PapersOK
    <3>4. UNCHANGED <<topUps, effects, payouts, crossed, interrupted>>
      BY <1>13 DEF SaveApproval, RejectWithdrawal, walletHistory
    <3>5. QED
      BY <3>1, <3>2, <3>3, <3>4 DEF PapersOK
  <2>4. QED
    BY <1>0, <2>1, <2>2, <2>3
<1>14. CASE Crash(r)
  <2>1. WorkersOK'
    BY <1>14, EndType DEF Crash
  <2>2. MoneyOK'
    BY <1>14 DEF Crash, MoneyOK, walletTables
  <2>3. interrupted' \in [Withdrawals -> BOOLEAN]
    BY <1>10, <1>14 DEF Crash, PapersOK
  <2>4. PapersOK'
    BY <1>14, <2>3 DEF Crash, PapersOK, walletTables
  <2>5. QED
    BY <1>0, <2>1, <2>2, <2>4
<1>15. ASSUME NEW t \in TopUps, LoadTopUp(r, t)
       PROVE  PayoutsTypeOK'
  BY <1>7, <1>15 DEF LoadTopUp, Papers, TopUpTasks
<1>16. ASSUME NEW p \in Withdrawals, LoadForApproval(r, p) \/ LoadForRejection(r, p)
       PROVE  PayoutsTypeOK'
  <2>1. PICK task \in WithdrawalTasks : Load(r, p, task)
    BY <1>16 DEF LoadForApproval, LoadForRejection, WithdrawalTasks
  <2>2. QED
    BY <1>7, <2>1 DEF Papers
<1>17. QED
  BY <1>2, <1>3, <1>4, <1>5, <1>6, <1>8, <1>9, <1>11, <1>12, <1>13, <1>14, <1>15, <1>16
     DEF WorkerStep

\* A row appended to the log of an item, or one changed, leaves a log.
LEMMA LogType ==
  ASSUME NEW log \in Seq(Log), NEW status \in {"PENDING", "SUCCESS", "FAILED"}
  PROVE  Append(log, PayoutLog(status)) \in Seq(Log)
BY DEF PayoutLog, Log

\* A row, or its reconciliation flag.
LEMMA LogEditType ==
  ASSUME NEW log \in Seq(Log), NEW n \in Int,
         NEW status \in {"PENDING", "SUCCESS", "FAILED"}, NEW flag \in BOOLEAN
  PROVE  [log EXCEPT ![n] = PayoutLog(status)] \in Seq(Log) /\ [log EXCEPT ![n].reconcile = flag] \in Seq(Log)
<1>1. Len(log) \in Nat /\ log \in [1..Len(log) -> Log]
  OBVIOUS
<1>2. ASSUME n \in 1..Len(log)
      PROVE  PayoutLog(status) \in Log /\ [log[n] EXCEPT !.reconcile = flag] \in Log
  BY <1>1, <1>2 DEF Log, PayoutLog
<1>3. /\ [log EXCEPT ![n] = PayoutLog(status)] \in [1..Len(log) -> Log]
      /\ [log EXCEPT ![n].reconcile = flag] \in [1..Len(log) -> Log]
  BY <1>1, <1>2
<1>4. QED
  BY <1>1, <1>3, SeqDef

\* What the handlers of automatic payouts write keeps its type.
LEMMA PayoutStepType ==
  ASSUME PayoutsTypeOK, NEW r \in Workers, PayoutStep(r)
  PROVE  PayoutsTypeOK'
<1> USE VendorPayoutsAssumption DEF PayoutsTypeOK
<1>1. workers[r] \in Work /\ TargetOK(workers[r])
  BY DEF WorkersOK
<1>2. ASSUME workers[r].task \in ItemTasks
      PROVE  /\ workers[r].of \in PayoutItems
             /\ VendorOf[workers[r].of] \in Users /\ -PayoutOf[workers[r].of] \in Int
  <2>1. workers[r].of \in PayoutItems
    BY <1>1, <1>2 DEF TargetOK
  <2>2. PayoutOf[workers[r].of] \in Nat
    BY <2>1
  <2>3. QED
    BY <2>1, <2>2
<1>3. ASSUME UNCHANGED <<walletTables, walletHistory>> PROVE MoneyOK' /\ PapersOK'
  BY <1>3 DEF MoneyOK, PapersOK, walletTables, walletHistory
<1>4. ASSUME NEW i \in PayoutItems, NEW task \in ItemTasks, NEW n \in Int, At(r, "idle"),
             Become(r, [Idle EXCEPT !.task = task, !.of = i, !.seen = n])
      PROVE  WorkersOK'
  <2> DEFINE w == [Idle EXCEPT !.task = task, !.of = i, !.seen = n]
  <2>1. w \in Work /\ w.task = task /\ w.of = i
    BY IdleType DEF Work, Tasks
  <2>2. TargetOK(w)
    BY <2>1 DEF TargetOK, BalanceTasks, TopUpTasks, WithdrawalTasks, ItemTasks
  <2>3. QED
    BY <1>4, <2>1, <2>2, BecomeType
<1>5. ASSUME NEW i \in PayoutItems, TryPayout(r, i)
      PROVE  PayoutsTypeOK'
  <2> DEFINE w == [Idle EXCEPT !.task = "logPayout", !.of = i]
  <2>1. w \in Work /\ w.task = "logPayout" /\ w.of = i
    BY IdleType DEF Work, Tasks, ItemTasks
  <2>2. TargetOK(w)
    BY <2>1 DEF TargetOK, BalanceTasks, TopUpTasks, WithdrawalTasks, ItemTasks
  <2>3. WorkersOK'
    BY <1>5, <2>1, <2>2, BecomeType DEF TryPayout, LoadItem
  <2>4. LogsOK'
    BY <1>5 DEF TryPayout, LoadItem, LogsOK
  <2>5. QED
    BY <1>3, <1>5, <2>3, <2>4 DEF TryPayout, LoadItem
<1>6. ASSUME NEW i \in PayoutItems, TryWithoutPhone(r, i)
      PROVE  PayoutsTypeOK'
  <2>1. WorkersOK'
    BY <1>6, EndType DEF TryWithoutPhone
  <2>2. LogsOK'
    BY <1>6, LogType DEF TryWithoutPhone, LogsOK
  <2>3. QED
    BY <1>3, <1>6, <2>1, <2>2 DEF TryWithoutPhone
<1>7. ASSUME NEW i \in PayoutItems, LoadForReconciliation(r, i)
      PROVE  PayoutsTypeOK'
  <2>1. PICK n \in DOMAIN payoutLogs[i], task \in {"clearException", "debitException"} :
          /\ At(r, "idle")
          /\ Become(r, [Idle EXCEPT !.task = task, !.of = i, !.seen = n])
    BY <1>7 DEF LoadForReconciliation
  <2>2. n \in Int
    <3>1. payoutLogs[i] \in Seq(Log)
      BY DEF LogsOK
    <3>2. QED
      BY <2>1, <3>1
  <2>3. WorkersOK'
    BY <1>4, <2>1, <2>2 DEF ItemTasks
  <2>4. LogsOK'
    BY <1>7 DEF LoadForReconciliation, LogsOK
  <2>5. QED
    BY <1>3, <1>7, <2>3, <2>4 DEF LoadForReconciliation
<1>8. CASE LogPayout(r)
  <2> DEFINE i == workers[r].of
             w == [workers[r] EXCEPT !.task = "sendPayout", !.seen = Len(payoutLogs[i]) + 1]
  <2>1. i \in PayoutItems
    BY <1>2, <1>8 DEF LogPayout, At, ItemTasks
  <2>2. payoutLogs[i] \in Seq(Log)
    BY <2>1 DEF LogsOK
  <2>3. Len(payoutLogs[i]) + 1 \in Int
    BY <2>2
  <2>4. w \in Work /\ w.task = "sendPayout" /\ w.of = i
    BY <1>1, <2>3 DEF Work, Tasks, ItemTasks
  <2>5. TargetOK(w)
    BY <2>1, <2>4 DEF TargetOK, BalanceTasks, TopUpTasks, WithdrawalTasks, ItemTasks
  <2>6. WorkersOK'
    BY <1>8, <2>4, <2>5, BecomeType DEF LogPayout
  <2>7. LogsOK'
    BY <1>8, <2>1, LogType DEF LogPayout, LogsOK
  <2>8. QED
    BY <1>3, <1>8, <2>6, <2>7 DEF LogPayout
<1>9. CASE SendItemPayout(r)
  <2>1. workers[r].task \in ItemTasks
    BY <1>9 DEF SendItemPayout, At, ItemTasks
  <2>2. PICK task \in ItemTasks : Goto(r, task)
    BY <1>9 DEF SendItemPayout, ItemTasks
  <2>3. WorkersOK'
    BY <2>1, <2>2, GotoType
  <2>4. /\ \/ paidOut' = paidOut
           \/ paidOut' = [paidOut EXCEPT ![workers[r].of] = @ + 1]
        /\ \/ attemptCut' = attemptCut
           \/ attemptCut' = [attemptCut EXCEPT ![workers[r].of] = TRUE]
    BY <1>9 DEF SendItemPayout
  <2>5. paidOut \in [PayoutItems -> Nat] /\ attemptCut \in [PayoutItems -> BOOLEAN]
    BY DEF LogsOK
  <2>6. paidOut' \in [PayoutItems -> Nat] /\ attemptCut' \in [PayoutItems -> BOOLEAN]
    <3>1. paidOut' \in [PayoutItems -> Nat]
      BY <2>4, <2>5
    <3>2. attemptCut' \in [PayoutItems -> BOOLEAN]
      BY <2>4, <2>5
    <3>3. QED
      BY <3>1, <3>2
  <2>7. LogsOK'
    BY <1>9, <2>6 DEF SendItemPayout, LogsOK
  <2>8. QED
    BY <1>3, <1>9, <2>3, <2>7 DEF SendItemPayout
<1>10. CASE SavePayout(r)
  <2>1. workers[r].task \in ItemTasks /\ workers[r].of \in PayoutItems
    BY <1>2, <1>10 DEF SavePayout, ItemTasks
  <2>2. Goto(r, "debitPayout") \/ End(r)
    BY <1>10 DEF SavePayout
  <2>3. WorkersOK'
    BY <2>1, <2>2, GotoType, EndType DEF ItemTasks
  <2>4. PICK status \in {"SUCCESS", "FAILED"} :
          payoutLogs' = [payoutLogs EXCEPT ![workers[r].of][workers[r].seen] = PayoutLog(status)]
    BY <1>10 DEF SavePayout
  <2>5. LogsOK'
    <3> DEFINE log == payoutLogs[workers[r].of]
    <3>1. log \in Seq(Log) /\ workers[r].seen \in Int
      BY <1>1, <2>1 DEF LogsOK, Work
    <3>2. [log EXCEPT ![workers[r].seen] = PayoutLog(status)] \in Seq(Log)
      BY <3>1, LogEditType
    <3>3. payoutLogs' \in [PayoutItems -> Seq(Log)]
      BY <2>4, <3>2 DEF LogsOK
    <3>4. QED
      BY <1>10, <3>3 DEF SavePayout, LogsOK
  <2>6. QED
    BY <1>3, <1>10, <2>3, <2>5 DEF SavePayout
<1>11. CASE DebitPayout(r)
  <2>1. workers[r].task \in ItemTasks
    BY <1>11 DEF DebitPayout, At, ItemTasks
  <2>2. WorkersOK'
    <3>1. Goto(r, "logRefusal") \/ End(r)
      BY <1>11 DEF DebitPayout
    <3>2. QED
      BY <2>1, <3>1, GotoType, EndType DEF ItemTasks
  <2>3. MoneyOK'
    BY <1>2, <1>11, <2>1, MoveType DEF DebitPayout, DebitItem, MoneyOK
  <2>4. PapersOK'
    BY <1>11 DEF DebitPayout, PapersOK
  <2>5. LogsOK'
    <3> DEFINE log == payoutLogs[workers[r].of]
    <3>1. CASE DebitItem(workers[r].of) /\ UNCHANGED payoutLogs
      <4>1. itemDebits \in [PayoutItems -> Nat] /\ itemDebits' = [itemDebits EXCEPT ![workers[r].of] = @ + 1]
        BY <3>1 DEF DebitItem, LogsOK
      <4>2. itemDebits' \in [PayoutItems -> Nat]
        <5>1. itemDebits[workers[r].of] + 1 \in Nat
          BY <1>2, <2>1, <4>1
        <5>2. QED
          BY <4>1, <5>1
      <4>3. QED
        BY <1>11, <3>1, <4>2 DEF DebitPayout, LogsOK
    <3>2. CASE /\ payoutLogs' = [payoutLogs EXCEPT ![workers[r].of][workers[r].seen].reconcile = TRUE]
               /\ UNCHANGED itemDebits
      <4>1. log \in Seq(Log) /\ workers[r].seen \in Int
        BY <1>1, <1>2, <2>1 DEF LogsOK, Work
      <4>2. [log EXCEPT ![workers[r].seen].reconcile = TRUE] \in Seq(Log)
        BY <4>1, LogEditType
      <4>3. payoutLogs' \in [PayoutItems -> Seq(Log)]
        BY <3>2, <4>2 DEF LogsOK
      <4>4. QED
        BY <1>11, <3>2, <4>3 DEF DebitPayout, LogsOK
    <3>3. QED
      BY <1>11, <3>1, <3>2 DEF DebitPayout
  <2>6. QED
    BY <2>2, <2>3, <2>4, <2>5
<1>12. CASE DebitException(r)
  <2>1. workers[r].task \in ItemTasks
    BY <1>12 DEF DebitException, At, ItemTasks
  <2>2. Goto(r, "clearException") \/ End(r)
    BY <1>12 DEF DebitException
  <2>3. WorkersOK'
    BY <2>1, <2>2, GotoType, EndType DEF ItemTasks
  <2>4. MoneyOK'
    BY <1>2, <1>12, <2>1, MoveType DEF DebitException, DebitItem, MoneyOK
  <2>5. PapersOK'
    BY <1>12 DEF DebitException, PapersOK
  <2>6. LogsOK'
    <3>1. workers[r].of \in PayoutItems
      BY <1>2, <2>1
    <3>2. itemDebits' = itemDebits \/ itemDebits' = [itemDebits EXCEPT ![workers[r].of] = @ + 1]
      BY <1>12 DEF DebitException, DebitItem
    <3>3. itemDebits \in [PayoutItems -> Nat]
      BY DEF LogsOK
    <3>4. itemDebits' \in [PayoutItems -> Nat]
      BY <3>1, <3>2, <3>3
    <3>5. QED
      BY <1>12, <3>4 DEF DebitException, LogsOK
  <2>7. QED
    BY <2>3, <2>4, <2>5, <2>6
<1>13. CASE ClearException(r)
  <2>1. workers[r].task \in ItemTasks /\ workers[r].seen \in Int
    BY <1>1, <1>13 DEF ClearException, ItemTasks, Work
  <2>2. WorkersOK'
    BY <1>13, EndType DEF ClearException
  <2>3. payoutLogs' = [payoutLogs EXCEPT ![workers[r].of][workers[r].seen].reconcile = FALSE]
    BY <1>13 DEF ClearException
  <2>4. LogsOK'
    <3> DEFINE log == payoutLogs[workers[r].of]
    <3>1. log \in Seq(Log)
      BY <1>2, <2>1 DEF LogsOK
    <3>2. [log EXCEPT ![workers[r].seen].reconcile = FALSE] \in Seq(Log)
      BY <2>1, <3>1, LogEditType
    <3>3. payoutLogs' \in [PayoutItems -> Seq(Log)]
      BY <2>3, <3>2 DEF LogsOK
    <3>4. QED
      BY <1>13, <3>3 DEF ClearException, LogsOK
  <2>5. QED
    BY <1>3, <1>13, <2>2, <2>4 DEF ClearException
<1>14. CASE PayoutCrash(r)
  <2>1. WorkersOK'
    BY <1>14, EndType DEF PayoutCrash
  <2>2. LogsOK'
    BY <1>14 DEF PayoutCrash, LogsOK
  <2>3. QED
    BY <1>3, <1>14, <2>1, <2>2 DEF PayoutCrash
<1>15. CASE LogRefusal(r)
  <2>1. workers[r].of \in PayoutItems
    BY <1>2, <1>15 DEF LogRefusal, At, ItemTasks
  <2>2. WorkersOK'
    BY <1>15, EndType DEF LogRefusal
  <2>3. LogsOK'
    BY <1>15, <2>1, LogType DEF LogRefusal, LogsOK
  <2>4. QED
    BY <1>3, <1>15, <2>2, <2>3 DEF LogRefusal
<1>16. CASE WriteFails(r)
  <2>1. WorkersOK'
    BY <1>16, GotoType DEF WriteFails, ItemTasks
  <2>2. LogsOK'
    BY <1>16 DEF WriteFails, LogsOK
  <2>3. QED
    BY <1>3, <1>16, <2>1, <2>2 DEF WriteFails
<1>17. QED
  BY <1>5, <1>6, <1>7, <1>8, <1>9, <1>10, <1>11, <1>12, <1>13, <1>14, <1>15, <1>16 DEF PayoutStep

\* Requests for top-ups and withdrawals keep every type.
LEMMA PaperRequestType ==
  ASSUME PayoutsTypeOK, UNCHANGED payoutVars,
         \/ \E t \in TopUps : RequestTopUp(t)
         \/ \E p \in Withdrawals : RequestWithdrawal(p)
  PROVE  PayoutsTypeOK'
<1>1. UNCHANGED <<balance, transactions, workers, walletHistory, payoutVars>>
  BY DEF RequestTopUp, RequestWithdrawal
<1>2. WorkersOK' /\ MoneyOK' /\ LogsOK'
  BY <1>1 DEF PayoutsTypeOK, WorkersOK, MoneyOK, LogsOK, walletHistory, payoutVars
<1>3. PapersOK'
  <2>1. ASSUME NEW t \in TopUps, RequestTopUp(t) PROVE PapersOK'
    BY <1>1, <2>1 DEF PayoutsTypeOK, PapersOK, RequestTopUp, walletHistory
  <2>2. ASSUME NEW p \in Withdrawals, RequestWithdrawal(p) PROVE PapersOK'
    BY <1>1, <2>2 DEF PayoutsTypeOK, PapersOK, RequestWithdrawal, walletHistory
  <2>3. QED
    BY <2>1, <2>2
<1>4. QED
  BY <1>2, <1>3 DEF PayoutsTypeOK

\* Every table and request keeps its type, whatever overlaps and dies.
THEOREM PayoutsTypeCorrect == PayoutsSpec => []PayoutsTypeOK
<1>1. PayoutsInit => PayoutsTypeOK
  <2> SUFFICES ASSUME PayoutsInit PROVE PayoutsTypeOK
    OBVIOUS
  <2>2. workers \in [Workers -> Work] /\ \A r \in Workers : TargetOK(workers[r])
    <3>1. Idle \in Work /\ TargetOK(Idle)
      <4>1. Idle.task = "idle"
        BY DEF Idle
      <4>2. QED
        BY <4>1, IdleType DEF TargetOK, BalanceTasks, TopUpTasks, WithdrawalTasks, ItemTasks
    <3>2. QED
      BY <3>1 DEF PayoutsInit, WalletsInit
  <2>3. MoneyOK /\ PapersOK
    BY DEF PayoutsInit, WalletsInit, MoneyOK, PapersOK
  <2>4. LogsOK
    BY DEF PayoutsInit, LogsOK
  <2>5. QED
    BY <2>2, <2>3, <2>4 DEF PayoutsTypeOK, WorkersOK
<1>2. PayoutsTypeOK /\ [PayoutsNext]_allVars => PayoutsTypeOK'
  <2>1. SUFFICES ASSUME PayoutsTypeOK, [PayoutsNext]_allVars PROVE PayoutsTypeOK'
    OBVIOUS
  <2>2. CASE UNCHANGED allVars
    BY <2>1, <2>2 DEF PayoutsTypeOK, WorkersOK, MoneyOK, PapersOK, LogsOK, allVars, walletVars,
      walletTables, walletHistory, payoutVars
  <2>3. CASE PayoutsNext
    BY <2>1, <2>3, WorkerStepType, PayoutStepType, PaperRequestType DEF PayoutsNext
  <2>4. QED
    BY <2>1, <2>2, <2>3
<1>3. QED
  BY <1>1, <1>2, PTL DEF PayoutsSpec

-------------------------------------------------------------------------------
(* Top-ups and withdrawals *)

PaperTasks == TopUpTasks \cup WithdrawalTasks
Handles(r, p) == workers[r].of = p /\ workers[r].task \in PaperTasks
Alone(p) == \A q1, q2 \in Workers : Handles(q1, p) /\ Handles(q2, p) => q1 = q2

\* Nobody decides on a top-up that is already decided.
TopUpKept(t) ==
  /\ effects[t] = IF topUps[t] = "APPROVED" THEN 1 ELSE 0
  /\ \A r \in Workers : Handles(r, t) => topUps[t] = "PENDING"

\* How often the provider pays a withdrawal of this method.
Due(p) == IF withdrawals[p].method = "EBIRR" THEN 1 ELSE 0
\* What was done for a withdrawal once an approval or rejection is at this task.
Progress(task, p) ==
  /\ withdrawals[p].status = "PENDING"
  /\ task \in {"pay", "reject"} => effects[p] = 0 /\ payouts[p] = 0
  /\ task = "pay" => withdrawals[p].method = "EBIRR"
  /\ task = "debit" => effects[p] = 0 /\ payouts[p] = Due(p)
  /\ task = "approve" => effects[p] = 1 /\ payouts[p] = Due(p)

WithdrawalKept(p) ==
  /\ \A r \in Workers : Handles(r, p) => Progress(workers[r].task, p)
  /\ withdrawals[p].status = "APPROVED" => effects[p] = 1 /\ payouts[p] = Due(p)
  /\ withdrawals[p].status # "APPROVED" /\ (\A r \in Workers : ~Handles(r, p)) =>
       effects[p] = 0 /\ payouts[p] = 0

PapersKept ==
  /\ \A p \in Papers : ~crossed[p] => Alone(p)
  /\ \A t \in TopUps : ~crossed[t] => TopUpKept(t)
  /\ \A p \in Withdrawals : ~crossed[p] /\ ~interrupted[p] => WithdrawalKept(p)

\* The row of a paper is not written.
RowKept(p) ==
  /\ p \in TopUps => topUps'[p] = topUps[p]
  /\ p \in Withdrawals => withdrawals'[p] = withdrawals[p] /\ payouts'[p] = payouts[p]
  /\ effects'[p] = effects[p]

\* Only this request does something.
OnlyMoves(r) == \A q \in Workers \ {r} : workers'[q] = workers[q]

\* A request that begins, continues or ends is the only one that moves.
LEMMA OthersStay ==
  ASSUME WorkersOK, NEW r \in Workers
  PROVE  /\ \A w : Become(r, w) => OnlyMoves(r) /\ workers'[r] = w
         /\ End(r) => OnlyMoves(r) /\ workers'[r].task = "done"
         /\ \A task : Goto(r, task) => /\ OnlyMoves(r)
                                       /\ workers'[r].task = task /\ workers'[r].of = workers[r].of
<1>1. \A w : Become(r, w) => OnlyMoves(r) /\ workers'[r] = w
  BY DEF Become, OnlyMoves, WorkersOK
<1>2. End(r) => OnlyMoves(r) /\ workers'[r].task = "done"
  <2>1. Done.task = "done"
    BY IdleType DEF Done, Work
  <2>2. QED
    BY <1>1, <2>1 DEF End
<1>3. ASSUME NEW task, Goto(r, task)
      PROVE  OnlyMoves(r) /\ workers'[r].task = task /\ workers'[r].of = workers[r].of
  BY <1>3 DEF Goto, OnlyMoves, WorkersOK, Work
<1>4. QED
  BY <1>1, <1>2, <1>3

\* Papers that are not written and not handled by the request that moves are as
\* they were; it remains to look at the others.
LEMMA Elsewhere ==
  ASSUME PapersKept, NEW r \in Workers, OnlyMoves(r), NEW S \in SUBSET Papers,
         \A p \in Papers \ S : RowKept(p) /\ ~Handles(r, p) /\ ~Handles(r, p)',
         \A p \in Papers : crossed[p] => crossed'[p],
         \A p \in Withdrawals : interrupted[p] => interrupted'[p],
         \A p \in S : ~crossed'[p] => Alone(p)',
         \A p \in S \cap TopUps : ~crossed'[p] => TopUpKept(p)',
         \A p \in S \cap Withdrawals : ~crossed'[p] /\ ~interrupted'[p] => WithdrawalKept(p)'
  PROVE  PapersKept'
<1>1. ASSUME NEW p \in Papers \ S, NEW q \in Workers
      PROVE  (Handles(q, p)' <=> Handles(q, p)) /\ (Handles(q, p) => workers'[q] = workers[q])
  BY DEF OnlyMoves, Handles
<1>2. ASSUME NEW p \in Papers, ~crossed'[p] PROVE Alone(p)'
  BY <1>1, <1>2 DEF PapersKept, Alone
<1>3. ASSUME NEW p \in TopUps, ~crossed'[p] PROVE TopUpKept(p)'
  BY <1>1, <1>3 DEF PapersKept, TopUpKept, RowKept, Papers
<1>4. ASSUME NEW p \in Withdrawals, ~crossed'[p], ~interrupted'[p] PROVE WithdrawalKept(p)'
  <2>1. CASE p \in S
    BY <1>4, <2>1
  <2>2. CASE p \notin S
    <3>1. WithdrawalKept(p) /\ RowKept(p) /\ p \in Papers \ S
      BY <1>4, <2>2 DEF PapersKept, Papers
    <3>2. withdrawals'[p] = withdrawals[p] /\ payouts'[p] = payouts[p] /\ effects'[p] = effects[p]
      BY <1>4, <3>1 DEF RowKept
    <3>3. Due(p)' = Due(p) /\ \A q \in Workers : Handles(q, p) => (Progress(workers[q].task, p)' <=> Progress(workers[q].task, p))
      BY <1>1, <3>1, <3>2 DEF Due, Progress
    <3>4. QED
      BY <1>1, <3>1, <3>2, <3>3 DEF WithdrawalKept
  <2>3. QED
    BY <2>1, <2>2
<1>5. QED
  BY <1>2, <1>3, <1>4 DEF PapersKept

\* A request that handles no paper, before or after, touches none.
LEMMA Bystander ==
  ASSUME PapersKept, NEW r \in Workers, OnlyMoves(r),
         workers[r].task \notin PaperTasks, workers'[r].task \notin PaperTasks,
         UNCHANGED <<topUps, withdrawals, effects, payouts, crossed, interrupted>>
  PROVE  PapersKept'
<1>1. \A p \in Papers : RowKept(p) /\ ~Handles(r, p) /\ ~Handles(r, p)'
  BY DEF RowKept, Handles
<1> DEFINE S == {}
<1>2. S \in SUBSET Papers /\ \A p \in Papers \ S : RowKept(p) /\ ~Handles(r, p) /\ ~Handles(r, p)'
  BY <1>1
<1>3. QED
  BY <1>2, Elsewhere, Zenon

\* Taking up a paper marks it as crossed when somebody is at it already.
LEMMA LoadKept ==
  ASSUME PayoutsTypeOK, PapersKept, NEW r \in Workers, NEW p \in Papers, NEW task \in PaperTasks,
         Load(r, p, task),
         p \in TopUps => topUps[p] = "PENDING",
         p \in Withdrawals =>
           /\ withdrawals[p].status = "PENDING"
           /\ \/ task = "reject"
              \/ task = "pay" /\ withdrawals[p].method = "EBIRR"
              \/ task = "debit" /\ withdrawals[p].method # "EBIRR"
  PROVE  PapersKept'
<1>1. /\ OnlyMoves(r) /\ workers'[r].task = task /\ workers'[r].of = p
      /\ workers[r].task = "idle"
  <2>1. Become(r, [Idle EXCEPT !.task = task, !.of = p]) /\ At(r, "idle")
    BY DEF Load
  <2>2. workers'[r] = [Idle EXCEPT !.task = task, !.of = p]
    BY <2>1, OthersStay DEF PayoutsTypeOK
  <2>3. QED
    BY <2>1, <2>2, OthersStay, IdleType DEF PayoutsTypeOK, Work, At
<1>2. UNCHANGED <<topUps, withdrawals, effects, payouts, interrupted>>
  BY DEF Load, walletTables
<1>3. \A x \in Papers : crossed'[x] = (crossed[x] \/ (x = p /\ HandlingNow(p) # {}))
  BY DEF Load, PayoutsTypeOK, PapersOK
<1>4. ASSUME ~crossed'[p]
      PROVE  /\ ~crossed[p]
             /\ \A q \in Workers : ~Handles(q, p)
             /\ \A q \in Workers : Handles(q, p)' <=> q = r
  <2>1. ~crossed[p] /\ HandlingNow(p) = {}
    BY <1>3, <1>4
  <2>2. \A q \in Workers : workers[q].of # p
    BY <2>1 DEF HandlingNow
  <2>3. QED
    BY <1>1, <2>1, <2>2 DEF Handles, OnlyMoves
<1>5. ~crossed'[p] => Alone(p)'
  BY <1>4 DEF Alone
<1>6. p \in TopUps /\ ~crossed'[p] => TopUpKept(p)'
  BY <1>2, <1>4 DEF TopUpKept, PapersKept
<1>7. ASSUME p \in Withdrawals, ~crossed'[p], ~interrupted'[p] PROVE WithdrawalKept(p)'
  <2>1. WithdrawalKept(p)
    BY <1>2, <1>4, <1>7 DEF PapersKept
  <2>2. effects[p] = 0 /\ payouts[p] = 0
    BY <1>4, <1>7, <2>1 DEF WithdrawalKept
  <2>3. Progress(task, p)'
    BY <1>2, <1>7, <2>2 DEF Progress, Due
  <2>4. QED
    BY <1>1, <1>2, <1>4, <1>7, <2>3 DEF WithdrawalKept
<1>8. \A x \in Papers \ {p} : RowKept(x) /\ ~Handles(r, x) /\ ~Handles(r, x)'
  BY <1>1, <1>2 DEF RowKept, Handles, PaperTasks, TopUpTasks, WithdrawalTasks
<1> DEFINE S == {p}
<1>9. /\ S \in SUBSET Papers
      /\ \A x \in Papers \ S : RowKept(x) /\ ~Handles(r, x) /\ ~Handles(r, x)'
      /\ \A x \in S : ~crossed'[x] => Alone(x)'
      /\ \A x \in S \cap TopUps : ~crossed'[x] => TopUpKept(x)'
      /\ \A x \in S \cap Withdrawals : ~crossed'[x] /\ ~interrupted'[x] => WithdrawalKept(x)'
  BY <1>5, <1>6, <1>7, <1>8
<1>10. \A x \in Papers : crossed[x] => crossed'[x]
  BY <1>3
<1>11. \A x \in Withdrawals : interrupted[x] => interrupted'[x]
  BY <1>2
<1> HIDE DEF S
<1>12. QED
  BY <1>1, <1>9, <1>10, <1>11, Elsewhere, Zenon

\* A request that goes on with its paper, or ends, leaves it to be looked at
\* only when it is alone with it.
LEMMA AtPaper ==
  ASSUME PapersKept, NEW r \in Workers, OnlyMoves(r), NEW p \in Papers, Handles(r, p),
         workers'[r].of = p \/ workers'[r].task \notin PaperTasks,
         \A x \in Papers \ {p} : RowKept(x),
         UNCHANGED crossed, \A x \in Withdrawals : interrupted[x] => interrupted'[x],
         ASSUME Alone(p), \A q \in Workers \ {r} : ~Handles(q, p)',
                p \in TopUps, TopUpKept(p)
         PROVE  TopUpKept(p)',
         ASSUME Alone(p), \A q \in Workers \ {r} : ~Handles(q, p)',
                p \in Withdrawals, ~interrupted'[p], WithdrawalKept(p)
         PROVE  WithdrawalKept(p)'
  PROVE  PapersKept'
<1>1. \A q \in Workers : Handles(q, p)' => Handles(q, p)
  BY DEF OnlyMoves, Handles
<1>2. ASSUME ~crossed'[p]
      PROVE  Alone(p) /\ Alone(p)' /\ \A q \in Workers \ {r} : ~Handles(q, p)'
  <2>1. Alone(p)
    BY <1>2 DEF PapersKept
  <2>2. QED
    BY <1>1, <2>1 DEF Alone
<1>3. ASSUME p \in TopUps, ~crossed'[p] PROVE TopUpKept(p)'
  <2>1. TopUpKept(p)
    BY <1>3 DEF PapersKept
  <2>2. QED
    BY <1>2, <1>3, <2>1
<1>4. ASSUME p \in Withdrawals, ~crossed'[p], ~interrupted'[p] PROVE WithdrawalKept(p)'
  <2>1. WithdrawalKept(p)
    BY <1>4 DEF PapersKept
  <2>2. QED
    BY <1>2, <1>4, <2>1
<1> DEFINE S == {p}
<1>5. /\ S \in SUBSET Papers
      /\ \A x \in Papers \ S : RowKept(x) /\ ~Handles(r, x) /\ ~Handles(r, x)'
      /\ \A x \in S : ~crossed'[x] => Alone(x)'
      /\ \A x \in S \cap TopUps : ~crossed'[x] => TopUpKept(x)'
      /\ \A x \in S \cap Withdrawals : ~crossed'[x] /\ ~interrupted'[x] => WithdrawalKept(x)'
  BY <1>2, <1>3, <1>4 DEF Handles
<1>6. \A x \in Papers : crossed[x] => crossed'[x]
  OBVIOUS
<1> HIDE DEF S
<1>7. QED
  BY <1>5, <1>6, Elsewhere, Zenon

\* Whoever carries out a task on a paper handles it.
LEMMA AtTask ==
  ASSUME PayoutsTypeOK, NEW r \in Workers
  PROVE  /\ workers[r].task \in TopUpTasks =>
              /\ workers[r].of \in TopUps /\ workers[r].of \notin Withdrawals
              /\ workers[r].of \in Papers /\ Handles(r, workers[r].of)
         /\ workers[r].task \in WithdrawalTasks =>
              /\ workers[r].of \in Withdrawals /\ workers[r].of \notin TopUps
              /\ workers[r].of \in Papers /\ Handles(r, workers[r].of)
BY WalletsAssumption DEF PayoutsTypeOK, WorkersOK, TargetOK, Papers, Handles, PaperTasks

\* approveTopUp and rejectTopUp.
LEMMA TopUpDecided ==
  ASSUME PayoutsTypeOK, PapersKept, NEW r \in Workers, ApproveTopUp(r) \/ RejectTopUp(r)
  PROVE  PapersKept'
<1>1. PICK t : /\ t = workers[r].of
               /\ t \in TopUps /\ t \notin Withdrawals /\ t \in Papers /\ Handles(r, t)
  BY AtTask DEF ApproveTopUp, RejectTopUp, At, TopUpTasks
<1>2. OnlyMoves(r) /\ workers'[r].task = "done"
  BY OthersStay DEF ApproveTopUp, RejectTopUp, PayoutsTypeOK
<1>3. UNCHANGED <<withdrawals, payouts, crossed, interrupted>>
  BY DEF ApproveTopUp, RejectTopUp, walletHistory
<1>4. \A x \in Papers \ {t} : RowKept(x)
  BY <1>1, <1>3 DEF RowKept, ApproveTopUp, RejectTopUp, PayoutsTypeOK, PapersOK, walletHistory
<1>5. ~Handles(r, t)' /\ workers'[r].task \notin PaperTasks
  BY <1>2 DEF Handles, PaperTasks, TopUpTasks, WithdrawalTasks
<1>6. ASSUME \A q \in Workers \ {r} : ~Handles(q, t)', TopUpKept(t)
      PROVE  TopUpKept(t)'
  <2>1. effects[t] = 0
    BY <1>1, <1>6 DEF TopUpKept
  <2>2. CASE ApproveTopUp(r)
    <3>1. topUps'[t] = "APPROVED" /\ effects'[t] = 1
      BY <1>1, <2>1, <2>2 DEF ApproveTopUp, PayoutsTypeOK, PapersOK
    <3>2. QED
      BY <1>5, <1>6, <3>1 DEF TopUpKept
  <2>3. CASE RejectTopUp(r)
    <3>1. topUps'[t] = "REJECTED" /\ effects'[t] = 0
      BY <1>1, <2>1, <2>3 DEF RejectTopUp, PayoutsTypeOK, PapersOK, walletHistory
    <3>2. QED
      BY <1>5, <1>6, <3>1 DEF TopUpKept
  <2>4. QED
    BY <2>2, <2>3
<1>7. QED
  BY <1>1, <1>2, <1>3, <1>4, <1>5, <1>6, AtPaper

\* sendPayout: the provider's answer may be lost.
LEMMA PayoutSent ==
  ASSUME PayoutsTypeOK, PapersKept, NEW r \in Workers, SendPayout(r)
  PROVE  PapersKept'
<1>1. PICK p : /\ p = workers[r].of /\ workers[r].task = "pay"
               /\ p \in Withdrawals /\ p \notin TopUps /\ p \in Papers /\ Handles(r, p)
  BY AtTask DEF SendPayout, At, WithdrawalTasks
<1>2. /\ OnlyMoves(r)
      /\ \/ workers'[r].of = p /\ workers'[r].task = "debit"
         \/ workers'[r].task = "done"
  BY <1>1, OthersStay DEF SendPayout, PayoutsTypeOK
<1>3. UNCHANGED <<topUps, withdrawals, effects, crossed>>
  BY DEF SendPayout, walletTables
<1>4. /\ \A x \in Papers \ {p} : RowKept(x)
      /\ \A x \in Withdrawals : interrupted[x] => interrupted'[x]
  BY <1>1, <1>3 DEF RowKept, SendPayout, PayoutsTypeOK, PapersOK
<1>5. workers'[r].of = p \/ workers'[r].task \notin PaperTasks
  BY <1>2 DEF PaperTasks, TopUpTasks, WithdrawalTasks
<1>6. ASSUME \A q \in Workers \ {r} : ~Handles(q, p)', ~interrupted'[p], WithdrawalKept(p)
      PROVE  WithdrawalKept(p)'
  <2>1. /\ withdrawals[p].status = "PENDING" /\ withdrawals[p].method = "EBIRR"
        /\ effects[p] = 0 /\ payouts[p] = 0
    BY <1>1, <1>6 DEF WithdrawalKept, Progress
  <2>2. CASE payouts' = [payouts EXCEPT ![p] = @ + 1] /\ Goto(r, "debit")
    <3>1. payouts'[p] = 1 /\ workers'[r].task = "debit" /\ workers'[r].of = p
      BY <1>1, <2>1, <2>2, OthersStay DEF PayoutsTypeOK, PapersOK
    <3>2. Progress(workers[r].task, p)' /\ Handles(r, p)'
      BY <1>3, <2>1, <3>1 DEF Progress, Due, Handles, PaperTasks, WithdrawalTasks
    <3>3. QED
      BY <1>3, <1>6, <2>1, <3>2 DEF WithdrawalKept
  <2>3. CASE payouts' = payouts /\ End(r)
    <3>1. ~Handles(r, p)'
      BY <2>3, OthersStay DEF PayoutsTypeOK, Handles, PaperTasks, TopUpTasks, WithdrawalTasks
    <3>2. QED
      BY <1>3, <1>6, <2>1, <2>3, <3>1 DEF WithdrawalKept
  <2>4. CASE interrupted' = [interrupted EXCEPT ![p] = TRUE]
    BY <1>1, <1>6, <2>4 DEF PayoutsTypeOK, PapersOK
  <2>5. QED
    BY <1>1, <2>2, <2>3, <2>4 DEF SendPayout
<1>7. QED
  BY <1>1, <1>2, <1>3, <1>4, <1>5, <1>6, AtPaper

\* debitWallet for a withdrawal: it may refuse after the provider paid.
LEMMA WithdrawalDebited ==
  ASSUME PayoutsTypeOK, PapersKept, NEW r \in Workers, Debit(r)
  PROVE  PapersKept'
<1>1. PICK p : /\ p = workers[r].of /\ workers[r].task = "debit"
               /\ p \in Withdrawals /\ p \notin TopUps /\ p \in Papers /\ Handles(r, p)
  BY AtTask DEF Debit, At, WithdrawalTasks
<1>2. /\ OnlyMoves(r)
      /\ \/ workers'[r].of = p /\ workers'[r].task = "approve"
         \/ workers'[r].task = "done"
  BY <1>1, OthersStay DEF Debit, PayoutsTypeOK
<1>3. UNCHANGED <<topUps, withdrawals, payouts, crossed>>
  BY DEF Debit
<1>4. /\ \A x \in Papers \ {p} : RowKept(x)
      /\ \A x \in Withdrawals : interrupted[x] => interrupted'[x]
  BY <1>1, <1>3 DEF RowKept, Debit, PayoutsTypeOK, PapersOK
<1>5. workers'[r].of = p \/ workers'[r].task \notin PaperTasks
  BY <1>2 DEF PaperTasks, TopUpTasks, WithdrawalTasks
<1>6. ASSUME \A q \in Workers \ {r} : ~Handles(q, p)', ~interrupted'[p], WithdrawalKept(p)
      PROVE  WithdrawalKept(p)'
  <2>1. withdrawals[p].status = "PENDING" /\ effects[p] = 0 /\ payouts[p] = Due(p)
    BY <1>1, <1>6 DEF WithdrawalKept, Progress
  <2>2. CASE effects' = [effects EXCEPT ![p] = @ + 1] /\ Goto(r, "approve")
    <3>1. effects'[p] = 1 /\ workers'[r].task = "approve" /\ workers'[r].of = p
      BY <1>1, <2>1, <2>2, OthersStay DEF PayoutsTypeOK, PapersOK
    <3>2. Progress(workers[r].task, p)' /\ Handles(r, p)'
      BY <1>3, <2>1, <3>1 DEF Progress, Due, Handles, PaperTasks, WithdrawalTasks
    <3>3. QED
      BY <1>3, <1>6, <2>1, <3>2 DEF WithdrawalKept
  <2>3. CASE effects' = effects /\ End(r) /\ interrupted' = [interrupted EXCEPT ![p] = @ \/ payouts[p] > 0]
    <3>1. ~Handles(r, p)'
      BY <2>3, OthersStay DEF PayoutsTypeOK, Handles, PaperTasks, TopUpTasks, WithdrawalTasks
    <3>2. ~(payouts[p] > 0)
      BY <1>1, <1>6, <2>3 DEF PayoutsTypeOK, PapersOK
    <3>3. payouts[p] = 0
      BY <1>1, <3>2 DEF PayoutsTypeOK, PapersOK
    <3>4. QED
      BY <1>3, <1>6, <2>1, <2>3, <3>1, <3>3 DEF WithdrawalKept
  <2>4. QED
    BY <1>1, <2>2, <2>3 DEF Debit
<1>7. QED
  BY <1>1, <1>2, <1>3, <1>4, <1>5, <1>6, AtPaper

\* The last step of an approval or rejection writes the status.
LEMMA WithdrawalDecided ==
  ASSUME PayoutsTypeOK, PapersKept, NEW r \in Workers, SaveApproval(r) \/ RejectWithdrawal(r)
  PROVE  PapersKept'
<1>1. PICK p : /\ p = workers[r].of
               /\ p \in Withdrawals /\ p \notin TopUps /\ p \in Papers /\ Handles(r, p)
  BY AtTask DEF SaveApproval, RejectWithdrawal, At, WithdrawalTasks
<1>2. OnlyMoves(r) /\ workers'[r].task = "done"
  BY OthersStay DEF SaveApproval, RejectWithdrawal, PayoutsTypeOK
<1>3. UNCHANGED <<topUps, effects, payouts, crossed, interrupted>>
  BY DEF SaveApproval, RejectWithdrawal, walletHistory
<1>4. \A x \in Papers \ {p} : RowKept(x)
  BY <1>1, <1>3 DEF RowKept, SaveApproval, RejectWithdrawal, PayoutsTypeOK, PapersOK
<1>5. ~Handles(r, p)' /\ workers'[r].task \notin PaperTasks
  BY <1>2 DEF Handles, PaperTasks, TopUpTasks, WithdrawalTasks
<1>6. ASSUME \A q \in Workers \ {r} : ~Handles(q, p)', WithdrawalKept(p)
      PROVE  WithdrawalKept(p)'
  <2>1. Progress(workers[r].task, p)
    BY <1>1, <1>6 DEF WithdrawalKept
  <2>2. \A q \in Workers : ~Handles(q, p)'
    BY <1>5, <1>6
  <2>3. CASE SaveApproval(r)
    <3>1. effects[p] = 1 /\ payouts[p] = Due(p)
      BY <2>1, <2>3 DEF Progress, SaveApproval, At
    <3>2. withdrawals'[p].status = "APPROVED" /\ withdrawals'[p].method = withdrawals[p].method
      BY <1>1, <2>3 DEF SaveApproval, PayoutsTypeOK, PapersOK
    <3>3. QED
      BY <1>3, <2>2, <3>1, <3>2 DEF WithdrawalKept, Due
  <2>4. CASE RejectWithdrawal(r)
    <3>1. effects[p] = 0 /\ payouts[p] = 0
      BY <2>1, <2>4 DEF Progress, RejectWithdrawal, At
    <3>2. withdrawals'[p].status = "REJECTED"
      BY <1>1, <2>4 DEF RejectWithdrawal, PayoutsTypeOK, PapersOK
    <3>3. QED
      BY <1>3, <2>2, <3>1, <3>2 DEF WithdrawalKept
  <2>5. QED
    BY <2>3, <2>4
<1>7. QED
  BY <1>1, <1>2, <1>3, <1>4, <1>5, <1>6, AtPaper

\* A process that dies leaves the paper as it is.
LEMMA CrashKept ==
  ASSUME PayoutsTypeOK, PapersKept, NEW r \in Workers, Crash(r)
  PROVE  PapersKept'
<1>1. OnlyMoves(r) /\ workers'[r].task \notin PaperTasks
  BY OthersStay DEF Crash, PayoutsTypeOK, PaperTasks, TopUpTasks, WithdrawalTasks
<1>2. UNCHANGED <<topUps, withdrawals, effects, payouts, crossed>>
  BY DEF Crash, walletTables
<1>3. \A x : RowKept(x)
  BY <1>2 DEF RowKept
<1>4. CASE workers[r].task \notin PaperTasks
  <2>1. UNCHANGED interrupted
    BY <1>4 DEF Crash, At, PaperTasks, WithdrawalTasks
  <2>2. QED
    BY <1>1, <1>2, <1>4, <2>1, Bystander
<1>5. CASE workers[r].task \in PaperTasks
  <2>1. PICK p : p = workers[r].of /\ p \in Papers /\ Handles(r, p)
                 /\ (workers[r].task \in TopUpTasks => p \notin Withdrawals)
                 /\ (workers[r].task \in WithdrawalTasks => p \notin TopUps /\ p \in Withdrawals)
    BY <1>5, AtTask DEF PaperTasks
  <2>2. \A x \in Withdrawals : interrupted[x] => interrupted'[x]
    BY DEF Crash, PayoutsTypeOK, PapersOK
  <2>3. ~Handles(r, p)'
    BY <1>1 DEF Handles
  <2>4. ASSUME \A q \in Workers \ {r} : ~Handles(q, p)', p \in TopUps, TopUpKept(p)
        PROVE  TopUpKept(p)'
    BY <1>2, <2>3, <2>4 DEF TopUpKept
  <2>5. ASSUME \A q \in Workers \ {r} : ~Handles(q, p)', p \in Withdrawals,
               ~interrupted'[p], WithdrawalKept(p)
        PROVE  WithdrawalKept(p)'
    <3>1. workers[r].task \in WithdrawalTasks
      BY <1>5, <2>1, <2>5 DEF PaperTasks
    <3>2. Progress(workers[r].task, p) /\ payouts[p] \in Nat /\ p \in DOMAIN interrupted
      BY <2>1, <2>5 DEF WithdrawalKept, PayoutsTypeOK, PapersOK
    <3>3. workers[r].task # "approve" /\ (workers[r].task = "debit" => ~(payouts[p] > 0))
      BY <2>1, <2>5, <3>2 DEF Crash, At
    <3>4. effects[p] = 0 /\ payouts[p] = 0
      BY <3>1, <3>2, <3>3 DEF Progress, WithdrawalTasks
    <3>5. withdrawals'[p].status = "PENDING"
      BY <1>2, <3>2 DEF Progress
    <3>6. QED
      BY <1>2, <2>3, <2>5, <3>4, <3>5 DEF WithdrawalKept
  <2>6. QED
    BY <1>1, <1>2, <1>3, <2>1, <2>2, <2>4, <2>5, AtPaper
<1>6. QED
  BY <1>4, <1>5

\* A new request has no history.
LEMMA RequestKept ==
  ASSUME PayoutsTypeOK, PapersKept,
         \/ \E t \in TopUps : RequestTopUp(t)
         \/ \E p \in Withdrawals : RequestWithdrawal(p)
  PROVE  PapersKept'
<1>1. UNCHANGED <<workers, effects, payouts, crossed, interrupted>>
  BY DEF RequestTopUp, RequestWithdrawal, walletHistory
<1>2. \A p \in Papers : ~crossed'[p] => Alone(p)'
  BY <1>1 DEF PapersKept, Alone, Handles
<1>3. ASSUME NEW t \in TopUps, ~crossed'[t] PROVE TopUpKept(t)'
  <2>1. TopUpKept(t)
    BY <1>1, <1>3 DEF PapersKept
  <2>2. \/ topUps'[t] = topUps[t]
        \/ topUps[t] = "NONE" /\ topUps'[t] = "PENDING"
    BY DEF RequestTopUp, RequestWithdrawal, PayoutsTypeOK, PapersOK
  <2>3. QED
    BY <1>1, <2>1, <2>2 DEF TopUpKept, Handles
<1>4. ASSUME NEW p \in Withdrawals, ~crossed'[p], ~interrupted'[p] PROVE WithdrawalKept(p)'
  <2>1. WithdrawalKept(p)
    BY <1>1, <1>4 DEF PapersKept
  <2>2. \/ withdrawals'[p] = withdrawals[p]
        \/ withdrawals[p].status = "NONE" /\ withdrawals'[p].status = "PENDING"
    BY DEF RequestTopUp, RequestWithdrawal, PayoutsTypeOK, PapersOK
  <2>3. CASE withdrawals'[p] = withdrawals[p]
    <3>1. Due(p)' = Due(p) /\ \A q \in Workers : Progress(workers[q].task, p)' <=> Progress(workers[q].task, p)
      BY <1>1, <2>3 DEF Due, Progress
    <3>2. QED
      BY <1>1, <2>1, <2>3, <3>1 DEF WithdrawalKept, Handles
  <2>4. CASE withdrawals[p].status = "NONE" /\ withdrawals'[p].status = "PENDING"
    <3>1. \A q \in Workers : ~Handles(q, p)
      BY <2>1, <2>4 DEF WithdrawalKept, Progress
    <3>2. effects[p] = 0 /\ payouts[p] = 0
      BY <2>1, <2>4, <3>1 DEF WithdrawalKept
    <3>3. QED
      BY <1>1, <2>4, <3>1, <3>2 DEF WithdrawalKept, Handles
  <2>5. QED
    BY <2>2, <2>3, <2>4
<1>5. QED
  BY <1>2, <1>3, <1>4 DEF PapersKept

\* The handlers of wallets keep every paper (WalletService, WithdrawalsService).
LEMMA WorkerStepKept ==
  ASSUME PayoutsTypeOK, PapersKept, NEW r \in Workers, WorkerStep(r)
  PROVE  PapersKept'
<1>1. ASSUME \/ \E u \in Users : \/ \E amount \in Credits : ReadForCredit(r, u, amount)
                                 \/ \E amount \in Payments : Pay(r, u, amount)
                                 \/ GetWallet(r, u)
             \/ Credit(r) \/ RecalculateBalance(r)
      PROVE  PapersKept'
  <2>1. UNCHANGED <<topUps, withdrawals, effects, payouts, crossed, interrupted>>
    BY <1>1 DEF ReadForCredit, Pay, GetWallet, Credit, RecalculateBalance, walletTables, walletHistory
  <2>2. workers[r].task \in {"idle", "credit", "recalculate"}
    BY <1>1 DEF ReadForCredit, Pay, GetWallet, ReadForBalance, Credit, RecalculateBalance, At
  <2>3. OnlyMoves(r) /\ workers'[r].task \in {"credit", "recalculate", "done"}
    <3>1. ASSUME NEW u, NEW amount, ReadForCredit(r, u, amount) PROVE OnlyMoves(r) /\ workers'[r].task = "credit"
      BY <3>1, OthersStay DEF ReadForCredit, PayoutsTypeOK
    <3>2. ASSUME NEW u, GetWallet(r, u) PROVE OnlyMoves(r) /\ workers'[r].task = "recalculate"
      BY <3>2, OthersStay DEF GetWallet, ReadForBalance, PayoutsTypeOK
    <3>3. ASSUME End(r) PROVE OnlyMoves(r) /\ workers'[r].task = "done"
      BY <3>3, OthersStay DEF PayoutsTypeOK
    <3>4. QED
      BY <1>1, <3>1, <3>2, <3>3 DEF Pay, Credit, RecalculateBalance
  <2>4. QED
    BY <2>1, <2>2, <2>3, Bystander DEF PaperTasks, TopUpTasks, WithdrawalTasks
<1>2. ASSUME NEW t \in TopUps, LoadTopUp(r, t) PROVE PapersKept'
  <2>1. PICK task \in TopUpTasks : Load(r, t, task)
    BY <1>2 DEF LoadTopUp, TopUpTasks
  <2>2. topUps[t] = "PENDING" /\ t \notin Withdrawals /\ t \in Papers /\ task \in PaperTasks
    BY <1>2, WalletsAssumption DEF LoadTopUp, Papers, PaperTasks
  <2>3. QED
    BY <2>1, <2>2, LoadKept
<1>3. ASSUME NEW p \in Withdrawals, LoadForApproval(r, p) \/ LoadForRejection(r, p) PROVE PapersKept'
  <2>1. PICK task : /\ Load(r, p, task)
                    /\ \/ task = "reject"
                       \/ task = "pay" /\ withdrawals[p].method = "EBIRR"
                       \/ task = "debit" /\ withdrawals[p].method # "EBIRR"
    BY <1>3 DEF LoadForApproval, LoadForRejection
  <2>2. /\ withdrawals[p].status = "PENDING" /\ p \notin TopUps /\ p \in Papers
        /\ task \in PaperTasks
    BY <1>3, <2>1, WalletsAssumption DEF LoadForApproval, LoadForRejection, Papers, PaperTasks, WithdrawalTasks
  <2>3. QED
    BY <2>1, <2>2, LoadKept
<1>4. \/ ApproveTopUp(r) \/ RejectTopUp(r) \/ SendPayout(r) \/ Debit(r)
      \/ SaveApproval(r) \/ RejectWithdrawal(r) \/ Crash(r)
      => PapersKept'
  BY TopUpDecided, PayoutSent, WithdrawalDebited, WithdrawalDecided, CrashKept
<1>5. CASE \E u \in Users : \/ \E amount \in Credits : ReadForCredit(r, u, amount)
                            \/ \E amount \in Payments : Pay(r, u, amount)
                            \/ GetWallet(r, u)
  BY <1>1, <1>5
<1>6. CASE Credit(r) \/ RecalculateBalance(r)
  BY <1>1, <1>6
<1>7. CASE \E t \in TopUps : LoadTopUp(r, t)
  BY <1>2, <1>7
<1>8. CASE \E p \in Withdrawals : LoadForApproval(r, p) \/ LoadForRejection(r, p)
  BY <1>3, <1>8
<1>9. QED
  BY <1>4, <1>5, <1>6, <1>7, <1>8 DEF WorkerStep

\* A handler of automatic payouts goes on with an item, or ends.
LEMMA PayoutMoves ==
  ASSUME PayoutsTypeOK, NEW r \in Workers, PayoutStep(r)
  PROVE  OnlyMoves(r) /\ workers'[r].task \in ItemTasks \cup {"done"}
<1>1. \/ End(r)
      \/ \E task \in ItemTasks : Goto(r, task)
      \/ \E task \in ItemTasks, i \in PayoutItems : \E n : Become(r, [Idle EXCEPT !.task = task, !.of = i, !.seen = n])
      \/ \E i \in PayoutItems : Become(r, [Idle EXCEPT !.task = "logPayout", !.of = i])
      \/ Become(r, [workers[r] EXCEPT !.task = "sendPayout", !.seen = Len(payoutLogs[workers[r].of]) + 1])
  BY DEF PayoutStep, TryPayout, LoadItem, TryWithoutPhone, LoadForReconciliation, LogPayout, SendItemPayout,
    SavePayout, DebitPayout, LogRefusal, WriteFails, DebitException, ClearException, PayoutCrash, ItemTasks
<1>2. QED
  <2>1. workers[r] \in Work /\ Idle \in Work
    BY IdleType DEF PayoutsTypeOK, WorkersOK
  <2>2. ASSUME End(r) PROVE OnlyMoves(r) /\ workers'[r].task = "done"
    BY <2>2, OthersStay DEF PayoutsTypeOK
  <2>3. ASSUME NEW task, Goto(r, task) PROVE OnlyMoves(r) /\ workers'[r].task = task
    BY <2>3, OthersStay DEF PayoutsTypeOK
  <2>4. ASSUME NEW w, Become(r, w) PROVE OnlyMoves(r) /\ workers'[r] = w
    BY <2>4, OthersStay DEF PayoutsTypeOK
  <2>5. CASE End(r) \/ \E task \in ItemTasks : Goto(r, task)
    BY <2>2, <2>3, <2>5
  <2>6. ASSUME NEW task \in ItemTasks, NEW i \in PayoutItems, NEW n,
               Become(r, [Idle EXCEPT !.task = task, !.of = i, !.seen = n])
        PROVE  OnlyMoves(r) /\ workers'[r].task = task
    <3>1. workers'[r] = [Idle EXCEPT !.task = task, !.of = i, !.seen = n]
      BY <2>4, <2>6
    <3>2. workers'[r].task = task
      BY <2>1, <3>1 DEF Work
    <3>3. QED
      BY <2>4, <2>6, <3>2
  <2>7. ASSUME NEW i \in PayoutItems, Become(r, [Idle EXCEPT !.task = "logPayout", !.of = i])
        PROVE  OnlyMoves(r) /\ workers'[r].task = "logPayout"
    <3>1. workers'[r] = [Idle EXCEPT !.task = "logPayout", !.of = i]
      BY <2>4, <2>7
    <3>2. workers'[r].task = "logPayout"
      BY <2>1, <3>1 DEF Work
    <3>3. QED
      BY <2>4, <2>7, <3>2
  <2>8. ASSUME Become(r, [workers[r] EXCEPT !.task = "sendPayout", !.seen = Len(payoutLogs[workers[r].of]) + 1])
        PROVE  OnlyMoves(r) /\ workers'[r].task = "sendPayout"
    <3>1. workers'[r] = [workers[r] EXCEPT !.task = "sendPayout", !.seen = Len(payoutLogs[workers[r].of]) + 1]
      BY <2>4, <2>8
    <3>2. workers'[r].task = "sendPayout"
      BY <2>1, <3>1 DEF Work
    <3>3. QED
      BY <2>4, <2>8, <3>2
  <2>9. "logPayout" \in ItemTasks /\ "sendPayout" \in ItemTasks
    BY DEF ItemTasks
  <2>10. QED
    BY <1>1, <2>5, <2>6, <2>7, <2>8, <2>9

\* The handlers of automatic payouts have nothing to do with papers.
LEMMA PayoutStepKept ==
  ASSUME PayoutsTypeOK, PapersKept, NEW r \in Workers, PayoutStep(r)
  PROVE  PapersKept'
<1>1. UNCHANGED <<topUps, withdrawals, effects, payouts, crossed, interrupted>>
  BY DEF PayoutStep, TryPayout, LoadItem, TryWithoutPhone, LoadForReconciliation, LogPayout, SendItemPayout,
    SavePayout, DebitPayout, LogRefusal, WriteFails, DebitException, ClearException, PayoutCrash, walletTables, walletHistory
<1>2. workers[r].task \in ItemTasks \cup {"idle"}
  BY DEF PayoutStep, TryPayout, LoadItem, TryWithoutPhone, LoadForReconciliation, LogPayout, SendItemPayout,
    SavePayout, DebitPayout, LogRefusal, WriteFails, DebitException, ClearException, PayoutCrash, At, ItemTasks
<1>3. QED
  BY <1>1, <1>2, PayoutMoves, Bystander DEF PaperTasks, TopUpTasks, WithdrawalTasks, ItemTasks

\* The invariant behind the two theorems below.
LEMMA PapersStayKept == PayoutsSpec => [](PayoutsTypeOK /\ PapersKept)
<1>1. PayoutsInit => PapersKept
  <2> SUFFICES ASSUME PayoutsInit PROVE PapersKept
    OBVIOUS
  <2>1. \A r \in Workers : \A p : ~Handles(r, p)
    <3>1. Idle.task = "idle"
      BY DEF Idle
    <3>2. QED
      BY <3>1 DEF PayoutsInit, WalletsInit, Handles, PaperTasks, TopUpTasks, WithdrawalTasks
  <2>2. /\ \A p \in Papers : effects[p] = 0
        /\ \A t \in TopUps : topUps[t] = "NONE"
        /\ \A p \in Withdrawals : withdrawals[p].status = "NONE" /\ payouts[p] = 0
    BY DEF PayoutsInit, WalletsInit
  <2>3. QED
    BY <2>1, <2>2 DEF PapersKept, Alone, TopUpKept, WithdrawalKept, Papers
<1>2. PayoutsTypeOK /\ PapersKept /\ [PayoutsNext]_allVars => PapersKept'
  <2> SUFFICES ASSUME PayoutsTypeOK, PapersKept, [PayoutsNext]_allVars PROVE PapersKept'
    OBVIOUS
  <2>1. CASE UNCHANGED allVars
    BY <2>1 DEF PapersKept, Alone, TopUpKept, WithdrawalKept, Progress, Due, Handles, allVars, walletVars,
      walletTables, walletHistory
  <2>2. CASE PayoutsNext
    BY <2>2, WorkerStepKept, PayoutStepKept, RequestKept DEF PayoutsNext
  <2>3. QED
    BY <2>1, <2>2
<1>3. QED
  BY <1>1, <1>2, PayoutsTypeCorrect, PTL DEF PayoutsSpec

\* A top-up is deposited exactly when it is approved, and once, unless two
\* handlers of it overlapped (approveTopUp, rejectTopUp).
THEOREM TopUpsAreDepositedOnce == PayoutsSpec => []DepositedOnce
<1>1. PapersKept => DepositedOnce
  BY DEF PapersKept, DepositedOnce, TopUpKept
<1>2. QED
  BY <1>1, PapersStayKept, PTL

\* A withdrawal is paid out and debited at most once, in full once approved and
\* not at all once rejected, unless two handlers of it overlapped or an approval
\* was cut off (approveWithdrawal, rejectWithdrawal).
THEOREM WithdrawalsArePaidOnce == PayoutsSpec => []PaidOnce
<1>1. PayoutsTypeOK /\ PapersKept => PaidOnce
  <2> SUFFICES ASSUME PayoutsTypeOK, PapersKept, NEW p \in Withdrawals, ~crossed[p], ~interrupted[p]
               PROVE  /\ payouts[p] <= 1 /\ effects[p] <= 1
                      /\ withdrawals[p].status = "APPROVED" =>
                           effects[p] = 1 /\ (withdrawals[p].method = "EBIRR" => payouts[p] = 1)
                      /\ withdrawals[p].status = "REJECTED" => effects[p] = 0 /\ payouts[p] = 0
    BY DEF PaidOnce
  <2>1. WithdrawalKept(p)
    BY DEF PapersKept
  <2>2. CASE \E r \in Workers : Handles(r, p)
    <3>1. PICK r \in Workers : Handles(r, p)
      BY <2>2
    <3>2. workers[r].task \in WithdrawalTasks
      BY <3>1, AtTask DEF Handles, PaperTasks
    <3>3. Progress(workers[r].task, p)
      BY <2>1, <3>1 DEF WithdrawalKept
    <3>4. QED
      BY <3>2, <3>3 DEF Progress, Due, WithdrawalTasks
  <2>3. CASE \A r \in Workers : ~Handles(r, p)
    BY <2>1, <2>3 DEF WithdrawalKept, Due
  <2>4. QED
    BY <2>2, <2>3
<1>2. QED
  BY <1>1, PapersStayKept, PTL

-------------------------------------------------------------------------------
(* Balances *)

money == <<balance, transactions, meant, clawedBack, clawedSince, stale, everStale>>

\* What the rows of a wallet and its balance are to each other.
WalletKept(u) ==
  /\ transactions[u] = meant[u] + 2 * clawedBack[u]
  /\ ~stale[u] => balance[u] = transactions[u] - 2 * clawedSince[u]
  /\ stale[u] => everStale[u]
  /\ ~everStale[u] => balance[u] + clawedSince[u] >= 0

BalancesKept == \A u \in Users : WalletKept(u)

\* The amounts of a wallet.
Amounts(u) ==
  /\ balance[u] \in Int /\ transactions[u] \in Int /\ meant[u] \in Int
  /\ clawedBack[u] \in Nat /\ clawedSince[u] \in Nat

\* Every wallet has amounts.
LEMMA AmountsType == ASSUME MoneyOK, NEW u \in Users PROVE Amounts(u)
BY DEF MoneyOK, Amounts

\* A step that leaves a wallet alone keeps it explained.
LEMMA OtherWallet ==
  ASSUME NEW v, WalletKept(v),
         UNCHANGED <<balance[v], transactions[v], meant[v], clawedBack[v], clawedSince[v],
                     stale[v], everStale[v]>>
  PROVE  WalletKept(v)'
BY DEF WalletKept

\* A step that leaves the money alone keeps it explained.
LEMMA MoneyUntouched == ASSUME BalancesKept, UNCHANGED money PROVE BalancesKept'
BY DEF BalancesKept, WalletKept, money

\* A transaction that holds the row adds, or takes what is there (payWithWallet,
\* debitWallet, approveTopUp).
LEMMA MoveKept ==
  ASSUME MoneyOK, BalancesKept, NEW u \in Users, NEW amount \in Int, Move(u, amount),
         amount >= 0 \/ balance[u] + amount >= 0
  PROVE  BalancesKept'
<1>1. UNCHANGED <<clawedBack, clawedSince, stale, everStale>>
  BY DEF Move
<1>2. /\ balance'[u] = balance[u] + amount /\ transactions'[u] = transactions[u] + amount
      /\ meant'[u] = meant[u] + amount
  BY DEF Move, Record, Mean, MoneyOK
<1>3. Amounts(u) /\ WalletKept(u)
  BY AmountsType DEF BalancesKept
<1>4. transactions'[u] = meant'[u] + 2 * clawedBack[u]
  BY <1>2, <1>3 DEF Amounts, WalletKept
<1>5. ASSUME ~stale[u] PROVE balance'[u] = transactions'[u] - 2 * clawedSince[u]
  BY <1>2, <1>3, <1>5 DEF Amounts, WalletKept
<1>6. ASSUME ~everStale[u] PROVE balance'[u] + clawedSince[u] >= 0
  <2>1. balance[u] + clawedSince[u] >= 0
    BY <1>3, <1>6 DEF WalletKept
  <2>2. QED
    BY <1>2, <1>3, <2>1 DEF Amounts
<1>7. WalletKept(u)'
  BY <1>1, <1>3, <1>4, <1>5, <1>6 DEF WalletKept
<1>8. ASSUME NEW v \in Users, v # u PROVE WalletKept(v)'
  <2>1. UNCHANGED <<balance[v], transactions[v], meant[v]>>
    BY <1>8 DEF Move, Record, Mean, MoneyOK
  <2>2. WalletKept(v)
    BY DEF BalancesKept
  <2>3. QED
    BY <1>1, <2>1, <2>2, OtherWallet
<1>9. QED
  BY <1>7, <1>8 DEF BalancesKept

\* creditWallet: a credit that has not seen a change marks the balance as stale;
\* a clawback lowers the balance and raises the rows by its amount.
LEMMA CreditKept ==
  ASSUME PayoutsTypeOK, BalancesKept, NEW r \in Workers, Credit(r)
  PROVE  BalancesKept'
<1>1. PICK u : u = workers[r].of /\ u \in Users
  BY DEF Credit, At, PayoutsTypeOK, WorkersOK, TargetOK, BalanceTasks
<1>2. PICK seen, amount : /\ seen = workers[r].seen /\ amount = workers[r].amount
                          /\ seen \in Int /\ amount \in Int
  BY DEF PayoutsTypeOK, WorkersOK, Work
<1>3. /\ balance'[u] = seen + amount /\ transactions'[u] = transactions[u] + Abs(amount)
      /\ meant'[u] = meant[u] + amount
  BY <1>1, <1>2 DEF Credit, WriteBalance, Record, Mean, PayoutsTypeOK, MoneyOK
<1>4. /\ clawedBack'[u] = clawedBack[u] + Clawed(amount)
      /\ clawedSince'[u] = clawedSince[u] + Clawed(amount)
  BY <1>1, <1>2 DEF Credit, PayoutsTypeOK, MoneyOK
<1>5. /\ stale'[u] = (stale[u] \/ balance[u] # seen)
      /\ everStale'[u] = (everStale[u] \/ stale[u] \/ balance[u] # seen)
  BY <1>1, <1>2 DEF Credit, WriteBalance, PayoutsTypeOK, MoneyOK
<1>6. Amounts(u) /\ WalletKept(u)
  BY <1>1, AmountsType DEF BalancesKept, PayoutsTypeOK
<1>7. Abs(amount) = amount + 2 * Clawed(amount) /\ Clawed(amount) \in Nat /\ amount + Clawed(amount) >= 0
  BY <1>2 DEF Abs, Clawed
<1>8. transactions'[u] = meant'[u] + 2 * clawedBack'[u]
  BY <1>2, <1>3, <1>4, <1>6, <1>7 DEF Amounts, WalletKept
<1>9. ASSUME ~stale'[u] PROVE balance'[u] = transactions'[u] - 2 * clawedSince'[u]
  <2>1. balance[u] = seen /\ seen = transactions[u] - 2 * clawedSince[u]
    BY <1>5, <1>6, <1>9 DEF WalletKept
  <2>2. QED
    BY <1>2, <1>3, <1>4, <1>6, <1>7, <2>1 DEF Amounts
<1>10. stale'[u] => everStale'[u]
  BY <1>5, <1>6 DEF WalletKept
<1>11. ASSUME ~everStale'[u] PROVE balance'[u] + clawedSince'[u] >= 0
  <2>1. balance[u] = seen /\ seen + clawedSince[u] >= 0
    BY <1>5, <1>6, <1>11 DEF WalletKept
  <2>2. QED
    BY <1>2, <1>3, <1>4, <1>6, <1>7, <2>1 DEF Amounts
<1>12. WalletKept(u)'
  BY <1>8, <1>9, <1>10, <1>11 DEF WalletKept
<1>13. ASSUME NEW v \in Users, v # u PROVE WalletKept(v)'
  <2>1. UNCHANGED <<balance[v], transactions[v], meant[v], stale[v], everStale[v]>>
    BY <1>1, <1>13 DEF Credit, WriteBalance, Record, Mean, PayoutsTypeOK, MoneyOK
  <2>2. UNCHANGED <<clawedBack[v], clawedSince[v]>>
    BY <1>1, <1>13 DEF Credit, PayoutsTypeOK, MoneyOK
  <2>3. WalletKept(v)
    BY DEF BalancesKept
  <2>4. QED
    BY <2>1, <2>2, <2>3, OtherWallet
<1>14. QED
  BY <1>12, <1>13 DEF BalancesKept

\* recalculateBalance writes a sum of transactions it has read before; what was
\* clawed back until then is in it as if it had been paid.
LEMMA RecalculateKept ==
  ASSUME PayoutsTypeOK, BalancesKept, NEW r \in Workers, RecalculateBalance(r)
  PROVE  BalancesKept'
<1>1. PICK u : u = workers[r].of /\ u \in Users
  BY DEF RecalculateBalance, At, PayoutsTypeOK, WorkersOK, TargetOK, BalanceTasks
<1>2. PICK seen : seen = workers[r].seen
  OBVIOUS
<1>3. /\ balance'[u] = seen
      /\ stale'[u] = (transactions[u] # seen)
      /\ everStale'[u] = (everStale[u] \/ transactions[u] # seen)
      /\ clawedSince'[u] = 0
      /\ UNCHANGED <<transactions, meant, clawedBack>>
  BY <1>1, <1>2 DEF RecalculateBalance, WriteBalance, PayoutsTypeOK, MoneyOK
<1>4. Amounts(u) /\ WalletKept(u)
  BY <1>1, AmountsType DEF BalancesKept, PayoutsTypeOK
<1>5. ASSUME ~stale'[u] PROVE balance'[u] = transactions'[u] - 2 * clawedSince'[u]
  <2>1. balance'[u] = transactions[u] /\ transactions[u] \in Int
    BY <1>3, <1>4, <1>5 DEF Amounts
  <2>2. transactions[u] = transactions[u] - 2 * 0
    BY <2>1
  <2>3. QED
    BY <1>3, <2>1, <2>2
<1>6. ASSUME ~everStale'[u] PROVE balance'[u] + clawedSince'[u] >= 0
  <2>1. /\ seen = transactions[u]
        /\ balance[u] + clawedSince[u] >= 0 /\ balance[u] = transactions[u] - 2 * clawedSince[u]
    BY <1>3, <1>4, <1>6 DEF WalletKept
  <2>2. seen >= 0
    BY <1>4, <2>1 DEF Amounts
  <2>3. QED
    BY <1>3, <1>4, <2>1, <2>2 DEF Amounts
<1>7. WalletKept(u)'
  BY <1>3, <1>4, <1>5, <1>6 DEF WalletKept
<1>8. ASSUME NEW v \in Users, v # u PROVE WalletKept(v)'
  <2>1. UNCHANGED <<balance[v], clawedSince[v], stale[v], everStale[v]>>
    BY <1>1, <1>8 DEF RecalculateBalance, WriteBalance, PayoutsTypeOK, MoneyOK
  <2>2. WalletKept(v)
    BY DEF BalancesKept
  <2>3. QED
    BY <1>3, <2>1, <2>2, OtherWallet
<1>9. QED
  BY <1>7, <1>8 DEF BalancesKept

\* debitWallet for a withdrawal, the one way to lower a balance there.
LEMMA DebitBalanceKept ==
  ASSUME PayoutsTypeOK, BalancesKept, NEW r \in Workers, Debit(r)
  PROVE  BalancesKept'
<1>1. PICK p \in Withdrawals : p = workers[r].of
  BY AtTask DEF Debit, At, WithdrawalTasks
<1>2. AmountOf[p] \in Nat /\ UserOf[p] \in Users
  BY WalletsAssumption
<1>3. CASE balance[UserOf[p]] >= AmountOf[p]
  <2>1. Move(UserOf[p], -AmountOf[p])
    BY <1>1, <1>3 DEF Debit
  <2>2. -AmountOf[p] \in Int /\ balance[UserOf[p]] + (-AmountOf[p]) >= 0
    BY <1>2, <1>3 DEF PayoutsTypeOK, MoneyOK
  <2>3. QED
    BY <1>2, <2>1, <2>2, MoveKept DEF PayoutsTypeOK
<1>4. CASE ~(balance[UserOf[p]] >= AmountOf[p])
  BY <1>1, <1>4, MoneyUntouched DEF Debit, money
<1>5. QED
  BY <1>3, <1>4

\* debitWallet for an item's payout, at once or on reconciliation.
LEMMA ItemDebitKept ==
  ASSUME PayoutsTypeOK, BalancesKept, NEW i \in PayoutItems, CanDebit(i), DebitItem(i)
  PROVE  BalancesKept'
<1>1. PayoutOf[i] \in Nat /\ VendorOf[i] \in Users
  BY VendorPayoutsAssumption
<1>2. -PayoutOf[i] \in Int /\ balance[VendorOf[i]] + (-PayoutOf[i]) >= 0
  BY <1>1 DEF CanDebit, PayoutsTypeOK, MoneyOK
<1>3. QED
  BY <1>1, <1>2, MoveKept DEF DebitItem, PayoutsTypeOK

\* The handlers of wallets, top-ups and withdrawals.
LEMMA WorkerBalancesKept ==
  ASSUME PayoutsTypeOK, BalancesKept, NEW r \in Workers, WorkerStep(r)
  PROVE  BalancesKept'
<1>1. ASSUME NEW u \in Users, NEW amount \in Payments, Pay(r, u, amount) PROVE BalancesKept'
  <2>1. amount \in Nat /\ -amount \in Int
    BY WalletsAssumption
  <2>2. balance[u] + (-amount) >= 0
    BY <1>1, <2>1 DEF Pay, PayoutsTypeOK, MoneyOK
  <2>3. QED
    BY <1>1, <2>1, <2>2, MoveKept DEF Pay, PayoutsTypeOK
<1>2. ASSUME ApproveTopUp(r) PROVE BalancesKept'
  <2>1. PICK t \in TopUps : t = workers[r].of
    BY <1>2, AtTask DEF ApproveTopUp, At, TopUpTasks
  <2>2. AmountOf[t] \in Nat /\ UserOf[t] \in Users
    BY WalletsAssumption
  <2>3. AmountOf[t] \in Int /\ AmountOf[t] >= 0
    BY <2>2
  <2>4. QED
    BY <1>2, <2>1, <2>2, <2>3, MoveKept DEF ApproveTopUp, PayoutsTypeOK
<1>3. CASE UNCHANGED money
  BY <1>3, MoneyUntouched
<1>4. \/ UNCHANGED money
      \/ \E u \in Users, amount \in Payments : Pay(r, u, amount)
      \/ Credit(r) \/ RecalculateBalance(r) \/ ApproveTopUp(r) \/ Debit(r)
  BY DEF WorkerStep, ReadForCredit, GetWallet, LoadTopUp, Load, RejectTopUp, LoadForApproval, LoadForRejection,
    SendPayout, SaveApproval, RejectWithdrawal, Crash, walletTables, walletHistory, money
<1>5. QED
  BY <1>1, <1>2, <1>3, <1>4, CreditKept, RecalculateKept, DebitBalanceKept

\* The handlers of automatic payouts.
LEMMA PayoutBalancesKept ==
  ASSUME PayoutsTypeOK, BalancesKept, NEW r \in Workers, PayoutStep(r)
  PROVE  BalancesKept'
<1>1. \/ UNCHANGED money
      \/ DebitPayout(r) \/ DebitException(r)
  BY DEF PayoutStep, TryPayout, LoadItem, TryWithoutPhone, LoadForReconciliation, LogPayout, SendItemPayout,
    SavePayout, LogRefusal, WriteFails, ClearException, PayoutCrash, walletTables, walletHistory, money
<1>2. CASE DebitPayout(r) \/ DebitException(r)
  <2>1. PICK i \in PayoutItems : i = workers[r].of
    BY <1>2 DEF DebitPayout, DebitException, At, ItemTasks, PayoutsTypeOK, WorkersOK, TargetOK
  <2>2. \/ CanDebit(i) /\ DebitItem(i)
        \/ UNCHANGED money
    BY <1>2, <2>1 DEF DebitPayout, DebitException, money
  <2>3. QED
    BY <2>2, ItemDebitKept, MoneyUntouched
<1>3. QED
  BY <1>1, <1>2, MoneyUntouched

\* The invariant behind the next theorems.
LEMMA BalancesStayKept == PayoutsSpec => [](PayoutsTypeOK /\ BalancesKept)
<1>1. PayoutsInit => BalancesKept
  BY DEF PayoutsInit, WalletsInit, BalancesKept, WalletKept
<1>2. PayoutsTypeOK /\ BalancesKept /\ [PayoutsNext]_allVars => BalancesKept'
  <2> SUFFICES ASSUME PayoutsTypeOK, BalancesKept, [PayoutsNext]_allVars PROVE BalancesKept'
    OBVIOUS
  <2>1. CASE \/ UNCHANGED allVars
             \/ \E t \in TopUps : RequestTopUp(t)
             \/ \E w \in Withdrawals : RequestWithdrawal(w)
    BY <2>1, MoneyUntouched
       DEF RequestTopUp, RequestWithdrawal, allVars, walletVars, walletTables, walletHistory, money
  <2>2. QED
    BY <2>1, WorkerBalancesKept, PayoutBalancesKept DEF PayoutsNext
<1>3. QED
  BY <1>1, <1>2, PayoutsTypeCorrect, PTL DEF PayoutsSpec

\* The rows of a wallet and the clawbacks explain its balance unless an unlocked
\* write overwrote a change it had not seen (creditWallet, recalculateBalance,
\* debitWallet), whatever is credited and clawed back.
THEOREM BalancesStayExplained == PayoutsSpec => []BalanceExplained
<1>1. BalancesKept => BalanceExplained
  BY DEF BalancesKept, WalletKept, BalanceExplained
<1>2. QED
  BY <1>1, BalancesStayKept, PTL

\* Before the first write from an outdated read nobody spends money his wallet
\* does not show, and no balance is lower than the clawbacks since it was last
\* recalculated account for (payWithWallet and debitWallet test the balance
\* under the row's lock; requestWithdrawal reserves nothing, so that test is
\* the only one).
THEOREM NobodyOverspends == PayoutsSpec => []NeverOverspent
<1>1. MoneyOK /\ BalancesKept => NeverOverspent
  <2> SUFFICES ASSUME MoneyOK, BalancesKept, NEW u \in Users, ~everStale[u]
               PROVE  balance[u] + clawedSince[u] >= 0 /\ transactions[u] >= 0
    BY DEF NeverOverspent
  <2>1. Amounts(u) /\ WalletKept(u)
    BY AmountsType DEF BalancesKept
  <2>2. balance[u] = transactions[u] - 2 * clawedSince[u] /\ balance[u] + clawedSince[u] >= 0
    BY <2>1 DEF WalletKept
  <2>3. QED
    BY <2>1, <2>2 DEF Amounts
<1>2. QED
  BY <1>1, BalancesStayKept, PTL DEF PayoutsTypeOK

-------------------------------------------------------------------------------
(* Automatic payouts.  As long as no two handlers of an item overlap and none  *)
(* is cut off, how far its handler has come says which of its payouts are      *)
(* neither debited nor flagged: at most the one at hand.                       *)

\* A request handles an item.
Pays(r, i) == workers[r].of = i /\ workers[r].task \in ItemTasks

\* All but the last n payouts of the item are debited or flagged.
Booked(i, n) ==
  /\ itemDebits[i] + Cardinality(Flagged(i)) + n <= paidOut[i]
  /\ itemDebits[i] = 0 => Cardinality(Flagged(i)) + n = paidOut[i]

RowFlagged(i, n) == n \in Flagged(i)
RowClear(i, n) == n \in DOMAIN payoutLogs[i] /\ n \notin Flagged(i)

\* How far the handler of an item has come.
PayoutAt(i, w) ==
  /\ w.task \in {"logPayout", "logRefusal"} => Booked(i, 0)
  /\ w.task \in {"sendPayout", "failPayout"} => Booked(i, 0) /\ RowClear(i, w.seen)
  /\ w.task \in {"savePayout", "debitPayout"} => Booked(i, 1) /\ RowClear(i, w.seen)
  /\ w.task = "debitException" => Booked(i, 0) /\ RowFlagged(i, w.seen)
  /\ w.task = "clearException" =>
       /\ itemDebits[i] > 0 /\ RowFlagged(i, w.seen)
       /\ itemDebits[i] + Cardinality(Flagged(i)) <= paidOut[i] + 1

ItemKept(i) ==
  /\ \A r, q \in Workers : Pays(r, i) /\ Pays(q, i) => r = q
  /\ \A r \in Workers : Pays(r, i) => PayoutAt(i, workers[r])
  /\ (\A r \in Workers : ~Pays(r, i)) => Booked(i, 0)

ItemsKept == \A i \in PayoutItems : ~attemptsCrossed[i] /\ ~attemptCut[i] => ItemKept(i)

-------------------------------------------------------------------------------

\* The rows of a log that are flagged.
FlaggedIn(log) == {n \in DOMAIN log : log[n].reconcile}

\* What appending and editing rows does to the flags.
LEMMA FlagsOfLog ==
  ASSUME NEW log \in Seq(Log), NEW status \in {"PENDING", "SUCCESS", "FAILED"}
  PROVE  /\ IsFiniteSet(FlaggedIn(log))
         /\ Cardinality(FlaggedIn(log)) \in Nat
         /\ FlaggedIn(Append(log, PayoutLog(status))) = FlaggedIn(log)
         /\ DOMAIN Append(log, PayoutLog(status)) = DOMAIN log \cup {Len(log) + 1}
         /\ Len(log) + 1 \notin FlaggedIn(log)
<1>1. DOMAIN log = 1..Len(log) /\ Len(log) \in Nat
  OBVIOUS
<1>2. IsFiniteSet(1..Len(log)) /\ FlaggedIn(log) \subseteq 1..Len(log)
  BY <1>1, FS_Interval DEF FlaggedIn
<1>3. IsFiniteSet(FlaggedIn(log)) /\ Cardinality(FlaggedIn(log)) \in Nat
  BY <1>2, FS_Subset, FS_CardinalityType
<1>4. PICK row : row = PayoutLog(status) /\ row \in Log /\ ~row.reconcile
  <2>1. PayoutLog(status) \in Log /\ ~PayoutLog(status).reconcile
    BY DEF PayoutLog, Log
  <2>2. QED
    BY <2>1
<1>5. /\ DOMAIN Append(log, row) = 1..(Len(log) + 1)
      /\ \A n \in 1..Len(log) : Append(log, row)[n] = log[n]
      /\ Append(log, row)[Len(log) + 1] = row
  OBVIOUS
<1>6. DOMAIN Append(log, row) = DOMAIN log \cup {Len(log) + 1}
  BY <1>1, <1>5
<1>7. FlaggedIn(Append(log, row)) = FlaggedIn(log)
  BY <1>1, <1>4, <1>5, <1>6 DEF FlaggedIn
<1>8. Len(log) + 1 \notin FlaggedIn(log)
  BY <1>1 DEF FlaggedIn
<1>9. QED
  BY <1>3, <1>4, <1>6, <1>7, <1>8

\* What replacing one row does to the flags.
LEMMA FlagsOfRow ==
  ASSUME NEW log \in Seq(Log), NEW n \in DOMAIN log, NEW row
  PROVE  FlaggedIn([log EXCEPT ![n] = row])
           = IF row.reconcile THEN FlaggedIn(log) \cup {n} ELSE FlaggedIn(log) \ {n}
<1>1. /\ DOMAIN [log EXCEPT ![n] = row] = DOMAIN log
      /\ [log EXCEPT ![n] = row][n] = row
      /\ \A m \in DOMAIN log \ {n} : [log EXCEPT ![n] = row][m] = log[m]
  OBVIOUS
<1>2. QED
  BY <1>1 DEF FlaggedIn

\* What raising or clearing the flag of one row does to the flags.
LEMMA FlagsOfEdit ==
  ASSUME NEW log \in Seq(Log), NEW n \in DOMAIN log
  PROVE  /\ FlaggedIn([log EXCEPT ![n].reconcile = TRUE]) = FlaggedIn(log) \cup {n}
         /\ FlaggedIn([log EXCEPT ![n].reconcile = FALSE]) = FlaggedIn(log) \ {n}
<1>1. log[n] \in Log
  OBVIOUS
<1>2. \A row \in Log : /\ [row EXCEPT !.reconcile = TRUE].reconcile
                       /\ ~[row EXCEPT !.reconcile = FALSE].reconcile
  BY DEF Log
<1>3. QED
  BY <1>1, <1>2, FlagsOfRow

\* Writing the outcome of a payout whose row is not flagged leaves the flags.
LEMMA FlagsOfOutcome ==
  ASSUME NEW log \in Seq(Log), NEW n \in DOMAIN log, n \notin FlaggedIn(log), NEW status
  PROVE  /\ FlaggedIn([log EXCEPT ![n] = PayoutLog(status)]) = FlaggedIn(log)
         /\ DOMAIN [log EXCEPT ![n] = PayoutLog(status)] = DOMAIN log
<1>1. PICK row : row = PayoutLog(status) /\ ~row.reconcile
  <2>1. PayoutLog(status).reconcile = FALSE
    BY DEF PayoutLog
  <2>2. QED
    BY <2>1
<1>2. FlaggedIn([log EXCEPT ![n] = row])
        = IF row.reconcile THEN FlaggedIn(log) \cup {n} ELSE FlaggedIn(log) \ {n}
  BY FlagsOfRow
<1>3. DOMAIN [log EXCEPT ![n] = row] = DOMAIN log
  OBVIOUS
<1>4. QED
  BY <1>1, <1>2, <1>3

\* Nothing that counts for an item changes; rows may have been added.
BooksKept(i) ==
  /\ paidOut'[i] = paidOut[i] /\ itemDebits'[i] = itemDebits[i]
  /\ Flagged(i)' = Flagged(i)
  /\ DOMAIN payoutLogs[i] \subseteq DOMAIN payoutLogs'[i]

\* A handler that does not move stays where it is.
LEMMA PayoutAtStays ==
  ASSUME NEW i, NEW w, BooksKept(i)
  PROVE  /\ PayoutAt(i, w) => PayoutAt(i, w)'
         /\ \A n : Booked(i, n) => Booked(i, n)'
         /\ \A n : RowFlagged(i, n) => RowFlagged(i, n)'
         /\ \A n : RowClear(i, n) => RowClear(i, n)'
BY DEF BooksKept, PayoutAt, Booked, RowFlagged, RowClear

\* An item that the request at work does not handle, before or after.
LEMMA OtherItem ==
  ASSUME NEW i \in PayoutItems, ItemKept(i), NEW r \in Workers, OnlyMoves(r),
         ~Pays(r, i), ~Pays(r, i)', BooksKept(i)
  PROVE  ItemKept(i)'
<1>1. \A q \in Workers : Pays(q, i)' <=> Pays(q, i)
  BY DEF OnlyMoves, Pays
<1>2. ASSUME NEW q \in Workers, Pays(q, i) PROVE PayoutAt(i, workers[q])'
  <2>1. q # r /\ workers'[q] = workers[q]
    BY <1>2 DEF OnlyMoves
  <2>2. PICK w : w = workers[q]
    OBVIOUS
  <2>3. PayoutAt(i, w)
    BY <1>2, <2>2 DEF ItemKept
  <2>4. PayoutAt(i, w)'
    BY <2>3, PayoutAtStays
  <2>5. QED
    BY <2>1, <2>2, <2>4 DEF PayoutAt, Booked, RowFlagged, RowClear
<1>3. Booked(i, 0) => Booked(i, 0)'
  BY PayoutAtStays
<1>4. QED
  BY <1>1, <1>2, <1>3 DEF ItemKept

\* The one handler of an item goes on or ends.
LEMMA HandlerMoves ==
  ASSUME NEW i \in PayoutItems, NEW r \in Workers, OnlyMoves(r),
         \A q \in Workers \ {r} : ~Pays(q, i),
         NEW w, w = workers'[r],
         Pays(r, i)' => PayoutAt(i, w)',
         ~Pays(r, i)' => Booked(i, 0)'
  PROVE  ItemKept(i)'
<1>1. \A q \in Workers \ {r} : ~Pays(q, i)'
  BY DEF OnlyMoves, Pays
<1>2. Pays(r, i)' => PayoutAt(i, workers[r])'
  BY DEF PayoutAt, Booked, RowFlagged, RowClear
<1>3. QED
  BY <1>1, <1>2 DEF ItemKept

\* What a handler does to an item.
ItemStep(r, i) ==
  \/ TryPayout(r, i) \/ TryWithoutPhone(r, i) \/ LoadForReconciliation(r, i)
  \/ /\ workers[r].of = i /\ workers[r].task \in ItemTasks
     /\ \/ LogPayout(r) \/ SendItemPayout(r) \/ SavePayout(r) \/ DebitPayout(r)
        \/ LogRefusal(r) \/ WriteFails(r) \/ DebitException(r) \/ ClearException(r) \/ PayoutCrash(r)

\* Every step of the payout handlers is about one item.
LEMMA StepsAreOfItems ==
  ASSUME PayoutsTypeOK, NEW r \in Workers, PayoutStep(r)
  PROVE  \E i \in PayoutItems : ItemStep(r, i)
<1>1. workers[r].task \in ItemTasks => workers[r].of \in PayoutItems
  BY DEF PayoutsTypeOK, WorkersOK, TargetOK
<1>2. CASE \E i \in PayoutItems : TryPayout(r, i) \/ TryWithoutPhone(r, i) \/ LoadForReconciliation(r, i)
  BY <1>2 DEF ItemStep
<1>3. CASE \/ LogPayout(r) \/ SendItemPayout(r) \/ SavePayout(r) \/ DebitPayout(r)
           \/ LogRefusal(r) \/ WriteFails(r) \/ DebitException(r) \/ ClearException(r) \/ PayoutCrash(r)
  <2>1. workers[r].task \in ItemTasks
    BY <1>3 DEF LogPayout, SendItemPayout, SavePayout, DebitPayout, LogRefusal, WriteFails, DebitException, ClearException,
      PayoutCrash, At, ItemTasks
  <2>2. QED
    BY <1>1, <1>3, <2>1 DEF ItemStep
<1>4. QED
  BY <1>2, <1>3 DEF PayoutStep

\* Where the handler of an item is after its step.
LEMMA ItemStepMoves ==
  ASSUME PayoutsTypeOK, NEW r \in Workers, NEW i \in PayoutItems, ItemStep(r, i)
  PROVE  /\ OnlyMoves(r)
         /\ workers'[r].task = "done" \/ workers'[r].of = i
<1>0. workers[r] \in Work /\ Idle \in Work
  BY IdleType DEF PayoutsTypeOK, WorkersOK
<1>1. ASSUME NEW w, Become(r, w) PROVE OnlyMoves(r) /\ workers'[r] = w
  BY <1>1, OthersStay DEF PayoutsTypeOK
<1>2. CASE End(r)
  BY <1>2, OthersStay DEF PayoutsTypeOK
<1>3. ASSUME NEW task, Goto(r, task), workers[r].of = i PROVE OnlyMoves(r) /\ workers'[r].of = i
  BY <1>3, OthersStay DEF PayoutsTypeOK
<1>4. ASSUME NEW task, Become(r, [Idle EXCEPT !.task = task, !.of = i])
      PROVE  OnlyMoves(r) /\ workers'[r].of = i
  <2>1. OnlyMoves(r) /\ workers'[r] = [Idle EXCEPT !.task = task, !.of = i]
    BY <1>1, <1>4
  <2>2. QED
    BY <1>0, <2>1 DEF Work
<1>5. ASSUME NEW task, NEW n, Become(r, [Idle EXCEPT !.task = task, !.of = i, !.seen = n])
      PROVE  OnlyMoves(r) /\ workers'[r].of = i
  <2>1. OnlyMoves(r) /\ workers'[r] = [Idle EXCEPT !.task = task, !.of = i, !.seen = n]
    BY <1>1, <1>5
  <2>2. QED
    BY <1>0, <2>1 DEF Work
<1>6. ASSUME NEW n, workers[r].of = i, Become(r, [workers[r] EXCEPT !.task = "sendPayout", !.seen = n])
      PROVE  OnlyMoves(r) /\ workers'[r].of = i
  <2>1. OnlyMoves(r) /\ workers'[r] = [workers[r] EXCEPT !.task = "sendPayout", !.seen = n]
    BY <1>1, <1>6
  <2>2. QED
    BY <1>0, <1>6, <2>1 DEF Work
<1>7. \/ End(r)
      \/ workers[r].of = i /\ \E task : Goto(r, task)
      \/ \E task : Become(r, [Idle EXCEPT !.task = task, !.of = i])
      \/ \E task, n : Become(r, [Idle EXCEPT !.task = task, !.of = i, !.seen = n])
      \/ workers[r].of = i /\ \E n : Become(r, [workers[r] EXCEPT !.task = "sendPayout", !.seen = n])
  BY DEF ItemStep, TryPayout, LoadItem, TryWithoutPhone, LoadForReconciliation, LogPayout, SendItemPayout,
    SavePayout, DebitPayout, LogRefusal, WriteFails, DebitException, ClearException, PayoutCrash
<1>8. QED
  BY <1>2, <1>3, <1>4, <1>5, <1>6, <1>7

\* The other items notice nothing.
LEMMA ItemStepOthers ==
  ASSUME PayoutsTypeOK, NEW r \in Workers, NEW i \in PayoutItems, ItemStep(r, i),
         NEW o \in PayoutItems \ {i}
  PROVE  BooksKept(o) /\ ~Pays(r, o) /\ ~Pays(r, o)'
         /\ attemptsCrossed'[o] = attemptsCrossed[o] /\ attemptCut'[o] = attemptCut[o]
<1>1. /\ payoutLogs'[o] = payoutLogs[o] /\ paidOut'[o] = paidOut[o] /\ itemDebits'[o] = itemDebits[o]
      /\ attemptsCrossed'[o] = attemptsCrossed[o] /\ attemptCut'[o] = attemptCut[o]
  BY DEF ItemStep, TryPayout, LoadItem, TryWithoutPhone, LoadForReconciliation, LogPayout, SendItemPayout,
    SavePayout, DebitPayout, LogRefusal, WriteFails, DebitException, ClearException, PayoutCrash, DebitItem, PayoutsTypeOK, LogsOK
<1>2. BooksKept(o)
  BY <1>1 DEF BooksKept, Flagged
<1>3. ~Pays(r, o)
  BY DEF ItemStep, TryPayout, LoadItem, TryWithoutPhone, LoadForReconciliation, At, Pays, ItemTasks
<1>4. ~Pays(r, o)'
  BY ItemStepMoves DEF Pays, ItemTasks
<1>5. QED
  BY <1>1, <1>2, <1>3, <1>4

\* The books of an item are numbers, its flags a finite set.
LEMMA BooksType ==
  ASSUME PayoutsTypeOK, NEW i \in PayoutItems
  PROVE  /\ payoutLogs[i] \in Seq(Log)
         /\ Flagged(i) = FlaggedIn(payoutLogs[i]) /\ IsFiniteSet(Flagged(i))
         /\ Cardinality(Flagged(i)) \in Nat
         /\ paidOut[i] \in Nat /\ itemDebits[i] \in Nat
<1>1. payoutLogs[i] \in Seq(Log) /\ paidOut[i] \in Nat /\ itemDebits[i] \in Nat
  BY DEF PayoutsTypeOK, LogsOK
<1>2. Flagged(i) = FlaggedIn(payoutLogs[i])
  BY DEF Flagged, FlaggedIn
<1>3. QED
  BY <1>1, <1>2, FlagsOfLog

\* A handler that takes up an item finds nobody else at it (tryAutoEbirrPayoutForItem,
\* reconcilePayoutDebitException).
LEMMA ItemBegins ==
  ASSUME PayoutsTypeOK, NEW r \in Workers, NEW i \in PayoutItems, ItemKept(i),
         TryPayout(r, i) \/ LoadForReconciliation(r, i), ~attemptsCrossed'[i]
  PROVE  ItemKept(i)'
<1>1. \A q \in Workers : ~Pays(q, i)
  <2>1. HandlingNow(i) = {}
    BY DEF TryPayout, LoadItem, LoadForReconciliation, PayoutsTypeOK, LogsOK
  <2>2. QED
    BY <2>1 DEF HandlingNow, Pays
<1>2. Booked(i, 0) /\ BooksKept(i)
  BY <1>1 DEF ItemKept, TryPayout, LoadItem, LoadForReconciliation, BooksKept, Flagged
<1>3. OnlyMoves(r)
  BY ItemStepMoves DEF ItemStep
<1>4. Idle \in Work
  BY IdleType
<1>5. CASE TryPayout(r, i)
  <2> DEFINE w == [Idle EXCEPT !.task = "logPayout", !.of = i]
  <2>1. workers'[r] = w
    BY <1>5, OthersStay DEF TryPayout, LoadItem, PayoutsTypeOK
  <2>2. w.task = "logPayout"
    BY <1>4 DEF Work
  <2> HIDE DEF w
  <2>3. PayoutAt(i, w)
    BY <1>2, <2>2 DEF PayoutAt
  <2>4. PayoutAt(i, w)' /\ Booked(i, 0)'
    BY <1>2, <2>3, PayoutAtStays
  <2>5. QED
    BY <1>1, <1>3, <2>1, <2>4, HandlerMoves
<1>6. CASE LoadForReconciliation(r, i)
  <2>1. PICK n \in Flagged(i), task \in {"clearException", "debitException"} :
          /\ task = IF itemDebits[i] > 0 THEN "clearException" ELSE "debitException"
          /\ Become(r, [Idle EXCEPT !.task = task, !.of = i, !.seen = n])
    BY <1>6 DEF LoadForReconciliation, Flagged
  <2> DEFINE w == [Idle EXCEPT !.task = task, !.of = i, !.seen = n]
  <2>2. workers'[r] = w
    BY <2>1, OthersStay DEF PayoutsTypeOK
  <2>3. w.task = task /\ w.seen = n
    BY <1>4 DEF Work
  <2> HIDE DEF w
  <2>4. RowFlagged(i, w.seen)
    BY <2>1, <2>3 DEF RowFlagged
  <2>5. itemDebits[i] + Cardinality(Flagged(i)) <= paidOut[i] + 1
    BY <1>2, BooksType DEF Booked
  <2>6. PayoutAt(i, w)
    BY <1>2, <2>1, <2>3, <2>4, <2>5 DEF PayoutAt
  <2>7. PayoutAt(i, w)' /\ Booked(i, 0)'
    BY <1>2, <2>6, PayoutAtStays
  <2>8. QED
    BY <1>1, <1>3, <2>2, <2>7, HandlerMoves
<1>7. QED
  BY <1>5, <1>6

\* A FAILED row is written without a payout being tried.
LEMMA WithoutPhoneKept ==
  ASSUME PayoutsTypeOK, NEW r \in Workers, NEW i \in PayoutItems, ItemKept(i), TryWithoutPhone(r, i)
  PROVE  ItemKept(i)'
<1>1. payoutLogs'[i] = Append(payoutLogs[i], PayoutLog("FAILED"))
  BY DEF TryWithoutPhone, PayoutsTypeOK, LogsOK
<1>2. BooksKept(i)
  <2>1. Flagged(i)' = FlaggedIn(payoutLogs'[i])
    BY DEF Flagged, FlaggedIn
  <2>2. Flagged(i)' = Flagged(i) /\ DOMAIN payoutLogs[i] \subseteq DOMAIN payoutLogs'[i]
    BY <1>1, <2>1, BooksType, FlagsOfLog
  <2>3. QED
    BY <2>2 DEF BooksKept, TryWithoutPhone
<1>3. OnlyMoves(r) /\ ~Pays(r, i) /\ ~Pays(r, i)'
  <2>1. OnlyMoves(r) /\ workers'[r].task = "done"
    BY OthersStay DEF TryWithoutPhone, PayoutsTypeOK
  <2>2. QED
    BY <2>1 DEF TryWithoutPhone, At, Pays, ItemTasks
<1>4. QED
  BY <1>2, <1>3, OtherItem

\* The same of the row a request has seen.
LEMMA FlagsOfSeen ==
  ASSUME NEW i, payoutLogs[i] \in Seq(Log), NEW w, w.seen \in DOMAIN payoutLogs[i]
  PROVE  /\ FlaggedIn([payoutLogs[i] EXCEPT ![w.seen].reconcile = TRUE]) = FlaggedIn(payoutLogs[i]) \cup {w.seen}
         /\ FlaggedIn([payoutLogs[i] EXCEPT ![w.seen].reconcile = FALSE]) = FlaggedIn(payoutLogs[i]) \ {w.seen}
<1>1. PICK log \in Seq(Log) : log = payoutLogs[i]
  OBVIOUS
<1>2. PICK n \in DOMAIN log : n = w.seen
  BY <1>1
<1>3. /\ FlaggedIn([log EXCEPT ![n].reconcile = TRUE]) = FlaggedIn(log) \cup {n}
      /\ FlaggedIn([log EXCEPT ![n].reconcile = FALSE]) = FlaggedIn(log) \ {n}
  BY FlagsOfEdit
<1>4. QED
  BY <1>1, <1>2, <1>3, Zenon

\* A step of the handler at work.
LEMMA HandlerKept ==
  ASSUME PayoutsTypeOK, NEW r \in Workers, NEW i \in PayoutItems, ItemKept(i),
         ItemStep(r, i), workers[r].of = i, workers[r].task \in ItemTasks, ~attemptCut'[i]
  PROVE  ItemKept(i)'
<1>1. PICK w \in Work : w = workers[r] /\ w.of = i
  BY DEF PayoutsTypeOK, WorkersOK
<1>2. PayoutAt(i, w) /\ \A q \in Workers \ {r} : ~Pays(q, i)
  BY <1>1 DEF ItemKept, Pays
<1>3. OnlyMoves(r) /\ (workers'[r].task = "done" \/ workers'[r].of = i)
  BY ItemStepMoves
<1>4. PICK v : v = workers'[r]
  OBVIOUS
<1>5. SUFFICES ASSUME TRUE
               PROVE  (v.task \in ItemTasks => PayoutAt(i, v)') /\ (v.task = "done" => Booked(i, 0)')
                      /\ v.task \in ItemTasks \cup {"done"}
  <2>1. Pays(r, i)' <=> v.task \in ItemTasks
    BY <1>3, <1>4 DEF Pays, ItemTasks
  <2>2. ASSUME /\ v.task \in ItemTasks => PayoutAt(i, v)'
               /\ v.task = "done" => Booked(i, 0)'
               /\ v.task \in ItemTasks \cup {"done"}
        PROVE  ItemKept(i)'
    BY <1>2, <1>3, <1>4, <2>1, <2>2, HandlerMoves
  <2>3. QED
    BY <2>2
<1>6. /\ payoutLogs[i] \in Seq(Log)
      /\ Flagged(i) = FlaggedIn(payoutLogs[i]) /\ Flagged(i)' = FlaggedIn(payoutLogs'[i])
      /\ IsFiniteSet(Flagged(i)) /\ Cardinality(Flagged(i)) \in Nat
      /\ paidOut[i] \in Nat /\ itemDebits[i] \in Nat
  BY BooksType DEF Flagged, FlaggedIn
<1>7. /\ Goto(r, "savePayout") => v.task = "savePayout" /\ v.seen = w.seen
      /\ Goto(r, "failPayout") => v.task = "failPayout" /\ v.seen = w.seen
      /\ Goto(r, "debitPayout") => v.task = "debitPayout" /\ v.seen = w.seen
      /\ Goto(r, "logRefusal") => v.task = "logRefusal" /\ v.seen = w.seen
      /\ Goto(r, "clearException") => v.task = "clearException" /\ v.seen = w.seen
      /\ End(r) => v.task = "done"
  <2>1. ASSUME NEW task, Goto(r, task) PROVE v.task = task /\ v.seen = w.seen
    BY <1>1, <1>4, <2>1 DEF Goto, PayoutsTypeOK, WorkersOK, Work
  <2>2. End(r) => v.task = "done"
    BY <1>4, OthersStay DEF PayoutsTypeOK
  <2>3. QED
    BY <2>1, <2>2
<1>8. CASE LogPayout(r)
  <2>1. payoutLogs'[i] = Append(payoutLogs[i], PayoutLog("PENDING"))
    BY <1>1, <1>8 DEF LogPayout, PayoutsTypeOK, LogsOK
  <2>2. /\ Flagged(i)' = Flagged(i)
        /\ DOMAIN payoutLogs'[i] = DOMAIN payoutLogs[i] \cup {Len(payoutLogs[i]) + 1}
        /\ Len(payoutLogs[i]) + 1 \notin Flagged(i)
    BY <1>6, <2>1, FlagsOfLog
  <2>3. v.task = "sendPayout" /\ v.seen = Len(payoutLogs[i]) + 1
    <3>1. v = [workers[r] EXCEPT !.task = "sendPayout", !.seen = Len(payoutLogs[i]) + 1]
      BY <1>1, <1>4, <1>8, OthersStay DEF LogPayout, PayoutsTypeOK
    <3>2. QED
      BY <1>1, <3>1 DEF Work
  <2>4. Booked(i, 0)
    BY <1>1, <1>2, <1>8 DEF LogPayout, At, PayoutAt
  <2>5. BooksKept(i)
    BY <1>8, <2>2 DEF LogPayout, BooksKept
  <2>6. Booked(i, 0)' /\ RowClear(i, v.seen)'
    BY <2>2, <2>3, <2>4, <2>5, PayoutAtStays DEF RowClear
  <2>7. QED
    BY <2>3, <2>6 DEF PayoutAt, ItemTasks
<1>9. CASE SendItemPayout(r)
  <2>1. /\ Booked(i, 0) /\ RowClear(i, w.seen)
        /\ Flagged(i)' = Flagged(i) /\ RowClear(i, w.seen)' /\ itemDebits'[i] = itemDebits[i]
    BY <1>1, <1>2, <1>9 DEF SendItemPayout, At, PayoutAt, RowClear, Flagged
  <2>2. CASE paidOut'[i] = paidOut[i] + 1 /\ Goto(r, "savePayout")
    <3>1. Booked(i, 1)'
      BY <1>6, <2>1, <2>2 DEF Booked
    <3>2. QED
      BY <1>7, <2>1, <2>2, <3>1 DEF PayoutAt, ItemTasks
  <2>3. CASE paidOut' = paidOut /\ Goto(r, "failPayout")
    <3>1. Booked(i, 0)'
      BY <2>1, <2>3 DEF Booked
    <3>2. QED
      BY <1>7, <2>1, <2>3, <3>1 DEF PayoutAt, ItemTasks
  <2>4. attemptCut' # [attemptCut EXCEPT ![i] = TRUE]
    BY DEF PayoutsTypeOK, LogsOK
  <2>5. QED
    BY <1>1, <1>9, <2>2, <2>3, <2>4 DEF SendItemPayout, PayoutsTypeOK, LogsOK
<1>10. CASE SavePayout(r)
  <2>1. PICK status : payoutLogs'[i] = [payoutLogs[i] EXCEPT ![w.seen] = PayoutLog(status)]
    BY <1>1, <1>10 DEF SavePayout, PayoutsTypeOK, LogsOK
  <2>2. RowClear(i, w.seen)
    BY <1>1, <1>2, <1>10 DEF SavePayout, PayoutAt
  <2>8. w.seen \in DOMAIN payoutLogs[i] /\ w.seen \notin Flagged(i)
    BY <2>2 DEF RowClear
  <2>3. Flagged(i)' = Flagged(i) /\ DOMAIN payoutLogs'[i] = DOMAIN payoutLogs[i]
    <3>1. PICK log \in Seq(Log) : log = payoutLogs[i]
      BY <1>6
    <3>2. PICK n \in DOMAIN log : n = w.seen /\ n \notin FlaggedIn(log)
      BY <1>6, <2>8, <3>1
    <3>3. payoutLogs'[i] = [log EXCEPT ![n] = PayoutLog(status)]
      BY <2>1, <3>1, <3>2
    <3>4. /\ FlaggedIn([log EXCEPT ![n] = PayoutLog(status)]) = FlaggedIn(log)
          /\ DOMAIN [log EXCEPT ![n] = PayoutLog(status)] = DOMAIN log
      BY <3>2, FlagsOfOutcome
    <3>5. QED
      BY <1>6, <3>1, <3>3, <3>4, Zenon
  <2>4. BooksKept(i)
    BY <1>10, <2>3 DEF SavePayout, BooksKept
  <2>5. CASE w.task = "savePayout"
    <3>1. Booked(i, 1)
      BY <1>2, <2>5 DEF PayoutAt
    <3>2. Booked(i, 1)' /\ RowClear(i, w.seen)'
      BY <2>2, <2>4, <3>1, PayoutAtStays
    <3>3. v.task = "debitPayout" /\ v.seen = w.seen
      BY <1>1, <1>7, <1>10, <2>5 DEF SavePayout
    <3>4. QED
      BY <3>2, <3>3 DEF PayoutAt, ItemTasks
  <2>6. CASE w.task # "savePayout"
    <3>1. Booked(i, 0) /\ v.task = "done"
      BY <1>1, <1>2, <1>7, <1>10, <2>6 DEF SavePayout, PayoutAt
    <3>2. QED
      BY <2>4, <3>1, PayoutAtStays DEF ItemTasks
  <2>7. QED
    BY <2>5, <2>6
<1>11. CASE DebitPayout(r)
  <2>1. Booked(i, 1) /\ RowClear(i, w.seen) /\ paidOut'[i] = paidOut[i]
    BY <1>1, <1>2, <1>11 DEF DebitPayout, At, PayoutAt
  <2>2. CASE CanDebit(i)
    <3>1. itemDebits'[i] = itemDebits[i] + 1 /\ Flagged(i)' = Flagged(i)
      BY <1>1, <1>11, <2>2 DEF DebitPayout, DebitItem, PayoutsTypeOK, LogsOK, Flagged
    <3>2. Booked(i, 0)'
      BY <1>6, <2>1, <3>1 DEF Booked
    <3>3. v.task = "done"
      BY <1>1, <1>7, <1>11, <2>2 DEF DebitPayout
    <3>4. QED
      BY <3>2, <3>3 DEF ItemTasks
  <2>3. CASE ~CanDebit(i)
    <3>1. /\ itemDebits'[i] = itemDebits[i]
          /\ payoutLogs'[i] = [payoutLogs[i] EXCEPT ![w.seen].reconcile = TRUE]
      BY <1>1, <1>11, <2>3 DEF DebitPayout, PayoutsTypeOK, LogsOK
    <3>2. w.seen \in DOMAIN payoutLogs[i] /\ w.seen \notin Flagged(i)
      BY <2>1 DEF RowClear
    <3>3. FlaggedIn([payoutLogs[i] EXCEPT ![w.seen].reconcile = TRUE]) = FlaggedIn(payoutLogs[i]) \cup {w.seen}
      BY <1>6, <3>2, FlagsOfSeen
    <3>4. Flagged(i)' = Flagged(i) \cup {w.seen}
      BY <1>6, <3>1, <3>3, Zenon
    <3>5. Cardinality(Flagged(i))' = Cardinality(Flagged(i)) + 1
      BY <1>6, <3>2, <3>4, FS_AddElement
    <3>6. Booked(i, 0)'
      BY <1>6, <2>1, <3>1, <3>5 DEF Booked
    <3>7. v.task = "logRefusal"
      BY <1>1, <1>7, <1>11, <2>3 DEF DebitPayout
    <3>8. QED
      BY <3>6, <3>7 DEF PayoutAt, ItemTasks
  <2>4. QED
    BY <2>2, <2>3
<1>12. CASE DebitException(r)
  <2>1. /\ Booked(i, 0) /\ RowFlagged(i, w.seen)
        /\ paidOut'[i] = paidOut[i] /\ payoutLogs' = payoutLogs
    BY <1>1, <1>2, <1>12 DEF DebitException, At, PayoutAt
  <2>2. Flagged(i)' = Flagged(i)
    BY <2>1 DEF Flagged
  <2>3. CASE CanDebit(i)
    <3>1. itemDebits'[i] = itemDebits[i] + 1 /\ v.task = "clearException" /\ v.seen = w.seen
      BY <1>1, <1>7, <1>12, <2>3 DEF DebitException, DebitItem, PayoutsTypeOK, LogsOK
    <3>2. itemDebits'[i] > 0 /\ itemDebits'[i] + Cardinality(Flagged(i))' <= paidOut'[i] + 1
      BY <1>6, <2>1, <2>2, <3>1 DEF Booked
    <3>3. QED
      BY <2>1, <2>2, <3>1, <3>2 DEF PayoutAt, RowFlagged, ItemTasks
  <2>4. CASE ~CanDebit(i)
    <3>1. itemDebits'[i] = itemDebits[i] /\ v.task = "done"
      BY <1>1, <1>7, <1>12, <2>4 DEF DebitException
    <3>2. Booked(i, 0)'
      BY <2>1, <2>2, <3>1 DEF Booked
    <3>3. QED
      BY <3>1, <3>2 DEF ItemTasks
  <2>5. QED
    BY <2>3, <2>4
<1>13. CASE ClearException(r)
  <2>1. /\ itemDebits[i] > 0 /\ w.seen \in Flagged(i)
        /\ itemDebits[i] + Cardinality(Flagged(i)) <= paidOut[i] + 1
        /\ paidOut'[i] = paidOut[i] /\ itemDebits'[i] = itemDebits[i] /\ v.task = "done"
    BY <1>1, <1>2, <1>7, <1>13 DEF ClearException, PayoutAt, RowFlagged
  <2>2. payoutLogs'[i] = [payoutLogs[i] EXCEPT ![w.seen].reconcile = FALSE]
    BY <1>1, <1>13 DEF ClearException, PayoutsTypeOK, LogsOK
  <2>3. w.seen \in DOMAIN payoutLogs[i]
    BY <2>1 DEF Flagged
  <2>4. Flagged(i)' = Flagged(i) \ {w.seen}
    <3>1. FlaggedIn([payoutLogs[i] EXCEPT ![w.seen].reconcile = FALSE]) = FlaggedIn(payoutLogs[i]) \ {w.seen}
      BY <1>6, <2>3, FlagsOfSeen
    <3>2. QED
      BY <1>6, <2>2, <3>1, Zenon
  <2>5. Cardinality(Flagged(i))' = Cardinality(Flagged(i)) - 1
    <3>1. Cardinality(Flagged(i) \ {w.seen}) = Cardinality(Flagged(i)) - 1
      BY <1>6, <2>1, FS_RemoveElement
    <3>2. Cardinality(Flagged(i)') = Cardinality(Flagged(i) \ {w.seen})
      BY <2>4
    <3>3. QED
      BY <3>1, <3>2
  <2>6. Booked(i, 0)'
    BY <1>6, <2>1, <2>5 DEF Booked
  <2>7. QED
    BY <2>1, <2>6 DEF ItemTasks
<1>14. ~PayoutCrash(r) /\ ~WriteFails(r)
  BY <1>1 DEF PayoutCrash, WriteFails, PayoutsTypeOK, LogsOK
<1>15. CASE LogRefusal(r)
  <2>1. payoutLogs'[i] = Append(payoutLogs[i], PayoutLog("FAILED"))
    BY <1>1, <1>15 DEF LogRefusal, PayoutsTypeOK, LogsOK
  <2>2. Flagged(i)' = Flagged(i)
    BY <1>6, <2>1, FlagsOfLog
  <2>3. Booked(i, 0) /\ v.task = "done"
    BY <1>1, <1>2, <1>7, <1>15 DEF LogRefusal, At, PayoutAt
  <2>4. Booked(i, 0)'
    BY <1>15, <2>2, <2>3 DEF LogRefusal, Booked
  <2>5. QED
    BY <2>3, <2>4 DEF ItemTasks
<1>16. QED
  BY <1>8, <1>9, <1>10, <1>11, <1>12, <1>13, <1>14, <1>15
     DEF ItemStep, TryPayout, LoadItem, TryWithoutPhone, LoadForReconciliation, At, ItemTasks

\* The handlers of wallets, top-ups and withdrawals take up no item.
LEMMA WorkersTakeNoItem ==
  ASSUME PayoutsTypeOK, NEW r \in Workers, workers[r].task \notin ItemTasks, WorkerStep(r)
  PROVE  OnlyMoves(r) /\ workers'[r].task \notin ItemTasks
<1>1. ASSUME NEW w, Become(r, w) PROVE OnlyMoves(r) /\ workers'[r] = w
  BY <1>1, OthersStay DEF PayoutsTypeOK
<1>2. ASSUME NEW u, NEW amount, ReadForCredit(r, u, amount)
      PROVE  OnlyMoves(r) /\ workers'[r].task = "credit"
  BY <1>1, <1>2 DEF ReadForCredit
<1>3. ASSUME NEW u, GetWallet(r, u)
      PROVE  OnlyMoves(r) /\ workers'[r].task = "recalculate"
  BY <1>1, <1>3 DEF GetWallet, ReadForBalance
<1>4. ASSUME NEW p, NEW task, Load(r, p, task)
      PROVE  OnlyMoves(r) /\ workers'[r].task = task
  <2>1. OnlyMoves(r) /\ workers'[r] = [Idle EXCEPT !.task = task, !.of = p]
    BY <1>1, <1>4 DEF Load
  <2>2. QED
    BY <2>1, IdleType DEF Work
<1>5. CASE End(r) \/ Goto(r, "debit") \/ Goto(r, "approve")
  BY <1>5, OthersStay DEF PayoutsTypeOK, ItemTasks
<1>6. \/ \E u, amount : ReadForCredit(r, u, amount)
      \/ \E u : GetWallet(r, u)
      \/ \E p, task : task \in PaperTasks /\ Load(r, p, task)
      \/ End(r) \/ Goto(r, "debit") \/ Goto(r, "approve")
  <2>1. CASE \E t \in TopUps : LoadTopUp(r, t)
    BY <2>1 DEF LoadTopUp, PaperTasks, TopUpTasks
  <2>2. CASE \E p \in Withdrawals : LoadForApproval(r, p) \/ LoadForRejection(r, p)
    BY <2>2 DEF LoadForApproval, LoadForRejection, PaperTasks, WithdrawalTasks
  <2>3. CASE SendPayout(r) \/ Debit(r)
    BY <2>3 DEF SendPayout, Debit
  <2>4. QED
    BY <2>1, <2>2, <2>3 DEF WorkerStep, Pay, Credit, RecalculateBalance, ApproveTopUp, RejectTopUp,
      SaveApproval, RejectWithdrawal, Crash
<1>7. QED
  BY <1>2, <1>3, <1>4, <1>5, <1>6 DEF PaperTasks, TopUpTasks, WithdrawalTasks, ItemTasks

\* The handlers of automatic payouts keep their items.
LEMMA PayoutItemsKept ==
  ASSUME PayoutsTypeOK, ItemsKept, NEW r \in Workers, PayoutStep(r)
  PROVE  ItemsKept'
<1>1. PICK i \in PayoutItems : ItemStep(r, i)
  BY StepsAreOfItems
<1>2. ASSUME NEW o \in PayoutItems \ {i}, ~attemptsCrossed'[o], ~attemptCut'[o]
      PROVE  ItemKept(o)'
  <2>1. /\ BooksKept(o) /\ ~Pays(r, o) /\ ~Pays(r, o)'
        /\ ~attemptsCrossed[o] /\ ~attemptCut[o]
    BY <1>1, <1>2, ItemStepOthers
  <2>2. ItemKept(o)
    BY <2>1 DEF ItemsKept
  <2>3. QED
    BY <1>1, <2>1, <2>2, ItemStepMoves, OtherItem
<1>3. ASSUME ~attemptsCrossed'[i], ~attemptCut'[i]
      PROVE  ItemKept(i)'
  <2>1. ~attemptsCrossed[i] /\ ~attemptCut[i]
    BY <1>1, <1>3 DEF ItemStep, TryPayout, LoadItem, TryWithoutPhone, LoadForReconciliation, LogPayout,
      SendItemPayout, SavePayout, DebitPayout, LogRefusal, WriteFails, DebitException, ClearException, PayoutCrash, PayoutsTypeOK, LogsOK
  <2>2. ItemKept(i)
    BY <2>1 DEF ItemsKept
  <2>3. CASE TryPayout(r, i) \/ LoadForReconciliation(r, i)
    BY <1>3, <2>2, <2>3, ItemBegins
  <2>4. CASE TryWithoutPhone(r, i)
    BY <2>2, <2>4, WithoutPhoneKept
  <2>5. CASE workers[r].of = i /\ workers[r].task \in ItemTasks
    BY <1>1, <1>3, <2>2, <2>5, HandlerKept
  <2>6. QED
    BY <1>1, <2>3, <2>4, <2>5 DEF ItemStep
<1>4. QED
  BY <1>2, <1>3 DEF ItemsKept

\* As long as no two handlers of an item overlapped and none was cut off, its
\* vendor's wallet is never debited more often than the provider paid, and until
\* its first debit every payout is flagged for reconciliation once nobody is at
\* work (tryAutoEbirrPayoutForItem, reconcilePayoutDebitException), however often
\* it is retried and whatever else happens to the wallet.
THEOREM PayoutsAreBooked == PayoutsSpec => []PayoutsReachTheBooks
<1>1. PayoutsInit => ItemsKept
  <2> SUFFICES ASSUME PayoutsInit, NEW i \in PayoutItems PROVE ItemKept(i)
    BY DEF ItemsKept
  <2>1. \A r \in Workers : ~Pays(r, i)
    BY DEF PayoutsInit, WalletsInit, Idle, Pays, ItemTasks
  <2>2. Flagged(i) = {}
    BY DEF PayoutsInit, Flagged
  <2>3. Cardinality(Flagged(i)) = 0
    BY <2>2, FS_EmptySet
  <2>4. Booked(i, 0)
    BY <2>3 DEF PayoutsInit, Booked
  <2>5. QED
    BY <2>1, <2>4 DEF ItemKept
<1>2. PayoutsTypeOK /\ ItemsKept /\ [PayoutsNext]_allVars => ItemsKept'
  <2> SUFFICES ASSUME PayoutsTypeOK, ItemsKept, [PayoutsNext]_allVars PROVE ItemsKept'
    OBVIOUS
  <2>1. CASE UNCHANGED <<workers, payoutVars>>
    <3>1. /\ workers' = workers /\ payoutLogs' = payoutLogs /\ paidOut' = paidOut
          /\ itemDebits' = itemDebits /\ attemptsCrossed' = attemptsCrossed /\ attemptCut' = attemptCut
      BY <2>1 DEF payoutVars
    <3>2. ASSUME NEW i \in PayoutItems PROVE ItemKept(i)' = ItemKept(i)
      <4>1. /\ \A n : Booked(i, n)' = Booked(i, n)
            /\ \A n : RowFlagged(i, n)' = RowFlagged(i, n) /\ RowClear(i, n)' = RowClear(i, n)
            /\ \A r : Pays(r, i)' = Pays(r, i) /\ Flagged(i)' = Flagged(i)
        BY <3>1 DEF Booked, RowFlagged, RowClear, Flagged, Pays
      <4>2. QED
        BY <3>1, <4>1 DEF ItemKept, PayoutAt, Pays, Booked, RowFlagged, RowClear, Flagged
    <3>3. QED
      BY <3>1, <3>2 DEF ItemsKept
  <2>2. ASSUME NEW r \in Workers, workers[r].task \notin ItemTasks, WorkerStep(r), UNCHANGED payoutVars
        PROVE  ItemsKept'
    <3>1. OnlyMoves(r) /\ workers'[r].task \notin ItemTasks
      BY <2>2, WorkersTakeNoItem
    <3>2. ASSUME NEW i \in PayoutItems, ItemKept(i) PROVE ItemKept(i)'
      <4>1. BooksKept(i)
        BY <2>2 DEF payoutVars, BooksKept, Flagged
      <4>2. ~Pays(r, i) /\ ~Pays(r, i)'
        BY <2>2, <3>1 DEF Pays
      <4>3. QED
        BY <3>1, <3>2, <4>1, <4>2, OtherItem
    <3>3. QED
      BY <2>2, <3>2 DEF ItemsKept, payoutVars
  <2>3. ASSUME NEW r \in Workers, PayoutStep(r) PROVE ItemsKept'
    BY <2>3, PayoutItemsKept
  <2>4. CASE \/ UNCHANGED allVars
             \/ \E t \in TopUps : RequestTopUp(t) /\ UNCHANGED payoutVars
             \/ \E w \in Withdrawals : RequestWithdrawal(w) /\ UNCHANGED payoutVars
    BY <2>1, <2>4 DEF RequestTopUp, RequestWithdrawal, allVars, walletVars
  <2>5. QED
    BY <2>2, <2>3, <2>4 DEF PayoutsNext
<1>3. PayoutsTypeOK /\ ItemsKept => PayoutsReachTheBooks
  <2> SUFFICES ASSUME PayoutsTypeOK, ItemsKept, NEW i \in PayoutItems,
                      ~attemptsCrossed[i], ~attemptCut[i]
               PROVE  /\ itemDebits[i] <= paidOut[i]
                      /\ HandlingNow(i) = {} =>
                           /\ itemDebits[i] + Cardinality(Flagged(i)) <= paidOut[i]
                           /\ itemDebits[i] = 0 => Cardinality(Flagged(i)) = paidOut[i]
    BY DEF PayoutsReachTheBooks
  <2>1. ItemKept(i)
    BY DEF ItemsKept
  <2>2. /\ IsFiniteSet(Flagged(i)) /\ Cardinality(Flagged(i)) \in Nat
        /\ paidOut[i] \in Nat /\ itemDebits[i] \in Nat
    BY BooksType
  <2>3. HandlingNow(i) = {} => Booked(i, 0)
    BY <2>1 DEF HandlingNow, ItemKept, Pays
  <2>4. CASE \E r \in Workers : Pays(r, i)
    <3>1. PICK r \in Workers : Pays(r, i) /\ PayoutAt(i, workers[r])
      BY <2>1, <2>4 DEF ItemKept
    <3>2. CASE workers[r].task = "clearException"
      <4>1. Flagged(i) # {} /\ itemDebits[i] + Cardinality(Flagged(i)) <= paidOut[i] + 1
        BY <3>1, <3>2 DEF PayoutAt, RowFlagged
      <4>2. Cardinality(Flagged(i)) # 0
        BY <2>2, <4>1, FS_EmptySet
      <4>3. itemDebits[i] <= paidOut[i]
        BY <2>2, <4>1, <4>2
      <4>4. QED
        BY <2>2, <2>3, <4>3 DEF Booked
    <3>3. CASE workers[r].task # "clearException"
      <4>1. Booked(i, 0) \/ Booked(i, 1)
        BY <3>1, <3>3 DEF Pays, PayoutAt, ItemTasks
      <4>2. itemDebits[i] <= paidOut[i]
        BY <2>2, <4>1 DEF Booked
      <4>3. QED
        BY <2>2, <2>3, <4>2 DEF Booked
    <3>4. QED
      BY <3>2, <3>3
  <2>5. CASE \A r \in Workers : ~Pays(r, i)
    <3>1. Booked(i, 0)
      BY <2>1, <2>5 DEF ItemKept
    <3>2. QED
      BY <2>2, <3>1 DEF Booked
  <2>6. QED
    BY <2>4, <2>5
<1>4. QED
  BY <1>1, <1>2, <1>3, PayoutsTypeCorrect, PTL DEF PayoutsSpec

=============================================================================
