---------------------------- MODULE WalletBilling ----------------------------
(***************************************************************************)
(* A user's wallet in smooth-be, funded through the Paystack webhook, and  *)
(* the election plans paid from it.  Every plan costs one unit, as much as *)
(* one funding brings.                                                     *)
(*                                                                         *)
(* The wallet row changes in SERIALIZABLE transactions only, but what is   *)
(* decided on, the balance, an earlier credit of the same payment, the     *)
(* last plan, is read on another connection.                               *)
(***************************************************************************)
EXTENDS RequestPool, Integers

CONSTANTS
  Payments,    \* wallet fundings
  MaxRequests, \* bound of the model: requests for plans in all
  MaxWork      \* bound of the model: charges and requests for plans in all

ASSUME RequestsBounded == MaxRequests \in Nat /\ MaxWork \in Nat
ASSUME PaymentsFinite == IsFiniteSet(Payments)

Plans == {"purchase", "renewal", "free"}

VARIABLES
  balance,    \* account_balance
  credited,   \* credit transactions per payment
  resolved,   \* payments whose idempotency key is in Redis
  plans,      \* plans created, per kind
  capacity,   \* voters allowed by the last billing row
  base,       \* that number as a renewal has read it
  lock,       \* who has the wallet row locked
  asked,      \* requests for plans so far
  stale       \* requests whose snapshot is older than the wallet row

walletVars == <<balance, credited, resolved, lock, stale>>
planVars   == <<plans, capacity, base>>
moneyVars  == <<walletVars, planVars, asked>>

MoneyInit ==
  /\ balance  = 0
  /\ credited = [p \in Payments |-> 0]
  /\ resolved = {}
  /\ plans    = [k \in Plans |-> 0]
  /\ capacity = 0
  /\ base     = [h \in Handlers |-> 0]
  /\ lock     = Nothing
  /\ asked    = 0
  /\ stale    = {}

(* Rows a request has locked, and its snapshot, go with the transaction;   *)
(* a commit makes the snapshots of the others stale.                       *)
Unlock(h) == lock' = IF lock = h THEN Nothing ELSE lock

Snapshots == {h \in Handlers : pc[h] = "spendDebit"}

Rollback(h) ==
  /\ EndTransaction(h)
  /\ Unlock(h)
  /\ stale' = stale \ {h}
  /\ base' = [base EXCEPT ![h] = 0]
  /\ Finish(h)
  /\ UNCHANGED <<balance, credited, resolved, plans, capacity, asked, chargeVars, raced>>

CommitWallet(h) ==
  /\ EndTransaction(h)
  /\ Unlock(h)
  /\ stale' = (stale \cup Snapshots) \ {h}

(***************************************************************************)
(* Funding.                                                                *)
(***************************************************************************)
(* Without metadata, or with the key set, the webhook just says thanks.    *)
FundWebhook(h, p) ==
  /\ Start(h, "fundLook", p)
  /\ p \in metadata \ resolved
  /\ OpenTransaction(h)
  /\ UNCHANGED <<moneyVars, chargeVars, raced, faults>>

FundLook(h) ==
  /\ Go(h, "fundLook", "fundCredit")
  /\ Query
  /\ credited[arg[h]] = 0
  /\ Checked(arg[h], {"fundCredit", "fundCommit"})
  /\ UNCHANGED <<moneyVars, chargeVars, faults>>

(* "Duplicate transaction": the function returns, the webhook goes on.     *)
FundDuplicate(h) ==
  /\ Go(h, "fundLook", "forget")
  /\ Free > 0
  /\ credited[arg[h]] > 0
  /\ LeaveOpen(h)
  /\ UNCHANGED <<moneyVars, chargeVars, raced, faults>>

FundCredit(h) ==
  /\ Go(h, "fundCredit", "fundCommit")
  /\ lock = Nothing
  /\ lock' = h
  /\ UNCHANGED <<balance, credited, resolved, stale, planVars, asked, poolVars, chargeVars,
                 raced, faults>>

FundConflict(h) ==
  /\ pc[h] = "fundCredit"
  /\ lock # Nothing
  /\ Rollback(h)
  /\ UNCHANGED faults

FundCommit(h) ==
  /\ Go(h, "fundCommit", "forget")
  /\ CommitWallet(h)
  /\ balance' = balance + 1
  /\ credited' = [credited EXCEPT ![arg[h]] = @ + 1]
  /\ UNCHANGED <<resolved, planVars, asked, chargeVars, raced, faults>>

ResolveLast(h) ==  \* mutant: the key is set after the metadata is deleted
  /\ arg[h] \in Payments
  /\ \/ Forget(h) /\ resolved' = resolved \cup {arg[h]}
     \/ ForgetTimeout(h) /\ UNCHANGED resolved
  /\ UNCHANGED <<balance, credited, lock, stale, planVars, asked>>

(* The key is set, and then the metadata deleted.                          *)
FundResolve(h) ==
  /\ arg[h] \in Payments
  /\ Forget(h) \/ ForgetTimeout(h)
  /\ resolved' = resolved \cup {arg[h]}
  /\ UNCHANGED <<balance, credited, lock, stale, planVars, asked>>

(* No connection for the look: the transaction stays open.                 *)
FundTimeout(h) ==
  /\ pc[h] = "fundLook"
  /\ Free = 0
  /\ LeaveOpen(h)
  /\ Finish(h)
  /\ UNCHANGED <<moneyVars, chargeVars, raced, faults>>

FundFault(h) ==
  /\ pc[h] \in {"fundCredit", "fundCommit"}
  /\ Fault("sql")
  /\ Rollback(h)

(***************************************************************************)
(* Plans.                                                                  *)
(***************************************************************************)
(* Bound of the model: not everything is asked for in one behaviour.       *)
WorkLeft == asked + Cardinality(charged) < MaxWork

(* The last billing is read: a renewal adds to it.                         *)
Spending == {"spendRead", "spendInsert", "spendDebit", "spendCommit"}

Ask ==
  /\ WorkLeft
  /\ asked < MaxRequests
  /\ asked' = asked + 1

RequestPlan(h, k) ==
  /\ Ask
  /\ Start(h, "spendRead", k)
  /\ OpenTransaction(h)
  /\ base' = [base EXCEPT ![h] = IF k = "renewal" THEN capacity ELSE 0]
  /\ IF k = "renewal" THEN Checked(k, Spending) ELSE UNCHANGED raced
  /\ UNCHANGED <<walletVars, plans, capacity, chargeVars, faults>>

RequestFreeUnchecked(h) ==  \* mutant: an existing free plan is not looked for
  /\ Ask
  /\ Start(h, "freeInsert", "free")
  /\ Query
  /\ Checked("free", {"freeInsert"})
  /\ UNCHANGED <<walletVars, planVars, chargeVars, faults>>

RequestFree(h) ==
  /\ Ask
  /\ plans["free"] = 0
  /\ Start(h, "freeInsert", "free")
  /\ Query
  /\ Checked("free", {"freeInsert"})
  /\ UNCHANGED <<walletVars, planVars, chargeVars, faults>>

FreeInsert(h) ==
  /\ pc[h] = "freeInsert"
  /\ Query
  /\ plans' = [plans EXCEPT !["free"] = @ + 1]
  /\ Finish(h)
  /\ UNCHANGED <<walletVars, capacity, base, asked, chargeVars, raced, faults>>

(* "The minimum subscription duration is ...": thrown before the try.      *)
RefuseRenewal(h) ==
  /\ Ask
  /\ pc[h] = "idle"
  /\ Free > 0
  /\ LeaveOpen(h)
  /\ UNCHANGED <<pc, arg, walletVars, planVars, chargeVars, raced, faults>>

SpendUnchecked(h) ==  \* mutant: the balance is not compared with the quote
  /\ Go(h, "spendRead", "spendInsert")
  /\ Query
  /\ UNCHANGED <<moneyVars, chargeVars, raced, faults>>

(* The wallet is read outside the transaction.                             *)
SpendRead(h) ==
  /\ Go(h, "spendRead", "spendInsert")
  /\ Query
  /\ balance >= 1
  /\ raced' = IF \E g \in Handlers : pc[g] \in {"spendInsert", "spendDebit", "spendCommit"}
              THEN raced \cup {"wallet"} ELSE raced
  /\ UNCHANGED <<moneyVars, chargeVars, faults>>

Insufficient(h) ==
  /\ pc[h] = "spendRead"
  /\ Free > 0
  /\ balance < 1
  /\ Rollback(h)
  /\ UNCHANGED faults

(* The first statement of the transaction takes its snapshot.              *)
SpendInsert(h) ==
  /\ Go(h, "spendInsert", "spendDebit")
  /\ UNCHANGED <<moneyVars, poolVars, chargeVars, raced, faults>>

SpendDebit(h) ==
  /\ Go(h, "spendDebit", "spendCommit")
  /\ lock = Nothing
  /\ h \notin stale
  /\ lock' = h
  /\ UNCHANGED <<balance, credited, resolved, stale, planVars, asked, poolVars, chargeVars,
                 raced, faults>>

SpendConflict(h) ==
  /\ pc[h] = "spendDebit"
  /\ h \in stale \/ lock # Nothing
  /\ Rollback(h)
  /\ UNCHANGED faults

(* A renewal inserts a row with what it has read plus what is paid for.    *)
SpendCommit(h) ==
  /\ pc[h] = "spendCommit"
  /\ CommitWallet(h)
  /\ balance' = balance - 1
  /\ plans' = [plans EXCEPT ![arg[h]] = @ + 1]
  /\ capacity' = IF arg[h] = "renewal" THEN base[h] + 1 ELSE capacity
  /\ base' = [base EXCEPT ![h] = 0]
  /\ Finish(h)
  /\ UNCHANGED <<credited, resolved, asked, chargeVars, raced, faults>>

SpendTimeout(h) ==
  /\ Free = 0
  /\ pc[h] \in {"spendRead", "freeInsert"}
  /\ Rollback(h)
  /\ UNCHANGED faults

SpendFault(h) ==
  /\ pc[h] \in {"spendRead", "spendInsert", "spendDebit", "spendCommit"}
  /\ Fault("sql")
  /\ Rollback(h)

FundStep(h) ==
  \/ FundLook(h) \/ FundDuplicate(h) \/ FundCredit(h) \/ FundConflict(h) \/ FundCommit(h)
  \/ FundResolve(h) \/ FundTimeout(h)

SpendStep(h) ==
  \/ FreeInsert(h) \/ SpendRead(h) \/ Insufficient(h) \/ SpendInsert(h) \/ SpendDebit(h)
  \/ SpendConflict(h) \/ SpendCommit(h) \/ SpendTimeout(h)

MoneyTypeOK ==
  /\ balance \in Int
  /\ credited \in [Payments -> Nat]
  /\ resolved \subseteq Payments
  /\ plans \in [Plans -> Nat]
  /\ capacity \in Nat
  /\ asked \in 0..MaxRequests
  /\ base \in [Handlers -> Nat]
  /\ lock \in held \cup {Nothing}
  /\ stale \subseteq held
=============================================================================
