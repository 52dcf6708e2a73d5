---------------------------- MODULE PaidServices ----------------------------
(***************************************************************************)
(* Wallet, billing and ticket sales of smooth-be on one server: they share *)
(* the connection pool, the wallet and the webhook.                        *)
(***************************************************************************)
EXTENDS WalletBilling, TicketSales, Functions

ASSUME ChargesKnown == Charges = Payments \cup Tickets /\ Payments \cap Tickets = {}

vars == <<requestVars, moneyVars, ticketVars>>

Init == PoolInit /\ MoneyInit /\ TicketInit

(* The server dies and comes back: everything in memory is gone, open      *)
(* transactions are rolled back, and jobs that were running may be put     *)
(* back into their queue.                                                  *)
Selling(t) == Between(t, {"sellPay", "sellCommit", "sellUnlog"}) # {}

(* A payment row without attendees, a credit without its key in Redis.     *)
HalfDone(h) ==
  \/ pc[h] = "sellCommit"
  \/ pc[h] = "forget" /\ arg[h] \in Payments

Die ==
  /\ pc' = [h \in Handlers |-> "idle"]
  /\ arg' = [h \in Handlers |-> Nothing]
  /\ held' = {}
  /\ leaked' = 0
  /\ base' = [h \in Handlers |-> 0]
  /\ lock' = Nothing
  /\ stale' = {}
  /\ halfway' = halfway \cup {arg[h] : h \in {g \in Handlers : HalfDone(g)}}
  /\ \/ UNCHANGED jobs
     \/ jobs' = [t \in Tickets |-> IF Selling(t) /\ jobs[t] < MaxJobs THEN jobs[t] + 1 ELSE jobs[t]]
  /\ UNCHANGED <<balance, credited, resolved, plans, capacity, asked, logs, receipts, issued,
                 chargeVars, raced>>

Restart ==
  /\ \E h \in Handlers : pc[h] # "idle"
  /\ Fault("restart")
  /\ Die

(* A receipt cannot be read, or its log not be deleted, after the commit:  *)
(* the rollback of the finished transaction is a rejection nobody handles. *)
MailFault(h) ==
  /\ pc[h] = "sellUnlog"
  /\ Fault("file")
  /\ Die

TicketNext ==
  \E h \in Handlers :
    \/ \E t \in Tickets :
         \/ RecordSale(h, t) \/ RecordAgain(h, t) \/ RecordFault(h, t)
         \/ BeginSale(h, t) \/ AlreadySold(h, t) \/ LoseJob(h, t)
    \/ SellStep(h) \/ SellFault(h)

WalletNext ==
  \E h \in Handlers :
    \/ \E p \in Payments : FundWebhook(h, p)
    \/ \E k \in Plans \ {"free"} : RequestPlan(h, k)
    \/ RequestFree(h) \/ RefuseRenewal(h)
    \/ FundStep(h) \/ FundFault(h) \/ SpendStep(h) \/ SpendFault(h)

ChargeNext == WorkLeft /\ \E x \in Charges : Charge(x)

Next ==
  \/ TicketNext /\ UNCHANGED moneyVars
  \/ WalletNext /\ UNCHANGED ticketVars
  \/ ChargeNext /\ UNCHANGED <<moneyVars, ticketVars>>
  \/ Restart
  \/ \E h \in Handlers : MailFault(h)

Spec == Init /\ [][Next]_vars

(* Event loops go on, Paystack delivers again until it gets an answer,     *)
(* the sweep comes back, and the pool serves who waits in order.           *)
Fairness ==
  /\ \A h \in Handlers :
       /\ WF_vars(SellStep(h) /\ UNCHANGED moneyVars)
       /\ WF_vars((FundStep(h) \/ SpendStep(h)) /\ UNCHANGED ticketVars)
       /\ SF_vars(SellPay(h) /\ UNCHANGED moneyVars)
  /\ \A t \in Tickets :
       /\ SF_vars(\E h \in Handlers : RecordSale(h, t) /\ UNCHANGED moneyVars)
       /\ SF_vars(\E h \in Handlers : BeginSale(h, t) /\ UNCHANGED moneyVars)

FairSpec == Spec /\ Fairness

(***************************************************************************)
(* Properties.                                                             *)
(***************************************************************************)
InTransaction == {"fundLook", "fundCredit", "fundCommit", "spendRead", "spendInsert",
                  "spendDebit", "spendCommit", "sellPay", "sellCommit"}

Steps == InTransaction \cup {"idle", "forget", "freeInsert", "sellUnlog"}

TypeOK ==
  /\ RequestTypeOK
  /\ MoneyTypeOK
  /\ TicketTypeOK
  /\ pc \in [Handlers -> Steps]
  /\ arg \in [Handlers -> Charges \cup Plans \cup {Nothing}]
  /\ raced \subseteq Charges \cup Plans \cup {"wallet"}

(* A delivery of a payment that is credited already opens a transaction,   *)
(* finds the credit and returns without ending it: the pool loses a        *)
(* connection.  So a credited payment is closed to further deliveries: its *)
(* key is in Redis, however the deletion of the metadata ended, or a       *)
(* request is about to set it, or the server died in between.              *)
CreditIsClosed ==
  \A p \in Payments :
    credited[p] > 0 =>
      \/ p \in resolved \cup halfway
      \/ \E h \in Handlers : arg[h] = p /\ pc[h] = "forget"

(* The wallet holds what its credits brought less what its plans cost, and *)
(* a payment is credited twice, or the wallet overdrawn, only when two     *)
(* requests had looked before either acted.                                *)
CreditedOnceUnlessRaced == \A p \in Payments \ raced : credited[p] <= 1

OverdrawnOnlyByRace == "wallet" \notin raced => balance >= 0

WalletSound ==
  /\ balance = SumFunctionOnSet(credited, Payments) - plans["purchase"] - plans["renewal"]
  /\ CreditedOnceUnlessRaced
  /\ OverdrawnOnlyByRace

(* A user has one free plan, and as many voters as renewals were paid for, *)
(* unless two requests had read the last plan before either wrote.         *)
PlansAsPaid ==
  /\ "free" \notin raced => plans["free"] <= 1
  /\ "renewal" \notin raced => capacity = plans["renewal"]

(* A paid purchase is not lost: until there is a payment row, Paystack     *)
(* still finds its metadata, or it has a log; and a payment row without    *)
(* attendees is being worked on or was left behind by a failed run.        *)
PurchaseAccounted ==
  \A t \in Tickets \cap charged :
    /\ receipts[t] = 0 => t \in metadata \cup logs
    /\ receipts[t] > issued[t] =>
         t \in halfway \/ \E h \in Handlers : arg[h] = t /\ pc[h] = "sellCommit"

(* Attendees are created twice only when two runs had looked for the       *)
(* payment row before either wrote it.                                     *)
IssuedOnceUnlessRaced == \A t \in Tickets \ raced : issued[t] <= 1

Accounts == INSTANCE ServiceAccounts WITH
  Limit <- Cardinality(Handlers),
  paid  <- charged

(* All of the above implements what users are promised: every step of a    *)
(* webhook, a request, a worker, the sweep or a fault is a step of         *)
(* ServiceAccounts or leaves what it speaks of unchanged.  The limit is    *)
(* the number of requests that can be under way at once.                   *)
ImplementsAccounts == Accounts!Spec

(* Who has paid for tickets gets them in the end, though the runs that     *)
(* issue them time out or lose their job and though others use up the      *)
(* pool; unless a fault left the purchase half done, or transactions left  *)
(* open have taken so many connections that no run gets the two it needs.  *)
PurchaseDelivered ==
  \A t \in Tickets :
    t \in charged ~> issued[t] > 0 \/ t \in halfway \/ leaked >= PoolSize - 1
=============================================================================
