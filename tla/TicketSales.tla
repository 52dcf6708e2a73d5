----------------------------- MODULE TicketSales -----------------------------
(***************************************************************************)
(* Event tickets of smooth-be, from the payment to the attendees.          *)
(*                                                                         *)
(* The webhook writes an audit log to MongoDB and queues a job, side by    *)
(* side.  A worker, or the sweep over old logs that every server runs,     *)
(* writes the payment row at once and the attendees in a transaction.  A   *)
(* run that finds the payment row takes the tickets as issued.             *)
(***************************************************************************)
EXTENDS RequestPool

CONSTANTS
  Tickets,   \* ticket purchases
  MaxJobs    \* bound of the model: jobs of a purchase that wait at once

ASSUME JobsBounded == MaxJobs \in Nat

VARIABLES
  logs,      \* purchases with an audit log
  jobs,      \* jobs waiting per purchase
  receipts,  \* rows of payments, per purchase
  issued,    \* how often the attendees of a purchase were created
  halfway    \* history: charges whose run has ended between two of its writes

ticketVars == <<logs, jobs, receipts, issued, halfway>>

TicketInit ==
  /\ logs     = {}
  /\ jobs     = [t \in Tickets |-> 0]
  /\ receipts = [t \in Tickets |-> 0]
  /\ issued   = [t \in Tickets |-> 0]
  /\ halfway  = {}

(***************************************************************************)
(* The webhook.                                                            *)
(***************************************************************************)
AddJob(t) ==
  /\ jobs[t] < MaxJobs
  /\ jobs' = [jobs EXCEPT ![t] = @ + 1]

RecordQueueOnly(h, t) ==  \* mutant: the audit log is not written
  /\ Start(h, "forget", t)
  /\ Query
  /\ t \in metadata
  /\ AddJob(t)
  /\ UNCHANGED <<logs, receipts, issued, halfway, chargeVars, raced, faults>>

RecordSale(h, t) ==
  /\ Start(h, "forget", t)
  /\ Query
  /\ t \in metadata \ logs
  /\ logs' = logs \cup {t}
  /\ AddJob(t)
  /\ UNCHANGED <<receipts, issued, halfway, chargeVars, raced, faults>>

(* It fails when there is a log under the same _id, or when one of the     *)
(* databases does; the other half is done, and Paystack tries again.       *)
RecordAgain(h, t) ==
  /\ pc[h] = "idle"
  /\ Query
  /\ t \in metadata \cap logs
  /\ AddJob(t)
  /\ UNCHANGED <<pc, arg, logs, receipts, issued, halfway, chargeVars, raced, faults>>

RecordFault(h, t) ==
  /\ pc[h] = "idle"
  /\ Query
  /\ t \in metadata
  /\ \/ Fault("mongo") /\ AddJob(t) /\ UNCHANGED logs
     \/ Fault("redis") /\ logs' = logs \cup {t} /\ UNCHANGED jobs
  /\ UNCHANGED <<pc, arg, receipts, issued, halfway, chargeVars, raced>>

(* The metadata is deleted once both are done.                             *)
SaleRecorded(h) ==
  /\ arg[h] \in Tickets
  /\ Forget(h) \/ ForgetTimeout(h)
  /\ UNCHANGED ticketVars

(***************************************************************************)
(* process_payment.                                                        *)
(***************************************************************************)
FindJob(t) ==  \* mutant: old logs are not swept
  jobs[t] > 0 /\ jobs' = [jobs EXCEPT ![t] = @ - 1]

(* A worker has a job, or the sweep an old log.  The sweep takes its logs  *)
(* one after the other; one that has gone meanwhile has a payment row.     *)
FindWork(t) ==
  \/ jobs[t] > 0 /\ jobs' = [jobs EXCEPT ![t] = @ - 1]
  \/ t \in logs /\ UNCHANGED jobs

BeginUnchecked(h, t) ==  \* mutant: an existing payment is not looked for
  /\ FindWork(t)
  /\ Start(h, "sellPay", t)
  /\ OpenTransaction(h)
  /\ Checked(t, {"sellPay"})
  /\ UNCHANGED <<logs, receipts, issued, halfway, chargeVars, faults>>

BeginSale(h, t) ==
  /\ FindWork(t)
  /\ receipts[t] = 0
  /\ Start(h, "sellPay", t)
  /\ OpenTransaction(h)
  /\ Checked(t, {"sellPay"})
  /\ UNCHANGED <<logs, receipts, issued, halfway, chargeVars, faults>>

AlreadySold(h, t) ==
  /\ FindWork(t)
  /\ receipts[t] > 0
  /\ Start(h, "sellUnlog", t)
  /\ Query
  /\ UNCHANGED <<logs, receipts, issued, halfway, chargeVars, raced, faults>>

(* Without a connection the job fails, and Bull does not retry it.         *)
LoseJob(h, t) ==
  /\ pc[h] = "idle"
  /\ Free = 0
  /\ jobs[t] > 0
  /\ jobs' = [jobs EXCEPT ![t] = @ - 1]
  /\ UNCHANGED <<pc, arg, logs, receipts, issued, halfway, poolVars, chargeVars, raced,
                 faults>>

(* create_payment is not given the transaction.                            *)
SellPay(h) ==
  /\ Go(h, "sellPay", "sellCommit")
  /\ Query
  /\ receipts' = [receipts EXCEPT ![arg[h]] = @ + 1]
  /\ UNCHANGED <<logs, jobs, issued, halfway, chargeVars, raced, faults>>

(* Attendees are committed; the mail with the receipts follows.            *)
SellCommit(h) ==
  /\ Go(h, "sellCommit", "sellUnlog")
  /\ EndTransaction(h)
  /\ issued' = [issued EXCEPT ![arg[h]] = @ + 1]
  /\ UNCHANGED <<logs, jobs, receipts, halfway, chargeVars, raced, faults>>

SellUnlog(h) ==
  /\ pc[h] = "sellUnlog"
  /\ logs' = logs \ {arg[h]}
  /\ Finish(h)
  /\ UNCHANGED <<jobs, receipts, issued, halfway, poolVars, chargeVars, raced, faults>>

SellTimeout(h) ==
  /\ Free = 0
  /\ pc[h] = "sellPay"
  /\ EndTransaction(h)
  /\ Finish(h)
  /\ UNCHANGED <<ticketVars, chargeVars, raced, faults>>

(* The payment row is not written; or it is, and a later statement, a QR   *)
(* code or the commit fails: the row stays.                                *)
SellFault(h) ==
  /\ pc[h] \in {"sellPay", "sellCommit"}
  /\ Fault("sql")
  /\ EndTransaction(h)
  /\ halfway' = IF pc[h] = "sellCommit" THEN halfway \cup {arg[h]} ELSE halfway
  /\ Finish(h)
  /\ UNCHANGED <<logs, jobs, receipts, issued, chargeVars, raced>>

SellStep(h) ==
  SellPay(h) \/ SellCommit(h) \/ SellUnlog(h) \/ SellTimeout(h) \/ SaleRecorded(h)

TicketTypeOK ==
  /\ logs \subseteq Tickets
  /\ jobs \in [Tickets -> 0..MaxJobs]
  /\ receipts \in [Tickets -> Nat]
  /\ issued \in [Tickets -> Nat]
  /\ halfway \subseteq Charges
=============================================================================
