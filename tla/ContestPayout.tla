---------------------------- MODULE ContestPayout ----------------------------
(***************************************************************************)
(* Money out of paid contests in smooth-be: revenue paid out to organisers *)
(* and refunds paid back to voters.                                        *)
(*                                                                         *)
(* A payout is made by a Bull worker, for a job that a cron queues for     *)
(* every record with something due, or by a request of a super-admin.      *)
(* Refunds are transferred one after the other by a cron run, the cheapest *)
(* first.  All of them call initiate_transfer of the payment service, and  *)
(* all of them transfer first and write to PostgreSQL afterwards.          *)
(*                                                                         *)
(* A record inserted by the voting code has NULL due, and NULL plus income *)
(* stays NULL; a record pays out only after somebody has set the column by *)
(* hand, here to zero.  Amounts are whole units.                           *)
(***************************************************************************)
EXTENDS PaymentBreaker, Integers, FiniteSets, Functions

CONSTANTS
  Records,      \* contest financial records
  Refunds,      \* rows of ContestVoteRefunds
  Workers,      \* Bull workers of the transfer queue
  Admins,       \* payout requests of super-admins, each made at most once
  RefundCron,   \* the cron server's refund run
  Amounts,      \* what a super-admin may ask for
  RefundAmount, \* the amount of each refund
  Refused,      \* refunds whose recipient Paystack refuses every time
  Null,         \* no number
  Nobody,       \* the target of an idle caller
  MaxEarned,    \* bound of the model: income of a record
  MaxQueue,     \* bound of the model: jobs of a record that wait at once
  MaxTransfers, \* bound of the model: transfers Paystack accepts per target
  MaxBusy,      \* bound of the model: callers at work at once
  MaxVerified,  \* bound of the model: how many transfers are verified
  Faults,       \* the kinds of fault that can happen
  MaxFaults     \* bound of the model: how many faults happen in all

FaultKinds == {"call", "record", "crash"}
Payers     == Workers \cup Admins
Targets    == Records \cup Refunds
Codes      == Targets \X (1..MaxTransfers)
NoCode     == <<Nobody, 0>>

ASSUME CallersKnown ==
  /\ Callers = Payers \cup {RefundCron}
  /\ Workers \cap Admins = {}
  /\ RefundCron \notin Payers
ASSUME TargetsKnown == Records \cap Refunds = {} /\ Nobody \notin Targets
ASSUME AmountsPositive ==
  Amounts \subseteq Nat \ {0} /\ RefundAmount \in [Refunds -> Nat \ {0}]
ASSUME RefusedAreRefunds == Refused \subseteq Refunds
ASSUME NullIsNoNumber == Null \notin Int
ASSUME BoundsAreNumbers ==
  /\ MaxEarned \in Nat
  /\ MaxQueue \in Nat
  /\ MaxTransfers \in Nat
  /\ MaxVerified \in Nat
  /\ MaxBusy \in Nat
  /\ MaxFaults \in Nat
  /\ Faults \subseteq FaultKinds

VARIABLES
  due,        \* amount_due_for_payout of each record, or Null
  payee,      \* records whose organiser has a bank account on file
  payouts,    \* rows of ContestPayouts
  bank,       \* refunds with bank details (recipient_code)
  paid,       \* the transfer_code of each refund, NoCode while pending
  confirmed,  \* codes of the payouts and refunds marked "successful"
  queue,      \* jobs waiting per record
  todo,       \* refunds the refund run has read and not looked at yet
  pc,         \* where each caller is
  target,     \* the record or refund it works for
  amount,     \* the amount it will transfer
  code,       \* the code of the transfer it has made
  transfers,  \* what Paystack has accepted
  issued,     \* how many it has accepted for each target
  earned,     \* income of each record so far
  dropped,    \* history: codes whose caller failed before writing them down
  overlapped, \* history: records two callers have paid from at a time
  faults      \* faults so far

bookVars   == <<payouts, paid, confirmed>>
dbVars     == <<due, payee, bank, bookVars>>
queueVars  == <<queue, todo>>
callVars   == <<pc, target, amount, code>>
stackVars  == <<transfers, issued>>
envVars    == <<earned, dropped, overlapped, faults>>
vars == <<breakerVars, dbVars, queueVars, callVars, stackVars, envVars>>

PayoutRows == [code : Codes, record : Records, amount : Int]

Init ==
  /\ BreakerInit
  /\ due       \in [Records -> {0, Null}]
  /\ payee     = {}
  /\ payouts   = {}
  /\ bank      = {}
  /\ paid      = [s \in Refunds |-> NoCode]
  /\ confirmed = {}
  /\ queue     = [r \in Records |-> 0]
  /\ todo      = {}
  /\ pc        = [p \in Callers |-> "idle"]
  /\ target    = [p \in Callers |-> Nobody]
  /\ amount    = [p \in Callers |-> 0]
  /\ code      = [p \in Callers |-> NoCode]
  /\ transfers = {}
  /\ issued    = [t \in Targets |-> 0]
  /\ earned    = [r \in Records |-> 0]
  /\ dropped   = {}
  /\ overlapped = {}
  /\ faults    = 0

Fault(k) ==
  /\ k \in Faults
  /\ faults < MaxFaults
  /\ faults' = faults + 1

Goto(p, from, to) ==
  /\ pc[p] = from
  /\ pc' = [pc EXCEPT ![p] = to]

(* Bound of the model: not all callers are at work at once; the refund run *)
(* is from the moment it has read the refunds.                             *)
AtWork(p) == pc[p] \notin {"idle", "done"} \/ (p = RefundCron /\ todo # {})

Room == Cardinality({p \in Callers : AtWork(p)}) < MaxBusy

(* The callers that have decided on an amount for the record.              *)
InFlight(r) == {p \in Callers : target[p] = r /\ pc[p] \in {"transfer", "record"}}

(* The caller is through with its target; a failed refund ends the whole   *)
(* run, a request is not made again.                                       *)
Leave(p) ==
  /\ pc' = [pc EXCEPT ![p] = IF p \in Admins THEN "done" ELSE "idle"]
  /\ target' = [target EXCEPT ![p] = Nobody]
  /\ amount' = [amount EXCEPT ![p] = 0]
  /\ code' = [code EXCEPT ![p] = NoCode]

GiveUp(p) ==
  /\ Leave(p)
  /\ todo' = IF p = RefundCron THEN {} ELSE todo

(***************************************************************************)
(* Votes, organisers and voters.                                           *)
(***************************************************************************)
(* A counted vote increments the amount due, unless it is NULL.            *)
Earn(r) ==
  /\ due[r] # Null
  /\ earned[r] < MaxEarned
  /\ earned' = [earned EXCEPT ![r] = @ + 1]
  /\ due' = [due EXCEPT ![r] = @ + 1]
  /\ UNCHANGED <<breakerVars, payee, bank, bookVars, queueVars, callVars, stackVars,
                 dropped, overlapped, faults>>

AddPayee(r) ==
  /\ r \notin payee
  /\ payee' = payee \cup {r}
  /\ UNCHANGED <<breakerVars, due, bank, bookVars, queueVars, callVars, stackVars, envVars>>

AddBankDetails(s) ==
  /\ s \notin bank
  /\ bank' = bank \cup {s}
  /\ UNCHANGED <<breakerVars, due, payee, bookVars, queueVars, callVars, stackVars, envVars>>

(***************************************************************************)
(* Payouts: cron, queue, super-admin.                                      *)
(***************************************************************************)
(* The cron reads all records with something due and queues them one by    *)
(* one; what changes in between is what may change while a job waits.      *)
QueuePayout(r) ==
  /\ due[r] # Null
  /\ due[r] > 0
  /\ queue[r] < MaxQueue
  /\ queue' = [queue EXCEPT ![r] = @ + 1]
  /\ UNCHANGED <<breakerVars, dbVars, todo, callVars, stackVars, envVars>>

TakePayout(w, r) ==
  /\ queue[r] > 0
  /\ Room
  /\ Goto(w, "idle", "read")
  /\ queue' = [queue EXCEPT ![r] = @ - 1]
  /\ target' = [target EXCEPT ![w] = r]
  /\ UNCHANGED <<breakerVars, dbVars, todo, amount, code, stackVars, envVars>>

RequestPayout(a, r, n) ==
  /\ Room
  /\ Goto(a, "idle", "read")
  /\ target' = [target EXCEPT ![a] = r]
  /\ amount' = [amount EXCEPT ![a] = n]
  /\ UNCHANGED <<breakerVars, dbVars, queueVars, code, stackVars, envVars>>

AlwaysSufficient(r, n) == TRUE  \* mutant: the balance is not compared

(* NULL becomes NaN, and NaN is less than no amount.                       *)
Sufficient(r, n) == due[r] # Null => due[r] >= n

RefusePayout(p) ==
  /\ pc[p] = "read"
  /\ \/ p \in Admins /\ ~Sufficient(target[p], amount[p])
     \/ target[p] \notin payee
  /\ Leave(p)
  /\ UNCHANGED <<breakerVars, dbVars, queueVars, stackVars, envVars>>

(* A job takes all that is due, a request what it asks for.                *)
DecidePayout(p) ==
  LET r == target[p] IN
  /\ Goto(p, "read", "transfer")
  /\ r \in payee
  /\ \/ /\ p \in Admins
        /\ Sufficient(r, amount[p])
        /\ UNCHANGED amount
     \/ /\ p \in Workers
        /\ due[r] # Null
        /\ amount' = [amount EXCEPT ![p] = due[r]]
  /\ BeginCall(p)
  /\ overlapped' = IF InFlight(r) = {} THEN overlapped ELSE overlapped \cup {r}
  /\ UNCHANGED <<dbVars, queueVars, target, code, stackVars, earned, dropped, faults>>

RecordWithoutDebit(p) ==  \* mutant: the payout row alone is written
  /\ p \in Payers
  /\ pc[p] = "record"
  /\ payouts' = payouts \cup {[code |-> code[p], record |-> target[p], amount |-> amount[p]]}
  /\ Leave(p)
  /\ UNCHANGED <<breakerVars, due, payee, bank, paid, confirmed, queueVars, stackVars, envVars>>

(* Payout row and debit are one transaction; NULL less an amount is NULL.  *)
RecordPayout(p) ==
  LET r == target[p] IN
  /\ p \in Payers
  /\ pc[p] = "record"
  /\ payouts' = payouts \cup {[code |-> code[p], record |-> r, amount |-> amount[p]]}
  /\ due' = IF due[r] = Null THEN due ELSE [due EXCEPT ![r] = @ - amount[p]]
  /\ Leave(p)
  /\ UNCHANGED <<breakerVars, payee, bank, paid, confirmed, queueVars, stackVars, envVars>>

(***************************************************************************)
(* Refunds: one run at a time, on the cron server.                         *)
(***************************************************************************)
StartAllRefunds ==  \* mutant: the status is not in the filter
  /\ Room
  /\ pc[RefundCron] = "idle"
  /\ todo = {}
  /\ todo' = bank
  /\ UNCHANGED <<breakerVars, dbVars, queue, callVars, stackVars, envVars>>

StartRefunds ==
  /\ Room
  /\ pc[RefundCron] = "idle"
  /\ todo = {}
  /\ todo' = {s \in bank : paid[s] = NoCode}
  /\ UNCHANGED <<breakerVars, dbVars, queue, callVars, stackVars, envVars>>

DearestRefund(s) ==  \* mutant: the refunds are read the dearest first
  /\ s \in todo
  /\ \A t \in todo : RefundAmount[t] <= RefundAmount[s]
  /\ Goto(RefundCron, "idle", "transfer")
  /\ todo' = todo \ {s}
  /\ target' = [target EXCEPT ![RefundCron] = s]
  /\ amount' = [amount EXCEPT ![RefundCron] = RefundAmount[s]]
  /\ BeginCall(RefundCron)
  /\ UNCHANGED <<dbVars, queue, code, stackVars, envVars>>

(* The cheapest first; the first refusal ends the run and the next run     *)
(* starts with the cheapest again, refused or not.                         *)
NextRefund(s) ==
  /\ s \in todo
  /\ \A t \in todo : RefundAmount[s] <= RefundAmount[t]
  /\ Goto(RefundCron, "idle", "transfer")
  /\ todo' = todo \ {s}
  /\ target' = [target EXCEPT ![RefundCron] = s]
  /\ amount' = [amount EXCEPT ![RefundCron] = RefundAmount[s]]
  /\ BeginCall(RefundCron)
  /\ UNCHANGED <<dbVars, queue, code, stackVars, envVars>>

ForgetCode ==  \* mutant: the code of the transfer is not saved
  /\ pc[RefundCron] = "record"
  /\ Leave(RefundCron)
  /\ UNCHANGED <<breakerVars, dbVars, queueVars, stackVars, envVars>>

RecordRefund ==
  /\ pc[RefundCron] = "record"
  /\ paid' = [paid EXCEPT ![target[RefundCron]] = code[RefundCron]]
  /\ Leave(RefundCron)
  /\ UNCHANGED <<breakerVars, due, payee, bank, payouts, confirmed, queueVars,
                 stackVars, envVars>>

(***************************************************************************)
(* The transfer itself.                                                    *)
(***************************************************************************)
CallBlocked(p) ==
  /\ Blocked(p)
  /\ GiveUp(p)
  /\ UNCHANGED <<dbVars, queue, stackVars, envVars>>

CallStep(p) ==
  /\ LetThrough(p) \/ Declined(p) \/ ReadFailures(p) \/ CountAndOpen(p)
  /\ UNCHANGED <<dbVars, queueVars, callVars, stackVars, envVars>>

(* Paystack takes an order for a positive amount and answers with a code,  *)
(* unless the recipient is one it refuses.                                 *)
NextCode(t) == <<t, issued[t] + 1>>

OrderTransfer(p) ==
  LET t == target[p] IN
  /\ t \notin Refused
  /\ amount[p] > 0
  /\ issued[t] < MaxTransfers
  /\ issued' = [issued EXCEPT ![t] = @ + 1]
  /\ transfers' = transfers \cup {[code |-> NextCode(t), to |-> t, amount |-> amount[p]]}

TransferAccepted(p) ==
  /\ Accepted(p)
  /\ OrderTransfer(p)
  /\ code' = [code EXCEPT ![p] = NextCode(target[p])]
  /\ UNCHANGED <<dbVars, queueVars, pc, target, amount, envVars>>

CallSucceeds(p) ==
  /\ ClearFailures(p)
  /\ Goto(p, "transfer", "record")
  /\ UNCHANGED <<dbVars, queueVars, target, amount, code, stackVars, envVars>>

CallFails(p) ==
  /\ CountOnly(p) \/ SetOpen(p)
  /\ GiveUp(p)
  /\ UNCHANGED <<dbVars, queue, stackVars, envVars>>

(* The verification crons: what is "transfering" becomes "successful" once *)
(* Paystack says so, which it may never do.                                *)
VerifyPayout(row) ==
  /\ Cardinality(confirmed) < MaxVerified
  /\ row \in payouts
  /\ row.code \notin confirmed
  /\ confirmed' = confirmed \cup {row.code}
  /\ UNCHANGED <<breakerVars, due, payee, bank, payouts, paid, queueVars, callVars,
                 stackVars, envVars>>

VerifyPending(s) ==  \* mutant: pending refunds are verified too
  /\ Cardinality(confirmed) < MaxVerified
  /\ paid[s] \notin confirmed
  /\ confirmed' = confirmed \cup {paid[s]}
  /\ UNCHANGED <<breakerVars, due, payee, bank, payouts, paid, queueVars, callVars,
                 stackVars, envVars>>

VerifyRefund(s) ==
  /\ Cardinality(confirmed) < MaxVerified
  /\ paid[s] \notin confirmed \cup {NoCode}
  /\ confirmed' = confirmed \cup {paid[s]}
  /\ UNCHANGED <<breakerVars, due, payee, bank, payouts, paid, queueVars, callVars,
                 stackVars, envVars>>

(***************************************************************************)
(* Faults.                                                                 *)
(***************************************************************************)
(* The request to Paystack throws, before or after it had its effect.      *)
CallFault(p) ==
  /\ at[p] = "transfer"
  /\ Fault("call")
  /\ \/ UNCHANGED <<stackVars, dropped>>
     \/ OrderTransfer(p) /\ dropped' = dropped \cup {NextCode(target[p])}
  /\ Abandon(p)
  /\ GiveUp(p)
  /\ UNCHANGED <<dbVars, queue, earned, overlapped>>

RecordFaultHalf(p) ==  \* mutant: the payout row is not given the transaction
  /\ pc[p] = "record"
  /\ Fault("record")
  /\ dropped' = dropped \cup {code[p]}
  /\ payouts' = payouts \cup [code : {code[p]}, record : {target[p]} \cap Records,
                              amount : {amount[p]}]
  /\ GiveUp(p)
  /\ UNCHANGED <<breakerVars, due, payee, bank, paid, confirmed, queue, stackVars,
                 earned, overlapped>>

(* The transaction, or the update of the refund, fails after the transfer. *)
RecordFault(p) ==
  /\ pc[p] = "record"
  /\ Fault("record")
  /\ dropped' = dropped \cup {code[p]}
  /\ GiveUp(p)
  /\ UNCHANGED <<breakerVars, dbVars, queue, stackVars, earned, overlapped>>

(* The instance dies; Bull may put a worker's job back.                    *)
Crash(p) ==
  /\ pc[p] \in {"read", "transfer", "record"}
  /\ Fault("crash")
  /\ dropped' = dropped \cup ({code[p]} \ {NoCode})
  /\ IF at[p] = "out" THEN UNCHANGED breakerVars ELSE Abandon(p)
  /\ \/ UNCHANGED queue
     \/ /\ p \in Workers
        /\ queue[target[p]] < MaxQueue
        /\ queue' = [queue EXCEPT ![target[p]] = @ + 1]
  /\ GiveUp(p)
  /\ UNCHANGED <<dbVars, stackVars, earned, overlapped>>

Expire ==
  /\ ExpireOpen \/ ExpireFailures
  /\ UNCHANGED <<dbVars, queueVars, callVars, stackVars, envVars>>

(***************************************************************************)
(* The system.                                                             *)
(***************************************************************************)
TransferStep(p) ==
  /\ pc[p] = "transfer"
  /\ \/ CallBlocked(p) \/ CallStep(p)
     \/ TransferAccepted(p) \/ CallSucceeds(p) \/ CallFails(p)

PayerStep(p) == RefusePayout(p) \/ DecidePayout(p) \/ RecordPayout(p)

RefundStep == StartRefunds \/ (\E s \in Refunds : NextRefund(s)) \/ RecordRefund

Next ==
  \/ \E r \in Records : Earn(r) \/ AddPayee(r) \/ QueuePayout(r)
  \/ \E s \in Refunds : AddBankDetails(s) \/ VerifyRefund(s)
  \/ \E w \in Workers, r \in Records : TakePayout(w, r)
  \/ \E a \in Admins, r \in Records, n \in Amounts : RequestPayout(a, r, n)
  \/ \E p \in Payers : PayerStep(p)
  \/ RefundStep
  \/ \E p \in Callers : TransferStep(p) \/ CallFault(p) \/ RecordFault(p) \/ Crash(p)
  \/ \E row \in payouts : VerifyPayout(row)
  \/ Expire

Spec == Init /\ [][Next]_vars

(* The cron comes back, event loops run their callbacks, the open flag     *)
(* expires, and Paystack does not refuse for ever a payout, or a refund    *)
(* that is not in Refused, if it is asked again and again.                 *)
RefundAccepted(s) == target[RefundCron] = s /\ TransferAccepted(RefundCron)

Fairness ==
  /\ WF_vars(RefundStep \/ TransferStep(RefundCron))
  /\ \A p \in Payers : WF_vars(PayerStep(p) \/ TransferStep(p))
  /\ \A w \in Workers : SF_vars(TransferAccepted(w))
  /\ \A s \in Refunds \ Refused : SF_vars(RefundAccepted(s))
  /\ WF_vars(Expire)

FairSpec == Spec /\ Fairness

(***************************************************************************)
(* Properties.                                                             *)
(***************************************************************************)
TypeOK ==
  /\ BreakerTypeOK
  /\ due \in [Records -> Int \cup {Null}]
  /\ payee \subseteq Records
  /\ payouts \subseteq PayoutRows
  /\ bank \subseteq Refunds
  /\ paid \in [Refunds -> Codes \cup {NoCode}]
  /\ confirmed \subseteq Codes
  /\ queue \in [Records -> Nat]
  /\ todo \subseteq Refunds
  /\ pc \in [Callers -> {"idle", "read", "transfer", "record", "done"}]
  /\ target \in [Callers -> Targets \cup {Nobody}]
  /\ amount \in [Callers -> Int]
  /\ code \in [Callers -> Codes \cup {NoCode}]
  /\ transfers \subseteq [code : Codes, to : Targets, amount : Int]
  /\ issued \in [Targets -> 0..MaxTransfers]
  /\ earned \in [Records -> Nat]
  /\ dropped \subseteq Codes
  /\ overlapped \subseteq Records
  /\ faults \in Nat

(* Every transfer Paystack has accepted is in the books with its target    *)
(* and amount, or in the hands of the caller that ordered it, or was       *)
(* dropped by a fault; and nothing is in the books that Paystack has not   *)
(* accepted.  The transfer comes before the transaction that records it.   *)
Booked(t) ==
  \/ \E row \in payouts : row.code = t.code /\ row.record = t.to /\ row.amount = t.amount
  \/ t.to \in Refunds /\ paid[t.to] = t.code

InHand(t) ==
  \E p \in Callers : code[p] = t.code /\ target[p] = t.to /\ amount[p] = t.amount

EveryTransferAccounted ==
  /\ \A t \in transfers : Booked(t) \/ InHand(t) \/ t.code \in dropped
  /\ \A row \in payouts :
       [code |-> row.code, to |-> row.record, amount |-> row.amount] \in transfers
  /\ \A s \in Refunds :
       paid[s] # NoCode =>
         [code |-> paid[s], to |-> s, amount |-> RefundAmount[s]] \in transfers

(* Money is transferred for a refund a second time only when a fault       *)
(* struck between the transfer and its record, once per such fault.        *)
RefundedOnceUnlessDropped ==
  \A s \in Refunds : \A t, u \in transfers :
    t.to = s /\ u.to = s /\ {t.code, u.code} \cap dropped = {} => t = u

(* What is due is what came in less what the payouts say, whatever         *)
(* transfers fail, repeat or overlap.                                      *)
PaidOut(r) == SumFunction([row \in {q \in payouts : q.record = r} |-> row.amount])

BooksBalance ==
  \A r \in Records : due[r] # Null => due[r] = earned[r] - PaidOut(r)

(* More than was due is paid out of a record only when two callers had     *)
(* decided on their amounts before either was debited: a queued job and a  *)
(* super-admin, or two jobs of the cron.                                   *)
OverpaidOnlyByOverlap ==
  \A r \in Records \ overlapped : due[r] # Null => due[r] >= 0

(* The payout ledger this implements; a code is in hand while its caller   *)
(* has it.                                                                 *)
Ledger == INSTANCE PayoutLedger WITH
  ordered   <- {t.code : t \in transfers},
  booked    <- {row.code : row \in payouts} \cup ({paid[s] : s \in Refunds} \ {NoCode})

ImplementsLedger == Ledger!LedgerSpec

(* A voter who gave bank details to an account that Paystack takes is      *)
(* refunded in the end, whatever fails on the way, unless a refund that is *)
(* refused every time is as cheap or cheaper: a refused transfer ends the  *)
(* whole run and every run starts with the cheapest, so such a refund      *)
(* keeps all dearer ones from being paid from the moment it has bank       *)
(* details, and none that is cheaper.  Bank details and codes stay, so it  *)
(* is enough to say that the voter is found refunded again and again.      *)
Blockers(s) == {t \in Refused \cap bank : RefundAmount[t] <= RefundAmount[s]}

RefundsArePaid ==
  \A s \in Refunds \ Refused : []<>(s \in bank => paid[s] # NoCode \/ Blockers(s) # {})
=============================================================================
