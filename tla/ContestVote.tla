---------------------------- MODULE ContestVote ----------------------------
(***************************************************************************)
(* Paid voting in a contest of the deployed workload smooth-be.            *)
(*                                                                         *)
(* A payer opens a session (a payment link), pays at Paystack, and the     *)
(* payment is turned into a counted vote, or into a refund when the        *)
(* contest has ended.  Three kinds of process do that work on the same     *)
(* tables without a lock or a unique key between them:                     *)
(*   - webhook deliveries (paystack_webhook, handle_contest_vote), which   *)
(*     queue a job and then write an audit log;                            *)
(*   - Bull workers, one per application instance, that run                *)
(*     process_contest_vote for a queued job;                              *)
(*   - requests to /whitelist/payment/confirm, that run                    *)
(*     process_contest_vote themselves when the payment succeeded.         *)
(* A cron job puts the sessions of stale audit logs back in the queue.     *)
(*                                                                         *)
(* Every await of the code that reads or writes shared state is a step.    *)
(* One contest is modelled: its financial record is the row all payments   *)
(* contend for.  Amounts are counted in payments: an income is the number  *)
(* of payments of each session it sums.  amount_due_for_payout is left     *)
(* out: it is inserted without a value, and adding to NULL leaves NULL.    *)
(***************************************************************************)
EXTENDS Naturals, FiniteSets

CONSTANTS
  Sessions,    \* session ids (crypto.randomUUID), one per payment link
  Deliveries,  \* webhook calls Paystack can make for one payment
  Workers,     \* Bull workers: one per application instance
  Callers,     \* payment/confirm requests that can be in progress at once
  NoSession,   \* the session of an idle processor
  AuditLimit,  \* logs read by one cron run (.limit(20))
  MaxQueue,    \* bound of the model: jobs of a session the cron adds up to
  Faults,      \* the kinds of fault that can happen
  MaxFaults    \* bound of the model: how many faults happen in all

(* Besides failures: the organiser gives an ended contest a later end.     *)
FaultKinds == {"webhook", "read", "mongo", "commit", "crash", "reopen"}

Processors == Workers \cup Callers

ASSUME ProcessorsFinite  == IsFiniteSet(Processors)
ASSUME WorkersNotCallers == Workers \cap Callers = {}
ASSUME NoSessionFresh    == NoSession \notin Sessions
ASSUME AuditLimitNat     == AuditLimit \in Nat \ {0}
ASSUME MaxQueueNat       == MaxQueue \in Nat
ASSUME FaultsKnown       == Faults \subseteq FaultKinds /\ MaxFaults \in Nat

VARIABLES
  session,   \* payment of each session: "none", "linked" or "paid"
  metadata,  \* is there a PaymentMetadata row for the session?
  ended,     \* has the contest's end_time passed?
  hook,      \* where each webhook delivery is in its handler
  queue,     \* jobs of each session waiting in CONTEST_VOTE_QUEUE
  batch,     \* sessions of the logs the running cron has read, not yet queued
  log,       \* VoteContestAuditLog documents of each session (Mongo)
  voters,    \* sessions whose payer has a ContestVoter row
  records,   \* ContestFinancialRecord rows, named by the inserting processor
  credits,   \* what each row's total_income sums: payments of each session
  votes,     \* ContestVote rows of each session
  refunds,   \* ContestVoteRefund rows of each session
  pc,        \* where each processor is in process_contest_vote
  job,       \* the session each processor works on
  snap,      \* rows in the snapshot of the processor's open transaction
  doomed,    \* open transactions that a concurrent commit will make fail
  aborted,   \* sessions with a transaction rolled back after their log's deletion
  stalled,   \* sessions with a job Bull has already put back once
  faults     \* faults so far

payVars  == <<session, metadata>>
jobVars  == <<queue, batch, log>>
bookVars == <<voters, records, credits, votes, refunds>>
procVars == <<pc, job, snap, doomed>>
envVars  == <<ended, aborted, stalled, faults>>
vars     == <<payVars, hook, jobVars, bookVars, procVars, envVars>>

HookPC  == {"idle", "resolve", "enqueue", "log", "cleanup", "done", "failed"}
PreTxn  == {"confirm", "fetch", "read", "check", "find", "create", "begin",
            "refundcheck", "refund"}
InTxn   == {"open", "purged"}
ProcPC  == {"idle", "refunded", "closing"} \cup PreTxn \cup InTxn

None == [s \in Sessions |-> 0]
Add(f, s)     == [f EXCEPT ![s] = @ + 1]
TakeOneUnchecked(f, s) == [f EXCEPT ![s] = @ - 1]  \* mutant
TakeOne(f, s) == [f EXCEPT ![s] = IF @ = 0 THEN 0 ELSE @ - 1]

Init ==
  /\ session  = [s \in Sessions |-> "none"]
  /\ metadata = [s \in Sessions |-> FALSE]
  /\ ended    = FALSE
  /\ hook     = [sd \in Sessions \X Deliveries |-> "idle"]
  /\ queue    = None
  /\ batch    = {}
  /\ log      = None
  /\ voters   = {}
  /\ records  = {}
  /\ credits  = [p \in Processors |-> None]
  /\ votes    = None
  /\ refunds  = None
  /\ pc       = [p \in Processors |-> "idle"]
  /\ job      = [p \in Processors |-> NoSession]
  /\ snap     = [p \in Processors |-> {}]
  /\ doomed   = {}
  /\ aborted  = {}
  /\ stalled  = {}
  /\ faults   = 0

(***************************************************************************)
(* The payer, the organiser and the faults of the environment.             *)
(***************************************************************************)
Fault(k) ==
  /\ k \in Faults
  /\ faults < MaxFaults
  /\ faults' = faults + 1

(* getting_payment_link_for_contest: refused once the contest has ended.   *)
OpenSession(s) ==
  /\ session[s] = "none"
  /\ ~ended
  /\ session'  = [session EXCEPT ![s] = "linked"]
  /\ metadata' = [metadata EXCEPT ![s] = TRUE]
  /\ UNCHANGED <<hook, jobVars, bookVars, procVars, envVars>>

(* The payer may pay long after the link was made, even after the end.     *)
Pay(s) ==
  /\ session[s] = "linked"
  /\ session' = [session EXCEPT ![s] = "paid"]
  /\ UNCHANGED <<metadata, hook, jobVars, bookVars, procVars, envVars>>

EndContest ==
  /\ ~ended
  /\ ended' = TRUE
  /\ UNCHANGED <<payVars, hook, jobVars, bookVars, procVars, aborted, stalled, faults>>

(* update_contest accepts any later end_time, also for an ended contest.   *)
ReopenContest ==
  /\ ended
  /\ Fault("reopen")
  /\ ended' = FALSE
  /\ UNCHANGED <<payVars, hook, jobVars, bookVars, procVars, aborted, stalled>>

(***************************************************************************)
(* A webhook delivery.  Paystack calls until it gets a 200, and may call   *)
(* again after one; calls of the same payment run concurrently.            *)
(***************************************************************************)
HookStep(sd, from, to) ==
  /\ hook[sd] = from
  /\ hook' = [hook EXCEPT ![sd] = to]

(* Mutants: any event counts as charge.success; metadata deleted at once.  *)
ReceiveAnyEvent(s, d) ==
  /\ session[s] # "none"
  /\ HookStep(<<s, d>>, "idle", IF metadata[s] THEN "resolve" ELSE "done")
  /\ UNCHANGED <<payVars, jobVars, bookVars, procVars, envVars>>

ReceiveAndForget(s, d) ==
  /\ session[s] = "paid"
  /\ HookStep(<<s, d>>, "idle", IF metadata[s] THEN "resolve" ELSE "done")
  /\ metadata' = [metadata EXCEPT ![s] = FALSE]
  /\ UNCHANGED <<session, jobVars, bookVars, procVars, envVars>>

(* charge.success: without metadata the answer is "Thanks".                *)
ReceiveWebhook(s, d) ==
  /\ session[s] = "paid"
  /\ HookStep(<<s, d>>, "idle", IF metadata[s] THEN "resolve" ELSE "done")
  /\ UNCHANGED <<payVars, jobVars, bookVars, procVars, envVars>>

ResolveInverted(s, d) ==  \* mutant: the test for an existing vote inverted
  /\ HookStep(<<s, d>>, "resolve", IF votes[s] = 0 THEN "cleanup" ELSE "enqueue")
  /\ UNCHANGED <<payVars, jobVars, bookVars, procVars, envVars>>

ResolveVote(s, d) ==
  /\ HookStep(<<s, d>>, "resolve", IF votes[s] > 0 THEN "cleanup" ELSE "enqueue")
  /\ UNCHANGED <<payVars, jobVars, bookVars, procVars, envVars>>

EnqueueVote(s, d) ==
  /\ HookStep(<<s, d>>, "enqueue", "log")
  /\ queue' = Add(queue, s)
  /\ UNCHANGED <<payVars, batch, log, bookVars, procVars, envVars>>

SkipLog(s, d) ==  \* mutant: no audit log is written
  /\ HookStep(<<s, d>>, "log", "cleanup")
  /\ UNCHANGED <<payVars, jobVars, bookVars, procVars, envVars>>

CreateLog(s, d) ==
  /\ HookStep(<<s, d>>, "log", "cleanup")
  /\ log' = Add(log, s)
  /\ UNCHANGED <<payVars, queue, batch, bookVars, procVars, envVars>>

DeleteMetadata(s, d) ==
  /\ HookStep(<<s, d>>, "cleanup", "done")
  /\ metadata' = [metadata EXCEPT ![s] = FALSE]
  /\ UNCHANGED <<session, jobVars, bookVars, procVars, envVars>>

(* A store fails or the instance dies: no 200, so Paystack calls again.    *)
WebhookFault(s, d) ==
  /\ hook[<<s, d>>] \in {"resolve", "enqueue", "log", "cleanup"}
  /\ Fault("webhook")
  /\ hook' = [hook EXCEPT ![<<s, d>>] = "failed"]
  /\ UNCHANGED <<payVars, jobVars, bookVars, procVars, ended, aborted, stalled>>

(***************************************************************************)
(* audit_contest_vote_logs, on the one instance with RUN_CRON: reads some  *)
(* of the logs older than ten minutes, then queues them one by one.        *)
(***************************************************************************)
StartAudit(b) ==
  /\ batch = {}
  /\ b # {}
  /\ \A s \in b : log[s] > 0
  /\ Cardinality(b) <= AuditLimit
  /\ batch' = b
  /\ UNCHANGED <<payVars, hook, queue, log, bookVars, procVars, envVars>>

RequeueStale(s) ==
  /\ s \in batch
  /\ queue[s] < MaxQueue
  /\ queue' = Add(queue, s)
  /\ batch' = batch \ {s}
  /\ UNCHANGED <<payVars, hook, log, bookVars, procVars, envVars>>

(***************************************************************************)
(* process_contest_vote, run by a worker for a job or by a confirm request.*)
(***************************************************************************)
Goto(p, from, to) ==
  /\ pc[p] = from
  /\ pc' = [pc EXCEPT ![p] = to]
  /\ UNCHANGED <<job, snap, doomed>>

Release(p) ==
  /\ pc'     = [pc EXCEPT ![p] = "idle"]
  /\ job'    = [job EXCEPT ![p] = NoSession]
  /\ snap'   = [snap EXCEPT ![p] = {}]
  /\ doomed' = doomed \ {p}

(* Goes on at a label when the condition holds, and returns otherwise.     *)
GotoIf(p, from, cond, to) ==
  /\ pc[p] = from
  /\ \/ cond /\ Goto(p, from, to)
     \/ ~cond /\ Release(p)

TakeJob(w, s) ==
  /\ pc[w] = "idle"
  /\ queue[s] > 0
  /\ queue' = TakeOne(queue, s)
  /\ pc'    = [pc EXCEPT ![w] = "read"]
  /\ job'   = [job EXCEPT ![w] = s]
  /\ UNCHANGED <<payVars, hook, batch, log, bookVars, snap, doomed, envVars>>

(* confirm_payment, first read: a counted vote needs nothing more.         *)
ConfirmLookup(c, s) ==
  /\ pc[c] = "idle"
  /\ session[s] # "none"
  /\ votes[s] = 0
  /\ pc'  = [pc EXCEPT ![c] = "confirm"]
  /\ job' = [job EXCEPT ![c] = s]
  /\ UNCHANGED <<payVars, hook, jobVars, bookVars, snap, doomed, envVars>>

ConfirmMetadata(c) ==
  /\ GotoIf(c, "confirm", metadata[job[c]], "fetch")
  /\ UNCHANGED <<payVars, hook, jobVars, bookVars, envVars>>

ConfirmFetch(c) ==
  /\ GotoIf(c, "fetch", session[job[c]] = "paid", "read")
  /\ UNCHANGED <<payVars, hook, jobVars, bookVars, envVars>>

(* CONTEST_HAS_ENDED is tested before the vote is looked up.               *)
ReadContest(p) ==
  /\ Goto(p, "read", IF ended THEN "refundcheck" ELSE "check")
  /\ UNCHANGED <<payVars, hook, jobVars, bookVars, envVars>>

CheckNoVote(p) ==  \* mutant: an existing vote is not looked for
  /\ Goto(p, "check", "find")
  /\ UNCHANGED <<payVars, hook, jobVars, bookVars, envVars>>

CheckVote(p) ==
  /\ GotoIf(p, "check", votes[job[p]] = 0, "find")
  /\ UNCHANGED <<payVars, hook, jobVars, bookVars, envVars>>

(* The voter is found or created, and the financial record looked up.      *)
FindRecord(p) ==
  /\ Goto(p, "find", IF records = {} THEN "create" ELSE "begin")
  /\ voters' = voters \cup {job[p]}
  /\ UNCHANGED <<payVars, hook, jobVars, records, credits, votes, refunds, envVars>>

CreateRecord(p) ==
  /\ Goto(p, "create", "begin")
  /\ records' = records \cup {p}
  /\ credits' = [credits EXCEPT ![p] = None]
  /\ UNCHANGED <<payVars, hook, jobVars, voters, votes, refunds, envVars>>

(* The SERIALIZABLE transaction reads and updates its snapshot's rows.     *)
BeginCount(p) ==
  /\ pc[p] = "begin"
  /\ pc'   = [pc EXCEPT ![p] = "open"]
  /\ snap' = [snap EXCEPT ![p] = records]
  /\ UNCHANGED <<payVars, hook, jobVars, bookVars, job, doomed, envVars>>

(* delete_contest_vote_audit_log is not part of the transaction.           *)
PurgeLog(p) ==
  /\ Goto(p, "open", "purged")
  /\ log' = TakeOne(log, job[p])
  /\ UNCHANGED <<payVars, hook, queue, batch, bookVars, envVars>>

(* The vote and the increments commit together; of the transactions that   *)
(* overlap on the contest's rows, the others can no longer be serialized.  *)
CommitCount(p) ==
  /\ pc[p] = "purged"
  /\ p \notin doomed
  /\ votes'   = Add(votes, job[p])
  /\ credits' = [r \in Processors |->
                   IF r \in snap[p] THEN Add(credits[r], job[p]) ELSE credits[r]]
  /\ pc'      = [pc EXCEPT ![p] = "closing"]
  /\ snap'    = [snap EXCEPT ![p] = {}]
  /\ doomed'  = doomed \cup {q \in Processors \ {p} : pc[q] \in InTxn}
  /\ UNCHANGED <<payVars, hook, jobVars, voters, records, refunds, job, envVars>>

AbortKeepsIncome(p) ==  \* mutant: the increments are not given the transaction
  /\ pc[p] = "purged"
  /\ p \in doomed
  /\ credits' = [r \in Processors |->
                   IF r \in snap[p] THEN Add(credits[r], job[p]) ELSE credits[r]]
  /\ aborted' = aborted \cup {job[p]}
  /\ Release(p)
  /\ UNCHANGED <<payVars, hook, jobVars, voters, records, votes, refunds, ended,
                 stalled, faults>>

(* The rollback is silent: the job counts as done.                         *)
AbortCount(p) ==
  /\ pc[p] = "purged"
  /\ \/ p \in doomed /\ UNCHANGED faults
     \/ Fault("commit")
  /\ aborted' = aborted \cup {job[p]}
  /\ Release(p)
  /\ UNCHANGED <<payVars, hook, jobVars, bookVars, ended, stalled>>

CheckNoRefund(p) ==  \* mutant: an existing refund is not looked for
  /\ Goto(p, "refundcheck", "refund")
  /\ UNCHANGED <<payVars, hook, jobVars, bookVars, envVars>>

(* process_contest_vote_refund looks for a refund only, not for a vote.    *)
CheckRefund(p) ==
  /\ GotoIf(p, "refundcheck", refunds[job[p]] = 0, "refund")
  /\ UNCHANGED <<payVars, hook, jobVars, bookVars, envVars>>

CreateRefund(p) ==
  /\ Goto(p, "refund", "refunded")
  /\ refunds' = Add(refunds, job[p])
  /\ UNCHANGED <<payVars, hook, jobVars, voters, records, credits, votes, envVars>>

PurgeRefunded(p) ==
  /\ Goto(p, "refunded", "closing")
  /\ log' = TakeOne(log, job[p])
  /\ UNCHANGED <<payVars, hook, queue, batch, bookVars, envVars>>

(* Emails are sent, their errors are swallowed, and the call returns.      *)
Finish(p) ==
  /\ pc[p] = "closing"
  /\ Release(p)
  /\ UNCHANGED <<payVars, hook, jobVars, bookVars, envVars>>

(* A read or an insert before the transaction throws: a job is marked      *)
(* failed and has no further attempt, a request gets an error.             *)
ReadFault(p) ==
  /\ pc[p] \in PreTxn
  /\ Fault("read")
  /\ Release(p)
  /\ UNCHANGED <<payVars, hook, jobVars, bookVars, ended, aborted, stalled>>

(* The Mongo deletion fails: in a count it rolls the transaction back, in  *)
(* a refund nobody awaits it, and the call may be over before it rejects.  *)
MongoFault(p) ==
  /\ Fault("mongo")
  /\ \/ pc[p] = "open" /\ Release(p)
     \/ Goto(p, "refunded", "closing")
  /\ UNCHANGED <<payVars, hook, jobVars, bookVars, ended, aborted, stalled>>

(* The instance dies, also of the rejection of a deletion nobody awaits.   *)
(* Postgres drops the open transaction; Bull puts a stalled job back once, *)
(* and fails a job that stalls again.                                      *)
Crash(p) ==
  /\ pc[p] # "idle"
  /\ Fault("crash") \/ (pc[p] = "refunded" /\ Fault("mongo"))
  /\ IF p \in Workers /\ job[p] \notin stalled
     THEN queue' = Add(queue, job[p]) /\ stalled' = stalled \cup {job[p]}
     ELSE UNCHANGED <<queue, stalled>>
  /\ aborted' = IF pc[p] = "purged" THEN aborted \cup {job[p]} ELSE aborted
  /\ Release(p)
  /\ UNCHANGED <<payVars, hook, batch, log, bookVars, ended>>

(***************************************************************************)
(* The specification.                                                      *)
(***************************************************************************)
PayerStep(s) == OpenSession(s) \/ Pay(s)

HandlerStep(s, d) ==
  ResolveVote(s, d) \/ EnqueueVote(s, d) \/ CreateLog(s, d) \/ DeleteMetadata(s, d)

CronStep ==
  \/ \E b \in SUBSET Sessions : StartAudit(b)
  \/ \E s \in Sessions : RequeueStale(s)

(* What a processor does once it has a session.                            *)
ProcessStep(p) ==
  \/ ReadContest(p) \/ CheckVote(p) \/ FindRecord(p) \/ CreateRecord(p)
  \/ BeginCount(p) \/ PurgeLog(p) \/ CommitCount(p) \/ AbortCount(p)
  \/ CheckRefund(p) \/ CreateRefund(p) \/ PurgeRefunded(p) \/ Finish(p)

CallerStep(c) == ConfirmMetadata(c) \/ ConfirmFetch(c)

Next ==
  \/ EndContest \/ ReopenContest
  \/ \E s \in Sessions : PayerStep(s)
  \/ \E s \in Sessions, d \in Deliveries :
       ReceiveWebhook(s, d) \/ HandlerStep(s, d) \/ WebhookFault(s, d)
  \/ CronStep
  \/ \E w \in Workers, s \in Sessions : TakeJob(w, s)
  \/ \E c \in Callers, s \in Sessions : ConfirmLookup(c, s)
  \/ \E c \in Callers : CallerStep(c)
  \/ \E p \in Processors :
       ProcessStep(p) \/ ReadFault(p) \/ MongoFault(p) \/ Crash(p)

Spec == Init /\ [][Next]_vars

(* Nothing makes a payer pay or a contest end, and no fault has to happen. *)
(* Paystack delivers, event loops run their callbacks, Bull serves the     *)
(* queue in order, and every log gets old enough for a run of the cron.    *)
Fairness ==
  /\ \A s \in Sessions, d \in Deliveries :
       WF_vars(ReceiveWebhook(s, d)) /\ WF_vars(HandlerStep(s, d))
  /\ \A p \in Processors : WF_vars(ProcessStep(p) \/ (p \in Callers /\ CallerStep(p)))
  /\ \A s \in Sessions :
       /\ SF_vars(\E w \in Workers : TakeJob(w, s))
       /\ SF_vars(\E b \in SUBSET Sessions : s \in b /\ StartAudit(b))
       /\ SF_vars(RequeueStale(s))

FairSpec == Spec /\ Fairness

(***************************************************************************)
(* Properties.                                                             *)
(***************************************************************************)
TypeOK ==
  /\ session  \in [Sessions -> {"none", "linked", "paid"}]
  /\ metadata \in [Sessions -> BOOLEAN]
  /\ ended    \in BOOLEAN
  /\ hook     \in [Sessions \X Deliveries -> HookPC]
  /\ queue    \in [Sessions -> Nat]
  /\ batch    \subseteq Sessions
  /\ log      \in [Sessions -> Nat]
  /\ voters   \subseteq Sessions
  /\ records  \subseteq Processors
  /\ credits  \in [Processors -> [Sessions -> Nat]]
  /\ votes    \in [Sessions -> Nat]
  /\ refunds  \in [Sessions -> Nat]
  /\ pc       \in [Processors -> ProcPC]
  /\ job      \in [Processors -> Sessions \cup {NoSession}]
  /\ snap     \in [Processors -> SUBSET Processors]
  /\ doomed   \subseteq Processors
  /\ aborted  \subseteq Sessions
  /\ stalled  \subseteq Sessions
  /\ faults   \in Nat
  /\ \A p \in Processors : pc[p] # "idle" => job[p] \in Sessions

(* Processors at work on a session at one of the given places.             *)
At(s, places) == {p \in Processors : job[p] = s /\ pc[p] \in places}

Settled(s) == votes[s] > 0 \/ refunds[s] > 0

(* The check for an existing vote is made outside the transaction, so one  *)
(* payment can be counted again, but never more often than there are       *)
(* processors: each counts at most on one stale check.  With a single      *)
(* processor a payment is counted at most once.                            *)
CountedOncePerProcessor ==
  \A s \in Sessions : votes[s] <= Cardinality(Processors)

(* The same for the check for an existing refund.                          *)
RefundedOncePerProcessor ==
  \A s \in Sessions : refunds[s] <= Cardinality(Processors)

(* The books balance: whatever is rolled back, raced or repeated, some     *)
(* financial record has an income that sums exactly the counted votes, and *)
(* no record (two can be inserted for one contest) sums more.              *)
LedgerMatchesVotes ==
  /\ records = {} => votes = None
  /\ records # {} => \E r \in records : credits[r] = votes
  /\ \A r \in records, s \in Sessions : credits[r][s] <= votes[s]

(* A payment Paystack will no longer report (its metadata is gone) is      *)
(* settled, or has an audit log that the cron will find, or is between the *)
(* deletion of its log and the commit.  The one exception is a transaction *)
(* that was rolled back, or lost in a crash, after the log's deletion.     *)
Accounted(s) ==
  Settled(s) \/ log[s] > 0 \/ At(s, {"purged"}) # {} \/ s \in aborted

PaymentTracked ==
  \A s \in Sessions : (session[s] # "none" /\ ~metadata[s]) => Accounted(s)

(* Without that exception, such a payment is settled or still on its way.  *)
OnItsWay(s) ==
  queue[s] > 0 \/ s \in batch \/ log[s] > 0 \/ At(s, ProcPC) # {}

NoPaymentLost ==
  \A s \in Sessions :
    (session[s] = "paid" /\ ~metadata[s]) => Settled(s) \/ OnItsWay(s)

(* A payment becomes at most one vote.                                     *)
CountedOnce == \A s \in Sessions : votes[s] <= 1

(* A counted vote is not refunded.                                         *)
CountedNotRefunded == \A s \in Sessions : ~(votes[s] > 0 /\ refunds[s] > 0)

(* The contest's oldest record is the one that sums the most.              *)
OldestRecord ==
  CHOOSE r \in records :
    \A q \in records, s \in Sessions : credits[q][s] <= credits[r][s]

Settlement == INSTANCE VoteSettlement WITH
  Limit  <- Cardinality(Processors),
  paid   <- {s \in Sessions : session[s] = "paid"},
  income <- IF records = {} THEN None ELSE credits[OldestRecord]

(* All of the above implements the settlement of payments: every step of   *)
(* a webhook, a worker, a confirm request, the cron or a fault is a step   *)
(* of VoteSettlement or leaves what it speaks of unchanged.                *)
ImplementsSettlement == Settlement!Spec

(* A payment that was made is eventually counted or refunded.              *)
PaidIsSettled ==
  \A s \in Sessions : (session[s] = "paid") ~> Settled(s)

=============================================================================
