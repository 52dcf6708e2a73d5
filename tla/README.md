# Formal model of infracon-core

TLA+ specifications of the parts of this repository whose correctness depends on
interleaving, failure and retry, the TLC configurations that model-check them on
small instances, and TLAPS proofs of the results that hold for every instance.

## 1. The system

The repository has two halves.

**Infracon** (Go, a little JavaScript; `src/auth`, `src/github`, `src/apps`,
`src/nginx`) is the platform: it creates accounts, keeps a user's GitHub token,
pulls a repository as an archive, builds it with Docker (with the repository's own
Dockerfile or with a generated one), starts a container and writes an nginx site.

**smooth-be** (NestJS, `src/apps/samples/with-docker/smooth-be`) is the workload
kept with it to be deployed: elections, paid contests, event tickets, wallets and
billing, over PostgreSQL (Sequelize), MongoDB (audit logs), Redis (cache, counters,
payment metadata) and Bull queues, with Paystack as payment provider. It holds
nearly all of the state and of the concurrency of the repository. A byte-identical
copy lies under `src/github/auth`, together with a Python repository that was pulled
as a sample; both copies are left aside.

Paths below are relative to `smooth-be/src` unless they start with `src/`.

### 1.1 Inventory

| Component | State it keeps | Operations | Talks to | What makes it hard | What makes it correct |
|---|---|---|---|---|---|
| Contest voting (`modules/contest`, `queue/workers/contest`) | contest, financial record, votes, refunds (Postgres); vote audit logs (Mongo); payment metadata; `CONTEST_VOTE_QUEUE` | payment link, webhook, vote job, confirm request, audit cron, edit of the contest | Paystack, webhook controller, email | checks read outside the transaction that acts on them, serialization failures swallowed, three stores written in one handler, retries | a payment becomes one vote or one refund; the books sum the votes; no payment is lost |
| Contest payouts and refund transfers (`modules/contest/service.ts:629-1031`) | amount due, payouts, refund status (Postgres); transfer queue | payout by cron and queue or by a super-admin; refund run; verification crons | payment adapter, super-admin | a transfer is made before it is recorded, crons queue again what still waits, NULL amounts | every transfer is in the books or was dropped by a fault; the books balance; refunds are paid unless one as cheap is refused for ever |
| Payment adapter (`modules/core/payment`) | failure counter and open flag (Redis) | payment link, verification, transfer | Paystack | counter read and written in several unawaited calls | the breaker opens only after as many refusals as the threshold |
| Payment webhook (`modules/core/payment/payment.controller.ts`) | payment metadata | dispatch of charge and transfer events | voting, tickets, wallet | repeated and concurrent deliveries | every paid event is acted on, once |
| Wallet (`modules/wallet`) | balances, wallet transactions | fund, credit, debit | webhook, billing | existing transaction tested outside the transaction, connections never released | balance = credits - debits; a charge credits once unless two deliveries overlap |
| Billing (`modules/billing`) | billing rows: plan, voters, months, expiry | free plan, purchase, renewal, expiry crons | wallet, elections | balance and last bill read outside the transaction that uses them | nobody overdraws, and a plan is what was paid for, unless two requests overlap |
| Event tickets (`modules/smooth-ticket`) | tickets, attendees, payments, purchase logs | buy, process purchase, stale-purchase cron, scan | webhook, Bull, cache | payment row outside the transaction, cron on every instance, a throw after the commit | a paid purchase is never out of sight and has its tickets in the end, once |
| Election voting (`modules/election/voters`, `queue/workers/vote`) | voters, votes, cast-vote logs, processed counter, caches | cast, process, audit cron | Bull, Redis | cached `has_voted`, a job that starts before its cast has committed, a log deleted before the commit | the votes of a post with one vote come from one run; a cast vote is stored |
| Voter registration and credentials (`modules/election/voters`, `queue/workers/voters`) | voters, population jobs (Postgres); batch and mail records (Mongo); three queues | register, form, CSV file, delete; broadcast, batch, mail, two crons | election administration, billing, Bull, email | capacity read before the insert, rows inserted before the file's length is known, flag, record and job in three stores | the roll stays within the plan; a voter flagged as sent was sent; a broadcast ends |
| Election administration (`modules/election`) | elections, posts, contestants, short codes | create and edit, short code | cache | short code tested and stored apart | a short code names one election |
| Users, authentication, super-admin, platform | users, tokens, settings | sign-up, login, password reset, lookups | email, cache | single requests | - |
| Email, storage, PDF and CSV workers | none | rendering, upload | external services | pure output | - |
| Infracon accounts and tokens (`src/auth`, `src/github/token`) | users, GitHub token (SQLite) | sign-up, login, forgotten password, store token | GitHub | statements without a transaction, error lost | an email has one account; only accepted tokens are stored |
| Infracon deployment (`src/apps`, `src/github/pull`, `src/nginx`) | folders, images, containers, ports, nginx files | pull, build, run, write site | Docker, GitHub | shared folder and generated file, names by the millisecond, build errors in a stream | a finished pull is whole unless a later one cut its files; a deployment that reports success runs its own recipe |
| GitHub listing and callback server | none | HTTP calls | GitHub | stateless | - |

### 1.2 How contest voting works

1. `getting_payment_link_for_contest` refuses an ended contest, stores a
   `PaymentMetadata` row under a fresh `session_id` and returns a Paystack link.
2. Paystack calls `paystack_webhook` after the charge, until it gets a 200.
   Without metadata the answer is a thank-you. Otherwise `handle_contest_vote` looks for
   a counted vote, adds a job to `CONTEST_VOTE_QUEUE`, writes a
   `VoteContestAuditLog` document, and the controller deletes the metadata.
3. A Bull worker on each instance runs `process_contest_vote`: an ended contest
   sends the payment to `process_contest_vote_refund`; a counted vote returns;
   otherwise the voter and the contest's financial record are found or created and a
   SERIALIZABLE transaction inserts the vote and increments the record. In the same
   `Promise.all`, but in MongoDB, the audit log is deleted. A failure in the
   transaction is rolled back and swallowed.
4. `/whitelist/payment/confirm` runs the same `process_contest_vote` from a request,
   when the metadata still exists and Paystack says the payment succeeded.
5. `audit_contest_vote_logs` queues the sessions of logs older than ten minutes again.

So one session can be worked on by several deliveries, jobs and requests at once, over
four stores, none of which has a lock or a unique key for it.

### 1.3 How election voting works

1. `VoterAuthInterceptor` reads the voter through a Redis cache that lives for an hour.
2. `cast_vote` refuses a voter whose (cached) `has_voted` is set and an election that has
   ended, then starts three operations at once: `has_voted = true` in a
   SERIALIZABLE transaction, a job in `VOTE_QUEUE`, a `VoteAuditLog` document.
   Job and document are keyed by election and voter, so Bull ignores a second job and
   MongoDB refuses a second log while the first exists. When all three succeed
   the transaction commits; the first failure rolls it back, and does not undo the rest.
   The voter is told "you have successfully voted" either way.
3. `process_vote`, in a Bull worker on each instance, looks for an earlier vote of
   each choice on the committed rows, inserts the vote in a SERIALIZABLE transaction of its own,
   and at last sets `has_voted` in it while it deletes the log. After the commit it deletes
   the voter's cache entry. Failures are rolled back and swallowed, and the job is
   removed.
4. `audit_vote_logs` queues the ballots of logs older than ten minutes again.

### 1.4 How money goes out

1. A super-admin asks for an amount, or a cron (every five minutes) queues a job for every
   record with something due. Both run `process_contest_revenue_transfer`: it reads the
   amount due, compares it (super-admin only), looks for the organiser's account, asks
   `initiate_transfer` for the money, and then writes the payout row and the
   debit in one transaction.
2. The refund run (every half hour) reads the pending refunds with bank details, the cheapest
   first, and transfers one after the other, writing each `transfer_code`
   afterwards. The first transfer that is refused ends the run, so a refund whose recipient
   Paystack always refuses keeps all dearer ones from being paid.
3. `initiate_transfer` refuses at once while the open flag exists in Redis. Otherwise it asks
   Paystack, and then deletes the failure counter, or reads it and writes it back incremented,
   and sets the flag at the threshold. Both keys expire after five minutes.
4. Two more crons look transfers up and mark payouts and refunds "successful".

### 1.5 How wallets, plans and tickets work

A wallet is credited by the webhook, in a SERIALIZABLE transaction opened before the code looks whether
the Paystack transaction was credited already. Plans are bought from the wallet: purchase and
renewal read the balance on another connection and then deduct in a SERIALIZABLE transaction; a free plan is one
insert after one look. A ticket purchase is logged in MongoDB and queued by
the webhook; a worker, or the sweep over old logs on any instance, looks for the payment row, writes
it, creates the attendees in a transaction, mails the receipts and deletes the log. All of
them share one pool of connections, and a transaction holds one while its other queries need a second.

### 1.6 How voters get on the roll and get their credentials

`create_voter` and the accreditation form count the voters, look for the email, and insert. A CSV
file is read by `VotersPopulationWorker`, which inserts five rows at a time and compares
the length of the file with the plan at the end. Once a day `process_election_broadcast` queues batch 1 of
each election that is due. The batch worker reads a page of voters, queues a mail for each
voter not flagged, records it in MongoDB, flags the voter, and queues and records
the next batch. Two crons queue again whatever batch or mail is still recorded.

### 1.7 How infracon works

Each operation is a command of its own. Accounts and tokens are rows of a SQLite file, written
statement by statement. `pullFromGithub` unpacks an archive into `extracts/`. A deployment writes a
`Dockerfile.ic` unless there is a Dockerfile (and goes on when it could not be written), reads the folder into memory, builds an image
named by the millisecond, creates a container named by the millisecond and starts it.

## 2. Modules

| Module | Role |
|---|---|
| `ContestVote` | contest voting: every process above, every await a step |
| `VoteSettlement` | abstract: what paid voting promises, whoever carries it out |
| `MC_ContestVote` | symmetry for TLC; the instances are in the `.cfg` files |
| `ContestVote_proofs` | type correctness, the safety invariants and the refinement of `VoteSettlement`, proved |
| `ElectionVoting` | voting in an election: requests, cache, queue, workers, logs and cron |
| `BallotBox` | abstract: votes come from a ballot that was submitted, in one piece with the mark |
| `MC_ElectionVoting` | posts, maxima and ballots for TLC, and symmetry |
| `ElectionVoting_proofs` | type correctness and the safety invariants, proved |
| `ElectionVoting_refines` | `ElectionVoting` implements `BallotBox`, proved |
| `PaymentBreaker` | the circuit breaker of `initiate_transfer`, one Redis call a step |
| `ContestPayout` | extends it: payouts, refunds, their crons, queue and callers |
| `PayoutLedger` | abstract: a transfer is ordered once, then booked or dropped, and only booked ones are confirmed |
| `MC_ContestPayout` | the instance of `ContestPayout` |
| `RequestPool` | requests of one server process, its pool of connections, charges and their metadata |
| `WalletBilling` | extends it: funding of the wallet and the plans paid from it |
| `TicketSales` | extends it: ticket purchases from the webhook to the attendees |
| `PaidServices` | composes the two over one pool, with restarts; `MC_PaidServices` is its instance |
| `ServiceAccounts` | abstract: what the paid services promise, however many requests race |
| `VoterRoll` | registration of voters: requests, form, CSV worker, deletion |
| `VoterCredentials` | composes it with the broadcast of credentials; `MC_VoterCredentials` is its instance |
| `InfraconAccounts`, `InfraconPull`, `InfraconDeploy` | the commands of infracon, statement by statement |
| `Infracon` | puts the three together, `MC_Infracon` is its instance |
| `SumTheorems` | lemmas about sums over finite sets, for the proofs about balances |
| `ContestPayout_proofs` | types, safety invariants and the refinement of `PayoutLedger`, proved |
| `PaidServices_proofs` | types, the safety invariants and the refinement of `ServiceAccounts`, proved |
| `VoterCredentials_proofs` | the plan, the flags and the length of a broadcast, proved |
| `Infracon_proofs` | the invariants of accounts, tokens, pulls and deployments, proved |

Contest voting and election voting share no row, queue or log. Payouts share the financial record
with contest voting, in one column only: `Earn` of `ContestPayout` is what `CommitCount` of
`ContestVote` does to it, and neither reads what else the other writes.

### 2.1 State of `ContestVote`

| Variable | Code |
|---|---|
| `session` | the payment at Paystack: no link yet, linked, paid |
| `metadata` | the row written with the link, read by the webhook and confirm, deleted at the end of the webhook |
| `ended` | `end_time` of the contest against the clock (`modules/contest/service.ts:424`) |
| `hook` | the position of each webhook delivery in its handler |
| `queue`, `batch` | jobs waiting in Bull; sessions the running cron has read and not queued yet |
| `log` | number of audit-log documents of a session |
| `voters`, `records`, `credits`, `votes`, `refunds` | rows in PostgreSQL; a financial record is named by the processor that inserted it, and its income is kept as the number of payments it sums per session |
| `pc`, `job` | the position of each worker or request in `process_contest_vote`, and its session |
| `snap`, `doomed` | the records an open transaction sees, and the open transactions that a concurrent commit makes unserializable |
| `aborted` | history: sessions whose transaction was rolled back after the deletion of their log |
| `stalled`, `faults` | Bull's count of put-back jobs (one each), and the bound on faults |

`voters` is part of the books the code writes; no property is about it.

### 2.2 Actions and code

| Action | Code |
|---|---|
| `OpenSession`, `Pay` | `getting_payment_link_for_contest`; the charge itself is external |
| `EndContest`, `ReopenContest` | the clock; `update_contest`, which accepts a later end for an ended contest |
| `ReceiveWebhook`, `ResolveVote`, `EnqueueVote`, `CreateLog`, `DeleteMetadata` | `paystack_webhook` and `handle_contest_vote`, one step per await |
| `WebhookFault` | any of these awaits throws, or the instance dies: no 200 |
| `StartAudit`, `RequeueStale` | `audit_contest_vote_logs`: one read, then one queue addition per log |
| `TakeJob` | `ContestVoteWorker.process` |
| `ConfirmLookup`, `ConfirmMetadata`, `ConfirmFetch` | `confirm_payment` up to its call of `process_contest_vote` |
| `ReadContest`, `CheckVote`, `FindRecord`, `CreateRecord` | the reads and inserts before the transaction |
| `BeginCount`, `PurgeLog`, `CommitCount`, `AbortCount` | the transaction; the log's deletion is a step of its own because it is not rolled back |
| `CheckRefund`, `CreateRefund`, `PurgeRefunded` | `process_contest_vote_refund` |
| `Finish` | emails, whose errors are swallowed |
| `ReadFault`, `MongoFault`, `Crash` | a call before the transaction throws; the log's deletion throws; the instance dies, also by the rejection of the deletion that the refund path does not await (571) |

### 2.3 Abstractions

- One contest. Contests share no row that voting writes.
- An amount is a payment. `amount_due_for_payout` is left out: the record is inserted
  without a value for it, and `increment` on NULL leaves NULL.
- Snapshot isolation is modelled at its first statement: `BeginCount` fixes the
  records the transaction sees and updates. When a transaction commits, every other
  transaction open at that moment can no longer be serialized, as all of them read and
  update the rows of the one contest.
- The awaits inside one `Promise.all` are ordered: the log's deletion, then the
  commit. The deletion is issued without being awaited by itself, but it takes effect before
  the transaction ends in every run where it matters; the other order only shortens the
  window in which neither log nor vote exists.
- The transaction object created in the refund path is not used by its insert, so
  it has no step.
- A cron batch is any non-empty set of sessions with a log, at most `AuditLimit`:
  the query states no order, and `MaxQueue` bounds the jobs that it may pile up.
- A job that stalls is put back once (`maxStalledCount` of Bull is 1 by default).
- The webhook deletes the metadata after any event for a reference that has some, also one that it does nothing
  about (`payment.controller.ts:47`, `87`, `109`). Of the events Paystack sends, only `charge.success` has the reference of
  a charge before that deletion; transfers, disputes and repayments have references of their own. So no other event is modelled.
- Names, emails, prices, images and reports have no effect on the properties.

### 2.4 State of `ElectionVoting`

| Variable | Code |
|---|---|
| `ended` | `end_time` of the election against the clock (`modules/election/voters/service.ts:986`) |
| `hasVoted`, `votes` | the committed `has_voted` of the voters and rows of `Votes` |
| `cache` | `has_voted` in the entry `voter-<id>` of Redis |
| `queued`, `owner` | the job of a voter (its id is the election and the voter) and the worker that has its lock |
| `log`, `batch` | the `VoteAuditLog` document of a voter; ballots the running cron has read and not queued yet |
| `late` | voters whose log is still being deleted when the run that issued the deletion has been rolled back |
| `pc`, `voter`, `ballot` | the position of each request or worker, its voter and ballot |
| `seen` | the `has_voted` a request goes by |
| `todo` | which operations of its `Promise.all` are still under way |
| `left`, `choice`, `added` | the loop of `process_vote`: choices not yet looked at, the one it is at, the rows inserted in the open transaction |
| `open`, `stale`, `lock` | transactions with a snapshot; those whose voter's row was committed since; the row lock of a voter |
| `aborted`, `overtaken` | history: voters with a run rolled back once the deletion of its log was issued; voters whose job Bull gave away while its worker lived |
| `faults` | bound on faults |

### 2.5 Actions and code

| Action | Code |
|---|---|
| `Submit`, `LoadVoter`, `StoreVoter`, `ExpireCache` | `VoterAuthInterceptor`, `get_voter_from_cache` |
| `RefuseCast`, `BeginCast` | `cast_vote` up to its `Promise.all` |
| `Snapshot`, `UpdateVoter`, `AddJob`, `CreateLog`, `DuplicateLog` | the three operations, in any order |
| `CommitCast`, `CastConflict`, `CastFault`, `RequestCrash` | its commit; a serialization failure; any failing operation; the instance dies |
| `StartAudit`, `RequeueStale` | `audit_vote_logs` |
| `TakeJob` | `VoteWorker.process` |
| `LookForVote`, `CountVotes`, `CreateVote` | the loop of `process_vote`, one step per await that matters |
| `CloseVote`, `Snapshot`, `UpdateVoter`, `PurgeLog`, `CommitVote`, `Uncache` | its end: the update of the voter and the deletion of the log in either order, the commit, the cache |
| `VoteConflict`, `LatePurge`, `ProcessFault` | a serialization failure, with the deletion of the log before or after the rollback; any other failure |
| `WorkerCrash`, `Stall` | the instance dies; Bull takes the job from a worker that is only slow |

### 2.6 Abstractions

- One election. Votes of different elections share no row.
- A ballot is a set of choices, looked at in any order; the code loops over a list, and no
  property depends on its order. A choice is a post and a candidate, who stands for one
  post. Choosing nobody for a post (`CandidateId` null) is no choice of the model.
- A ballot is whatever a voter sends: `cast_vote_validator` (`validators/voters.ts:25-30`) takes any list, so several
  choices for a post with a single vote, and a choice twice (`Places` tells the two apart). All of them are stored by
  one run, in one transaction: this is what the code does, and no property forbids it.
- Posts, candidates and the election exist while it is voted in; the loop skips what it does
  not find, so a ballot whose posts were deleted marks its voter and stores nothing.
- The tests for earlier votes read the committed rows, never those of the run itself,
  which is why a run stores all choices of a post that it found empty. A row names the choices that counted for
  its voter when the run that stored it committed (`prior`): rows of one run agree on it, and rows of two runs do not, unless
  the later run only repeats choices that counted already. So runs are told apart without a history of their own.
- Transactions conflict on the voter's row only. A transaction's snapshot is taken by its first statement: the insertion of
  a vote, or else the update of the voter. The tests are outside it, so SERIALIZABLE adds nothing to this.
- Another update of the voter's row (a suspension, a correction by the organiser) can make
  a transaction fail as well; `CastFault` and `ProcessFault` stand for that.
- The vote profile, the caches of elections, posts and candidates, and the Redis counter of processed
  votes are left out. Nothing reads the counter: `get_processed_votes_from_redis`
  counts the rows.
- A run that has ended gives its job back at once: Bull removes it when completed or failed.
  A crash or a stall puts it back or fails it, whichever Bull chooses.

### 2.7 `PaymentBreaker` and `ContestPayout`

| Variable | Code |
|---|---|
| `open`, `failures` | the two Redis keys of the breaker; `failures` is capped at `Threshold`, beyond which the code does not tell values apart |
| `at`, `seen` | where each caller is in `initiate_transfer`, and the counter it has read |
| `due`, `payouts`, `paid`, `confirmed` | `amount_due_for_payout` (or `Null`), payout rows, each refund's `transfer_code`, what is marked "successful" |
| `payee`, `bank` | organisers and refunds with a bank account on file |
| `queue`, `todo` | jobs per record; the refunds a refund run has read |
| `pc`, `target`, `amount`, `code` | each caller's position and locals |
| `transfers`, `issued` | Paystack: what it has accepted, and how many per target |
| `earned`, `refusals`, `dropped`, `overlapped` | history: income, refusals, transfers lost by a fault, records two callers paid from at a time |

| Action | Code |
|---|---|
| `Earn`, `AddPayee`, `AddBankDetails` | the increment by a counted vote; the organiser's and the voter's bank accounts |
| `QueuePayout`, `TakePayout`, `RequestPayout` | cron, worker, super-admin |
| `RefusePayout`, `DecidePayout`, `RecordPayout` | `process_contest_revenue_transfer` before and after the transfer |
| `StartRefunds`, `NextRefund`, `RecordRefund` | `initiate_vote_refund_transfer` |
| `BeginCall` ... `CountAndOpen`, `CountOnly`, `SetOpen`, `TransferAccepted`, `CallSucceeds`, `CallFails`, `CallBlocked` | `initiate_transfer` call by call |
| `VerifyPayout`, `VerifyRefund` | the verification crons; Paystack's carrying out of the transfer is merged with them |
| `CallFault`, `RecordFault`, `Crash`, `Expire` | a call that throws before or after its effect, a failed write, an instance that dies, the keys' time to live |

The counter is written and the flag looked at again in one step, as the two commands go down one connection
together (119, 121); the flag is set in a step of its own (124). `Refused` are the refunds whose recipient Paystack refuses every time.

Amounts are whole units. `create_recipient` (664-688) is left out: its failure ends the call before
anything is read or written. A record inserted by the voting code has NULL due; somebody
has to set it by hand before the cron selects it, so `Init` has both. The webhook's branch for
`transfer.success` never runs, since no metadata has the reference of a transfer. Both verification crons
are registered under one name ("Verify Revenue Transfer", 922 and 1004), so no fairness is
assumed of either. The refund run is one at a time: fifty transfers take less than half an hour.

### 2.8 `RequestPool`, `WalletBilling`, `TicketSales` and `PaidServices`

| Variable | Code |
|---|---|
| `pc`, `arg` | the next step of each request or job, and what it is about |
| `held`, `leaked` | connections of open transactions, and of those nobody will end |
| `charged`, `metadata` | what was paid at Paystack; rows of `PaymentMetadata` |
| `balance`, `credited`, `resolved` | `account_balance`, credit transactions per payment, idempotency keys in Redis |
| `plans`, `capacity`, `base` | plans created per kind, the voters the last bill allows, that number as a renewal has read it |
| `lock`, `stale` | the row lock of the wallet; transactions whose snapshot is older than the row |
| `logs`, `jobs`, `receipts`, `issued` | purchase logs, jobs, payment rows, and how often attendees were created |
| `raced`, `halfway`, `asked`, `faults` | history: what two requests had checked before either acted; charges whose run ended between two of its writes (a payment row without attendees, a credit without its key); bounds |

`FundWebhook` ... `FundResolve` are the webhook and `fund_wallet_from_paystack`; `RequestPlan`,
`RequestFree`, `RefuseRenewal`, `SpendRead` ... `SpendCommit` are `create` and `update_billiing`;
`RecordSale` ... `SaleRecorded` are `handle_payment` and the end of the webhook; `BeginSale` ...
`SellUnlog` are `process_payment`, called by a worker or the sweep. `Restart` and `MailFault` end
the process: the second is the `readFileSync` after the commit, whose error makes the catch roll back a
finished transaction, a rejection nobody handles. The actions named `...Timeout` are a query that gets
no connection for a minute: `ForgetTimeout` is the deletion of the metadata that fails so, after the key has been set; `SellFault` is
a failed statement of `process_payment`, the payment row's among them.

- One user, and one server process: with several, each has a pool of its own, and the sweep of
  another is one more handler.
- A plan and a funding are one unit. Voters' tariffs and months do not change what is decided.
- Two updates of one row in SERIALIZABLE transactions: the second waits for the first and then fails.
  It is modelled as failing at once, by the lock or by its old snapshot.
- The idempotency key is written with value and time to live swapped (`payment.controller.ts:75`):
  it lives some 54,000 years, so it never expires in the model.
- `PoolSize` is 3 in the run and 5 in Sequelize; two handlers with a transaction and one further query
  each still find the pool empty, and two leaks leave one connection.

### 2.9 `VoterRoll` and `VoterCredentials`

| Variable | Code |
|---|---|
| `rows`, `flagged` | rows of `Voters`, and `has_sent_voters_auth_credential` |
| `asking`, `passed` | each request and the checks it has passed |
| `csv`, `file`, `unread`, `buffer` | the population job: its state, the lines of the file, those not read, those not inserted |
| `broadcasts`, `starting` | runs of the daily cron; between its queue and its record |
| `batchJob`, `kept`, `batchRecs` | Bull jobs and Mongo records of batches; jobs added without removal |
| `worker`, `batch`, `page`, `current` | the batch worker and its locals |
| `mailJobs`, `mailRecs`, `addressee`, `mailed`, `failed` | the mail queue, its records, the mail worker; history: mails sent and failed |
| `raced`, `faults` | history: an insert on a count that another one changed; bound |

`Ask`, `CountVoters`, `FindVoter`, `InsertVoter` are `create_voter` and the form; `UploadFile` is
`update_election`; `ReadLine`, `FinishFile`, `Rollback`, `FileFault` are the CSV worker;
`DeleteVoters` the three ways to delete. `StartBroadcast`, `RecordBroadcast`, `RequeueBatch`,
`RequeueMail` are the crons; `TakeBatch` ... `RecordNextBatch` are
`send_batched_voters_credentials`; `SendMail`, `ForgetMail` the mail worker.

- One election that has not started, is not disabled and keeps its plan.
- `get_voters` has no ORDER BY: a page is any set of voters of its size. So a broadcast can skip a voter, and no property says that everybody is mailed.
- `has_sent_broadcast` is never set, so the daily cron takes the election again as long as its date fits: `MaxBroadcasts` bounds it.
- `create_voter_and_send_credentials`, bulk mails on request, sent-mail counts in Redis and short codes are left out.

### 2.10 `Infracon`

Every command is a process given once; its steps are its statements, system calls and calls of
Docker, and it can fail at each (`CommandFails`, `PullFails`, `DeployFails`). `SignUp`,
`InsertUser`, `SignToken` are `SignUp` of `auth.go`; `SaveToken` ... `UpdateToken` are
`saveAccessToken`; `Truncate`, `Copy` and `CloseFails` are the loop of `pullFromGithub` for one file, the last for an
error of closing it, at which nobody looks; `Generate`, `Flush` and `FlushFails` are `generateDockerFile`, the last for a
recipe that could not be written, or not in full, after which the deployment goes on; `ReadContext` ... `Start` are
`DeployApplicationWithDockerfile`. Docker is what the commands ask of it: an image name points to
the image built last, a container name is taken once, a host port is bound by a running
container. Histories tell who truncated a file last and which files each command did not write in full (`last`,
`unwritten`), which deployments counted on one `Dockerfile.ic` at a time (`met`), and whose was not written in full (`short`). The three parts share neither rows nor files that matter to each other, so the
variable `part` lets one of them move in a behaviour: a property of a part is about that part alone.

## 3. Properties and runs

| Property | Kind | Says |
|---|---|---|
| `TypeOK` | invariant | types, and a busy processor has a session |
| `CountedOncePerProcessor` | invariant | a payment is counted at most once per worker or concurrent request: each acts at most once on a stale check |
| `RefundedOncePerProcessor` | invariant | the same for refunds |
| `LedgerMatchesVotes` | invariant | one financial record sums exactly the counted votes, whatever raced or rolled back, and no record sums more |
| `PaymentTracked` | invariant | a payment Paystack will not report again is settled, logged, about to be committed, or was rolled back after its log's deletion |
| `NoPaymentLost` | invariant | such a payment is settled or still on its way, without the exception |
| `CountedOnce` | invariant | a payment becomes at most one vote |
| `CountedNotRefunded` | invariant | a counted vote is not refunded |
| `ImplementsSettlement` | refinement | every step is a step of `VoteSettlement` or a stutter |
| `PaidIsSettled` | liveness | a payment that was made is eventually counted or refunded |

Of `ElectionVoting`:

| Property | Kind | Says |
|---|---|---|
| `TypeOK` | invariant | types, a busy actor has a voter and a ballot, and only a running `Promise.all` has operations under way |
| `OneRunPerPost` | invariant | a voter's votes for a post with a single vote come from one run of one ballot, and no candidate counts for a voter in two runs, unless Bull gave the voter's job away while its worker lived |
| `VotesMarkVoter` | invariant | votes are never stored without the mark, whichever transaction is rolled back |
| `BallotTracked` | invariant | a marked voter has votes, a log or a run about to commit, or had a run rolled back after its log's deletion was issued |
| `BallotKept` | invariant | the same without the exception, where a job counts too |
| `ImplementsBallotBox` | refinement | every step is a step of `BallotBox` or a stutter |
| `MarkedIsStored` | liveness | a marked voter eventually has votes, with the exception of `BallotTracked` |

Of `ContestPayout`:

| Property | Kind | Says |
|---|---|---|
| `TypeOK` | invariant | types |
| `OpenedByFailures` | invariant | the breaker opens only after as many refusals as the threshold, whatever overlaps at the counter |
| `EveryTransferAccounted` | invariant | what Paystack accepted is in the books, in the hand of its caller or was dropped by a fault; the books hold nothing else |
| `RefundedOnceUnlessDropped` | invariant | a refund is transferred again only after a fault between transfer and record |
| `BooksBalance` | invariant | what is due is what came in less the payouts |
| `OverpaidOnlyByOverlap` | invariant | the amount due becomes negative only when two callers decided before either was debited |
| `ImplementsLedger` | refinement | every step is a step of `PayoutLedger` or a stutter |
| `RefundsArePaid` | liveness | a refund with bank details that Paystack does not refuse every time is paid in the end, unless one that it does refuse every time has bank details and is as cheap or cheaper |

Of `PaidServices`:

| Property | Kind | Says |
|---|---|---|
| `CreditIsClosed` | invariant | a credited payment, of which each further delivery would leave a transaction open and cost the pool a connection, has its key in Redis, or a request that is about to set it, or lost its server in between |
| `WalletSound` | invariant | balance = credits - debits; a double credit or a negative balance needs two requests that looked before either acted |
| `PlansAsPaid` | invariant | one free plan, and as many voters as renewals were paid for, with the same exception |
| `PurchaseAccounted` | invariant | a paid purchase has metadata or a log until it has a payment row; a row without attendees is being worked on or was left by a failed run |
| `IssuedOnceUnlessRaced` | invariant | attendees are created twice only when two runs looked before either wrote |
| `ImplementsAccounts` | refinement | every step is a step of `ServiceAccounts` or a stutter: nothing is credited or issued unpaid, nothing more often than there are handlers, the wallet owes at most one unit less than that, and renewals never allow more voters than were paid for |
| `PurchaseDelivered` | liveness | a paid purchase gets its attendees, unless a fault left it half done or leaked connections leave no two free |

Of `VoterCredentials` (the first is stated in `VoterRoll`):

| Property | Kind | Says |
|---|---|---|
| `WithinPlan` | invariant | the roll outgrows the plan only while a file is read, after its reader died, or by a registration counted while another registration or a file was under way |
| `MailAccounted` | invariant | a flagged voter, who is never mailed again, has a mail that was sent, waits or failed |
| `BroadcastEnds` | liveness | a recorded batch is handled in the end, unless Bull still knows an ended job of its id |

Of `Infracon` (each stated in the module of its part):

| Property | Kind | Says |
|---|---|---|
| `SignedUpOnce` | invariant | no two sign-ups of one email run to their end |
| `TokenStands` | invariant | only accepted tokens are stored, and a save that ran to its end left its user one |
| `PulledWhole` | invariant | where a pull has ended well every file is there, and one that is not whole was truncated last by a command that has not written all of it; so a pull that follows a failed one leaves whole files |
| `DeployedAsAsked` | invariant | a deployment that reports success runs its own recipe or that of one whose `Dockerfile.ic` was in its folder at the time or that took its image name, and all of it unless it could not be written in full or was written by two |

The runs named `vote_*` are of `MC_ContestVote`, those named `ballot_*` of
`MC_ElectionVoting`, `payout` is of `MC_ContestPayout`, `services` of `MC_PaidServices`, `voters`
of `MC_VoterCredentials` and `infracon` of `MC_Infracon`. Deadlock is not checked: a payer who does
not pay, a contest nobody votes in and a voter who does not vote are complete executions; in the
later runs income, transfers, requests and broadcasts are bounded, and a command of infracon is given once.

| Run | Instance | Shows |
|---|---|---|
| `vote_race` | 2 sessions, 1 delivery, 2 workers, no faults; symmetric | the safety invariants and the refinement under every interleaving of two payments that contend for one financial record. Two sessions and two workers are the least that let two first payments insert two records, two transactions conflict, and a payment be counted by both workers. `RefundedOncePerProcessor` is not listed there: the refinement implies it |
| `vote_live` | 1 session, 2 deliveries, 1 worker, 1 fault of any kind but a rolled-back commit | with one worker and no confirm request a payment is counted at most once, never lost and always settled, whichever single fault happens; the second delivery is Paystack's repetition after a failed one |
| `vote_confirm` | 1 session, 1 delivery, 1 worker, 1 confirm request, 2 faults of any kind but a failed webhook | a request racing a worker, with the log's deletion and the transaction failing independently |
| `vote_twice` | 1 session, 1 delivery, 1 worker, 1 confirm request, no fault | counterexample to `CountedOnce` |
| `vote_refunded` | 1 session, 1 delivery, 1 worker, no fault | counterexample to `CountedNotRefunded` |
| `ballot_race` | 1 voter, 2 requests, 1 worker, a post with 1 vote and a post with 2, 2 ballots (one with two choices for the first post, one with a choice twice that the other has as well), no faults; symmetric; 783,528 states | the safety invariants and the refinement while two ballots of one voter go through cache, queue, log, cron and transactions in every order |
| `ballot_live` | 1 voter, 1 request, 2 workers, 1 post with 1 vote, ballots of one or two choices for it, 1 fault of any kind; 343,364 states | the invariants under every single fault, also with the same job at two workers; a marked ballot is stored in the end |
| `ballot_lost` | 1 voter, 1 request, 1 worker, no fault | counterexample to `BallotKept` |
| `payout` | 1 record (with NULL or 0 due), 2 refunds, the dearer one refused every time, 1 worker, 1 super-admin, the refund run, 2 callers at work at once (`Room`; the refund run is at work from the moment it has read the refunds), threshold 2, 1 unit of income, 1 job, 2 transfers per target, 1 verified transfer, 1 fault (call, record, crash); 431,051 states | the safety invariants, the refinement and that the cheaper refund is paid although runs end at the dearer one |
| `services` | 2 handlers, 3 connections, 1 funding, 1 ticket, 2 requests for plans, of these 4 at most 3 in one behaviour (`MaxWork`), 1 job, 1 fault (sql, mongo, redis, file, restart) | that a credit closes its payment, that money, plans and purchases are accounted for, the refinement with a limit of 2, and that purchases are delivered; 128,939 states |
| `voters` | 2 requests, one of them a form, 2 lines in files, a plan of 1 voter, chunks of 2, pages of 1, 1 broadcast of at most 3 batches, 1 fault (csv, job, mail, crash) | the plan and the flags under every interleaving, and that batches end |
| `infracon` | 3 commands, 2 emails, 2 passwords, 1 user, 2 tokens; 2 pulls of 2 files; 3 deployments of 1 folder, 2 of them without a Dockerfile, ports 3000 and 8000, 3 milliseconds; 3.4 million states | the four invariants, with every command failing at every step and every ignored error |

In `ElectionVoting` voters share nothing but the cron's batch, so one is enough. Two
requests are the least that refuse a job or a log as a duplicate; two workers the least that
run one job twice. In `ballot_race` the post with 2 votes and ballots of up to
3 choices reach the count at its maximum.

In `ContestVote` the sessions never interact except on the financial record (`records`, `credits`,
`snap`, `doomed`), which is why two are enough there and one elsewhere.
`AuditLimit` and `MaxQueue` are 1: the cron can always run again, and a further
identical job repeats the behaviour of the first.

The second refund of `payout` ends every run that reaches it, and its refusals open the breaker for the runs after: the cheaper one has
to get past both, and a run that took the refunds in another order would never pay it (the mutant of the property). With the refused
one as the cheaper, TLC finds the dearer refund pending for ever, which is the exception that `RefundsArePaid` names.
Two callers are the least that overpay a record, two refusals the least that make the
threshold different from one, and a second transfer per target the least that repeats one.
`PoolSize` and `Handlers` are discussed in 2.8: two handlers are enough for every pair of
requests that look and then act, and two requests for plans for two renewals or two free plans. `MaxWork` leaves out only the behaviours
in which the ticket, the funding and two plans all occur. In
`voters` a plan of one voter is exceeded by two registrations, by one and a line, or by a file
of two lines; a file of two lines in one chunk is inserted at once and, with one line, at the end. Pages of one
voter and 3 batches give a broadcast a first, a middle and an empty batch. `Together` is FALSE
there: a behaviour has a file or a broadcast, since both touch `rows` only, which
deletions and registrations change during a broadcast as well. In `infracon` two deployments
without a Dockerfile race for `Dockerfile.ic`, and one with a Dockerfile for the image name and
the port; three milliseconds let any two of them share one or not.

**Faults.** `Faults` names the kinds that can happen and `MaxFaults` how many in all.
Any one of the faults of `vote_live` is survived. Two are not: a crash leaves the job put
back but its log deleted, and a failed read then drops that job. This is the
exception `PaymentTracked` names (`aborted`), and `vote_confirm` reaches it.

The kinds of `ElectionVoting` are `cast` (an operation of a cast or its commit fails), `process` (a run fails at any
point), `crash` and `stall`. Those of `ContestPayout` are `call` (a call of Paystack or Redis throws,
before or after its effect), `record` (the transaction that books a transfer fails) and `crash`. Those of
`PaidServices` are `sql`, `mongo`, `redis` (a statement, a log or a job fails), `file` (a receipt cannot be
read) and `restart`. Those of `VoterCredentials` are `csv`, `job`, `mail` and `crash`. In `Infracon` failing
is an action of every command and has no bound.

**Fairness of `ContestVote`** (used by `vote_live` only): Paystack calls until it gets a 200, so an
undelivered webhook is eventually received, and event loops run their callbacks, so
handlers and processors proceed (weak fairness). Bull serves a queue in order and the cron
comes round every few minutes, but the worker that could take a job is
again and again busy in between and batches are taken from many logs, so taking a job,
reading a log and queueing it have strong fairness per session. The last two
assume that a session's log is eventually among the 20 the cron reads; see the hazard
about logs of settled payments at `modules/contest/repo.ts:295`. No fault, payment or
end of the contest is ever forced to happen.

**Fairness of `ElectionVoting`** (used by `ballot_live` only): the same. Requests, transactions
and workers proceed (weak fairness); taking a voter's job, reading the voter's log and queueing it
have strong fairness, since another worker or batch is in between again and again. Nobody has to submit a ballot, and no fault,
expiry of the cache, late deletion or end of the election has to happen.

**Fairness of `ContestPayout`**: the refund cron comes back, a run goes on, callers proceed and the open flag
expires (weak fairness). Paystack does not refuse a worker's payout for ever, nor a refund that is not in `Refused`
(strong fairness of `TransferAccepted` for each worker and each such refund): it is asked for that refund again and again, and accepts it at last. A
refund in `Refused` is refused every time: it ends every run it is in, and can open the breaker each time. Bank details and transfer codes
are never taken back, so `RefundsArePaid` is written with `[]<>`, which says the same as `~>` and is cheaper to check. No payout has to be made and nothing verified.

**Fairness of `PaidServices`**: requests under way proceed (weak fairness). Paystack repeats its webhook, and the
sweep comes back to a log, but handlers and connections may be busy in between, so recording a sale and
beginning one have strong fairness; so has `SellPay`, because the pool serves who waits in
order. Nobody has to fund a wallet or ask for a plan.

**Fairness of `VoterCredentials`**: workers proceed, a broadcast that was queued is recorded and the cron for
batches comes back (weak fairness). The cron for mails has none: a record of a voter who was deleted
makes it throw, every time, before the records after it. `Infracon` has no liveness property: a command may end anywhere.

### 3.1 What the violation runs found

- **A counted vote is refunded** (`vote_refunded`). The job is queued before the audit log is
  written. A fast worker counts the vote and deletes no log; the log is then
  created and stays. Once the contest has ended, the cron queues the session again, the
  ended contest sends it to the refund path, and that path looks for a
  refund but not for a vote.
- **A payment is counted twice** (`vote_twice`). The test for an existing vote is made
  before the transaction, and nothing makes `session_id` unique: a worker and a confirm
  request both find no vote and count one after the other, which SERIALIZABLE
  permits because the test was no part of either transaction.
- **A ballot is lost** (`ballot_lost`). The cast adds the job before it commits. A worker takes it at
  once, finds no earlier vote and inserts the votes; the cast commits; the worker's
  update of the same voter can no longer be serialized and its run is rolled back, but the deletion
  of the log, issued together with that update, is not. The voter is marked and has been
  congratulated, and no vote, log or job is left.

For elections the invariants that hold say that this is the only way: a marked voter
without votes or log had a run rolled back at that very place (`BallotTracked`, proved).
For contests they say how far double counting goes: at most one extra vote per extra
processor, and books that always agree with the votes (proved as well). When no payment is lost is
proved too: `NoPaymentLostHolds` in 4.1.

## 4. Proofs

Each `*_proofs` module ends in its theorems. Before them stand the inductive invariants, one lemma that
says how the steps of the system look to each of them (a *step shape*: a count goes up by one, a code is let go
of, a request moves), and one lemma that a step of that shape keeps it.

Balances are sums over finite sets, which the community modules compute by a fold, in an order that a
`CHOOSE` picks. `SumTheorems` proves what is needed without induction over data: whatever a fold
computes for a finite set satisfies its recursive equation, and a smallest subset that
contradicts a claim cannot exist (`SmallestSubset`, from the well-foundedness of proper inclusion). So the order does not matter
(`SumRemove`), adding an element adds its value (`SumAdd`, `SumGrow`), changing one value changes
the sum by the difference (`SumChange`), and renaming the elements changes nothing (`SumRename`).

### 4.1 Contest voting

`tlapm ContestVote_proofs.tla` checks everything
below, for any finite sets of workers and requests, any sets of sessions and deliveries,
any faults and bounds. Assumptions: the `ASSUME`s of `ContestVote` (finite processors,
workers are not requests, `NoSession` is not a session, and the bounds are numbers).

| Theorem | Inductive invariant and why it is needed |
|---|---|
| `TypeCorrect` | `TypeOK` is inductive |
| `CountedOncePerProcessorHolds` | `CountBound`: the votes of a session plus the processors that hold a *stale* check (past `CheckVote`, not yet committed) never exceed the number of processors, once a vote exists; a check can only succeed while there is none |
| `RefundedOncePerProcessorHolds` | the same count over the processors about to insert a refund |
| `LedgerMatchesVotesHolds` | `LedgerInv`: some record sums all votes and lies in the snapshot of every open transaction, as a transaction only begins after a record was found or created; whichever commits therefore adds its vote to that record, and one that rolls back adds nothing |
| `PaymentTrackedHolds` | `TrackInv`: a delivery past the creation of its log leaves the payment accounted for, and the deletion of a log only happens at a processor that is about to commit, or that has inserted a refund |
| `SingleProcessorCountsOnce` | the first bound with one processor |
| `NoPaymentLostHolds` | under the hypotheses below. By `PaymentTracked` only a run rolled back after its log's deletion can lose a payment, so: `DoomInv`, a transaction that a commit has doomed works for a payment which that commit has settled; `AbortInv`, a payment rolled back otherwise was struck by the one crash there can be, and its job waits or is worked on, as Bull puts it back once (`StallInv`) and, before any fault, a payment reported to the queue has a job or is settled (`QueueInv`) |
| `SettlementImplemented` | `PaidInv`: whatever is queued, logged, batched or worked on belongs to a session that was paid; with the bounds and the ledger each step maps to `Pay`, `Count`, `Refund` or a stutter of `VoteSettlement`, whose income is that of the oldest record |

`NoPaymentLostHolds` assumes that commits do not fail by themselves (`"commit" \notin Faults`), that one fault is all that strikes
where instances can crash (`OneCrash`), and that there is one processor or one payment (`Alone`). Webhooks,
reads and deletions of logs may fail any number of times where nothing crashes, with any number of workers on one payment or one worker on
many, and the contest may end and reopen. None of the three can be dropped: without the first, a rollback follows the log's deletion;
without the second, a crash takes the log and a failed read the job that Bull has put back; without the third,
the commit of one payment dooms the transaction of another whose log is gone. TLC reaches a lost payment in each case.

Only model-checked: `PaidIsSettled` (liveness is out of TLAPS's reach).

### 4.2 Election voting

`tlapm ElectionVoting_proofs.tla` and `tlapm ElectionVoting_refines.tla` check the following for any sets of
voters, requests, workers, posts and ballots, any maxima and any faults. Assumptions: requests are not workers, the names of nobody are
fresh, a maximum is positive, and a ballot is a set of choices that is not empty. Nothing is assumed of what is in it.

| Theorem | Inductive invariant and why it is needed |
|---|---|
| `TypeCorrect` | `TypeOK` is inductive; that idle workers wait for nothing is part of it, since a conflict is only possible for somebody who waits for the voter's row |
| `VotesAreMarked` | itself: votes are written by one action, together with the mark, and `StoreSteps` says that nothing else touches either |
| `OneRunForPost` | `OnceInv`: a busy worker whose job was not given away owns it (`OwnsJob`), so no other worker can commit votes of the voter, and what it read outside the transaction is still true when it commits (`StillFree`): nothing that it is about to store is excluded by what counts for the voter already. What it has added is from its ballot (`FromBallot`), and gets one `prior` |
| `BallotsTracked` | `TrackInv`: a request that has written its log has a ballot in sight before it commits, a run that reaches its end has votes to store or found earlier ones, and a late deletion follows a rollback. `KeptStep` is the heart: a deletion of the log happens only at a worker about to commit, and that worker commits or is recorded |
| `BallotBoxImplemented` | `SaidInv`: every ballot in a job, a log, the cron's batch or a worker was submitted by its voter; with `OnceInv` each step maps to `Cast`, `Mark`, `Store` or a stutter of `BallotBox` |

Only model-checked: `MarkedIsStored` (liveness).

### 4.3 Payouts

`tlapm ContestPayout_proofs.tla` checks the following for any records, refunds, workers, super-admins, amounts,
threshold, bounds and faults. Assumptions: the `ASSUME`s of `PaymentBreaker` and `ContestPayout` (the threshold
and the amounts are positive, callers and targets are of one kind each, `Null` is not a number).

| Theorem | Inductive invariant and why it is needed |
|---|---|
| `TypeCorrect` | `CallInv`, `RefundInv` and `RestType` on top of the types: a caller is inside `initiate_transfer` exactly while it transfers (`CallOK`), so its target is known when Paystack answers |
| `OpenedByFailuresHolds` | `CountInv`: while the threshold is not reached, the counter plus the callers that still have a refusal to count, and each reading of the counter plus the same, stay within the refusals; a write can then only put back what was refused |
| `EveryTransferAccountedHolds` | `CodeInv`: codes are unique per target (`OrderInv`), a code is in one hand, in the books or dropped (`HandInv`, `BookInv`), and none of these lets go of a code without another taking it (`TraceInv`) |
| `BooksBalanceHolds` | `BalanceInv`: the rows are finitely many, and what is due is income less their sum; a new row is of a code no row has, so its amount is added once, in the step that debits it |
| `RefundedOnceHolds` | with `RefundInv`: the refund run works on refunds that have no code yet, and neither lists nor holds one twice, so two codes of one refund cannot both be booked or in hand |
| `RefundTransfersBoundedHolds` | `DropBound`: each fault drops one code at most; a transfer for a refund has a dropped code or the one code its refund keeps (`KeptCodeOfRefund`), and codes name transfers uniquely |
| `OverpaidOnlyByOverlapHolds` | `PaceInv`: unless two callers overlapped, whoever has decided is alone and its amount is still due |
| `MoneyOutWithinIncomeHolds` | none of its own: the transfers that no fault dropped are those of the rows and of the one caller with a code in hand (`KeptSplit`), the rows sum to what was debited (`BookedSum`, by renaming rows to transfers), and the one in hand is still due |
| `PayoutImplementsLedger` | `CodeStep`: from the side of codes every action is an order, an order in vain, a booking, a drop, a confirmation or nothing |

`RefundTransfersBounded` and `MoneyOutWithinIncome` are stated in the proof module: on an instance with two refunds and one
fault they say little more than the invariants that `payout` lists.

Only model-checked: `RefundsArePaid` (liveness).

### 4.4 Wallet, plans and tickets

`tlapm PaidServices_proofs.tla` checks the following for any handlers, payments, tickets, size of the pool, bounds and faults.
Assumptions beyond the numbers: a charge is either a payment to the wallet or a ticket (`ChargesKnown`), and payments and
handlers are finite sets (`PaymentsFinite`, `HandlersFinite`), as the first are summed and the second counted.

| Theorem | Inductive invariant and why it is needed |
|---|---|
| `TypeCorrect` | `BoundInv`, `StaleInv`, `RestType`, `RacedType`: a connection is forgotten only by who has one or takes a free one, and only a request at its debit has an old snapshot |
| `CreditIsClosedHolds` | `CloseInv`: a commit leaves its request at the last step of the webhook, where it is about its payment (`RequestInv`) until it sets the key, and the only other way from there is the death of the server, which `halfway` records (`CloseKept`) |
| `PurchaseAccountedHolds` | `TrailInv`: payment rows = attendees created + runs between the two, until a run fails there; a webhook about to delete the metadata has left a log or found a payment row |
| `IssuedOnceHolds` | `OnceInv`: without a race one run at a time is between its look and its row, and only one ever writes a row |
| `CreditedOnceHolds`, `OverdrawnOnlyByRaceHolds`, `PlansAsPaidHolds` | `CreditInv`, `DebitInv`, `RenewalInv`, `FreeInv`: without a race at most one request is between its look and its commit, and what it has seen is still so |
| `WalletMovesHold` | none: an action property. A step that moves the balance credits one payment or records one paid plan, and neither is recorded without it |
| `WalletSoundHolds` | `BookInv`: the balance is the sum of the credits less the paid plans, by `WalletMovesHold` and `SumChange`; with `CreditInv` and `DebitInv` |
| `AccountsImplemented` | `LimitInv`: races are bounded. For a payment, a purchase, the free plan and the wallet alike, what has been done and the requests that have looked and may still do it are together at most `Cardinality(Handlers)`, because nobody who looks afterwards may go on. Whatever is worked on, queued or logged was paid for (`PaidFor`), and a renewal has read no more voters than were paid for (`RenewBound`) |
| `RacesBoundedHolds` | `RacesBounded` follows from `LimitInv`: it is what the races the code allows can cost at most, stated on the model's own variables: credits, receipts, issued attendees and free plans at most `Limit`, the balance at least `1 - Limit`, the capacity at most the renewals |

Only model-checked: `PurchaseDelivered` (liveness).

### 4.5 Voters and credentials

`tlapm VoterCredentials_proofs.tla` checks the following for any requests, lines, plan, chunk and page sizes and faults. Assumptions: those of
`VoterRoll` and `VoterCredentials`; files are finite, as cardinalities are compared.

| Theorem | Inductive invariant and why it is needed |
|---|---|
| `WithinPlanHolds` | `PlanInv`: while nothing raced, there is room for whoever was counted, a file has the roll to itself, and the roll is within the plan when no file is being read |
| `MailAccountedHolds` | `MailInv`: the voter the worker is about to record or flag has a mail, and the mail whose record is about to be deleted was sent |
| `NextBatchWithinBound` | `BatchInv`: a batch with voters on its page begins within the roll as the worker read it, and the roll within everybody who can be on it (`SourceInv`: only requests where there is no file, and no batch at all where there is one but not `Together`). It assumes that requests are finite and that `MaxBatch - 1` pages hold everybody, as in `voters`, and shows that the guard `batch < MaxBatch` of `QueueNextBatch` cuts nothing off |

Only model-checked: `BroadcastEnds` (liveness).

### 4.6 Infracon

`tlapm Infracon_proofs.tla` checks the following for any commands, emails, users, tokens, folders, files, deployments, ports and times. Assumptions: the names of nobody,
of no folder and of no value are fresh, and no file is named as a stage of a pull.

| Theorem | Inductive invariant and why it is needed |
|---|---|
| `SignedUpOnceHolds` | `SignUpInv`: of the commands past their insert no two have one email, as the insert asks for its absence |
| `TokenStandsHolds` | `TokenInv`, with what a command has been given at each step (`Given`): its token was accepted before it selects, and the row it updates exists |
| `PulledWholeHolds` | `PlaceInv`: a pull has truncated every file it is through with, and keeps its folder; `FileInv`: a file that somebody truncated is there, and is cut only if the last one to do so has not written all of it. Nothing in it depends on how other pulls ended |
| `DeployedAsAskedHolds` | `RecipeInv`: those that count on one `Dockerfile.ic` have met, what is in it is of one of them, and it is whole unless its writer failed or met another; `ImageInv`: an image has a recipe that one of those who took its name can run |

## 5. Plan

The modules planned at the start are written, and every safety invariant, action property and refinement that a passing run lists has a
theorem. To prove next: how many votes a contest can have in all (payments times processors, summed with `SumTheorems`); what
`BallotBox` and `PayoutLedger` imply by themselves; the number of mails one broadcast sends to a voter.

What is left to model, in the order of what it would add:

| Part | What to model | To show |
|---|---|---|
| Billing crons (`modules/billing/billing.service.ts:344-533`) | expiry, warnings and disabling of elections, beside renewals: the row of a plan that was renewed still expires and gets its warnings | an election with a plan in force is not disabled |
| Scanner keys (`modules/smooth-ticket/event/service.ts:253-310`) | the key, its cache entry, and a look-up that fills the cache while the key is replaced | a replaced key is refused in the end |
| Short codes | a test and an insert in two databases | a code names one election |
| Bulk mails on request, sent-mail counts | the second way into the mail queue | - |
| Election administration | change of times and deletion while ballots and broadcasts are under way | - |

## 6. Not modelled, and why

- `src/github/auth/BAMSSA-DEVS-SMOOTH-BALLOT-BE-...` is a byte-identical copy of smooth-be that a pull has unpacked, and the Python
  repository next to it is another sample. Modelling them again would say nothing new. They are about half of the
  lines of the repository.
- Most of the other half is one request at a time without state of its own to protect: creation, listing and editing of elections, posts, candidates, contests and
  events, users, login, super-admin, platform, database models and migrations, email
  templates, storage, PDF and report workers. A module for each would restate its assignments.
- Voting leaves out reports, images and results; elections also the login and suspension of voters.
- `create_recipient` of a payout, the opening of a wallet, quotes and tariffs (a plan is one unit).
- The branch of the webhook for `transfer.success` is dead: it is reached only with the metadata of a transfer, which nobody writes.
- `src/nginx/main.go` renders one file in one pass; `src/github/repo` and the callback server under `src/github/auth` make stateless HTTP calls.
- The load of the database, time-outs of single HTTP calls beyond their failure, and the SERIALIZABLE algorithm
  of PostgreSQL itself: who conflicts with whom is decided by snapshot and row as described in 2.3, 2.6 and 2.8.
