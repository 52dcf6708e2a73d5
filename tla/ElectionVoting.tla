--------------------------- MODULE ElectionVoting ---------------------------
(***************************************************************************)
(* Voting in an election of the deployed workload smooth-be.               *)
(*                                                                         *)
(* A voter's request (cast_vote) marks the voter in a SERIALIZABLE         *)
(* transaction of PostgreSQL, adds a job to VOTE_QUEUE in Redis and writes *)
(* an audit log to MongoDB, all three at once.  A Bull worker, one per     *)
(* application instance, turns the job into votes in a transaction of its  *)
(* own that also marks the voter, and deletes the log meanwhile.  A cron   *)
(* job puts the ballots of stale logs back in the queue.  Job and log are  *)
(* keyed by the voter, so a second job or log of a voter is refused while  *)
(* the first exists.  Voters are read through a Redis cache.               *)
(*                                                                         *)
(* Only the voter's row makes transactions conflict: the tests for earlier *)
(* votes are made outside the transaction, on the committed rows.          *)
(* A vote names the choices that counted for its voter before its run      *)
(* committed: votes of one run agree on them, and votes of two runs of one *)
(* voter do not, unless the later run only counts again what had counted.  *)
(***************************************************************************)
EXTENDS Naturals, FiniteSets

CONSTANTS
  Voters,
  Requests,    \* POST /action/vote requests, each made at most once
  Workers,     \* Bull workers: one per application instance
  Posts,       \* the posts of the election
  Candidates,  \* their names: a candidate stands for one post
  Places,      \* places in a ballot: a choice can be there twice
  MaxVotes,    \* maximum_vote_per_voter of each post
  Ballots,     \* the sets of choices that voters submit
  NoVoter,     \* the voter of an idle request or worker
  NoBallot,    \* no job, no log, or no ballot
  NoActor,     \* nobody owns a job or has locked a voter
  AuditLimit,  \* logs read by one cron run (.limit(20))
  Faults,      \* the kinds of fault that can happen
  MaxFaults    \* bound of the model: how many faults happen in all

FaultKinds == {"cast", "process", "crash", "stall"}

Actors  == Requests \cup Workers
Choices == [place : Places, post : Posts, candidate : Candidates]
Rows    == [voter : Voters, choice : Choices, prior : SUBSET Choices]

Single(post) == MaxVotes[post] = 1

ASSUME RequestsNotWorkers == Requests \cap Workers = {}
ASSUME NobodyFresh ==
  NoVoter \notin Voters /\ NoBallot \notin Ballots /\ NoActor \notin Actors
ASSUME MaxVotesPositive == MaxVotes \in [Posts -> Nat \ {0}]
ASSUME BallotsOfChoices == \A b \in Ballots : b # {} /\ b \subseteq Choices
ASSUME AuditLimitPositive == AuditLimit \in Nat \ {0}
ASSUME FaultsKnown == Faults \subseteq FaultKinds /\ MaxFaults \in Nat

VARIABLES
  ended,      \* has the election's end_time passed?
  hasVoted,   \* the committed has_voted of each voter
  votes,      \* the committed rows of Votes
  cache,      \* the voter's has_voted in Redis: "empty" when not cached
  queued,     \* the ballot of the voter's job in VOTE_QUEUE
  owner,      \* the worker that has the lock of that job
  log,        \* the ballot in the voter's VoteAuditLog document
  batch,      \* ballots of the logs the running cron has read, not yet queued
  late,       \* voters with a log deletion still under way after a rollback
  pc,         \* where each request or worker is
  voter,      \* the voter it works for
  ballot,     \* and the ballot
  seen,       \* has_voted as a request found it
  todo,       \* concurrent operations it still waits for
  left,       \* choices a worker has still to look at
  choice,     \* the choice a worker is at, as a set of at most one
  added,      \* choices stored in a worker's open transaction
  open,       \* transactions that have their snapshot
  stale,      \* open transactions whose voter row was since updated
  lock,       \* the transaction that has updated the voter's row
  aborted,    \* voters with a run rolled back once its log deletion was issued
  overtaken,  \* voters whose job was given away while its worker lived
  faults      \* faults so far

dbVars    == <<hasVoted, votes>>
queueVars == <<queued, owner>>
logVars   == <<log, batch, late>>
txnVars   == <<open, stale, lock>>
runVars   == <<left, choice, added>>
workVars  == <<voter, ballot, todo>>
envVars   == <<ended, aborted, overtaken, faults>>
vars == <<dbVars, cache, queueVars, logVars, pc, workVars, seen, runVars, txnVars, envVars>>

RequestPC == {"idle", "load", "store", "cast", "casting", "failed", "done"}
WorkerPC  == {"idle", "vote", "count", "create", "closing", "uncache"}

RowsOf(v)         == {r \in votes : r.voter = v}
PostRows(v, post) == {r \in RowsOf(v) : r.choice.post = post}
ChoicesOf(v)      == {r.choice : r \in RowsOf(v)}

Init ==
  /\ ended    = FALSE
  /\ hasVoted = [v \in Voters |-> FALSE]
  /\ votes    = {}
  /\ cache    = [v \in Voters |-> "empty"]
  /\ queued   = [v \in Voters |-> NoBallot]
  /\ owner    = [v \in Voters |-> NoActor]
  /\ log      = [v \in Voters |-> NoBallot]
  /\ batch    = [v \in Voters |-> NoBallot]
  /\ late     = {}
  /\ pc       = [a \in Actors |-> "idle"]
  /\ voter    = [a \in Actors |-> NoVoter]
  /\ ballot   = [a \in Actors |-> NoBallot]
  /\ seen     = [r \in Requests |-> "empty"]
  /\ todo     = [a \in Actors |-> {}]
  /\ left     = [w \in Workers |-> {}]
  /\ choice   = [w \in Workers |-> {}]
  /\ added    = [w \in Workers |-> {}]
  /\ open     = {}
  /\ stale    = {}
  /\ lock     = [v \in Voters |-> NoActor]
  /\ aborted  = {}
  /\ overtaken = {}
  /\ faults   = 0

Fault(k) ==
  /\ k \in Faults
  /\ faults < MaxFaults
  /\ faults' = faults + 1

Goto(a, from, to) ==
  /\ pc[a] = from
  /\ pc' = [pc EXCEPT ![a] = to]

EndElection ==
  /\ ~ended
  /\ ended' = TRUE
  /\ UNCHANGED <<dbVars, cache, queueVars, logVars, pc, workVars, seen, runVars,
                 txnVars, aborted, overtaken, faults>>

(* An hour after it was set, a cached voter is gone.                       *)
ExpireCache(v) ==
  /\ cache[v] # "empty"
  /\ cache' = [cache EXCEPT ![v] = "empty"]
  /\ UNCHANGED <<dbVars, queueVars, logVars, pc, workVars, seen, runVars, txnVars, envVars>>

(***************************************************************************)
(* Transactions.  Each takes its snapshot with its first statement and     *)
(* updates the voter's row when no other open transaction has; a row that  *)
(* was committed since the snapshot cannot be updated any more.            *)
(***************************************************************************)
Snapshot(a) ==
  /\ a \notin open
  /\ "update" \in todo[a]
  /\ open' = open \cup {a}
  /\ UNCHANGED <<dbVars, cache, queueVars, logVars, pc, workVars, seen, runVars,
                 stale, lock, envVars>>

UpdateVoter(a) ==
  /\ a \in open \ stale
  /\ "update" \in todo[a]
  /\ lock[voter[a]] = NoActor
  /\ lock' = [lock EXCEPT ![voter[a]] = a]
  /\ todo' = [todo EXCEPT ![a] = @ \ {"update"}]
  /\ UNCHANGED <<dbVars, cache, queueVars, logVars, pc, voter, ballot, seen, runVars,
                 open, stale, envVars>>

Conflict(a) ==
  /\ a \in stale
  /\ "update" \in todo[a]
  /\ lock[voter[a]] = NoActor

Unlock(a) == lock' = [v \in Voters |-> IF lock[v] = a THEN NoActor ELSE lock[v]]

Rollback(a) ==
  /\ open'  = open \ {a}
  /\ stale' = stale \ {a}
  /\ Unlock(a)

CommitUnmarked(a) ==  \* mutant: the voter is not marked
  /\ open'  = open \ {a}
  /\ stale' = (stale \cup {x \in open : voter[x] = voter[a]}) \ {a}
  /\ Unlock(a)
  /\ UNCHANGED hasVoted

(* The voter's row is new to the transactions that already have a snapshot.*)
Commit(a) ==
  /\ open'  = open \ {a}
  /\ stale' = (stale \cup {x \in open : voter[x] = voter[a]}) \ {a}
  /\ Unlock(a)
  /\ hasVoted' = [hasVoted EXCEPT ![voter[a]] = TRUE]

(***************************************************************************)
(* A request: the interceptor reads the voter, cast_vote casts the ballot. *)
(***************************************************************************)
SubmitAnonymously(r, v, b) ==  \* mutant: the voter is not handed on
  /\ Goto(r, "idle", IF cache[v] = "empty" THEN "load" ELSE "cast")
  /\ ballot' = [ballot EXCEPT ![r] = b]
  /\ seen'   = [seen EXCEPT ![r] = cache[v]]
  /\ UNCHANGED <<dbVars, cache, queueVars, logVars, voter, todo, runVars, txnVars, envVars>>

Submit(r, v, b) ==
  /\ Goto(r, "idle", IF cache[v] = "empty" THEN "load" ELSE "cast")
  /\ voter'  = [voter EXCEPT ![r] = v]
  /\ ballot' = [ballot EXCEPT ![r] = b]
  /\ seen'   = [seen EXCEPT ![r] = cache[v]]
  /\ UNCHANGED <<dbVars, cache, queueVars, logVars, todo, runVars, txnVars, envVars>>

LoadVoter(r) ==
  /\ Goto(r, "load", "store")
  /\ seen' = [seen EXCEPT ![r] = IF hasVoted[voter[r]] THEN "voted" ELSE "not voted"]
  /\ UNCHANGED <<dbVars, cache, queueVars, logVars, workVars, runVars, txnVars, envVars>>

StoreVoter(r) ==
  /\ Goto(r, "store", "cast")
  /\ cache' = [cache EXCEPT ![voter[r]] = seen[r]]
  /\ UNCHANGED <<dbVars, queueVars, logVars, workVars, seen, runVars, txnVars, envVars>>

(* "You have voted already", or the election has ended; or all three       *)
(* operations are started together.                                        *)
RefuseCast(r) ==
  /\ seen[r] = "voted" \/ ended
  /\ Goto(r, "cast", "done")
  /\ UNCHANGED <<dbVars, cache, queueVars, logVars, workVars, seen, runVars, txnVars, envVars>>

BeginCast(r) ==
  /\ seen[r] # "voted" /\ ~ended
  /\ Goto(r, "cast", "casting")
  /\ todo' = [todo EXCEPT ![r] = {"update", "job", "log"}]
  /\ UNCHANGED <<dbVars, cache, queueVars, logVars, voter, ballot, seen, runVars,
                 txnVars, envVars>>

(* Bull ignores a job whose id exists, be it waiting or being processed.   *)
AddJob(r) ==
  /\ "job" \in todo[r]
  /\ todo'   = [todo EXCEPT ![r] = @ \ {"job"}]
  /\ queued' = [queued EXCEPT ![voter[r]] = IF @ = NoBallot THEN ballot[r] ELSE @]
  /\ UNCHANGED <<dbVars, cache, owner, logVars, pc, voter, ballot, seen, runVars,
                 txnVars, envVars>>

SkipLog(r) ==  \* mutant: no audit log is written
  /\ "log" \in todo[r]
  /\ log[voter[r]] = NoBallot
  /\ todo' = [todo EXCEPT ![r] = @ \ {"log"}]
  /\ UNCHANGED <<dbVars, cache, queueVars, logVars, pc, voter, ballot, seen, runVars,
                 txnVars, envVars>>

CreateLog(r) ==
  /\ "log" \in todo[r]
  /\ log[voter[r]] = NoBallot
  /\ todo' = [todo EXCEPT ![r] = @ \ {"log"}]
  /\ log'  = [log EXCEPT ![voter[r]] = ballot[r]]
  /\ UNCHANGED <<dbVars, cache, queueVars, batch, late, pc, voter, ballot, seen, runVars,
                 txnVars, envVars>>

(* The first failure rolls back; the other operations go on regardless.    *)
FailCast(r, op) ==
  /\ pc[r] \in {"casting", "failed"}
  /\ pc'   = [pc EXCEPT ![r] = "failed"]
  /\ todo' = [todo EXCEPT ![r] = @ \ {op, "update"}]
  /\ Rollback(r)
  /\ UNCHANGED <<dbVars, cache, queueVars, logVars, voter, ballot, seen, runVars>>

DuplicateLog(r) ==
  /\ "log" \in todo[r]
  /\ log[voter[r]] # NoBallot
  /\ FailCast(r, "log")
  /\ UNCHANGED envVars

CastConflict(r) ==
  /\ Conflict(r)
  /\ FailCast(r, "update")
  /\ UNCHANGED envVars

CommitCast(r) ==
  /\ Goto(r, "casting", "done")
  /\ todo[r] = {}
  /\ Commit(r)
  /\ UNCHANGED <<votes, cache, queueVars, logVars, workVars, seen, runVars, envVars>>

(* An operation or the commit fails, or the instance dies in the middle.   *)
CastFault(r) ==
  /\ Fault("cast")
  /\ \E op \in {"update", "job", "log"} : FailCast(r, op)
  /\ UNCHANGED <<ended, aborted, overtaken>>

RequestCrash(r) ==
  /\ pc[r] \in {"load", "store", "cast", "casting", "failed"}
  /\ Fault("crash")
  /\ pc'   = [pc EXCEPT ![r] = "failed"]
  /\ todo' = [todo EXCEPT ![r] = {}]
  /\ Rollback(r)
  /\ UNCHANGED <<dbVars, cache, queueVars, logVars, voter, ballot, seen, runVars,
                 ended, aborted, overtaken>>

(***************************************************************************)
(* audit_vote_logs, on the one instance with RUN_CRON.                     *)
(***************************************************************************)
StartAudit(vs) ==
  /\ \A v \in Voters : batch[v] = NoBallot
  /\ vs # {} /\ Cardinality(vs) <= AuditLimit
  /\ \A v \in vs : log[v] # NoBallot
  /\ batch' = [v \in Voters |-> IF v \in vs THEN log[v] ELSE NoBallot]
  /\ UNCHANGED <<dbVars, cache, queueVars, log, late, pc, workVars, seen, runVars,
                 txnVars, envVars>>

DropStale(v) ==  \* mutant: the job is not added
  /\ batch[v] # NoBallot
  /\ batch' = [batch EXCEPT ![v] = NoBallot]
  /\ UNCHANGED <<dbVars, cache, queueVars, log, late, pc, workVars, seen, runVars, txnVars,
                 envVars>>

RequeueStale(v) ==
  /\ batch[v] # NoBallot
  /\ batch'  = [batch EXCEPT ![v] = NoBallot]
  /\ queued' = [queued EXCEPT ![v] = IF @ = NoBallot THEN batch[v] ELSE @]
  /\ UNCHANGED <<dbVars, cache, owner, log, late, pc, workVars, seen, runVars, txnVars,
                 envVars>>

(***************************************************************************)
(* process_vote, run by a worker.                                          *)
(***************************************************************************)
TakeJob(w, v) ==
  /\ queued[v] # NoBallot
  /\ owner[v] = NoActor
  /\ Goto(w, "idle", "vote")
  /\ owner'  = [owner EXCEPT ![v] = w]
  /\ voter'  = [voter EXCEPT ![w] = v]
  /\ ballot' = [ballot EXCEPT ![w] = queued[v]]
  /\ left'   = [left EXCEPT ![w] = queued[v]]
  /\ UNCHANGED <<dbVars, cache, queued, logVars, todo, seen, choice, added, txnVars, envVars>>

Skip(w, c) == left' = [left EXCEPT ![w] = @ \ {c}]

(* A post with a single vote must be empty, another only must not yet      *)
(* have a vote for this candidate.                                         *)
Existing(v, c) ==
  \E r \in PostRows(v, c.post) : Single(c.post) \/ r.choice.candidate = c.candidate

LookForVoteAnyPost(w, c) ==  \* mutant: only a vote for the same candidate counts
  /\ c \in left[w]
  /\ pc[w] = "vote"
  /\ LET found == \E r \in RowsOf(voter[w]) : r.choice.candidate = c.candidate IN
     \/ found /\ Skip(w, c) /\ UNCHANGED <<pc, choice>>
     \/ /\ ~found
        /\ Goto(w, "vote", IF Single(c.post) THEN "create" ELSE "count")
        /\ choice' = [choice EXCEPT ![w] = {c}]
        /\ UNCHANGED left
  /\ UNCHANGED <<dbVars, cache, queueVars, logVars, workVars, seen, added, txnVars, envVars>>

LookForNothing(w, c) ==  \* mutant: earlier votes are not looked for
  /\ c \in left[w]
  /\ Goto(w, "vote", IF Single(c.post) THEN "create" ELSE "count")
  /\ choice' = [choice EXCEPT ![w] = {c}]
  /\ UNCHANGED <<dbVars, cache, queueVars, logVars, workVars, seen, left, added, txnVars,
                 envVars>>

LookForVote(w, c) ==
  /\ c \in left[w]
  /\ pc[w] = "vote"
  /\ \/ Existing(voter[w], c) /\ Skip(w, c) /\ UNCHANGED <<pc, choice>>
     \/ /\ ~Existing(voter[w], c)
        /\ Goto(w, "vote", IF Single(c.post) THEN "create" ELSE "count")
        /\ choice' = [choice EXCEPT ![w] = {c}]
        /\ UNCHANGED left
  /\ UNCHANGED <<dbVars, cache, queueVars, logVars, workVars, seen, added, txnVars, envVars>>

(* The count must not equal the post's maximum.                            *)
CountVotes(w) ==
  /\ pc[w] = "count"
  /\ \E c \in choice[w] :
       IF Cardinality(PostRows(voter[w], c.post)) = MaxVotes[c.post]
       THEN Skip(w, c) /\ Goto(w, "count", "vote")
       ELSE UNCHANGED left /\ Goto(w, "count", "create")
  /\ UNCHANGED <<dbVars, cache, queueVars, logVars, workVars, seen, choice, added,
                 txnVars, envVars>>

CreateVoteAtOnce(w) ==  \* mutant: the vote is not given the transaction
  /\ Goto(w, "create", "vote")
  /\ left' = [left EXCEPT ![w] = @ \ choice[w]]
  /\ votes' = votes \cup
       {[voter |-> voter[w], choice |-> c, prior |-> ChoicesOf(voter[w])] : c \in choice[w]}
  /\ UNCHANGED <<hasVoted, cache, queueVars, logVars, workVars, seen, choice, added, txnVars,
                 envVars>>

CreateVote(w) ==
  /\ Goto(w, "create", "vote")
  /\ added' = [added EXCEPT ![w] = @ \cup choice[w]]
  /\ left'  = [left EXCEPT ![w] = @ \ choice[w]]
  /\ open'  = open \cup {w}
  /\ UNCHANGED <<dbVars, cache, queueVars, logVars, workVars, seen, choice, stale, lock,
                 envVars>>

(* With every choice looked at, the voter's row is updated while the log   *)
(* is deleted.                                                             *)
CloseVote(w) ==
  /\ left[w] = {}
  /\ Goto(w, "vote", "closing")
  /\ todo' = [todo EXCEPT ![w] = {"update", "log"}]
  /\ UNCHANGED <<dbVars, cache, queueVars, logVars, voter, ballot, seen, runVars,
                 txnVars, envVars>>

PurgeLog(w) ==
  /\ "log" \in todo[w]
  /\ todo' = [todo EXCEPT ![w] = @ \ {"log"}]
  /\ log'  = [log EXCEPT ![voter[w]] = NoBallot]
  /\ UNCHANGED <<dbVars, cache, queueVars, batch, late, pc, voter, ballot, seen, runVars,
                 txnVars, envVars>>

NewRows(w) ==
  {[voter |-> voter[w], choice |-> c, prior |-> ChoicesOf(voter[w])] : c \in added[w]}

CommitVote(w) ==
  /\ Goto(w, "closing", "uncache")
  /\ todo[w] = {}
  /\ Commit(w)
  /\ votes' = votes \cup NewRows(w)
  /\ UNCHANGED <<cache, queueVars, logVars, workVars, seen, runVars, envVars>>

(* The job is done and removed, unless it was given to somebody else.      *)
EndRun(w) ==
  /\ pc'     = [pc EXCEPT ![w] = "idle"]
  /\ voter'  = [voter EXCEPT ![w] = NoVoter]
  /\ ballot' = [ballot EXCEPT ![w] = NoBallot]
  /\ todo'   = [todo EXCEPT ![w] = {}]
  /\ left'   = [left EXCEPT ![w] = {}]
  /\ choice' = [choice EXCEPT ![w] = {}]
  /\ added'  = [added EXCEPT ![w] = {}]
  /\ UNCHANGED seen

RemoveJob(w) ==
  /\ queued' = [v \in Voters |-> IF owner[v] = w THEN NoBallot ELSE queued[v]]
  /\ owner'  = [v \in Voters |-> IF owner[v] = w THEN NoActor ELSE owner[v]]

Uncache(w) ==
  /\ pc[w] = "uncache"
  /\ cache' = [cache EXCEPT ![voter[w]] = "empty"]
  /\ EndRun(w)
  /\ RemoveJob(w)
  /\ UNCHANGED <<dbVars, logVars, txnVars, envVars>>

(* A rollback is silent.  The deletion of the log, issued together with    *)
(* the update that failed, takes effect before or after it.                *)
AbortRun(w) ==
  /\ Rollback(w)
  /\ EndRun(w)
  /\ late' = IF "log" \in todo[w] THEN late \cup {voter[w]} ELSE late
  /\ aborted' = IF pc[w] = "closing" THEN aborted \cup {voter[w]} ELSE aborted
  /\ UNCHANGED <<dbVars, cache, log, batch, ended>>

VoteConflict(w) ==
  /\ Conflict(w)
  /\ AbortRun(w)
  /\ RemoveJob(w)
  /\ UNCHANGED <<overtaken, faults>>

LatePurge(v) ==
  /\ v \in late
  /\ late' = late \ {v}
  /\ log'  = [log EXCEPT ![v] = NoBallot]
  /\ UNCHANGED <<dbVars, cache, queueVars, batch, pc, workVars, seen, runVars, txnVars, envVars>>

(* Something fails: before the loop the job fails, in it the run is rolled *)
(* back, after the commit the cache keeps its entry; the job is removed.   *)
ProcessFault(w) ==
  /\ pc[w] # "idle"
  /\ Fault("process")
  /\ AbortRun(w)
  /\ RemoveJob(w)
  /\ UNCHANGED overtaken

(* Bull puts the job of a silent worker back, and fails it the next time.  *)
GiveUpJob(w) ==
  \/ RemoveJob(w)
  \/ owner' = [v \in Voters |-> IF owner[v] = w THEN NoActor ELSE owner[v]] /\ UNCHANGED queued

WorkerCrash(w) ==
  /\ pc[w] # "idle"
  /\ Fault("crash")
  /\ AbortRun(w)
  /\ GiveUpJob(w)
  /\ UNCHANGED overtaken

(* The worker is only slow to renew its lock, and goes on.                 *)
Stall(w) ==
  /\ pc[w] # "idle"
  /\ owner[voter[w]] = w
  /\ Fault("stall")
  /\ GiveUpJob(w)
  /\ overtaken' = overtaken \cup {voter[w]}
  /\ UNCHANGED <<dbVars, cache, logVars, pc, workVars, seen, runVars, txnVars, ended, aborted>>

(***************************************************************************)
(* The specification.                                                      *)
(***************************************************************************)
TxnStep(a) == Snapshot(a) \/ UpdateVoter(a)

RequestStep(r) ==
  \/ LoadVoter(r) \/ StoreVoter(r) \/ RefuseCast(r) \/ BeginCast(r)
  \/ AddJob(r) \/ CreateLog(r) \/ DuplicateLog(r) \/ CastConflict(r) \/ CommitCast(r)

CronStep ==
  \/ \E vs \in SUBSET Voters : StartAudit(vs)
  \/ \E v \in Voters : RequeueStale(v)

WorkerStep(w) ==
  \/ \E c \in Choices : LookForVote(w, c)
  \/ CountVotes(w) \/ CreateVote(w) \/ CloseVote(w) \/ PurgeLog(w) \/ CommitVote(w)
  \/ Uncache(w) \/ VoteConflict(w)

Next ==
  \/ EndElection
  \/ \E v \in Voters : ExpireCache(v) \/ LatePurge(v)
  \/ \E r \in Requests, v \in Voters, b \in Ballots : Submit(r, v, b)
  \/ \E a \in Actors : TxnStep(a)
  \/ \E r \in Requests : RequestStep(r) \/ CastFault(r) \/ RequestCrash(r)
  \/ CronStep
  \/ \E w \in Workers, v \in Voters : TakeJob(w, v)
  \/ \E w \in Workers : WorkerStep(w) \/ ProcessFault(w) \/ WorkerCrash(w) \/ Stall(w)

Spec == Init /\ [][Next]_vars

(* Nobody has to submit a ballot and no fault has to happen.  Event loops  *)
(* run their callbacks, Bull serves the queue in order, and every log gets *)
(* old enough for a run of the cron.                                       *)
Fairness ==
  /\ \A a \in Actors : WF_vars(TxnStep(a))
  /\ \A r \in Requests : WF_vars(RequestStep(r))
  /\ \A w \in Workers : WF_vars(WorkerStep(w))
  /\ \A v \in Voters :
       /\ SF_vars(\E w \in Workers : TakeJob(w, v))
       /\ SF_vars(\E vs \in SUBSET Voters : v \in vs /\ StartAudit(vs))
       /\ SF_vars(RequeueStale(v))

FairSpec == Spec /\ Fairness

(***************************************************************************)
(* Properties.                                                             *)
(***************************************************************************)
TypeOK ==
  /\ ended \in BOOLEAN
  /\ hasVoted \in [Voters -> BOOLEAN]
  /\ votes \subseteq Rows
  /\ cache \in [Voters -> {"empty", "voted", "not voted"}]
  /\ queued \in [Voters -> Ballots \cup {NoBallot}]
  /\ owner \in [Voters -> Workers \cup {NoActor}]
  /\ log \in [Voters -> Ballots \cup {NoBallot}]
  /\ batch \in [Voters -> Ballots \cup {NoBallot}]
  /\ late \subseteq Voters
  /\ pc \in [Actors -> RequestPC \cup WorkerPC]
  /\ voter \in [Actors -> Voters \cup {NoVoter}]
  /\ ballot \in [Actors -> Ballots \cup {NoBallot}]
  /\ seen \in [Requests -> {"empty", "voted", "not voted"}]
  /\ todo \in [Actors -> SUBSET {"update", "job", "log"}]
  /\ left \in [Workers -> SUBSET Choices]
  /\ choice \in [Workers -> SUBSET Choices]
  /\ added \in [Workers -> SUBSET Choices]
  /\ open \subseteq Actors
  /\ stale \subseteq Actors
  /\ lock \in [Voters -> Actors \cup {NoActor}]
  /\ aborted \subseteq Voters
  /\ overtaken \subseteq Voters
  /\ faults \in Nat
  /\ \A r \in Requests : pc[r] \in RequestPC
  /\ \A w \in Workers : pc[w] \in WorkerPC
  /\ \A a \in Actors : pc[a] # "idle" => voter[a] \in Voters /\ ballot[a] \in Ballots
  /\ \A a \in Actors : todo[a] # {} => pc[a] \in {"casting", "failed", "closing"}

(* A voter's votes for a post with a single vote come from one run of one  *)
(* ballot, and no candidate counts for a voter in two runs: however many   *)
(* ballots the voter sends, jobs and logs are repeated and runs fail,      *)
(* unless Bull gave the voter's job away while its worker was alive.       *)
(* Within a run nothing is promised: a ballot with several choices for a   *)
(* post with a single vote, or with a choice twice, has all of them stored.*)
Excludes(c, d) == c.post = d.post /\ (Single(c.post) \/ c.candidate = d.candidate)

OneRunPerPost ==
  \A v \in Voters \ overtaken : \A r, s \in RowsOf(v) :
    Excludes(r.choice, s.choice) => r.prior = s.prior

(* Votes are never there without the mark: no rollback of a cast or of a   *)
(* run takes back the mark of a voter whose votes are stored.              *)
VotesMarkVoter == \A r \in votes : hasVoted[r.voter]

(* A voter who is marked has votes, or a log the cron will find, or a run  *)
(* that is about to commit; or else a run was rolled back when the         *)
(* deletion of the log had been issued, which is how a ballot gets lost.   *)
Kept(v) ==
  \/ RowsOf(v) # {}
  \/ log[v] # NoBallot
  \/ \E w \in Workers : voter[w] = v /\ pc[w] = "closing"

BallotTracked == \A v \in Voters : hasVoted[v] => Kept(v) \/ v \in aborted

(* A voter who was told "you have successfully voted" and is marked keeps  *)
(* a ballot: votes, a log, a job or a run.                                 *)
BallotKept ==
  \A v \in Voters : hasVoted[v] => Kept(v) \/ queued[v] # NoBallot \/ batch[v] # NoBallot

(* The ballots voters have submitted.                                      *)
Submitted == {<<voter[r], ballot[r]>> : r \in {q \in Requests : pc[q] # "idle"}}

Box == INSTANCE BallotBox WITH
  cast  <- Submitted,
  voted <- {v \in Voters : hasVoted[v]}

(* Requests, workers, the cron and every fault together implement a ballot *)
(* box: votes come only from a ballot their voter submitted, in one piece  *)
(* with the mark, and nothing is ever taken back.                          *)
ImplementsBallotBox == Box!Spec

(* A voter who is marked eventually has votes, unless a run was rolled     *)
(* back when the deletion of the log had been issued.                      *)
MarkedIsStored ==
  \A v \in Voters : hasVoted[v] ~> (RowsOf(v) # {} \/ v \in aborted)

=============================================================================
