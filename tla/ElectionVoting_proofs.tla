------------------------ MODULE ElectionVoting_proofs ------------------------
(***************************************************************************)
(* Proofs about ElectionVoting, for every set of voters, requests, workers *)
(* posts and ballots and for every combination of faults.                  *)
(***************************************************************************)
EXTENDS ElectionVoting, TLAPS, FiniteSetTheorems

(***************************************************************************)
(* Types.                                                                  *)
(***************************************************************************)

(* The part of the type invariant about transactions, about the run of a   *)
(* worker and about its job: what the ends of transactions and runs keep.  *)
TxnType ==
  /\ open \subseteq Actors
  /\ stale \subseteq Actors
  /\ lock \in [Voters -> Actors \cup {NoActor}]

RunType ==
  /\ pc \in [Actors -> RequestPC \cup WorkerPC]
  /\ voter \in [Actors -> Voters \cup {NoVoter}]
  /\ ballot \in [Actors -> Ballots \cup {NoBallot}]
  /\ todo \in [Actors -> SUBSET {"update", "job", "log"}]
  /\ left \in [Workers -> SUBSET Choices]
  /\ choice \in [Workers -> SUBSET Choices]
  /\ added \in [Workers -> SUBSET Choices]
  /\ \A r \in Requests : pc[r] \in RequestPC
  /\ \A w \in Workers : pc[w] \in WorkerPC
  /\ \A a \in Actors : pc[a] # "idle" => voter[a] \in Voters /\ ballot[a] \in Ballots
  /\ \A a \in Actors : todo[a] # {} => pc[a] \in {"casting", "failed", "closing"}

JobType ==
  /\ queued \in [Voters -> Ballots \cup {NoBallot}]
  /\ owner \in [Voters -> Workers \cup {NoActor}]

LEMMA ChoicesType ==
  ASSUME votes \subseteq Rows, NEW v
  PROVE  ChoicesOf(v) \subseteq Choices
<1>1. \A r \in votes : r.choice \in Choices
  BY DEF Rows
<1> QED
  BY <1>1 DEF ChoicesOf, RowsOf

LEMMA FaultType ==
  ASSUME faults \in Nat, NEW k, Fault(k)
  PROVE  faults' \in Nat
  BY DEF Fault

LEMMA LookForVoteRun ==
  ASSUME left \in [Workers -> SUBSET Choices], choice \in [Workers -> SUBSET Choices],
         pc \in [Actors -> RequestPC \cup WorkerPC],
         NEW w \in Workers, NEW c \in Choices, LookForVote(w, c)
  PROVE  /\ pc[w] = "vote"
         /\ left' \in [Workers -> SUBSET Choices]
         /\ choice' \in [Workers -> SUBSET Choices]
         /\ \E to \in {"vote", "create", "count"} : pc' = [pc EXCEPT ![w] = to]
<1>1. CASE Existing(voter[w], c) /\ Skip(w, c) /\ UNCHANGED <<pc, choice>>
  <2>1. pc[w] = "vote" /\ pc' = [pc EXCEPT ![w] = "vote"]
    BY <1>1 DEF LookForVote
  <2> QED
    BY <1>1, <2>1 DEF Skip
<1>2. CASE /\ Goto(w, "vote", IF Single(c.post) THEN "create" ELSE "count")
           /\ choice' = [choice EXCEPT ![w] = {c}]
           /\ UNCHANGED left
  BY <1>2 DEF Goto
<1> QED
  BY <1>1, <1>2 DEF LookForVote

LEMMA CountVotesRun ==
  ASSUME left \in [Workers -> SUBSET Choices], NEW w \in Workers, CountVotes(w)
  PROVE  /\ pc[w] = "count"
         /\ left' \in [Workers -> SUBSET Choices]
         /\ \E to \in {"vote", "create"} : pc' = [pc EXCEPT ![w] = to]
<1>1. PICK c \in choice[w] :
        \/ Skip(w, c) /\ Goto(w, "count", "vote")
        \/ UNCHANGED left /\ Goto(w, "count", "create")
  BY DEF CountVotes
<1> QED
  BY <1>1 DEF Skip, Goto

LEMMA RollbackType ==
  ASSUME TxnType, NEW a \in Actors, Rollback(a)
  PROVE  TxnType'
  BY DEF TxnType, Rollback, Unlock

LEMMA CommitType ==
  ASSUME TxnType, NEW a \in Actors, Commit(a)
  PROVE  TxnType'
  BY DEF TxnType, Commit, Unlock

LEMMA EndRunType ==
  ASSUME RunType, NEW w \in Workers, EndRun(w)
  PROVE  RunType'
  BY RequestsNotWorkers DEF RunType, EndRun, Actors, WorkerPC

LEMMA RemoveJobType ==
  ASSUME JobType, NEW w \in Workers, RemoveJob(w)
  PROVE  JobType'
  BY DEF JobType, RemoveJob

LEMMA GiveUpJobType ==
  ASSUME JobType, NEW w \in Workers, GiveUpJob(w)
  PROVE  JobType'
  BY RemoveJobType DEF JobType, GiveUpJob

LEMMA GotoType ==
  ASSUME RunType, NEW a \in Actors, NEW from, NEW to, Goto(a, from, to),
         from # "idle", to # "idle",
         a \in Requests => to \in RequestPC, a \in Workers => to \in WorkerPC
  PROVE  /\ pc' \in [Actors -> RequestPC \cup WorkerPC]
         /\ \A r \in Requests : pc'[r] \in RequestPC
         /\ \A w \in Workers : pc'[w] \in WorkerPC
         /\ \A x \in Actors : pc'[x] # "idle" => voter[x] \in Voters /\ ballot[x] \in Ballots
  BY RequestsNotWorkers DEF RunType, Goto, Actors

LEMMA FailCastType ==
  ASSUME RunType, TxnType, NEW r \in Requests, NEW op, FailCast(r, op)
  PROVE  RunType' /\ TxnType'
<1>1. TxnType'
  BY RollbackType DEF FailCast, Actors
<1>2. RunType'
  BY RequestsNotWorkers DEF RunType, FailCast, Actors, RequestPC, runVars
<1> QED
  BY <1>1, <1>2

LEMMA AbortRunType ==
  ASSUME RunType, TxnType, NEW w \in Workers, AbortRun(w), pc[w] # "idle",
         late \subseteq Voters, aborted \subseteq Voters
  PROVE  RunType' /\ TxnType' /\ late' \subseteq Voters /\ aborted' \subseteq Voters
<1>1. RunType' /\ TxnType'
  BY RollbackType, EndRunType DEF AbortRun, Actors
<1>2. voter[w] \in Voters
  BY DEF RunType, Actors
<1> QED
  BY <1>1, <1>2 DEF AbortRun

(* Every step keeps the types.                                             *)
LEMMA TypeParts == TypeOK => RunType /\ TxnType /\ JobType
  BY DEF TypeOK, RunType, TxnType, JobType

LEMMA RequestTypeStep ==
  ASSUME TypeOK, NEW r \in Requests, RequestStep(r) \/ CastFault(r) \/ RequestCrash(r)
  PROVE  TypeOK'
<1> USE DEF TypeOK
<1>1. r \in Actors
  BY DEF Actors
<1>2. CASE LoadVoter(r)
  BY <1>1, <1>2, RequestsNotWorkers
  DEF LoadVoter, Goto, dbVars, queueVars, logVars, workVars, runVars, txnVars, envVars,
      RequestPC, Actors
<1>3. CASE StoreVoter(r)
  BY <1>1, <1>3, RequestsNotWorkers
  DEF StoreVoter, Goto, dbVars, queueVars, logVars, workVars, runVars, txnVars, envVars,
      RequestPC, Actors
<1>4. CASE RefuseCast(r)
  BY <1>1, <1>4, RequestsNotWorkers
  DEF RefuseCast, Goto, dbVars, queueVars, logVars, workVars, runVars, txnVars, envVars,
      RequestPC, Actors
<1>5. CASE BeginCast(r)
  BY <1>1, <1>5, RequestsNotWorkers
  DEF BeginCast, Goto, dbVars, queueVars, logVars, workVars, runVars, txnVars, envVars,
      RequestPC, Actors
<1>6. CASE AddJob(r)
  BY <1>1, <1>6 DEF AddJob, dbVars, logVars, runVars, txnVars, envVars, Actors
<1>7. CASE CreateLog(r)
  BY <1>1, <1>7 DEF CreateLog, dbVars, queueVars, runVars, txnVars, envVars, Actors
<1>8. ASSUME NEW op, FailCast(r, op), faults' \in Nat,
             UNCHANGED <<ended, aborted, overtaken>>
      PROVE  TypeOK'
  <2>1. RunType' /\ TxnType'
    BY <1>8, TypeParts, FailCastType
  <2> QED
    BY <1>8, <2>1 DEF FailCast, RunType, TxnType, dbVars, queueVars, logVars, runVars
<1>9. CASE DuplicateLog(r)
  BY <1>8, <1>9 DEF DuplicateLog, envVars
<1>10. CASE CastConflict(r)
  BY <1>8, <1>10 DEF CastConflict, envVars
<1>11. CASE CommitCast(r)
  <2>1. TxnType'
    BY <1>1, <1>11, TypeParts, CommitType DEF CommitCast
  <2>2. hasVoted' \in [Voters -> BOOLEAN]
    BY <1>11 DEF CommitCast, Commit
  <2> QED
    BY <1>1, <1>11, <2>1, <2>2, RequestsNotWorkers
    DEF CommitCast, Goto, TxnType, queueVars, logVars, workVars, runVars, envVars,
        RequestPC, Actors
<1>12. CASE CastFault(r)
  <2>1. PICK op \in {"update", "job", "log"} : FailCast(r, op)
    BY <1>12 DEF CastFault
  <2>2. faults' \in Nat /\ UNCHANGED <<ended, aborted, overtaken>>
    BY <1>12, FaultType DEF CastFault
  <2> QED
    BY ONLY <1>8, <2>1, <2>2
<1>13. CASE RequestCrash(r)
  <2>1. TxnType'
    BY <1>1, <1>13, TypeParts, RollbackType DEF RequestCrash
  <2> QED
    <3>1. faults' \in Nat
      BY <1>13, FaultType DEF RequestCrash
    <3>2. RunType'
      BY <1>1, <1>13, RequestsNotWorkers, TypeParts
      DEF RunType, RequestCrash, runVars, RequestPC, Actors
    <3> QED
      BY <1>13, <2>1, <3>1, <3>2 DEF RequestCrash, RunType, TxnType, dbVars, queueVars, logVars
<1> QED
  BY <1>2, <1>3, <1>4, <1>5, <1>6, <1>7, <1>9, <1>10, <1>11, <1>12, <1>13 DEF RequestStep

LEMMA WorkerTypeStep ==
  ASSUME TypeOK, NEW w \in Workers,
         WorkerStep(w) \/ ProcessFault(w) \/ WorkerCrash(w) \/ Stall(w)
  PROVE  TypeOK'
<1> USE DEF TypeOK
<1>1. w \in Actors
  BY DEF Actors
<1>2. ASSUME NEW c \in Choices, LookForVote(w, c)
      PROVE  TypeOK'
  <2>1. left' \in [Workers -> SUBSET Choices] /\ choice' \in [Workers -> SUBSET Choices]
    BY <1>2, LookForVoteRun
  <2>2. PICK to \in {"vote", "create", "count"} : pc' = [pc EXCEPT ![w] = to] /\ pc[w] = "vote"
    BY <1>2, LookForVoteRun
  <2> QED
    BY <1>1, <1>2, <2>1, <2>2, RequestsNotWorkers
    DEF LookForVote, dbVars, queueVars, logVars, workVars, txnVars, envVars, WorkerPC, Actors
<1>3. CASE CountVotes(w)
  <2>1. left' \in [Workers -> SUBSET Choices]
    BY <1>3, CountVotesRun
  <2>2. PICK to \in {"vote", "create"} : pc' = [pc EXCEPT ![w] = to] /\ pc[w] = "count"
    BY <1>3, CountVotesRun
  <2> QED
    BY <1>1, <1>3, <2>1, <2>2, RequestsNotWorkers
    DEF CountVotes, dbVars, queueVars, logVars, workVars, txnVars, envVars, WorkerPC, Actors
<1>4. CASE CreateVote(w)
  BY <1>1, <1>4, RequestsNotWorkers
  DEF CreateVote, Goto, dbVars, queueVars, logVars, workVars, envVars, WorkerPC, Actors
<1>5. CASE CloseVote(w)
  BY <1>1, <1>5, RequestsNotWorkers
  DEF CloseVote, Goto, dbVars, queueVars, logVars, runVars, txnVars, envVars,
      WorkerPC, Actors
<1>6. CASE PurgeLog(w)
  BY <1>1, <1>6, NobodyFresh
  DEF PurgeLog, dbVars, queueVars, runVars, txnVars, envVars, Actors
<1>7. CASE CommitVote(w)
  <2>1. TxnType'
    BY <1>1, <1>7, TypeParts, CommitType DEF CommitVote
  <2>2. hasVoted' \in [Voters -> BOOLEAN]
    BY <1>7 DEF CommitVote, Commit
  <2>3. votes' \subseteq Rows
    <3>1. voter[w] \in Voters
      BY <1>1, <1>7 DEF CommitVote, Goto
    <3>2. NewRows(w) \subseteq Rows
      <4>1. added[w] \subseteq Choices
        OBVIOUS
      <4>2. ChoicesOf(voter[w]) \subseteq Choices
        BY ChoicesType
      <4> QED
        BY ONLY <3>1, <4>1, <4>2 DEF NewRows, Rows
    <3> QED
      BY <1>7, <3>2 DEF CommitVote
  <2> QED
    BY <1>1, <1>7, <2>1, <2>2, <2>3, RequestsNotWorkers
    DEF CommitVote, Goto, TxnType, queueVars, logVars, workVars, runVars, envVars,
        WorkerPC, Actors
<1>8. CASE Uncache(w)
  <2>1. RunType' /\ JobType'
    BY <1>8, TypeParts, EndRunType, RemoveJobType DEF Uncache
  <2> QED
    BY <1>8, <2>1
    DEF Uncache, EndRun, RunType, JobType, dbVars, logVars, txnVars, envVars
<1>9. ASSUME AbortRun(w), pc[w] # "idle", RemoveJob(w) \/ GiveUpJob(w),
             faults' \in Nat, UNCHANGED overtaken
      PROVE  TypeOK'
  <2>1. RunType' /\ TxnType' /\ late' \subseteq Voters /\ aborted' \subseteq Voters
    BY <1>9, TypeParts, AbortRunType
  <2>2. JobType'
    BY <1>9, TypeParts, RemoveJobType, GiveUpJobType
  <2> QED
    BY <1>9, <2>1, <2>2 DEF AbortRun, EndRun, RunType, TxnType, JobType, dbVars
<1>10. CASE VoteConflict(w)
  <2>1. pc[w] # "idle"
    BY <1>1, <1>10 DEF VoteConflict, Conflict
  <2> QED
    BY <1>9, <1>10, <2>1 DEF VoteConflict
<1>11. CASE ProcessFault(w)
  <2>1. faults' \in Nat
    BY <1>11, FaultType DEF ProcessFault
  <2> QED
    BY ONLY <1>9, <1>11, <2>1 DEF ProcessFault
<1>12. CASE WorkerCrash(w)
  <2>1. faults' \in Nat
    BY <1>12, FaultType DEF WorkerCrash
  <2> QED
    BY ONLY <1>9, <1>12, <2>1 DEF WorkerCrash
<1>13. CASE Stall(w)
  <2>1. JobType'
    BY <1>13, TypeParts, GiveUpJobType DEF Stall
  <2>2. voter[w] \in Voters
    BY <1>1, <1>13 DEF Stall
  <2> QED
    <3>1. faults' \in Nat
      BY <1>13, FaultType DEF Stall
    <3>2. overtaken' \subseteq Voters
      BY <1>13, <2>2 DEF Stall
    <3> QED
      BY <1>13, <2>1, <3>1, <3>2
      DEF Stall, JobType, dbVars, logVars, workVars, runVars, txnVars
<1> QED
  BY <1>2, <1>3, <1>4, <1>5, <1>6, <1>7, <1>8, <1>10, <1>11, <1>12, <1>13 DEF WorkerStep

LEMMA TypeStep == TypeOK /\ [Next]_vars => TypeOK'
<1> SUFFICES ASSUME TypeOK, [Next]_vars
             PROVE  TypeOK'
  OBVIOUS
<1>1. CASE UNCHANGED vars
  BY <1>1
  DEF TypeOK, vars, dbVars, queueVars, logVars, txnVars, runVars, workVars, envVars
<1>2. CASE EndElection
  BY <1>2 DEF EndElection, TypeOK, dbVars, queueVars, logVars, txnVars, runVars, workVars
<1>3. ASSUME NEW v \in Voters, ExpireCache(v) \/ LatePurge(v)
      PROVE  TypeOK'
  BY <1>3
  DEF ExpireCache, LatePurge, TypeOK, dbVars, queueVars, logVars, txnVars, runVars,
      workVars, envVars
<1>4. ASSUME NEW r \in Requests, NEW v \in Voters, NEW b \in Ballots, Submit(r, v, b)
      PROVE  TypeOK'
  <2>1. PICK to \in {"load", "cast"} : pc' = [pc EXCEPT ![r] = to] /\ pc[r] = "idle"
    BY <1>4 DEF Submit, Goto
  <2>2. voter' = [voter EXCEPT ![r] = v] /\ ballot' = [ballot EXCEPT ![r] = b]
        /\ seen' = [seen EXCEPT ![r] = cache[v]]
    BY <1>4 DEF Submit
  <2>3. r \in Actors
    BY DEF Actors
  <2>4. todo[r] = {}
    BY <2>1, <2>3 DEF TypeOK
  <2> QED
    <3>1. RunType'
      BY <1>4, <2>1, <2>2, <2>3, <2>4, TypeParts, RequestsNotWorkers
      DEF Submit, RunType, runVars, RequestPC, Actors
    <3>2. seen' \in [Requests -> {"empty", "voted", "not voted"}]
      BY <2>2 DEF TypeOK
    <3> QED
      BY <1>4, <3>1, <3>2
      DEF Submit, TypeOK, RunType, dbVars, queueVars, logVars, txnVars, envVars
<1>5. ASSUME NEW a \in Actors, TxnStep(a)
      PROVE  TypeOK'
  <2>1. CASE Snapshot(a)
    BY <2>1
    DEF Snapshot, TypeOK, dbVars, queueVars, logVars, runVars, workVars, envVars
  <2>2. CASE UpdateVoter(a)
    BY <2>2 DEF UpdateVoter, TypeOK, dbVars, queueVars, logVars, runVars, envVars
  <2> QED
    BY <1>5, <2>1, <2>2 DEF TxnStep
<1>6. CASE CronStep
  <2>1. ASSUME NEW vs \in SUBSET Voters, StartAudit(vs)
        PROVE  TypeOK'
    BY <2>1 DEF StartAudit, TypeOK, dbVars, queueVars, txnVars, runVars, workVars, envVars
  <2>2. ASSUME NEW v \in Voters, RequeueStale(v)
        PROVE  TypeOK'
    BY <2>2 DEF RequeueStale, TypeOK, dbVars, txnVars, runVars, workVars, envVars
  <2> QED
    BY <1>6, <2>1, <2>2 DEF CronStep
<1>7. ASSUME NEW w \in Workers, NEW v \in Voters, TakeJob(w, v)
      PROVE  TypeOK'
  <2>1. queued[v] \in Ballots /\ queued[v] \subseteq Choices /\ w \in Actors
    BY <1>7, BallotsOfChoices DEF TakeJob, TypeOK, Actors
  <2>2. pc' = [pc EXCEPT ![w] = "vote"] /\ pc[w] = "idle"
    BY <1>7 DEF TakeJob, Goto
  <2> QED
    BY <1>7, <2>1, <2>2, RequestsNotWorkers
    DEF TakeJob, TypeOK, dbVars, logVars, txnVars, envVars, WorkerPC, Actors
<1> QED
  BY <1>1, <1>2, <1>3, <1>4, <1>5, <1>6, <1>7, RequestTypeStep, WorkerTypeStep DEF Next

LEMMA TypeInit == Init => TypeOK
<1> SUFFICES ASSUME Init
             PROVE  TypeOK
  OBVIOUS
<1>1. RunType
  BY DEF Init, RunType, RequestPC, WorkerPC, Actors
<1>2. TxnType /\ JobType
  BY DEF Init, TxnType, JobType
<1> QED
  BY <1>1, <1>2 DEF Init, TypeOK, RunType, TxnType, JobType

(* The types are right in every state.                                     *)
THEOREM TypeCorrect == Spec => []TypeOK
  BY TypeInit, TypeStep, PTL DEF Spec

(***************************************************************************)
(* Who changes what.                                                       *)
(***************************************************************************)

(* Only the two kinds of commit write marks and votes, and no step forgets *)
(* that a job was given away.                                              *)
DbKept == UNCHANGED dbVars /\ overtaken \subseteq overtaken'

LEMMA StoreSteps ==
  ASSUME [Next]_vars
  PROVE  \/ DbKept
         \/ \E r \in Requests : CommitCast(r)
         \/ \E w \in Workers : CommitVote(w)
<1>1. CASE UNCHANGED vars
  BY <1>1 DEF DbKept, vars, envVars
<1>2. CASE EndElection \/ CronStep
  BY <1>2 DEF DbKept, EndElection, CronStep, StartAudit, RequeueStale, envVars
<1>3. ASSUME NEW v \in Voters, ExpireCache(v) \/ LatePurge(v)
      PROVE  DbKept
  BY <1>3 DEF DbKept, ExpireCache, LatePurge, envVars
<1>4. ASSUME NEW r \in Requests, NEW v \in Voters, NEW b \in Ballots, Submit(r, v, b)
      PROVE  DbKept
  BY <1>4 DEF DbKept, Submit, envVars
<1>5. ASSUME NEW a \in Actors, TxnStep(a)
      PROVE  DbKept
  BY <1>5 DEF DbKept, TxnStep, Snapshot, UpdateVoter, envVars
<1>6. ASSUME NEW r \in Requests, RequestStep(r) \/ CastFault(r) \/ RequestCrash(r), ~CommitCast(r)
      PROVE  DbKept
  BY <1>6
  DEF RequestStep, LoadVoter, StoreVoter, RefuseCast, BeginCast, AddJob, CreateLog,
      DuplicateLog, CastConflict, CastFault, RequestCrash, FailCast, envVars, DbKept
<1>7. ASSUME NEW w \in Workers, NEW v \in Voters, TakeJob(w, v)
      PROVE  DbKept
  BY <1>7 DEF DbKept, TakeJob, envVars
<1>8. ASSUME NEW w \in Workers, ~CommitVote(w),
             WorkerStep(w) \/ ProcessFault(w) \/ WorkerCrash(w) \/ Stall(w)
      PROVE  DbKept
  BY <1>8
  DEF WorkerStep, LookForVote, CountVotes, CreateVote, CloseVote, PurgeLog, Uncache,
      VoteConflict, ProcessFault, WorkerCrash, Stall, AbortRun, envVars, DbKept
<1> QED
  BY <1>1, <1>2, <1>3, <1>4, <1>5, <1>6, <1>7, <1>8 DEF Next

(* The state of a worker, but for the operations it waits for, changes     *)
(* only in steps of its own.                                               *)
Same(w) ==
  /\ pc'[w] = pc[w] /\ voter'[w] = voter[w] /\ ballot'[w] = ballot[w]
  /\ left'[w] = left[w] /\ choice'[w] = choice[w] /\ added'[w] = added[w]

(* A job may be taken from its worker only when that is remembered.        *)
KeepsJob(w) ==
  /\ overtaken \subseteq overtaken'
  /\ pc[w] # "idle" /\ voter[w] \notin overtaken' =>
       \A v \in Voters : owner[v] = w => owner'[v] = w

Works(w) ==
  \/ \E c \in Choices : LookForVote(w, c)
  \/ CountVotes(w) \/ CreateVote(w) \/ CloseVote(w) \/ PurgeLog(w) \/ CommitVote(w)

LEMMA RequestLeavesWorkers ==
  ASSUME TypeOK, NEW r \in Requests, RequestStep(r) \/ CastFault(r) \/ RequestCrash(r),
         NEW w \in Workers
  PROVE  Same(w) /\ UNCHANGED <<owner, overtaken, left, choice, added>>
<1>1. r # w /\ r \in Actors /\ w \in Actors
  BY RequestsNotWorkers DEF Actors
<1>3. ASSUME NEW op, FailCast(r, op), UNCHANGED overtaken
      PROVE  Same(w) /\ UNCHANGED <<owner, overtaken, left, choice, added>>
  BY <1>1, <1>3 DEF FailCast, queueVars, runVars, Same, TypeOK
<1>4. CASE LoadVoter(r)
  BY <1>1, <1>4
  DEF LoadVoter, Goto, workVars, queueVars, runVars, envVars, Same, TypeOK
<1>5. CASE StoreVoter(r)
  BY <1>1, <1>5
  DEF StoreVoter, Goto, workVars, queueVars, runVars, envVars, Same, TypeOK
<1>6. CASE RefuseCast(r)
  BY <1>1, <1>6
  DEF RefuseCast, Goto, workVars, queueVars, runVars, envVars, Same, TypeOK
<1>7. CASE BeginCast(r)
  BY <1>1, <1>7 DEF BeginCast, Goto, queueVars, runVars, envVars, Same, TypeOK
<1>8. CASE AddJob(r)
  BY <1>1, <1>8 DEF AddJob, runVars, envVars, Same, TypeOK
<1>9. CASE CreateLog(r)
  BY <1>1, <1>9 DEF CreateLog, queueVars, runVars, envVars, Same, TypeOK
<1>10. CASE DuplicateLog(r)
  BY <1>3, <1>10 DEF DuplicateLog, envVars
<1>11. CASE CastConflict(r)
  BY <1>3, <1>11 DEF CastConflict, envVars
<1>12. CASE CommitCast(r)
  BY <1>1, <1>12
  DEF CommitCast, Goto, workVars, queueVars, runVars, envVars, Same, TypeOK
<1>13. CASE CastFault(r)
  BY <1>3, <1>13 DEF CastFault
<1>14. CASE RequestCrash(r)
  BY <1>1, <1>14 DEF RequestCrash, queueVars, runVars, Same, TypeOK
<1> QED
  BY <1>4, <1>5, <1>6, <1>7, <1>8, <1>9, <1>10, <1>11, <1>12, <1>13, <1>14 DEF RequestStep

LEMMA WorkersLeaveOthers ==
  ASSUME TypeOK, NEW x \in Workers, NEW w \in Workers, x # w,
         \/ \E v \in Voters : TakeJob(x, v)
         \/ WorkerStep(x) \/ ProcessFault(x) \/ WorkerCrash(x) \/ Stall(x)
  PROVE  Same(w) /\ KeepsJob(w)
<1>1. x \in Actors /\ w \in Actors
  BY DEF Actors
<1>2. ASSUME NEW v \in Voters, TakeJob(x, v)
      PROVE  Same(w) /\ KeepsJob(w)
  BY <1>1, <1>2, NobodyFresh DEF TakeJob, Goto, envVars, Same, KeepsJob, TypeOK, Actors
<1>3. ASSUME NEW c \in Choices, LookForVote(x, c)
      PROVE  Same(w) /\ KeepsJob(w)
  <2>1. CASE Skip(x, c) /\ UNCHANGED <<pc, choice>>
    BY <1>1, <1>3, <2>1
    DEF LookForVote, Skip, workVars, queueVars, envVars, Same, KeepsJob, TypeOK
  <2>2. CASE /\ Goto(x, "vote", IF Single(c.post) THEN "create" ELSE "count")
             /\ choice' = [choice EXCEPT ![x] = {c}]
             /\ UNCHANGED left
    <3>1. PICK to : pc' = [pc EXCEPT ![x] = to]
      BY <2>2 DEF Goto
    <3> QED
      BY <1>1, <1>3, <2>2, <3>1
      DEF LookForVote, workVars, queueVars, envVars, Same, KeepsJob, TypeOK
  <2> QED
    BY <1>3, <2>1, <2>2 DEF LookForVote
<1>4. CASE CountVotes(x)
  <2>1. PICK c \in choice[x] :
          \/ Skip(x, c) /\ Goto(x, "count", "vote")
          \/ UNCHANGED left /\ Goto(x, "count", "create")
    BY <1>4 DEF CountVotes
  <2> QED
    BY <1>1, <1>4, <2>1
    DEF CountVotes, Skip, Goto, workVars, queueVars, envVars, Same, KeepsJob, TypeOK
<1>5. CASE CreateVote(x)
  BY <1>1, <1>5 DEF CreateVote, Goto, workVars, queueVars, envVars, Same, KeepsJob, TypeOK
<1>6. CASE CloseVote(x)
  BY <1>1, <1>6 DEF CloseVote, Goto, runVars, queueVars, envVars, Same, KeepsJob, TypeOK
<1>7. CASE PurgeLog(x)
  BY <1>1, <1>7 DEF PurgeLog, runVars, queueVars, envVars, Same, KeepsJob, TypeOK
<1>8. CASE CommitVote(x)
  BY <1>1, <1>8
  DEF CommitVote, Goto, workVars, runVars, queueVars, envVars, Same, KeepsJob, TypeOK
<1>9. ASSUME EndRun(x), RemoveJob(x) \/ GiveUpJob(x), UNCHANGED overtaken
      PROVE  Same(w) /\ KeepsJob(w)
  <2>1. Same(w)
    BY <1>1, <1>9 DEF EndRun, Same, TypeOK
  <2>2. KeepsJob(w)
    BY <1>9 DEF RemoveJob, GiveUpJob, KeepsJob
  <2> QED
    BY <2>1, <2>2
<1>10. CASE Uncache(x)
  BY <1>9, <1>10 DEF Uncache, envVars
<1>11. CASE VoteConflict(x) \/ ProcessFault(x) \/ WorkerCrash(x)
  BY <1>9, <1>11 DEF VoteConflict, ProcessFault, WorkerCrash, AbortRun
<1>12. CASE Stall(x)
  <2>1. Same(w)
    BY <1>12 DEF Stall, workVars, runVars, Same
  <2>2. KeepsJob(w)
    BY <1>12 DEF Stall, RemoveJob, GiveUpJob, KeepsJob
  <2> QED
    BY <2>1, <2>2
<1> QED
  BY <1>2, <1>3, <1>4, <1>5, <1>6, <1>7, <1>8, <1>10, <1>11, <1>12 DEF WorkerStep

LEMMA WorkerFrame ==
  ASSUME TypeOK, [Next]_vars, NEW w \in Workers
  PROVE  \/ Same(w) /\ KeepsJob(w)
         \/ \E v \in Voters : TakeJob(w, v)
         \/ Works(w)
         \/ EndRun(w) /\ (pc[w] = "closing" => voter[w] \in aborted')
<1>1. CASE UNCHANGED vars
  BY <1>1 DEF vars, workVars, runVars, queueVars, envVars, Same, KeepsJob
<1>2. CASE EndElection \/ CronStep
  BY <1>2
  DEF EndElection, CronStep, StartAudit, RequeueStale, workVars, runVars, queueVars, envVars,
      Same, KeepsJob
<1>3. ASSUME NEW v \in Voters, ExpireCache(v) \/ LatePurge(v)
      PROVE  Same(w) /\ KeepsJob(w)
  BY <1>3 DEF ExpireCache, LatePurge, workVars, runVars, queueVars, envVars, Same, KeepsJob
<1>4. ASSUME NEW r \in Requests, NEW v \in Voters, NEW b \in Ballots, Submit(r, v, b)
      PROVE  Same(w) /\ KeepsJob(w)
  <2>1. r # w /\ r \in Actors
    BY RequestsNotWorkers DEF Actors
  <2>2. PICK to : pc' = [pc EXCEPT ![r] = to]
    BY <1>4 DEF Submit, Goto
  <2>3. voter' = [voter EXCEPT ![r] = v] /\ ballot' = [ballot EXCEPT ![r] = b]
    BY <1>4 DEF Submit
  <2>4. UNCHANGED <<runVars, queueVars, envVars>>
    BY <1>4 DEF Submit
  <2>5. w \in Actors
    BY DEF Actors
  <2>6. pc'[w] = pc[w] /\ voter'[w] = voter[w] /\ ballot'[w] = ballot[w]
    BY <2>1, <2>2, <2>3, <2>5 DEF TypeOK
  <2> QED
    BY <2>4, <2>6 DEF runVars, queueVars, envVars, Same, KeepsJob
<1>5. ASSUME NEW a \in Actors, TxnStep(a)
      PROVE  Same(w) /\ KeepsJob(w)
  BY <1>5
  DEF TxnStep, Snapshot, UpdateVoter, workVars, runVars, queueVars, envVars, Same, KeepsJob
<1>6. ASSUME NEW r \in Requests, RequestStep(r) \/ CastFault(r) \/ RequestCrash(r)
      PROVE  Same(w) /\ KeepsJob(w)
  BY <1>6, RequestLeavesWorkers DEF KeepsJob
<1>7. CASE WorkerStep(w)
  BY <1>7 DEF WorkerStep, Works, Uncache, VoteConflict, AbortRun, envVars
<1>8. CASE ProcessFault(w) \/ WorkerCrash(w)
  BY <1>8 DEF ProcessFault, WorkerCrash, AbortRun
<1>9. CASE Stall(w)
  BY <1>9 DEF Stall, workVars, runVars, Same, KeepsJob
<1> QED
  BY <1>1, <1>2, <1>3, <1>4, <1>5, <1>6, <1>7, <1>8, <1>9, WorkersLeaveOthers DEF Next

(***************************************************************************)
(* Votes mark their voter.                                                 *)
(***************************************************************************)
LEMMA VotesMarkVoterStep ==
  ASSUME TypeOK, VotesMarkVoter, [Next]_vars
  PROVE  VotesMarkVoter'
<1>1. CASE DbKept
  BY <1>1 DEF VotesMarkVoter, DbKept, dbVars
<1>2. ASSUME NEW r \in Requests, CommitCast(r)
      PROVE  VotesMarkVoter'
  BY <1>2 DEF CommitCast, Commit, VotesMarkVoter, TypeOK, Rows
<1>3. ASSUME NEW w \in Workers, CommitVote(w)
      PROVE  VotesMarkVoter'
  <2>1. voter[w] \in Voters
    BY <1>3 DEF CommitVote, Goto, TypeOK, Actors
  <2>2. \A s \in NewRows(w) : s.voter = voter[w]
    BY DEF NewRows
  <2>3. hasVoted' = [hasVoted EXCEPT ![voter[w]] = TRUE] /\ votes' = votes \cup NewRows(w)
    BY <1>3 DEF CommitVote, Commit
  <2> QED
    BY <2>1, <2>2, <2>3 DEF VotesMarkVoter, TypeOK, Rows
<1> QED
  BY <1>1, <1>2, <1>3, StoreSteps

(* Nobody has votes without being marked, whatever is rolled back.         *)
THEOREM VotesAreMarked == Spec => []VotesMarkVoter
<1>1. Init => VotesMarkVoter
  BY DEF Init, VotesMarkVoter
<1>2. TypeOK /\ VotesMarkVoter /\ [Next]_vars => VotesMarkVoter'
  BY VotesMarkVoterStep
<1> QED
  BY <1>1, <1>2, TypeCorrect, PTL DEF Spec

(***************************************************************************)
(* One run for a post with a single vote.  The job's lock makes a worker   *)
(* the only one of its voter, unless the job was given away; so what it    *)
(* read of the voter's votes is still true when it commits.                *)
(***************************************************************************)
OwnsJob(w) ==
  pc[w] # "idle" /\ voter[w] \notin overtaken => owner[voter[w]] = w

FromBallot(w) ==
  /\ pc[w] = "idle" => choice[w] = {} /\ added[w] = {}
  /\ pc[w] # "idle" => left[w] \cup choice[w] \cup added[w] \subseteq ballot[w]

StillFree(w) ==
  pc[w] \notin {"idle", "uncache"} /\ voter[w] \notin overtaken =>
    /\ \A c \in added[w] : ~Existing(voter[w], c)
    /\ pc[w] \in {"create", "count"} => \A c \in choice[w] : ~Existing(voter[w], c)

OnceInv == \A w \in Workers : OwnsJob(w) /\ FromBallot(w) /\ StillFree(w)

LEMMA OnceInitially == Init => OnceInv
  BY DEF Init, OnceInv, OwnsJob, FromBallot, StillFree, Actors

LEMMA OwnsJobStep ==
  ASSUME TypeOK, OnceInv, [Next]_vars, NEW w \in Workers
  PROVE  OwnsJob(w)'
<1>1. CASE Same(w) /\ KeepsJob(w)
  BY <1>1 DEF Same, KeepsJob, OnceInv, OwnsJob, TypeOK, Actors
<1>2. ASSUME NEW v \in Voters, TakeJob(w, v)
      PROVE  OwnsJob(w)'
  BY <1>2 DEF TakeJob, OwnsJob, TypeOK, Actors
<1>3. ASSUME Works(w)
      PROVE  OwnsJob(w)'
  <2>1. pc[w] # "idle" /\ UNCHANGED <<owner, overtaken, voter>>
    <3>1. todo[w] # {} => pc[w] # "idle"
      BY DEF TypeOK, Actors
    <3> QED
      BY <1>3, <3>1
      DEF Works, LookForVote, CountVotes, CreateVote, CloseVote, PurgeLog, CommitVote, Goto,
          queueVars, workVars, envVars
  <2> QED
    BY <2>1 DEF OnceInv, OwnsJob
<1>4. CASE EndRun(w)
  BY <1>4 DEF EndRun, OwnsJob, TypeOK, Actors
<1> QED
  BY <1>1, <1>2, <1>3, <1>4, WorkerFrame

LEMMA FromBallotStep ==
  ASSUME TypeOK, OnceInv, [Next]_vars, NEW w \in Workers
  PROVE  FromBallot(w)'
<1> USE DEF FromBallot
<1>0. FromBallot(w) /\ w \in Actors
  BY DEF OnceInv, Actors
<1>1. CASE Same(w)
  BY <1>0, <1>1 DEF Same
<1>2. ASSUME NEW v \in Voters, TakeJob(w, v)
      PROVE  FromBallot(w)'
  BY <1>0, <1>2 DEF TakeJob, Goto, TypeOK
<1>3. ASSUME NEW c \in Choices, LookForVote(w, c)
      PROVE  FromBallot(w)'
  <2>1. CASE Skip(w, c) /\ UNCHANGED <<pc, choice>>
    BY <1>0, <1>3, <2>1 DEF LookForVote, Skip, workVars, TypeOK
  <2>2. CASE choice' = [choice EXCEPT ![w] = {c}] /\ UNCHANGED left
             /\ Goto(w, "vote", IF Single(c.post) THEN "create" ELSE "count")
    <3>1. PICK to \in {"create", "count"} : pc' = [pc EXCEPT ![w] = to] /\ pc[w] = "vote"
      BY <2>2 DEF Goto
    <3>2. choice'[w] = {c} /\ pc'[w] # "idle" /\ left'[w] = left[w] /\ c \in left[w]
      BY <1>0, <1>3, <2>2, <3>1 DEF LookForVote, TypeOK
    <3> QED
      BY <1>0, <1>3, <3>1, <3>2 DEF LookForVote, workVars
  <2> QED
    BY <1>3, <2>1, <2>2 DEF LookForVote
<1>4. CASE CountVotes(w)
  <2>1. PICK c \in choice[w] :
          \/ Skip(w, c) /\ Goto(w, "count", "vote")
          \/ UNCHANGED left /\ Goto(w, "count", "create")
    BY <1>4 DEF CountVotes
  <2>2. pc[w] # "idle" /\ pc'[w] # "idle" /\ left'[w] \subseteq left[w]
    <3>1. CASE Skip(w, c) /\ Goto(w, "count", "vote")
      BY <1>0, <3>1 DEF Skip, Goto, TypeOK
    <3>2. CASE UNCHANGED left /\ Goto(w, "count", "create")
      BY <1>0, <3>2 DEF Goto, TypeOK
    <3> QED
      BY <2>1, <3>1, <3>2
  <2> QED
    BY <1>0, <1>4, <2>2 DEF CountVotes, workVars
<1>5. CASE CreateVote(w)
  BY <1>0, <1>5 DEF CreateVote, Goto, workVars, TypeOK
<1>6. CASE CloseVote(w)
  BY <1>0, <1>6 DEF CloseVote, Goto, runVars, TypeOK
<1>7. CASE PurgeLog(w)
  BY <1>0, <1>7 DEF PurgeLog, runVars
<1>8. CASE CommitVote(w)
  BY <1>0, <1>8 DEF CommitVote, Goto, workVars, runVars, TypeOK
<1>9. CASE EndRun(w)
  BY <1>0, <1>9 DEF EndRun, TypeOK
<1> QED
  BY <1>1, <1>2, <1>3, <1>4, <1>5, <1>6, <1>7, <1>8, <1>9, WorkerFrame DEF Works

(* While a worker owns its job, only its own commit adds votes of the voter*)
LEMMA RowsKept ==
  ASSUME TypeOK, OnceInv, [Next]_vars, NEW w \in Workers,
         pc[w] # "idle", voter[w] \notin overtaken, ~CommitVote(w)
  PROVE  \A r : r.voter = voter[w] => (r \in votes' <=> r \in votes)
<1>1. CASE DbKept
  BY <1>1 DEF DbKept, dbVars
<1>2. ASSUME NEW r \in Requests, CommitCast(r)
      PROVE  votes' = votes
  BY <1>2 DEF CommitCast
<1>3. ASSUME NEW x \in Workers, CommitVote(x)
      PROVE  \A r : r.voter = voter[w] => (r \in votes' <=> r \in votes)
  <2>1. voter[x] # voter[w]
    BY <1>3 DEF CommitVote, Goto, OnceInv, OwnsJob
  <2>2. \A r \in NewRows(x) : r.voter = voter[x]
    BY DEF NewRows
  <2> QED
    BY <1>3, <2>1, <2>2 DEF CommitVote
<1> QED
  BY <1>1, <1>2, <1>3, StoreSteps

LEMMA StillFreeStep ==
  ASSUME TypeOK, OnceInv, [Next]_vars, NEW w \in Workers
  PROVE  StillFree(w)'
<1> USE DEF StillFree
<1>0. StillFree(w) /\ FromBallot(w) /\ w \in Actors
  BY DEF OnceInv, Actors
<1>1. ASSUME pc[w] # "idle", voter[w] \notin overtaken, ~CommitVote(w), voter'[w] = voter[w],
             NEW c, ~Existing(voter[w], c)
      PROVE  ~Existing(voter[w], c)'
  <2>1. \A r : r.voter = voter[w] => (r \in votes' <=> r \in votes)
    BY <1>1, RowsKept
  <2> QED
    BY <1>1, <2>1 DEF Existing, PostRows, RowsOf
<1>2. overtaken \subseteq overtaken'
  BY StoreSteps DEF DbKept, CommitCast, CommitVote, envVars
<1>3. CASE Same(w) /\ ~CommitVote(w)
  BY <1>0, <1>1, <1>2, <1>3 DEF Same
<1>4. ASSUME NEW v \in Voters, TakeJob(w, v)
      PROVE  StillFree(w)'
  BY <1>0, <1>4 DEF TakeJob, Goto, TypeOK, FromBallot
<1>5. ASSUME NEW c \in Choices, LookForVote(w, c), ~CommitVote(w)
      PROVE  StillFree(w)'
  <2>1. pc[w] = "vote" /\ voter'[w] = voter[w] /\ added'[w] = added[w]
    BY <1>5 DEF LookForVote, workVars
  <2>2. CASE UNCHANGED <<pc, choice>>
    BY <1>0, <1>1, <1>2, <1>5, <2>1, <2>2
  <2>3. CASE /\ ~Existing(voter[w], c)
             /\ Goto(w, "vote", IF Single(c.post) THEN "create" ELSE "count")
             /\ choice' = [choice EXCEPT ![w] = {c}]
    <3>1. choice'[w] = {c}
      BY <2>3 DEF TypeOK
    <3>2. pc'[w] = IF Single(c.post) THEN "create" ELSE "count"
      BY <1>0, <2>3 DEF Goto, TypeOK
    <3> QED
      BY <1>0, <1>1, <1>2, <1>5, <2>1, <2>3, <3>1, <3>2
  <2> QED
    BY <1>5, <2>2, <2>3 DEF LookForVote
<1>6. CASE CountVotes(w) /\ ~CommitVote(w)
  <2>1. PICK to \in {"vote", "create"} : pc' = [pc EXCEPT ![w] = to] /\ pc[w] = "count"
    BY <1>6, CountVotesRun DEF TypeOK
  <2>2. UNCHANGED <<voter, choice, added>>
    BY <1>6 DEF CountVotes, workVars
  <2>3. pc'[w] \in {"vote", "create"}
    BY <1>0, <2>1 DEF TypeOK
  <2> QED
    BY <1>0, <1>1, <1>2, <1>6, <2>1, <2>2, <2>3
<1>7. CASE CreateVote(w) /\ ~CommitVote(w)
  <2>1. pc[w] = "create" /\ pc'[w] = "vote" /\ voter'[w] = voter[w]
        /\ added'[w] = added[w] \cup choice[w]
    BY <1>0, <1>7 DEF CreateVote, Goto, workVars, TypeOK
  <2> QED
    BY <1>0, <1>1, <1>2, <1>7, <2>1
<1>8. CASE (CloseVote(w) \/ PurgeLog(w)) /\ ~CommitVote(w)
  <2>1. pc[w] \in {"vote", "closing"} /\ pc'[w] = "closing"
        /\ UNCHANGED <<voter, choice, added>>
    BY <1>0, <1>8 DEF CloseVote, PurgeLog, Goto, runVars, TypeOK, WorkerPC
  <2> QED
    BY <1>0, <1>1, <1>2, <1>8, <2>1
<1>9. CASE CommitVote(w)
  BY <1>0, <1>9 DEF CommitVote, Goto, TypeOK
<1>10. CASE EndRun(w)
  BY <1>0, <1>10 DEF EndRun, TypeOK
<1> QED
  BY <1>3, <1>4, <1>5, <1>6, <1>7, <1>8, <1>9, <1>10, WorkerFrame DEF Works

LEMMA OnceStep ==
  ASSUME TypeOK, OnceInv, [Next]_vars
  PROVE  OnceInv'
  BY OwnsJobStep, FromBallotStep, StillFreeStep DEF OnceInv

LEMMA OneRunPerPostStep ==
  ASSUME TypeOK, OnceInv, OneRunPerPost, [Next]_vars
  PROVE  OneRunPerPost'
<1>1. CASE DbKept
  BY <1>1 DEF OneRunPerPost, RowsOf, DbKept, dbVars
<1>2. ASSUME NEW r \in Requests, CommitCast(r)
      PROVE  OneRunPerPost'
  BY <1>2 DEF CommitCast, OneRunPerPost, RowsOf, envVars
<1>3. ASSUME NEW w \in Workers, CommitVote(w)
      PROVE  OneRunPerPost'
  <2>1. /\ pc[w] = "closing" /\ w \in Actors
        /\ votes' = votes \cup NewRows(w) /\ overtaken' = overtaken
    BY <1>3 DEF CommitVote, Goto, envVars, Actors
  <2>2. SUFFICES ASSUME NEW v \in Voters \ overtaken, NEW r \in votes', NEW s \in votes',
                        r.voter = v, s.voter = v, Excludes(r.choice, s.choice)
                 PROVE  r.prior = s.prior
    BY <2>1 DEF OneRunPerPost, RowsOf
  <2>3. CASE r \in votes /\ s \in votes
    BY <2>2, <2>3 DEF OneRunPerPost, RowsOf
  <2>4. ASSUME NEW x \in NewRows(w), x.voter = v, NEW y \in votes, y.voter = v
        PROVE  ~Excludes(x.choice, y.choice) /\ ~Excludes(y.choice, x.choice)
    <3>1. x.choice \in added[w] /\ voter[w] = v
      BY <2>4 DEF NewRows
    <3>2. ~Existing(v, x.choice)
      BY <2>1, <3>1 DEF OnceInv, StillFree
    <3> QED
      BY <2>4, <3>2 DEF Existing, Excludes, PostRows, RowsOf
  <2>5. CASE r \in NewRows(w) /\ s \in NewRows(w)
    BY <2>5 DEF NewRows
  <2> QED
    BY <2>1, <2>2, <2>3, <2>4, <2>5
<1> QED
  BY <1>1, <1>2, <1>3, StoreSteps

(* A voter's votes for a post with a single vote come from one run, as do  *)
(* those for one candidate, unless Bull gave the voter's job away while    *)
(* its worker was alive; whatever the ballots are.                         *)
THEOREM OneRunForPost == Spec => []OneRunPerPost
<1>1. Init => OnceInv /\ OneRunPerPost
  BY OnceInitially DEF Init, OneRunPerPost, RowsOf
<1>2. TypeOK /\ OnceInv /\ OneRunPerPost /\ [Next]_vars => OnceInv' /\ OneRunPerPost'
  BY OnceStep, OneRunPerPostStep
<1> QED
  BY <1>1, <1>2, TypeCorrect, PTL DEF Spec

(***************************************************************************)
(* The ballot of a marked voter.                                           *)
(***************************************************************************)
KeptOrAborted(v) == Kept(v) \/ v \in aborted

(* A request that has written its log may commit, a worker with nothing    *)
(* left to look at may commit, and a late deletion follows a rollback.     *)
CastTracked(r) ==
  pc[r] = "casting" /\ "log" \notin todo[r] => KeptOrAborted(voter[r])

RunTracked(w) ==
  /\ pc[w] \notin {"idle", "uncache"} => left[w] \cup added[w] # {} \/ RowsOf(voter[w]) # {}
  /\ pc[w] = "closing" => left[w] = {}

TrackInv ==
  /\ \A v \in Voters : hasVoted[v] => KeptOrAborted(v)
  /\ \A r \in Requests : CastTracked(r)
  /\ \A w \in Workers : RunTracked(w)
  /\ late \subseteq aborted

LEMMA TrackInitially == Init => TrackInv
  BY DEF Init, TrackInv, CastTracked, RunTracked, Actors

LEMMA RowsGrow == ASSUME [Next]_vars PROVE votes \subseteq votes'
  BY StoreSteps DEF DbKept, dbVars, CommitCast, CommitVote

(* Logs come and go in these steps only, and so do the reasons to go.      *)
LEMMA LogSteps ==
  ASSUME [Next]_vars
  PROVE  \/ UNCHANGED <<log, late, aborted>>
         \/ \E r \in Requests : CreateLog(r)
         \/ \E w \in Workers : PurgeLog(w) \/ AbortRun(w)
         \/ \E v \in Voters : LatePurge(v)
<1>1. CASE UNCHANGED vars
  BY <1>1 DEF vars, logVars, envVars
<1>2. CASE EndElection \/ CronStep
  BY <1>2 DEF EndElection, CronStep, StartAudit, RequeueStale, logVars, envVars
<1>3. ASSUME NEW v \in Voters, ExpireCache(v)
      PROVE  UNCHANGED <<log, late, aborted>>
  BY <1>3 DEF ExpireCache, logVars, envVars
<1>4. ASSUME NEW r \in Requests, NEW v \in Voters, NEW b \in Ballots, Submit(r, v, b)
      PROVE  UNCHANGED <<log, late, aborted>>
  BY <1>4 DEF Submit, logVars, envVars
<1>5. ASSUME NEW a \in Actors, TxnStep(a)
      PROVE  UNCHANGED <<log, late, aborted>>
  BY <1>5 DEF TxnStep, Snapshot, UpdateVoter, logVars, envVars
<1>6. ASSUME NEW r \in Requests, RequestStep(r) \/ CastFault(r) \/ RequestCrash(r), ~CreateLog(r)
      PROVE  UNCHANGED <<log, late, aborted>>
  BY <1>6
  DEF RequestStep, LoadVoter, StoreVoter, RefuseCast, BeginCast, AddJob, DuplicateLog,
      CastConflict, CommitCast, CastFault, RequestCrash, FailCast, logVars, envVars
<1>7. ASSUME NEW w \in Workers, NEW v \in Voters, TakeJob(w, v)
      PROVE  UNCHANGED <<log, late, aborted>>
  BY <1>7 DEF TakeJob, logVars, envVars
<1>8. ASSUME NEW w \in Workers, ~PurgeLog(w), ~AbortRun(w),
             WorkerStep(w) \/ ProcessFault(w) \/ WorkerCrash(w) \/ Stall(w)
      PROVE  UNCHANGED <<log, late, aborted>>
  BY <1>8
  DEF WorkerStep, LookForVote, CountVotes, CreateVote, CloseVote, CommitVote, Uncache,
      VoteConflict, ProcessFault, WorkerCrash, Stall, logVars, envVars
<1> QED
  BY <1>1, <1>2, <1>3, <1>4, <1>5, <1>6, <1>7, <1>8 DEF Next

LEMMA LateStep ==
  ASSUME TypeOK, TrackInv, [Next]_vars
  PROVE  aborted \subseteq aborted' /\ late' \subseteq aborted'
<1>1. CASE UNCHANGED <<log, late, aborted>>
  BY <1>1 DEF TrackInv
<1>2. ASSUME NEW r \in Requests, CreateLog(r)
      PROVE  UNCHANGED <<late, aborted>>
  BY <1>2 DEF CreateLog, envVars
<1>3. ASSUME NEW w \in Workers, PurgeLog(w)
      PROVE  UNCHANGED <<late, aborted>>
  BY <1>3 DEF PurgeLog, envVars
<1>4. ASSUME NEW w \in Workers, AbortRun(w)
      PROVE  aborted \subseteq aborted' /\ late' \subseteq aborted'
  <2>1. "log" \in todo[w] => pc[w] = "closing"
    BY DEF TypeOK, Actors, WorkerPC
  <2> QED
    BY <1>4, <2>1 DEF AbortRun, TrackInv
<1>5. ASSUME NEW v \in Voters, LatePurge(v)
      PROVE  aborted \subseteq aborted' /\ late' \subseteq aborted'
  BY <1>5 DEF LatePurge, TrackInv, envVars
<1> QED
  BY <1>1, <1>2, <1>3, <1>4, <1>5, LogSteps DEF TrackInv

(* A run that commits leaves votes behind.                                 *)
LEMMA CommitLeavesVotes ==
  ASSUME TypeOK, TrackInv, NEW w \in Workers, CommitVote(w)
  PROVE  RowsOf(voter[w])' # {} /\ voter'[w] = voter[w]
<1>1. pc[w] = "closing" /\ votes' = votes \cup NewRows(w) /\ voter' = voter
  BY DEF CommitVote, Goto, workVars
<1>2. CASE RowsOf(voter[w]) # {}
  BY <1>1, <1>2 DEF RowsOf
<1>3. CASE added[w] # {}
  <2>1. PICK c \in added[w] : TRUE
    BY <1>3
  <2>2. [voter |-> voter[w], choice |-> c, prior |-> ChoicesOf(voter[w])] \in NewRows(w)
    BY DEF NewRows
  <2> QED
    BY <1>1, <2>2 DEF RowsOf
<1> QED
  BY <1>1, <1>2, <1>3 DEF TrackInv, RunTracked

LEMMA KeptStep ==
  ASSUME TypeOK, TrackInv, [Next]_vars, NEW v \in Voters, KeptOrAborted(v)
  PROVE  KeptOrAborted(v)'
<1>1. CASE v \in aborted
  BY <1>1, LateStep DEF KeptOrAborted
<1>2. CASE RowsOf(v) # {}
  BY <1>2, RowsGrow DEF RowsOf, Kept, KeptOrAborted
<1>3. ASSUME NEW w \in Workers, voter[w] = v, pc[w] = "closing"
      PROVE  KeptOrAborted(v)'
  <2>1. CASE Same(w)
    BY <1>3, <2>1 DEF Same, Kept, KeptOrAborted
  <2>2. ASSUME NEW u \in Voters, TakeJob(w, u)
        PROVE  FALSE
    BY <1>3, <2>2 DEF TakeJob, Goto
  <2>3. CASE PurgeLog(w)
    BY <1>3, <2>3 DEF PurgeLog, Kept, KeptOrAborted
  <2>4. CASE CommitVote(w)
    BY <1>3, <2>4, CommitLeavesVotes DEF Kept, KeptOrAborted
  <2>5. CASE Works(w) /\ ~PurgeLog(w) /\ ~CommitVote(w)
    BY <1>3, <2>5 DEF Works, LookForVote, CountVotes, CreateVote, CloseVote, Goto
  <2>6. CASE EndRun(w) /\ (pc[w] = "closing" => voter[w] \in aborted')
    BY <1>3, <2>6 DEF KeptOrAborted
  <2> QED
    BY <2>1, <2>2, <2>3, <2>4, <2>5, <2>6, WorkerFrame
<1>4. CASE log[v] # NoBallot
  <2>1. CASE UNCHANGED <<log, late, aborted>>
    BY <1>4, <2>1 DEF Kept, KeptOrAborted
  <2>2. ASSUME NEW r \in Requests, CreateLog(r)
        PROVE  log'[v] # NoBallot
    <3>1. voter[r] # v
      BY <1>4, <2>2 DEF CreateLog
    <3> QED
      BY <1>4, <2>2, <3>1 DEF CreateLog, TypeOK
  <2>3. ASSUME NEW w \in Workers, PurgeLog(w)
        PROVE  KeptOrAborted(v)'
    <3>1. pc[w] = "closing"
      BY <2>3 DEF PurgeLog, TypeOK, Actors, WorkerPC
    <3>2. CASE voter[w] = v
      BY <1>3, <3>1, <3>2
    <3>3. CASE voter[w] # v
      BY <1>4, <2>3, <3>3 DEF PurgeLog, Kept, KeptOrAborted, TypeOK
    <3> QED
      BY <3>2, <3>3
  <2>4. ASSUME NEW w \in Workers, AbortRun(w)
        PROVE  UNCHANGED log
    BY <2>4 DEF AbortRun
  <2>5. ASSUME NEW u \in Voters, LatePurge(u)
        PROVE  KeptOrAborted(v)'
    <3>1. CASE u = v
      BY <1>1, <2>5, <3>1 DEF LatePurge, TrackInv
    <3>2. CASE u # v
      BY <1>4, <2>5, <3>2 DEF LatePurge, Kept, KeptOrAborted, TypeOK
    <3> QED
      BY <3>1, <3>2
  <2> QED
    BY <1>4, <2>1, <2>2, <2>3, <2>4, <2>5, LogSteps DEF Kept, KeptOrAborted
<1> QED
  BY <1>1, <1>2, <1>3, <1>4 DEF Kept, KeptOrAborted

LEMMA RunTrackedStep ==
  ASSUME TypeOK, TrackInv, [Next]_vars, NEW w \in Workers
  PROVE  RunTracked(w)'
<1> USE DEF RunTracked
<1>0. RunTracked(w) /\ w \in Actors
  BY DEF TrackInv, Actors
<1>1. ASSUME RowsOf(voter[w]) # {}, voter'[w] = voter[w]
      PROVE  RowsOf(voter[w])' # {}
  BY <1>1, RowsGrow DEF RowsOf
<1>2. CASE Same(w)
  BY <1>0, <1>1, <1>2 DEF Same
<1>3. ASSUME NEW v \in Voters, TakeJob(w, v)
      PROVE  RunTracked(w)'
  <2>1. left'[w] = queued[v] /\ queued[v] # {} /\ pc'[w] = "vote"
    BY <1>0, <1>3, BallotsOfChoices DEF TakeJob, Goto, TypeOK
  <2> QED
    BY <2>1
<1>4. ASSUME NEW c \in Choices, LookForVote(w, c)
      PROVE  RunTracked(w)'
  <2>1. pc[w] = "vote" /\ voter'[w] = voter[w] /\ added'[w] = added[w]
    BY <1>4 DEF LookForVote, workVars
  <2>2. CASE Existing(voter[w], c) /\ UNCHANGED pc
    <3>1. RowsOf(voter[w]) # {}
      BY <2>2 DEF Existing, PostRows
    <3> QED
      BY <1>1, <2>1, <2>2, <3>1
  <2>3. CASE UNCHANGED left /\ Goto(w, "vote", IF Single(c.post) THEN "create" ELSE "count")
    <3>1. pc'[w] # "closing"
      BY <1>0, <2>3 DEF Goto, TypeOK
    <3> QED
      BY <1>0, <1>1, <2>1, <2>3, <3>1
  <2> QED
    BY <1>4, <2>2, <2>3 DEF LookForVote
<1>5. CASE CountVotes(w)
  <2>1. PICK c \in choice[w] :
          IF Cardinality(PostRows(voter[w], c.post)) = MaxVotes[c.post]
          THEN Skip(w, c) /\ Goto(w, "count", "vote")
          ELSE UNCHANGED left /\ Goto(w, "count", "create")
    BY <1>5 DEF CountVotes
  <2>2. pc[w] = "count" /\ voter'[w] = voter[w] /\ added'[w] = added[w]
    BY <1>5 DEF CountVotes, workVars
  <2>3. CASE Cardinality(PostRows(voter[w], c.post)) = MaxVotes[c.post]
    <3>1. MaxVotes[c.post] \in Nat \ {0}
      <4>1. c \in Choices
        BY DEF TypeOK
      <4> QED
        BY <4>1, MaxVotesPositive DEF Choices
    <3>2. RowsOf(voter[w]) # {}
      BY <2>3, <3>1, FS_EmptySet DEF PostRows
    <3>3. pc'[w] = "vote"
      BY <1>0, <2>1, <2>3 DEF Goto, TypeOK
    <3> QED
      BY <1>1, <2>2, <3>2, <3>3
  <2>4. CASE Cardinality(PostRows(voter[w], c.post)) # MaxVotes[c.post]
    <3>1. pc'[w] = "create" /\ left' = left
      BY <1>0, <2>1, <2>4 DEF Goto, TypeOK
    <3> QED
      BY <1>0, <1>1, <2>2, <3>1
  <2> QED
    BY <2>3, <2>4
<1>6. CASE CreateVote(w)
  <2>1. /\ pc[w] = "create" /\ pc'[w] = "vote" /\ voter'[w] = voter[w]
        /\ added'[w] = added[w] \cup choice[w] /\ left'[w] = left[w] \ choice[w]
    BY <1>0, <1>6 DEF CreateVote, Goto, workVars, TypeOK
  <2> QED
    BY <1>0, <1>1, <2>1
<1>7. CASE CloseVote(w)
  BY <1>0, <1>1, <1>7 DEF CloseVote, Goto, runVars, TypeOK
<1>8. CASE PurgeLog(w)
  <2>1. pc[w] = "closing" /\ UNCHANGED <<pc, voter, left, added>>
    BY <1>0, <1>8 DEF PurgeLog, runVars, TypeOK, WorkerPC
  <2> QED
    BY <1>0, <1>1, <2>1
<1>9. CASE CommitVote(w)
  BY <1>0, <1>9 DEF CommitVote, Goto, TypeOK
<1>10. CASE EndRun(w)
  BY <1>0, <1>10 DEF EndRun, TypeOK
<1> QED
  BY <1>2, <1>3, <1>4, <1>5, <1>6, <1>7, <1>8, <1>9, <1>10, WorkerFrame DEF Works

(* Only its own steps move a request.                                      *)
Unmoved(r) ==
  pc'[r] = pc[r] /\ voter'[r] = voter[r] /\ ballot'[r] = ballot[r] /\ todo'[r] = todo[r]

LEMMA WorkersLeaveRequests ==
  ASSUME TypeOK, NEW x \in Workers, NEW r \in Requests,
         \/ \E v \in Voters : TakeJob(x, v)
         \/ WorkerStep(x) \/ ProcessFault(x) \/ WorkerCrash(x) \/ Stall(x)
  PROVE  Unmoved(r)
<1>1. x \in Actors /\ r \in Actors /\ x # r
  BY RequestsNotWorkers DEF Actors
<1>2. ASSUME NEW v \in Voters, TakeJob(x, v)
      PROVE  Unmoved(r)
  BY <1>1, <1>2 DEF TakeJob, Goto, Unmoved, TypeOK
<1>3. ASSUME NEW c \in Choices, LookForVote(x, c)
      PROVE  Unmoved(r)
  <2>1. PICK to \in {"vote", "create", "count"} : pc' = [pc EXCEPT ![x] = to]
    BY <1>3, LookForVoteRun DEF TypeOK
  <2> QED
    BY <1>1, <1>3, <2>1 DEF LookForVote, workVars, Unmoved, TypeOK
<1>4. CASE CountVotes(x)
  <2>1. PICK to \in {"vote", "create"} : pc' = [pc EXCEPT ![x] = to]
    BY <1>4, CountVotesRun DEF TypeOK
  <2> QED
    BY <1>1, <1>4, <2>1 DEF CountVotes, workVars, Unmoved, TypeOK
<1>5. CASE CreateVote(x) \/ CloseVote(x)
  BY <1>1, <1>5 DEF CreateVote, CloseVote, Goto, workVars, Unmoved, TypeOK
<1>6. CASE PurgeLog(x) \/ CommitVote(x)
  BY <1>1, <1>6 DEF PurgeLog, CommitVote, Goto, workVars, Unmoved, TypeOK
<1>7. CASE EndRun(x)
  BY <1>1, <1>7 DEF EndRun, Unmoved, TypeOK
<1>8. CASE Stall(x)
  BY <1>8 DEF Stall, workVars, Unmoved
<1> QED
  BY <1>2, <1>3, <1>4, <1>5, <1>6, <1>7, <1>8
  DEF WorkerStep, Uncache, VoteConflict, ProcessFault, WorkerCrash, AbortRun

(* A request reaches the end of its log's creation only by creating it.    *)
LEMMA CastFrame ==
  ASSUME TypeOK, NEW q \in Requests, NEW r \in Requests, ~CreateLog(r),
         RequestStep(q) \/ CastFault(q) \/ RequestCrash(q),
         pc'[r] = "casting", "log" \notin todo'[r]
  PROVE  pc[r] = "casting" /\ "log" \notin todo[r] /\ voter'[r] = voter[r]
<1>1. q \in Actors /\ r \in Actors
  BY DEF Actors
<1>2. CASE LoadVoter(q) \/ StoreVoter(q) \/ RefuseCast(q)
  BY <1>1, <1>2 DEF LoadVoter, StoreVoter, RefuseCast, Goto, workVars, TypeOK
<1>3. CASE BeginCast(q)
  BY <1>1, <1>3 DEF BeginCast, Goto, TypeOK
<1>4. CASE AddJob(q)
  BY <1>1, <1>4 DEF AddJob, TypeOK
<1>5. CASE CreateLog(q)
  BY <1>1, <1>5 DEF CreateLog, TypeOK
<1>6. ASSUME NEW op, FailCast(q, op)
      PROVE  pc[r] = "casting" /\ "log" \notin todo[r] /\ voter'[r] = voter[r]
  BY <1>1, <1>6 DEF FailCast, TypeOK
<1>7. CASE DuplicateLog(q) \/ CastConflict(q) \/ CastFault(q)
  BY <1>6, <1>7 DEF DuplicateLog, CastConflict, CastFault
<1>8. CASE CommitCast(q)
  BY <1>1, <1>8 DEF CommitCast, Goto, workVars, TypeOK
<1>9. CASE RequestCrash(q)
  BY <1>1, <1>9 DEF RequestCrash, TypeOK
<1> QED
  BY <1>2, <1>3, <1>4, <1>5, <1>7, <1>8, <1>9 DEF RequestStep

LEMMA CastTrackedStep ==
  ASSUME TypeOK, TrackInv, [Next]_vars, NEW r \in Requests
  PROVE  CastTracked(r)'
<1> SUFFICES ASSUME pc'[r] = "casting", "log" \notin todo'[r]
             PROVE  KeptOrAborted(voter[r])'
  BY DEF CastTracked
<1>0. r \in Actors
  BY DEF Actors
<1>1. ASSUME pc[r] = "casting", "log" \notin todo[r], voter'[r] = voter[r]
      PROVE  KeptOrAborted(voter[r])'
  <2>1. voter[r] \in Voters /\ KeptOrAborted(voter[r])
    BY <1>0, <1>1 DEF TrackInv, CastTracked, TypeOK
  <2>2. \A v \in Voters : KeptOrAborted(v) => KeptOrAborted(v)'
    BY KeptStep
  <2> QED
    BY <1>1, <2>1, <2>2 DEF Kept, KeptOrAborted, RowsOf
<1>2. CASE Unmoved(r)
  BY <1>1, <1>2 DEF Unmoved
<1>3. CASE UNCHANGED vars
  BY <1>2, <1>3 DEF vars, workVars, Unmoved
<1>4. CASE EndElection \/ CronStep
  BY <1>2, <1>4 DEF EndElection, CronStep, StartAudit, RequeueStale, workVars, Unmoved
<1>5. ASSUME NEW v \in Voters, ExpireCache(v) \/ LatePurge(v)
      PROVE  Unmoved(r)
  BY <1>5 DEF ExpireCache, LatePurge, workVars, Unmoved
<1>6. ASSUME NEW q \in Requests, NEW v \in Voters, NEW b \in Ballots, Submit(q, v, b)
      PROVE  Unmoved(r)
  <2>1. PICK to \in {"load", "cast"} : pc' = [pc EXCEPT ![q] = to] /\ pc[q] = "idle"
    BY <1>6 DEF Submit, Goto
  <2>2. /\ voter' = [voter EXCEPT ![q] = v] /\ ballot' = [ballot EXCEPT ![q] = b]
        /\ todo' = todo /\ q \in Actors
    BY <1>6 DEF Submit, Actors
  <2>3. q # r
    BY <1>0, <2>1, <2>2 DEF TypeOK
  <2> QED
    BY <1>0, <2>1, <2>2, <2>3 DEF Unmoved, TypeOK
<1>7. ASSUME NEW a \in Actors, TxnStep(a)
      PROVE  pc[r] = "casting" /\ "log" \notin todo[r] /\ voter'[r] = voter[r]
  <2>1. CASE Snapshot(a)
    BY <2>1 DEF Snapshot, workVars
  <2>2. CASE UpdateVoter(a)
    <3>1. UNCHANGED <<pc, voter>> /\ todo' = [todo EXCEPT ![a] = @ \ {"update"}]
      BY <2>2 DEF UpdateVoter
    <3>2. "log" \notin todo[r]
      BY <1>0, <3>1 DEF TypeOK
    <3> QED
      BY <3>1, <3>2
  <2> QED
    BY <1>7, <2>1, <2>2 DEF TxnStep
<1>8. CASE CreateLog(r)
  <2>1. ballot[r] \in Ballots /\ voter[r] \in Voters
    BY <1>0, <1>8 DEF CreateLog, TypeOK
  <2>2. log'[voter[r]] # NoBallot /\ voter'[r] = voter[r]
    BY <1>8, <2>1, NobodyFresh DEF CreateLog, TypeOK
  <2> QED
    BY <2>2 DEF Kept, KeptOrAborted
<1>9. ASSUME NEW q \in Requests, RequestStep(q) \/ CastFault(q) \/ RequestCrash(q)
      PROVE  KeptOrAborted(voter[r])'
  BY <1>1, <1>8, <1>9, CastFrame
<1> QED
  BY <1>1, <1>2, <1>3, <1>4, <1>5, <1>6, <1>7, <1>9, WorkersLeaveRequests DEF Next

LEMMA TrackStep ==
  ASSUME TypeOK, TrackInv, [Next]_vars
  PROVE  TrackInv'
<1>1. ASSUME NEW v \in Voters, hasVoted'[v]
      PROVE  KeptOrAborted(v)'
  <2>1. CASE hasVoted[v]
    BY <2>1, KeptStep DEF TrackInv
  <2>2. ASSUME NEW r \in Requests, CommitCast(r), ~hasVoted[v]
        PROVE  KeptOrAborted(v)'
    <3>1. voter[r] = v /\ pc[r] = "casting" /\ todo[r] = {}
      BY <1>1, <2>2 DEF CommitCast, Commit, Goto, TypeOK
    <3> QED
      BY <3>1, KeptStep DEF TrackInv, CastTracked
  <2>3. ASSUME NEW w \in Workers, CommitVote(w), ~hasVoted[v]
        PROVE  KeptOrAborted(v)'
    <3>1. voter[w] = v
      BY <1>1, <2>3 DEF CommitVote, Commit, TypeOK
    <3> QED
      BY <2>3, <3>1, CommitLeavesVotes DEF Kept, KeptOrAborted, RowsOf
  <2> QED
    BY <1>1, <2>1, <2>2, <2>3, StoreSteps DEF DbKept, dbVars
<1>2. \A r \in Requests : CastTracked(r)'
  BY CastTrackedStep
<1>3. \A w \in Workers : RunTracked(w)'
  BY RunTrackedStep
<1> QED
  BY <1>1, <1>2, <1>3, LateStep DEF TrackInv

(* A voter who is marked has votes, a log, or a run about to commit, unless*)
(* a run was rolled back after the deletion of the log had been issued:    *)
(* nothing else that can happen loses a ballot.                            *)
THEOREM BallotsTracked == Spec => []BallotTracked
<1>1. TypeOK /\ TrackInv /\ [Next]_vars => TrackInv'
  BY TrackStep
<1>2. TrackInv => BallotTracked
  BY DEF TrackInv, BallotTracked, KeptOrAborted
<1> QED
  BY <1>1, <1>2, TrackInitially, TypeCorrect, PTL DEF Spec
=============================================================================
