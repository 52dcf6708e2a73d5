----------------------- MODULE ElectionVoting_refines -----------------------
(***************************************************************************)
(* ElectionVoting implements BallotBox, for every value of its constants:  *)
(* the temporal property the run ballot_race checks.  Besides the          *)
(* invariants of ElectionVoting_proofs the argument needs that every       *)
(* ballot in a job, in a log, with the cron or at a worker was submitted.  *)
(***************************************************************************)
EXTENDS ElectionVoting_proofs

(* Nothing but a submission changes what was submitted.                    *)
SaidNothing ==
  \A r \in Requests :
    /\ pc'[r] = "idle" <=> pc[r] = "idle"
    /\ voter'[r] = voter[r] /\ ballot'[r] = ballot[r]

LEMMA RequestsSayNothing ==
  ASSUME TypeOK, NEW q \in Requests, RequestStep(q) \/ CastFault(q) \/ RequestCrash(q)
  PROVE  SaidNothing
<1>1. q \in Actors /\ \A r \in Requests : r \in Actors
  BY DEF Actors
<1>2. UNCHANGED <<voter, ballot>>
  BY DEF RequestStep, LoadVoter, StoreVoter, RefuseCast, BeginCast, AddJob, CreateLog,
         DuplicateLog, CastConflict, CommitCast, CastFault, RequestCrash, FailCast, workVars
<1>3. ASSUME NEW to, to # "idle", pc[q] # "idle", pc' = [pc EXCEPT ![q] = to]
      PROVE  SaidNothing
  BY <1>1, <1>2, <1>3 DEF SaidNothing, TypeOK
<1>4. CASE LoadVoter(q) \/ StoreVoter(q) \/ RefuseCast(q) \/ BeginCast(q) \/ CommitCast(q)
  BY <1>3, <1>4 DEF LoadVoter, StoreVoter, RefuseCast, BeginCast, CommitCast, Goto
<1>5. CASE AddJob(q) \/ CreateLog(q)
  BY <1>2, <1>5 DEF AddJob, CreateLog, SaidNothing
<1>6. ASSUME NEW op, FailCast(q, op)
      PROVE  SaidNothing
  BY <1>3, <1>6 DEF FailCast
<1>7. CASE RequestCrash(q)
  BY <1>3, <1>7 DEF RequestCrash
<1> QED
  BY <1>4, <1>5, <1>6, <1>7 DEF RequestStep, DuplicateLog, CastConflict, CastFault

LEMMA SayingSteps ==
  ASSUME TypeOK, [Next]_vars
  PROVE  \/ SaidNothing
         \/ \E r \in Requests, v \in Voters, b \in Ballots : Submit(r, v, b)
<1>1. CASE UNCHANGED vars
  BY <1>1 DEF vars, workVars, SaidNothing
<1>2. CASE EndElection \/ CronStep
  BY <1>2 DEF EndElection, CronStep, StartAudit, RequeueStale, workVars, SaidNothing
<1>3. ASSUME NEW v \in Voters, ExpireCache(v) \/ LatePurge(v)
      PROVE  SaidNothing
  BY <1>3 DEF ExpireCache, LatePurge, workVars, SaidNothing
<1>4. ASSUME NEW a \in Actors, TxnStep(a)
      PROVE  SaidNothing
  BY <1>4 DEF TxnStep, Snapshot, UpdateVoter, workVars, SaidNothing
<1>5. ASSUME NEW w \in Workers,
             \/ \E v \in Voters : TakeJob(w, v)
             \/ WorkerStep(w) \/ ProcessFault(w) \/ WorkerCrash(w) \/ Stall(w)
      PROVE  SaidNothing
  BY <1>5, WorkersLeaveRequests DEF SaidNothing, Unmoved
<1> QED
  BY <1>1, <1>2, <1>3, <1>4, <1>5, RequestsSayNothing DEF Next

LEMMA SubmittedKept == SaidNothing => Submitted' = Submitted
  BY DEF SaidNothing, Submitted

LEMMA SubmittedAdded ==
  ASSUME TypeOK, NEW r \in Requests, NEW v \in Voters, NEW b \in Ballots, Submit(r, v, b)
  PROVE  Submitted' = Submitted \cup {<<v, b>>}
<1>1. PICK to \in {"load", "cast"} : pc' = [pc EXCEPT ![r] = to] /\ pc[r] = "idle"
  BY DEF Submit, Goto
<1>2. voter' = [voter EXCEPT ![r] = v] /\ ballot' = [ballot EXCEPT ![r] = b]
  BY DEF Submit
<1>3. \A q \in Requests : q \in Actors
  BY DEF Actors
<1>4. pc'[r] # "idle" /\ voter'[r] = v /\ ballot'[r] = b
  BY <1>1, <1>2, <1>3 DEF TypeOK
<1>5. \A q \in Requests : q # r =>
        pc'[q] = pc[q] /\ voter'[q] = voter[q] /\ ballot'[q] = ballot[q]
  BY <1>1, <1>2, <1>3 DEF TypeOK
<1> QED
  BY <1>1, <1>4, <1>5 DEF Submitted

(* Where ballots come from.                                                *)
Said(v, b) == b = NoBallot \/ <<v, b>> \in Submitted

SaidInv ==
  /\ \A v \in Voters : Said(v, queued[v]) /\ Said(v, log[v]) /\ Said(v, batch[v])
  /\ \A w \in Workers : pc[w] # "idle" => <<voter[w], ballot[w]>> \in Submitted

LEMMA BallotSources ==
  ASSUME TypeOK, SaidInv, [Next]_vars, NEW v \in Voters
  PROVE  Said(v, queued'[v]) /\ Said(v, log'[v]) /\ Said(v, batch'[v])
<1> DEFINE Goal == Said(v, queued'[v]) /\ Said(v, log'[v]) /\ Said(v, batch'[v])
<1> USE DEF SaidInv
<1>1. CASE UNCHANGED <<queued, log, batch>>
  BY <1>1
<1>2. CASE UNCHANGED vars
  BY <1>1, <1>2 DEF vars, queueVars, logVars
<1>3. CASE EndElection
  BY <1>1, <1>3 DEF EndElection, queueVars, logVars
<1>4. ASSUME NEW u \in Voters, ExpireCache(u)
      PROVE  Goal
  BY <1>1, <1>4 DEF ExpireCache, queueVars, logVars
<1>5. ASSUME NEW u \in Voters, LatePurge(u)
      PROVE  Goal
  BY <1>5 DEF LatePurge, queueVars, Said, TypeOK
<1>6. ASSUME NEW r \in Requests, NEW u \in Voters, NEW b \in Ballots, Submit(r, u, b)
      PROVE  Goal
  BY <1>1, <1>6 DEF Submit, queueVars, logVars
<1>7. ASSUME NEW a \in Actors, TxnStep(a)
      PROVE  Goal
  BY <1>1, <1>7 DEF TxnStep, Snapshot, UpdateVoter, queueVars, logVars
<1>8. ASSUME NEW r \in Requests, todo[r] # {}
      PROVE  <<voter[r], ballot[r]>> \in Submitted
  BY <1>8 DEF TypeOK, Actors, Submitted
<1>9. ASSUME NEW r \in Requests, AddJob(r)
      PROVE  Goal
  BY <1>8, <1>9 DEF AddJob, logVars, Said, TypeOK
<1>10. ASSUME NEW r \in Requests, CreateLog(r)
       PROVE  Goal
  BY <1>8, <1>10 DEF CreateLog, queueVars, Said, TypeOK
<1>11. ASSUME NEW r \in Requests, RequestStep(r) \/ CastFault(r) \/ RequestCrash(r),
              ~AddJob(r), ~CreateLog(r)
       PROVE  Goal
  BY <1>1, <1>11
  DEF RequestStep, LoadVoter, StoreVoter, RefuseCast, BeginCast, DuplicateLog, CastConflict,
      CommitCast, CastFault, RequestCrash, FailCast, queueVars, logVars
<1>12. ASSUME NEW vs \in SUBSET Voters, StartAudit(vs)
       PROVE  Goal
  BY <1>12 DEF StartAudit, queueVars, Said
<1>13. ASSUME NEW u \in Voters, RequeueStale(u)
       PROVE  Goal
  BY <1>13 DEF RequeueStale, Said, TypeOK
<1>14. ASSUME NEW w \in Workers, RemoveJob(w) \/ GiveUpJob(w), UNCHANGED <<log, batch>>
       PROVE  Goal
  BY <1>14 DEF RemoveJob, GiveUpJob, Said
<1>15. ASSUME NEW w \in Workers, Uncache(w) \/ VoteConflict(w)
       PROVE  Goal
  BY <1>14, <1>15 DEF Uncache, VoteConflict, AbortRun, logVars
<1>16. ASSUME NEW w \in Workers, ProcessFault(w) \/ WorkerCrash(w) \/ Stall(w)
       PROVE  Goal
  BY <1>14, <1>16 DEF ProcessFault, WorkerCrash, Stall, AbortRun, logVars
<1>17. ASSUME NEW w \in Workers, PurgeLog(w)
       PROVE  Goal
  BY <1>17 DEF PurgeLog, queueVars, Said, TypeOK
<1>18. ASSUME NEW w \in Workers, WorkerStep(w), ~Uncache(w), ~VoteConflict(w), ~PurgeLog(w)
       PROVE  Goal
  BY <1>1, <1>18
  DEF WorkerStep, LookForVote, CountVotes, CreateVote, CloseVote, CommitVote, queueVars, logVars
<1>19. ASSUME NEW w \in Workers, NEW u \in Voters, TakeJob(w, u)
       PROVE  Goal
  BY <1>1, <1>19 DEF TakeJob, logVars
<1> QED
  BY <1>2, <1>3, <1>4, <1>5, <1>6, <1>7, <1>9, <1>10, <1>11, <1>12, <1>13, <1>15, <1>16,
     <1>17, <1>18, <1>19
  DEF Next, CronStep

LEMMA SaidStep ==
  ASSUME TypeOK, OnceInv, SaidInv, [Next]_vars
  PROVE  SaidInv'
<1>1. Submitted \subseteq Submitted'
  BY SayingSteps, SubmittedKept, SubmittedAdded
<1>3. ASSUME NEW v \in Voters
      PROVE  Said(v, queued[v])' /\ Said(v, log[v])' /\ Said(v, batch[v])'
  BY <1>1, BallotSources DEF Said
<1>4. ASSUME NEW w \in Workers, pc'[w] # "idle"
      PROVE  <<voter'[w], ballot'[w]>> \in Submitted'
  <2>1. w \in Actors
    BY DEF Actors
  <2>2. CASE Same(w)
    BY <1>1, <1>4, <2>2 DEF Same, SaidInv
  <2>3. ASSUME NEW v \in Voters, TakeJob(w, v)
        PROVE  <<voter'[w], ballot'[w]>> \in Submitted'
    <3>1. voter'[w] = v /\ ballot'[w] = queued[v] /\ queued[v] # NoBallot
      BY <2>1, <2>3 DEF TakeJob, TypeOK
    <3> QED
      BY <1>1, <3>1 DEF SaidInv, Said
  <2>4. CASE Works(w)
    <3>1. pc[w] # "idle" /\ UNCHANGED <<voter, ballot>>
      <4>1. todo[w] # {} => pc[w] # "idle"
        BY <2>1 DEF TypeOK
      <4> QED
        BY <2>4, <4>1
        DEF Works, LookForVote, CountVotes, CreateVote, CloseVote, PurgeLog, CommitVote, Goto,
            workVars
    <3> QED
      BY <1>1, <3>1 DEF SaidInv
  <2>5. CASE EndRun(w)
    BY <1>4, <2>1, <2>5 DEF EndRun, TypeOK
  <2> QED
    BY <2>2, <2>3, <2>4, <2>5, WorkerFrame
<1> QED
  BY <1>3, <1>4 DEF SaidInv

(***************************************************************************)
(* The refinement.                                                         *)
(***************************************************************************)
Marked == {v \in Voters : hasVoted[v]}

LEMMA MarkedByCommit ==
  ASSUME TypeOK, NEW a \in Actors, voter[a] \in Voters, Commit(a)
  PROVE  Marked' = Marked \cup {voter[a]}
<1>1. hasVoted' = [hasVoted EXCEPT ![voter[a]] = TRUE] /\ hasVoted \in [Voters -> BOOLEAN]
  BY DEF Commit, TypeOK
<1>2. \A v \in Voters : hasVoted'[v] <=> hasVoted[v] \/ v = voter[a]
  BY <1>1
<1> QED
  BY <1>2 DEF Marked

LEMMA RowsFromBallot ==
  ASSUME TypeOK, OnceInv, NEW w \in Workers, pc[w] # "idle"
  PROVE  \A r \in NewRows(w) : r.voter = voter[w] /\ r.choice \in ballot[w]
  BY DEF NewRows, OnceInv, FromBallot

LEMMA BoxStep ==
  ASSUME TypeOK, OnceInv, SaidInv, [Next]_vars
  PROVE  [Box!Next]_<<Submitted, Marked, votes>>
<1>1. ASSUME NEW r \in Requests, NEW v \in Voters, NEW b \in Ballots, Submit(r, v, b)
      PROVE  Box!Next
  <2>1. UNCHANGED <<Marked, votes>>
    BY <1>1 DEF Submit, dbVars, Marked
  <2>2. Box!Cast(v, b)
    BY <1>1, <2>1, SubmittedAdded DEF Box!Cast, Marked
  <2> QED
    BY <2>2 DEF Box!Next
<1>2. ASSUME NEW r \in Requests, CommitCast(r)
      PROVE  Box!Next
  <2>1. r \in Actors /\ pc[r] # "idle" /\ voter[r] \in Voters /\ ballot[r] \in Ballots
    BY <1>2 DEF CommitCast, Goto, Actors, TypeOK
  <2>2. Submitted' = Submitted
    BY <1>2, RequestsSayNothing, SubmittedKept DEF RequestStep
  <2>3. Marked' = Marked \cup {voter[r]} /\ votes' = votes
    BY <1>2, <2>1, MarkedByCommit DEF CommitCast
  <2>4. PICK v \in Voters, b \in Ballots : v = voter[r] /\ b = ballot[r]
    BY <2>1
  <2>5. Box!Mark(v, b)
    BY <2>1, <2>2, <2>3, <2>4 DEF Box!Mark, Submitted, Marked
  <2> QED
    BY <2>5 DEF Box!Next
<1>3. ASSUME NEW w \in Workers, CommitVote(w)
      PROVE  Box!Next
  <2>1. w \in Actors /\ pc[w] # "idle" /\ voter[w] \in Voters /\ ballot[w] \in Ballots
    BY <1>3 DEF CommitVote, Goto, Actors, TypeOK
  <2>2. Submitted' = Submitted
    <3>1. SaidNothing
      BY <1>3, WorkersLeaveRequests DEF WorkerStep, SaidNothing, Unmoved
    <3> QED
      BY <3>1, SubmittedKept
  <2>3. Marked' = Marked \cup {voter[w]} /\ votes' = votes \cup NewRows(w)
    BY <1>3, <2>1, MarkedByCommit DEF CommitVote
  <2>4. <<voter[w], ballot[w]>> \in Submitted
    BY <2>1 DEF SaidInv
  <2>5. PICK v \in Voters, b \in Ballots : v = voter[w] /\ b = ballot[w]
    BY <2>1
  <2>6. Box!Store(v, b)
    BY <2>1, <2>2, <2>3, <2>4, <2>5, RowsFromBallot DEF Box!Store, Marked
  <2> QED
    BY <2>6 DEF Box!Next
<1>4. CASE DbKept /\ SaidNothing
  BY <1>4, SubmittedKept DEF DbKept, dbVars, Marked
<1> QED
  BY <1>1, <1>2, <1>3, <1>4, StoreSteps, SayingSteps

(* Requests, workers, the cron and faults together implement a ballot box: *)
(* votes come only from a ballot their voter submitted, in one piece with  *)
(* the mark, and neither votes nor marks are ever taken back.              *)
THEOREM BallotBoxImplemented == Spec => ImplementsBallotBox
<1>1. Init => TypeOK /\ OnceInv /\ SaidInv
  BY TypeInit, OnceInitially DEF Init, SaidInv, Said, Actors
<1>2. TypeOK /\ OnceInv /\ SaidInv /\ [Next]_vars => (TypeOK /\ OnceInv /\ SaidInv)'
  BY TypeStep, OnceStep, SaidStep
<1>3. Init => Box!Init
  BY DEF Init, Box!Init, Submitted, Actors
<1>4. TypeOK /\ OnceInv /\ SaidInv /\ [Next]_vars => [Box!Next]_Box!vars
  BY BoxStep DEF Box!vars, Marked
<1> QED
  BY <1>1, <1>2, <1>3, <1>4, PTL DEF Spec, ImplementsBallotBox, Box!Spec
=============================================================================
