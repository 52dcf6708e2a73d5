---------------------- MODULE VoterCredentials_proofs ----------------------
(***************************************************************************)
(* Proofs about VoterCredentials, for every set of requests and of lines,  *)
(* any emails, any plan and sizes of chunks and pages, and any faults.     *)
(***************************************************************************)
EXTENDS VoterCredentials, TLAPS, FiniteSetTheorems

(***************************************************************************)
(* The roll stays within the plan.                                         *)
(***************************************************************************)
RollType ==
  /\ IsFiniteSet(rows)
  /\ asking \in [Requests -> {"new", "check", "done"}]
  /\ passed \in [Requests -> SUBSET {"count", "email"}]
  /\ csv \in {"none", "never", "waiting", "active", "done", "failed", "dead"}
  /\ file \subseteq Lines
  /\ unread \subseteq file
  /\ buffer \subseteq file
  /\ csv = "none" => buffer = {}
  /\ raced \in BOOLEAN

(* A request has passed no check before it has begun, and the count only   *)
(* under a plan that has room for anybody.                                 *)
PassedInv ==
  \A q \in Requests :
    /\ asking[q] = "new" => passed[q] = {}
    /\ "count" \in passed[q] => Capacity > 0

(* While nothing has raced, there is room for a voter who was counted, and *)
(* a file under way has the roll to itself.                                *)
PlanInv ==
  /\ Counted # {} => Cardinality(rows) < Capacity
  /\ csv \in {"waiting", "active"} => rows \subseteq file
  /\ csv \notin {"active", "dead"} => Cardinality(rows) <= Capacity

RollInv ==
  /\ RollType
  /\ PassedInv
  /\ ~raced => PlanInv

LEMMA RollStart == RollInit => RollInv
<1> SUFFICES ASSUME RollInit PROVE RollInv
  OBVIOUS
<1>1. RollType
  BY FS_EmptySet DEF RollInit, RollType
<1>2. PassedInv
  BY DEF RollInit, PassedInv
<1>3. PlanInv
  BY FS_EmptySet, PlanIsNumber DEF RollInit, PlanInv, Counted
<1> QED
  BY <1>1, <1>2, <1>3 DEF RollInv

LEMMA AskKeeps ==
  ASSUME RollInv, NEW q \in Requests, Ask(q)
  PROVE  RollInv'
<1>1. /\ asking[q] = "new"
      /\ asking' = [asking EXCEPT ![q] = "check"]
      /\ UNCHANGED <<rows, passed, csv, file, unread, buffer, raced>>
  BY DEF Ask, csvVars
<1>2. RollType' /\ PassedInv'
  BY <1>1 DEF RollInv, RollType, PassedInv
<1>3. Counted' = Counted
  BY <1>1 DEF RollInv, RollType, PassedInv, Counted
<1> QED
  BY <1>1, <1>2, <1>3 DEF RollInv, PlanInv

LEMMA CheckKeeps ==
  ASSUME RollInv, NEW q \in Requests, CountVoters(q) \/ FindVoter(q)
  PROVE  RollInv'
<1>1. PICK c \in {"count", "email"} :
        /\ asking[q] = "check"
        /\ UNCHANGED <<rows, csv, file, unread, buffer, raced>>
        /\ \/ /\ c = "count" => Cardinality(rows) < Capacity
              /\ passed' = [passed EXCEPT ![q] = @ \cup {c}]
              /\ UNCHANGED asking
           \/ asking' = [asking EXCEPT ![q] = "done"] /\ UNCHANGED passed
  <2>1. CASE CountVoters(q)
    <3>1. CASE Cardinality(rows) < Capacity
      BY <2>1, <3>1 DEF CountVoters, Check, csvVars
    <3>2. CASE ~(Cardinality(rows) < Capacity)
      BY <2>1, <3>2 DEF CountVoters, Check, csvVars
    <3> QED
      BY <3>1, <3>2
  <2>2. CASE FindVoter(q)
    BY <2>2 DEF FindVoter, Check, csvVars
  <2> QED
    BY <2>1, <2>2
<1>2. RollType'
  BY <1>1 DEF RollInv, RollType
<1>3. PassedInv'
  BY <1>1, PlanIsNumber, FS_CardinalityType DEF RollInv, RollType, PassedInv
<1>4. Counted' \subseteq Counted \/ Cardinality(rows) < Capacity
  BY <1>1 DEF RollInv, RollType, Counted
<1> QED
  BY <1>1, <1>2, <1>3, <1>4 DEF RollInv, PlanInv

LEMMA InsertVoterKeeps ==
  ASSUME RollInv, NEW q \in Requests, InsertVoter(q)
  PROVE  RollInv'
<1>1. /\ q \in Counted
      /\ rows' = rows \cup {q}
      /\ asking' = [asking EXCEPT ![q] = "done"]
      /\ raced' = (raced \/ csv \in {"waiting", "active"} \/ Counted # {q})
      /\ UNCHANGED <<passed, csv, file, unread, buffer>>
  BY DEF InsertVoter, Counted, csvVars
<1>2. /\ IsFiniteSet(rows')
      /\ Cardinality(rows') <= Cardinality(rows) + 1
      /\ Cardinality(rows) \in Nat /\ Cardinality(rows') \in Nat
  <2>1. IsFiniteSet(rows)
    BY DEF RollInv, RollType
  <2>2. /\ IsFiniteSet(rows')
        /\ Cardinality(rows') = IF q \in rows THEN Cardinality(rows) ELSE Cardinality(rows) + 1
    BY <1>1, <2>1, FS_AddElement
  <2>3. Cardinality(rows) \in Nat
    BY <2>1, FS_CardinalityType
  <2> QED
    BY <2>2, <2>3
<1>3. RollType' /\ PassedInv'
  BY <1>1, <1>2 DEF RollInv, RollType, PassedInv
<1>4. Counted' = Counted \ {q}
  BY <1>1 DEF RollInv, RollType, Counted
<1>5. ~raced' => PlanInv'
  <2> SUFFICES ASSUME ~raced' PROVE PlanInv'
    OBVIOUS
  <2>1. Counted' = {} /\ csv' \notin {"waiting", "active"}
    BY <1>1, <1>4
  <2>2. Cardinality(rows) < Capacity
    BY <1>1 DEF RollInv, PlanInv
  <2> QED
    BY <1>2, <2>1, <2>2, PlanIsNumber DEF PlanInv
<1> QED
  BY <1>3, <1>5 DEF RollInv

LEMMA DeleteVotersKeeps ==
  ASSUME RollInv, NEW S \in SUBSET Voters, DeleteVoters(S)
  PROVE  RollInv'
<1>1. /\ rows' = rows \ S
      /\ UNCHANGED <<asking, passed, csv, file, unread, buffer, raced>>
  BY DEF DeleteVoters, askVars, csvVars
<1>2. /\ IsFiniteSet(rows')
      /\ Cardinality(rows') <= Cardinality(rows)
      /\ Cardinality(rows) \in Nat /\ Cardinality(rows') \in Nat
  BY <1>1, FS_Subset, FS_CardinalityType DEF RollInv, RollType
<1>3. RollType' /\ PassedInv' /\ Counted' = Counted
  BY <1>1, <1>2 DEF RollInv, RollType, PassedInv, Counted
<1> QED
  BY <1>1, <1>2, <1>3, PlanIsNumber DEF RollInv, PlanInv

LEMMA UploadKeeps ==
  ASSUME RollInv, NEW S \in SUBSET Lines, UploadFile(S)
  PROVE  RollInv'
<1>1. /\ rows = {}
      /\ csv = "none"
      /\ csv' = "waiting"
      /\ file' = S /\ unread' = S
      /\ UNCHANGED <<rows, asking, passed, raced, buffer>>
  BY DEF UploadFile, askVars
<1>2. RollType' /\ PassedInv' /\ Counted' = Counted
  BY <1>1 DEF RollInv, RollType, PassedInv, Counted
<1> QED
  BY <1>1, <1>2 DEF RollInv, PlanInv

LEMMA ReadLineKeeps ==
  ASSUME RollInv, NEW x \in Lines, ReadLine(x)
  PROVE  RollInv'
<1>1. /\ csv \in {"waiting", "active"} /\ x \in unread
      /\ csv' = "active"
      /\ unread' = unread \ {x}
      /\ UNCHANGED <<asking, passed, file>>
  BY DEF ReadLine, askVars
<1>2. PICK S \in SUBSET file :
        /\ rows' = rows \cup S
        /\ buffer' \in SUBSET file
        /\ raced' = (raced \/ (S # {} /\ Counted # {}))
  <2>1. CASE InsertLines(buffer \cup {x})
    <3>1. /\ rows' = rows \cup (buffer \cup {x})
          /\ buffer' = {}
          /\ raced' = (raced \/ Counted # {})
      BY <2>1 DEF InsertLines
    <3>2. buffer \cup {x} \in SUBSET file /\ buffer \cup {x} # {}
      BY <1>1 DEF RollInv, RollType
    <3> QED
      BY <3>1, <3>2
  <2>2. CASE buffer' = buffer \cup {x} /\ UNCHANGED <<rows, raced>>
    BY <1>1, <2>2 DEF RollInv, RollType
  <2> QED
    BY <2>1, <2>2 DEF ReadLine
<1>3. IsFiniteSet(rows')
  <2>1. IsFiniteSet(rows) /\ S \in SUBSET Lines
    BY DEF RollInv, RollType
  <2>2. IsFiniteSet(S)
    BY <2>1, LinesFinite, FS_Subset
  <2> QED
    BY <1>2, <2>1, <2>2, FS_Union
<1>4. RollType' /\ PassedInv' /\ Counted' = Counted
  BY <1>1, <1>2, <1>3 DEF RollInv, RollType, PassedInv, Counted
<1>5. ~raced' => PlanInv'
  BY <1>1, <1>2, <1>4 DEF RollInv, PlanInv
<1> QED
  BY <1>4, <1>5 DEF RollInv

LEMMA RollbackKeeps ==
  ASSUME RollInv, Rollback, csv \in {"waiting", "active"}
  PROVE  RollInv'
<1>1. /\ rows' = rows \ file
      /\ csv' = "failed" /\ unread' = {} /\ buffer' = {}
      /\ UNCHANGED <<asking, passed, file, raced>>
  BY DEF Rollback, askVars
<1>2. IsFiniteSet(rows')
  BY <1>1, FS_Subset DEF RollInv, RollType
<1>3. RollType' /\ PassedInv' /\ Counted' = Counted
  BY <1>1, <1>2 DEF RollInv, RollType, PassedInv, Counted
<1>4. ~raced' => PlanInv'
  <2> SUFFICES ASSUME ~raced' PROVE PlanInv'
    OBVIOUS
  <2>1. Cardinality(rows') = 0
    BY <1>1, FS_EmptySet DEF RollInv, PlanInv
  <2>2. Counted # {} => Capacity > 0
    BY DEF RollInv, PassedInv, Counted
  <2> QED
    BY <1>1, <1>3, <2>1, <2>2, PlanIsNumber DEF PlanInv
<1> QED
  BY <1>3, <1>4 DEF RollInv

LEMMA FinishFileKeeps ==
  ASSUME RollInv, FinishFile
  PROVE  RollInv'
<1>1. CASE Capacity < Cardinality(file)
  <2>1. Rollback /\ csv = "active"
    BY <1>1 DEF FinishFile, Rollback
  <2> QED
    BY <2>1, RollbackKeeps
<1>2. CASE ~(Capacity < Cardinality(file))
  <2>1. /\ csv = "active" /\ csv' = "done"
        /\ rows' = rows \cup buffer /\ buffer' = {}
        /\ raced' = (raced \/ Counted # {})
        /\ UNCHANGED <<asking, passed, file, unread>>
    BY <1>2 DEF FinishFile, InsertLines, Rollback, askVars
  <2>2. IsFiniteSet(file) /\ IsFiniteSet(buffer)
    <3>1. file \in SUBSET Lines /\ buffer \in SUBSET Lines
      BY DEF RollInv, RollType
    <3> QED
      BY <3>1, LinesFinite, FS_Subset
  <2>3. IsFiniteSet(rows')
    BY <2>1, <2>2, FS_Union DEF RollInv, RollType
  <2>4. RollType' /\ PassedInv' /\ Counted' = Counted
    BY <2>1, <2>3 DEF RollInv, RollType, PassedInv, Counted
  <2>5. ~raced' => PlanInv'
    <3> SUFFICES ASSUME ~raced' PROVE PlanInv'
      OBVIOUS
    <3>1. rows' \subseteq file /\ Counted' = {}
      BY <2>1, <2>4 DEF RollInv, RollType, PlanInv
    <3>2. Cardinality(rows') <= Cardinality(file)
      BY <2>2, <3>1, FS_Subset
    <3>3. Cardinality(rows') \in Nat /\ Cardinality(file) \in Nat
      BY <2>2, <2>3, FS_CardinalityType
    <3> QED
      BY <1>2, <2>1, <3>1, <3>2, <3>3, PlanIsNumber DEF PlanInv
  <2> QED
    BY <2>4, <2>5 DEF RollInv
<1> QED
  BY <1>1, <1>2

LEMMA RollKeeps == RollInv /\ RollNext => RollInv'
  BY AskKeeps, CheckKeeps, InsertVoterKeeps, DeleteVotersKeeps, UploadKeeps, ReadLineKeeps,
     FinishFileKeeps, RollbackKeeps
  DEF RollNext, RequestStep, FileStep, FileFault

LEMMA RollFrame ==
  ASSUME RollInv, UNCHANGED <<rows, askVars, csvVars, raced>>
  PROVE  RollInv'
  BY DEF RollInv, RollType, PassedInv, PlanInv, Counted, askVars, csvVars

LEMMA RollCrashKeeps ==
  ASSUME RollInv, RollCrash
  PROVE  RollInv'
<1>1. /\ asking' = [q \in Requests |-> IF asking[q] = "new" THEN "new" ELSE "done"]
      /\ csv' = IF csv = "active" THEN "dead" ELSE csv
      /\ UNCHANGED <<rows, passed, file, unread, buffer, raced>>
  BY DEF RollCrash
<1>2. RollType' /\ PassedInv' /\ Counted' = {}
  BY <1>1 DEF RollInv, RollType, PassedInv, Counted
<1> QED
  BY <1>1, <1>2 DEF RollInv, PlanInv

(***************************************************************************)
(* Who is flagged has a mail.                                              *)
(***************************************************************************)
MailInv ==
  /\ MailAccounted
  /\ worker \in {"record", "flag"} => current \in mailed \cup mailJobs \cup failed
  /\ addressee # Nobody => addressee \in mailed

LEMMA MailFrame ==
  ASSUME MailInv, UNCHANGED <<flagged, worker, current, mailJobs, mailerVars>>
  PROVE  MailInv'
  BY DEF MailInv, MailAccounted, mailerVars

LEMMA WorkerKeepsMail ==
  ASSUME MailInv, WorkerStep
  PROVE  MailInv'
<1>1. ASSUME NEW b \in Batches, TakeBatch(b) PROVE MailInv'
  <2>1. UNCHANGED <<flagged, mailVars, mailerVars>>
    BY <1>1 DEF TakeBatch
  <2>2. worker' \in {"last", "page"}
    BY <1>1 DEF TakeBatch, Work
  <2> QED
    BY <2>1, <2>2 DEF MailInv, MailAccounted, mailVars, mailerVars
<1>2. ASSUME NEW v \in Voters, SkipVoter(v) \/ QueueMail(v) PROVE MailInv'
  BY <1>2 DEF SkipVoter, QueueMail, Work, MailInv, MailAccounted, mailVars, mailerVars
<1>3. CASE EndBroadcast
  BY <1>3 DEF EndBroadcast, EndBatchJob, MailInv, MailAccounted, mailVars, mailerVars
<1>4. CASE RecordMail
  BY <1>4 DEF RecordMail, EndBatchJob, MailInv, MailAccounted, mailVars, mailerVars
<1>5. CASE FlagVoter
  BY <1>5 DEF FlagVoter, Work, MailInv, MailAccounted, mailVars, mailerVars
<1>6. CASE CloseBatch \/ QueueNextBatch \/ RecordNextBatch
  <2>1. UNCHANGED <<flagged, mailVars, mailerVars>>
    BY <1>6 DEF CloseBatch, QueueNextBatch, RecordNextBatch
  <2>2. worker' \in {"next", "write", "idle"}
    BY <1>6 DEF CloseBatch, QueueNextBatch, RecordNextBatch, Work, EndBatchJob
  <2> QED
    BY <2>1, <2>2 DEF MailInv, MailAccounted, mailVars, mailerVars
<1> QED
  BY <1>1, <1>2, <1>3, <1>4, <1>5, <1>6 DEF WorkerStep

LEMMA MailStepsKeepMail ==
  ASSUME MailInv, NEW v \in Voters, SendMail(v) \/ RequeueMail(v) \/ MailFault(v)
  PROVE  MailInv'
<1>1. CASE SendMail(v)
  BY <1>1 DEF SendMail, MailInv, MailAccounted, workerVars, mailVars
<1>2. CASE RequeueMail(v)
  BY <1>2 DEF RequeueMail, MailInv, MailAccounted, workerVars, mailerVars
<1>3. CASE MailFault(v)
  BY <1>3 DEF MailFault, MailInv, MailAccounted, workerVars
<1> QED
  BY <1>1, <1>2, <1>3

LEMMA OthersKeepMail ==
  ASSUME MailInv, ForgetMail \/ WorkerFault \/ Crash
  PROVE  MailInv'
<1>1. CASE ForgetMail
  BY <1>1 DEF ForgetMail, MailInv, MailAccounted, workerVars
<1>2. CASE WorkerFault
  BY <1>2 DEF WorkerFault, EndBatchJob, MailInv, MailAccounted, mailVars, mailerVars
<1>3. CASE Crash
  BY <1>3 DEF Crash, MailInv, MailAccounted, mailVars
<1> QED
  BY <1>1, <1>2, <1>3

(***************************************************************************)
(* How many batches a broadcast has.                                       *)
(***************************************************************************)
(* Who can be on the roll while there is a broadcast.                      *)
Everybody == IF Together THEN Voters ELSE Requests

(* Nothing of a broadcast is under way, nor will be.                       *)
NoBroadcast ==
  /\ broadcasts = MaxBroadcasts
  /\ ~starting
  /\ batchRecs = {}
  /\ worker = "idle"
  /\ \A b \in Batches : batchJob[b] = "none"

(* Without a file only requests add voters.                                *)
SourceInv ==
  /\ rows \subseteq Voters
  /\ file \cup buffer \subseteq Lines
  /\ csv = "never" => rows \subseteq Requests
  /\ ~Together /\ csv # "never" => NoBroadcast

LEMMA RollSources ==
  ASSUME SourceInv, RollNext
  PROVE  /\ rows' \subseteq Voters
         /\ file' \cup buffer' \subseteq Lines
         /\ csv' = "never" <=> csv = "never"
         /\ csv = "never" => rows' \subseteq Requests
<1> USE DEF SourceInv, Voters
<1> DEFINE Claim ==
      /\ rows' \subseteq Voters
      /\ file' \cup buffer' \subseteq Lines
      /\ csv' = "never" <=> csv = "never"
      /\ csv = "never" => rows' \subseteq Requests
<1>1. ASSUME NEW q \in Requests, RequestStep(q) PROVE Claim
  <2>1. UNCHANGED <<csv, file, buffer>>
    BY <1>1 DEF RequestStep, Ask, CountVoters, FindVoter, Check, InsertVoter, csvVars
  <2>2. rows' \subseteq rows \cup {q}
    BY <1>1 DEF RequestStep, Ask, CountVoters, FindVoter, Check, InsertVoter
  <2> QED
    BY <2>1, <2>2
<1>2. ASSUME NEW S \in SUBSET Voters, DeleteVoters(S) PROVE Claim
  BY <1>2 DEF DeleteVoters, csvVars
<1>3. ASSUME NEW S \in SUBSET Lines, UploadFile(S) PROVE Claim
  BY <1>3 DEF UploadFile
<1>4. ASSUME NEW x \in Lines, ReadLine(x) PROVE Claim
  BY <1>4 DEF ReadLine, InsertLines
<1>5. ASSUME Rollback, csv # "never" PROVE Claim
  BY <1>5 DEF Rollback
<1>6. CASE FinishFile
  <2>1. CASE Capacity < Cardinality(file)
    BY <1>5, <1>6, <2>1 DEF FinishFile
  <2>2. CASE ~(Capacity < Cardinality(file))
    BY <1>6, <2>2 DEF FinishFile, InsertLines
  <2> QED
    BY <2>1, <2>2
<1>7. CASE FileFault
  BY <1>5, <1>7 DEF FileFault
<1> QED
  BY <1>1, <1>2, <1>3, <1>4, <1>6, <1>7 DEF RollNext, FileStep

LEMMA NoBroadcastStays == NoBroadcast /\ SendNext => NoBroadcast'
<1> SUFFICES ASSUME NoBroadcast, SendNext PROVE NoBroadcast'
  OBVIOUS
<1> USE DEF NoBroadcast
<1>1. ~StartBroadcast /\ ~RecordBroadcast /\ ~WorkerFault
  <2>1. ~StartBroadcast
    <3>1. StartBroadcast => broadcasts < MaxBroadcasts
      BY DEF StartBroadcast
    <3>2. broadcasts = MaxBroadcasts /\ MaxBroadcasts \in Nat
      BY BoundsAreNumbers
    <3> HIDE DEF NoBroadcast
    <3> QED
      BY <3>1, <3>2
  <2>2. ~RecordBroadcast /\ ~WorkerFault
    BY DEF RecordBroadcast, WorkerFault
  <2> QED
    BY <2>1, <2>2
<1>2. \A b \in Batches : ~RequeueBatch(b) /\ ~TakeBatch(b)
  BY DEF RequeueBatch, TakeBatch
<1>3. ~WorkerStep
  BY <1>2 DEF WorkerStep, SkipVoter, QueueMail, EndBroadcast, RecordMail, FlagVoter, CloseBatch,
              QueueNextBatch, RecordNextBatch, Work
<1>4. UNCHANGED <<cronVars, batchVars, workerVars>>
  BY <1>1, <1>2, <1>3 DEF SendNext, RequeueMail, MailFault, MailerStep, SendMail, ForgetMail
<1> QED
  BY <1>4 DEF cronVars, batchVars, workerVars

LEMMA SourceKept == SourceInv /\ [Next]_vars => SourceInv'
<1> SUFFICES ASSUME SourceInv, [Next]_vars PROVE SourceInv'
  OBVIOUS
<1>1. CASE RollNext /\ UNCHANGED sendVars
  <2>1. NoBroadcast => NoBroadcast'
    BY <1>1 DEF NoBroadcast, sendVars, cronVars, batchVars, workerVars
  <2> QED
    BY <1>1, <2>1, RollSources DEF SourceInv
<1>2. CASE SendNext
  <2>1. UNCHANGED <<rows, csv, file, buffer>>
    BY <1>2 DEF SendNext, StartBroadcast, RecordBroadcast, RequeueBatch, RequeueMail, MailFault,
                WorkerStep, TakeBatch, SkipVoter, QueueMail, EndBroadcast, RecordMail, FlagVoter,
                CloseBatch, QueueNextBatch, RecordNextBatch, MailerStep, SendMail, ForgetMail,
                WorkerFault, rollVars, csvVars
  <2> QED
    BY <1>2, <2>1, NoBroadcastStays DEF SourceInv
<1>3. CASE Crash
  <2>1. UNCHANGED <<rows, file, buffer>> /\ (csv' = "never" <=> csv = "never")
    BY <1>3 DEF Crash, RollCrash
  <2>2. NoBroadcast => NoBroadcast'
    BY <1>3 DEF Crash, NoBroadcast
  <2> QED
    BY <2>1, <2>2 DEF SourceInv
<1>4. CASE UNCHANGED vars
  BY <1>4 DEF vars, rollVars, csvVars, sendVars, cronVars, batchVars, workerVars, SourceInv,
              NoBroadcast
<1> QED
  BY <1>1, <1>2, <1>3, <1>4 DEF Next

(* The worker has a page with voters on it, or is through with one, only   *)
(* of a batch that begins within the roll as the worker has read it.       *)
BatchInv ==
  /\ batch \in Batches
  /\ worker \in {"page", "record", "flag", "next", "write"} =>
       PerPage * (batch - 1) < Cardinality(Everybody)

LEMMA TakeKeepsBatch ==
  ASSUME IsFiniteSet(Requests), SourceInv, NEW b \in Batches, TakeBatch(b)
  PROVE  BatchInv'
<1>1. /\ batchJob[b] = "waiting"
      /\ batch' = b
  BY DEF TakeBatch
<1>2. PICK S \in Pages(b) : worker' = IF S = {} THEN "last" ELSE "page"
  BY DEF TakeBatch, Work
<1>3. IsFiniteSet(Everybody) /\ rows \subseteq Everybody
  <2>1. IsFiniteSet(Voters)
    BY LinesFinite, FS_Union DEF Voters
  <2> QED
    BY <1>1, <2>1 DEF Everybody, SourceInv, NoBroadcast
<1>4. /\ IsFiniteSet(rows)
      /\ Cardinality(rows) <= Cardinality(Everybody)
      /\ Cardinality(rows) \in Nat /\ Cardinality(Everybody) \in Nat
  BY <1>3, FS_Subset, FS_CardinalityType
<1>5. PerPage * (b - 1) \in Int
  BY PagesNotEmpty, BoundsAreNumbers DEF Batches
<1>6. S # {} => Cardinality(rows) > PerPage * (b - 1)
  <2> SUFFICES ASSUME S # {}, ~(Cardinality(rows) > PerPage * (b - 1)) PROVE FALSE
    OBVIOUS
  <2>1. PageSize(b) = 0
    BY PagesNotEmpty DEF PageSize
  <2>2. S \in SUBSET rows /\ Cardinality(S) = 0
    BY <1>2, <2>1 DEF Pages
  <2> QED
    BY <1>4, <2>2, FS_Subset, FS_EmptySet
<1>7. worker' # "last" => PerPage * (b - 1) < Cardinality(Everybody)
  BY <1>2, <1>4, <1>5, <1>6
<1> QED
  BY <1>1, <1>2, <1>7 DEF BatchInv

LEMMA BatchKept ==
  ASSUME IsFiniteSet(Requests), SourceInv, BatchInv, [Next]_vars
  PROVE  BatchInv'
<1> USE DEF BatchInv
<1>1. 1 \in Batches
  BY BoundsAreNumbers DEF Batches
<1>2. CASE UNCHANGED workerVars
  BY <1>2 DEF workerVars, Everybody
<1>3. CASE batch' = 1 /\ worker' = "idle"
  BY <1>1, <1>3
<1>4. CASE WorkerStep
  <2>1. ASSUME NEW v \in Voters, SkipVoter(v) \/ QueueMail(v) PROVE BatchInv'
    BY <2>1 DEF SkipVoter, QueueMail, Work, Everybody
  <2>2. CASE EndBroadcast \/ RecordNextBatch
    BY <1>3, <2>2 DEF EndBroadcast, RecordNextBatch, EndBatchJob
  <2>3. CASE RecordMail
    BY <1>3, <2>3 DEF RecordMail, EndBatchJob, Everybody
  <2>4. CASE FlagVoter \/ CloseBatch \/ QueueNextBatch
    BY <2>4 DEF FlagVoter, CloseBatch, QueueNextBatch, Work, Everybody
  <2> QED
    BY <1>4, <2>1, <2>2, <2>3, <2>4, TakeKeepsBatch DEF WorkerStep
<1>5. CASE WorkerFault \/ Crash
  BY <1>3, <1>5 DEF WorkerFault, EndBatchJob, Crash
<1>6. CASE UNCHANGED sendVars
  BY <1>2, <1>6 DEF sendVars
<1>7. CASE \/ StartBroadcast \/ RecordBroadcast \/ MailerStep
           \/ \E b \in Batches : RequeueBatch(b)
           \/ \E v \in Voters : RequeueMail(v) \/ MailFault(v)
  BY <1>2, <1>7 DEF StartBroadcast, RecordBroadcast, MailerStep, SendMail, ForgetMail,
                    RequeueBatch,
                    RequeueMail, MailFault
<1> QED
  BY <1>4, <1>5, <1>6, <1>7 DEF Next, SendNext, vars

(***************************************************************************)
(* The theorems.                                                           *)
(***************************************************************************)
Inv == RollInv /\ MailInv

LEMMA InvInductive == Inv /\ [Next]_vars => Inv'
<1> SUFFICES ASSUME Inv, [Next]_vars PROVE Inv'
  OBVIOUS
<1>1. RollInv'
  <2>1. CASE RollNext
    BY <2>1, RollKeeps DEF Inv
  <2>2. CASE SendNext
    <3>1. UNCHANGED <<rows, askVars, csvVars, raced>>
      BY <2>2 DEF SendNext, StartBroadcast, RecordBroadcast, RequeueBatch, RequeueMail, MailFault,
                  WorkerStep, TakeBatch, SkipVoter, QueueMail, EndBroadcast, RecordMail, FlagVoter,
                  CloseBatch, QueueNextBatch, RecordNextBatch, MailerStep, SendMail, ForgetMail,
                  WorkerFault, rollVars
    <3> QED
      BY <3>1, RollFrame DEF Inv
  <2>3. CASE Crash
    BY <2>3, RollCrashKeeps DEF Inv, Crash
  <2>4. CASE UNCHANGED vars
    BY <2>4, RollFrame DEF Inv, vars, rollVars
  <2> QED
    BY <2>1, <2>2, <2>3, <2>4 DEF Next
<1>2. MailInv'
  <2>1. CASE UNCHANGED sendVars
    BY <2>1, MailFrame DEF Inv, sendVars, workerVars, mailVars
  <2>2. CASE StartBroadcast \/ RecordBroadcast \/ \E b \in Batches : RequeueBatch(b)
    BY <2>2, MailFrame
    DEF Inv, StartBroadcast, RecordBroadcast, RequeueBatch, workerVars, mailVars
  <2>3. CASE WorkerStep
    BY <2>3, WorkerKeepsMail DEF Inv
  <2>4. CASE MailerStep \/ \E v \in Voters : RequeueMail(v) \/ MailFault(v)
    BY <2>4, MailStepsKeepMail, OthersKeepMail DEF Inv, MailerStep
  <2>5. CASE WorkerFault \/ Crash
    BY <2>5, OthersKeepMail DEF Inv
  <2> QED
    BY <2>1, <2>2, <2>3, <2>4, <2>5 DEF Next, SendNext, vars
<1> QED
  BY <1>1, <1>2 DEF Inv

LEMMA AlwaysInv == Spec => []Inv
<1>1. Init => Inv
  BY RollStart DEF Init, Inv, MailInv, MailAccounted
<1> QED
  BY <1>1, InvInductive, PTL DEF Spec

(* The roll outgrows the plan only while a file is being read or after the *)
(* process died reading it, or when a registration was counted while       *)
(* another one or a file was under way.                                    *)
THEOREM WithinPlanHolds == Spec => []WithinPlan
<1>1. Inv => WithinPlan
  <2> SUFFICES ASSUME Inv, ~raced, csv \notin {"active", "dead"} PROVE ~(Cardinality(rows) > Capacity)
    BY DEF WithinPlan
  <2>1. Cardinality(rows) <= Capacity
    BY DEF Inv, RollInv, PlanInv
  <2>2. Cardinality(rows) \in Nat /\ Capacity \in Nat
    BY FS_CardinalityType, PlanIsNumber DEF Inv, RollInv, RollType
  <2> QED
    BY <2>1, <2>2
<1> QED
  BY <1>1, AlwaysInv, PTL

(* A voter is flagged only when the mail was sent, is queued or failed,    *)
(* whatever is deleted, repeated or crashes between the three databases.   *)
THEOREM MailAccountedHolds == Spec => []MailAccounted
<1>1. Inv => MailAccounted
  BY DEF Inv, MailInv
<1> QED
  BY <1>1, AlwaysInv, PTL

(* A broadcast has no more batches than the roll can have pages, and the   *)
(* empty one that ends it, whatever is added, deleted, repeated or crashes *)
(* while it goes on: a worker that wants to queue the next batch finds it  *)
(* within MaxBatch when that many pages hold everybody.                    *)
THEOREM NextBatchWithinBound ==
  ASSUME IsFiniteSet(Requests), PerPage * (MaxBatch - 1) >= Cardinality(Everybody)
  PROVE  Spec => [](worker = "next" => batch < MaxBatch)
<1>1. Init => SourceInv /\ BatchInv
  BY BoundsAreNumbers DEF Init, RollInit, SourceInv, NoBroadcast, BatchInv, Batches
<1>2. SourceInv /\ BatchInv /\ [Next]_vars => (SourceInv /\ BatchInv)'
  BY SourceKept, BatchKept
<1>3. SourceInv /\ BatchInv => (worker = "next" => batch < MaxBatch)
  <2> SUFFICES ASSUME BatchInv, worker = "next", ~(batch < MaxBatch) PROVE FALSE
    OBVIOUS
  <2>1. batch = MaxBatch
    BY BoundsAreNumbers DEF BatchInv, Batches
  <2>2. IsFiniteSet(Everybody)
    BY LinesFinite, FS_Union DEF Everybody, Voters
  <2>3. Cardinality(Everybody) \in Nat /\ PerPage * (MaxBatch - 1) \in Int
    BY <2>2, FS_CardinalityType, PagesNotEmpty, BoundsAreNumbers
  <2> QED
    BY <2>1, <2>3 DEF BatchInv
<1> QED
  BY <1>1, <1>2, <1>3, PTL DEF Spec
=============================================================================
