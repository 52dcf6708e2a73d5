-------------------------- MODULE VoterCredentials --------------------------
(***************************************************************************)
(* How the voters of VoterRoll are sent their credentials.                 *)
(*                                                                         *)
(* Once a day a cron queues the first batch of every election that is due. *)
(* A worker handles a batch: it reads one page of the roll, queues a mail  *)
(* for every voter not flagged yet, flags the voter, and queues the next   *)
(* batch; an empty page ends the broadcast.  Another worker sends the      *)
(* mails.  Mongo keeps a record of every queued batch and mail, which is   *)
(* deleted when it is done; two crons queue again what is still recorded.  *)
(*                                                                         *)
(* Queue, record and flag are written one after the other in three         *)
(* different databases.  Bull ignores a job whose id it knows, and knows   *)
(* the ids of ended jobs too, unless they were added to be removed.        *)
(*                                                                         *)
(* The pages have no ORDER BY: a page is any set of rows of its size.      *)
(***************************************************************************)
EXTENDS VoterRoll

CONSTANTS
  PerPage,       \* voters per batch
  Nobody,        \* no voter
  MaxBroadcasts, \* bound of the model: days the broadcast cron runs
  MaxBatch,      \* bound of the model: batches of a broadcast, the empty one too
  Together       \* bound of the model: whether one behaviour has both a file and broadcasts

ASSUME PagesNotEmpty == PerPage \in Nat \ {0}
ASSUME BoundsAreNumbers ==
  MaxBroadcasts \in Nat /\ MaxBatch \in Nat \ {0} /\ Together \in BOOLEAN
ASSUME NobodyIsNoVoter == Nobody \notin Voters

Batches == 1..MaxBatch

VARIABLES
  flagged,     \* voters with has_sent_voters_auth_credential
  broadcasts,  \* runs of the broadcast cron so far
  starting,    \* the cron has queued batch 1 and not recorded it yet
  batchJob,    \* the Bull job of each batch
  kept,        \* batches whose job was added without removeOnComplete/Fail
  batchRecs,   \* records of VoterAuthEmailBatchJob
  worker,      \* where the batch worker is
  batch,       \* the batch it handles
  page,        \* voters of the page it has not handled yet
  current,     \* the voter it handles
  mailJobs,    \* Bull jobs of mails, the active one among them
  mailRecs,    \* records of VotersAuthEmailJob
  addressee,   \* the voter whose mail is sent and its record not deleted yet
  mailed,      \* history: voters whose credentials were sent
  failed       \* history: voters a mail to whom has failed

batchVars  == <<batchJob, kept, batchRecs>>
workerVars == <<worker, batch, page, current>>
mailVars   == <<mailJobs, mailRecs>>
mailerVars == <<addressee, mailed, failed>>
cronVars   == <<broadcasts, starting>>
sendVars   == <<flagged, cronVars, batchVars, workerVars, mailVars, mailerVars>>
vars       == <<rollVars, sendVars>>

Init ==
  /\ RollInit
  /\ flagged    = {}
  /\ broadcasts \in {0, MaxBroadcasts}
  /\ Together \/ csv = "never" \/ broadcasts = MaxBroadcasts
  /\ starting   = FALSE
  /\ batchJob   = [b \in Batches |-> "none"]
  /\ kept       = {}
  /\ batchRecs  = {}
  /\ worker     = "idle"
  /\ batch      = 1
  /\ page       = {}
  /\ current    = Nobody
  /\ mailJobs   = {}
  /\ mailRecs   = {}
  /\ addressee  = Nobody
  /\ mailed     = {}
  /\ failed     = {}

(***************************************************************************)
(* Bull.                                                                   *)
(***************************************************************************)
(* keep: the job was added without removeOnComplete and removeOnFail.      *)
AddBatchJob(b, keep) ==
  IF batchJob[b] = "none"
    THEN /\ batchJob' = [batchJob EXCEPT ![b] = "waiting"]
         /\ kept' = IF keep THEN kept \cup {b} ELSE kept
    ELSE UNCHANGED <<batchJob, kept>>

(* The job returns or throws: it is removed, or its id stays taken.        *)
EndBatchJob ==
  /\ batchJob' = [batchJob EXCEPT ![batch] = IF batch \in kept THEN "ended" ELSE "none"]
  /\ worker' = "idle"
  /\ batch' = 1
  /\ page' = {}
  /\ current' = Nobody
  /\ UNCHANGED kept

Work(from, to) ==
  /\ worker = from
  /\ worker' = to

(***************************************************************************)
(* Crons.                                                                  *)
(***************************************************************************)
StartBroadcast ==
  /\ ~starting
  /\ broadcasts < MaxBroadcasts
  /\ broadcasts' = broadcasts + 1
  /\ starting' = TRUE
  /\ AddBatchJob(1, FALSE)
  /\ UNCHANGED <<rollVars, flagged, batchRecs, workerVars, mailVars, mailerVars>>

(* A record that exists makes the insert fail, and the error is logged.    *)
RecordBroadcast ==
  /\ starting
  /\ starting' = FALSE
  /\ batchRecs' = batchRecs \cup {1}
  /\ UNCHANGED <<rollVars, flagged, broadcasts, batchJob, kept, workerVars, mailVars,
                 mailerVars>>

RequeueBatch(b) ==
  /\ b \in batchRecs
  /\ AddBatchJob(b, FALSE)
  /\ UNCHANGED <<rollVars, flagged, cronVars, batchRecs, workerVars, mailVars,
                 mailerVars>>

(* The record of a flagged voter is deleted, whether the mail was sent or  *)
(* not.  The record of a deleted voter makes the cron throw.               *)
RequeueMail(v) ==
  /\ v \in mailRecs \cap rows
  /\ IF v \in flagged
       THEN mailRecs' = mailRecs \ {v} /\ UNCHANGED mailJobs
       ELSE mailJobs' = mailJobs \cup {v} /\ UNCHANGED mailRecs
  /\ UNCHANGED <<rollVars, flagged, cronVars, batchVars, workerVars, mailerVars>>

(***************************************************************************)
(* The batch worker: send_batched_voters_credentials.                      *)
(***************************************************************************)
PageSize(b) ==
  LET before == PerPage * (b - 1)
      left   == IF Cardinality(rows) > before THEN Cardinality(rows) - before ELSE 0
  IN  IF left < PerPage THEN left ELSE PerPage

Pages(b) == {S \in SUBSET rows : Cardinality(S) = PageSize(b)}

TakeAndFlag(b) ==  \* mutant: the voters of the page are flagged first
  /\ batchJob[b] = "waiting"
  /\ batchJob' = [batchJob EXCEPT ![b] = "active"]
  /\ batch' = b
  /\ \E S \in Pages(b) :
       /\ page' = S
       /\ flagged' = flagged \cup S
       /\ Work("idle", IF S = {} THEN "last" ELSE "page")
  /\ UNCHANGED <<rollVars, cronVars, kept, batchRecs, current, mailVars, mailerVars>>

TakeBatch(b) ==
  /\ batchJob[b] = "waiting"
  /\ batchJob' = [batchJob EXCEPT ![b] = "active"]
  /\ batch' = b
  /\ \E S \in Pages(b) :
       /\ page' = S
       /\ Work("idle", IF S = {} THEN "last" ELSE "page")
  /\ UNCHANGED <<rollVars, flagged, cronVars, kept, batchRecs, current, mailVars,
                 mailerVars>>

EndBroadcast ==
  /\ worker = "last"
  /\ batchRecs' = batchRecs \ {batch}
  /\ EndBatchJob
  /\ UNCHANGED <<rollVars, flagged, cronVars, mailVars, mailerVars>>

SkipVoter(v) ==
  /\ worker = "page"
  /\ v \in page \cap flagged
  /\ page' = page \ {v}
  /\ mailRecs' = mailRecs \ {v}
  /\ UNCHANGED <<rollVars, flagged, cronVars, batchVars, worker, batch, current, mailJobs,
                 mailerVars>>

QueueMail(v) ==
  /\ Work("page", "record")
  /\ v \in page \ flagged
  /\ page' = page \ {v}
  /\ current' = v
  /\ mailJobs' = mailJobs \cup {v}
  /\ UNCHANGED <<rollVars, flagged, cronVars, batchVars, batch, mailRecs, mailerVars>>

(* The job fails when the mail is recorded already.                        *)
RecordMail ==
  /\ worker = "record"
  /\ IF current \in mailRecs
       THEN EndBatchJob /\ UNCHANGED mailRecs
       ELSE /\ worker' = "flag"
            /\ mailRecs' = mailRecs \cup {current}
            /\ UNCHANGED <<batchJob, kept, batch, page, current>>
  /\ UNCHANGED <<rollVars, flagged, cronVars, batchRecs, mailJobs, mailerVars>>

FlagVoter ==
  /\ Work("flag", "page")
  /\ flagged' = flagged \cup ({current} \cap rows)
  /\ current' = Nobody
  /\ UNCHANGED <<rollVars, cronVars, batchVars, batch, page, mailVars, mailerVars>>

CloseWithoutTrace ==  \* mutant: the record of the batch is not deleted
  /\ Work("page", "next")
  /\ page = {}
  /\ UNCHANGED <<rollVars, flagged, cronVars, batchVars, batch, page, current, mailVars,
                 mailerVars>>

CloseBatch ==
  /\ Work("page", "next")
  /\ page = {}
  /\ batchRecs' = batchRecs \ {batch}
  /\ UNCHANGED <<rollVars, flagged, cronVars, batchJob, kept, batch, page, current, mailVars,
                 mailerVars>>

QueueNextBatch ==
  /\ Work("next", "write")
  /\ batch < MaxBatch
  /\ AddBatchJob(batch + 1, TRUE)
  /\ UNCHANGED <<rollVars, flagged, cronVars, batchRecs, batch, page, current, mailVars,
                 mailerVars>>

(* The job ends, with an error when the next batch is recorded already.    *)
RecordNextBatch ==
  /\ worker = "write"
  /\ batchRecs' = batchRecs \cup {batch + 1}
  /\ EndBatchJob
  /\ UNCHANGED <<rollVars, flagged, cronVars, mailVars, mailerVars>>

(* One of its calls to a database throws.                                  *)
WorkerFault ==
  /\ worker # "idle"
  /\ Fault("job")
  /\ EndBatchJob
  /\ UNCHANGED <<rows, askVars, csvVars, raced, flagged, cronVars, batchRecs, mailVars,
                 mailerVars>>

(***************************************************************************)
(* The mail worker.                                                        *)
(***************************************************************************)
SendMail(v) ==
  /\ addressee = Nobody
  /\ v \in mailJobs
  /\ addressee' = v
  /\ mailed' = mailed \cup {v}
  /\ UNCHANGED <<rollVars, flagged, cronVars, batchVars, workerVars, mailVars, failed>>

ForgetMail ==
  /\ addressee # Nobody
  /\ addressee' = Nobody
  /\ mailJobs' = mailJobs \ {addressee}
  /\ mailRecs' = mailRecs \ {addressee}
  /\ UNCHANGED <<rollVars, flagged, cronVars, batchVars, workerVars, mailed, failed>>

(* The mail cannot be sent, or its record not deleted.                     *)
MailFault(v) ==
  /\ v \in mailJobs
  /\ addressee \in {Nobody, v}
  /\ Fault("mail")
  /\ addressee' = Nobody
  /\ mailJobs' = mailJobs \ {v}
  /\ failed' = failed \cup {v}
  /\ UNCHANGED <<rows, askVars, csvVars, raced, flagged, cronVars, batchVars, workerVars,
                 mailRecs, mailed>>

(***************************************************************************)
(* The process dies; Bull gives its jobs to the next one.                  *)
(***************************************************************************)
Crash ==
  /\ Fault("crash")
  /\ RollCrash
  /\ starting' = FALSE
  /\ batchJob' = [b \in Batches |-> IF batchJob[b] = "active" THEN "waiting" ELSE batchJob[b]]
  /\ worker' = "idle"
  /\ batch' = 1
  /\ page' = {}
  /\ current' = Nobody
  /\ addressee' = Nobody
  /\ UNCHANGED <<flagged, broadcasts, kept, batchRecs, mailVars, mailed, failed>>

(***************************************************************************)
(* The system.                                                             *)
(***************************************************************************)
WorkerStep ==
  \/ \E b \in Batches : TakeBatch(b)
  \/ \E v \in Voters : SkipVoter(v) \/ QueueMail(v)
  \/ EndBroadcast \/ RecordMail \/ FlagVoter
  \/ CloseBatch \/ QueueNextBatch \/ RecordNextBatch

MailerStep == (\E v \in Voters : SendMail(v)) \/ ForgetMail

SendNext ==
  \/ StartBroadcast
  \/ RecordBroadcast
  \/ \E b \in Batches : RequeueBatch(b)
  \/ \E v \in Voters : RequeueMail(v) \/ MailFault(v)
  \/ WorkerStep
  \/ MailerStep
  \/ WorkerFault

Next ==
  \/ RollNext /\ UNCHANGED sendVars
  \/ SendNext
  \/ Crash

Spec == Init /\ [][Next]_vars

(* Workers go on with their jobs and the cron for batches comes back.  The *)
(* cron for mails may never come to a record: one of a deleted voter makes *)
(* it throw.                                                               *)
Fairness ==
  /\ WF_vars(RecordBroadcast)
  /\ WF_vars(\E b \in Batches : RequeueBatch(b))
  /\ WF_vars(WorkerStep)
  /\ WF_vars(MailerStep)

FairSpec == Spec /\ Fairness

(***************************************************************************)
(* Properties.                                                             *)
(***************************************************************************)
(* A flagged voter is never sent credentials again; so the flag is set     *)
(* only for a voter whose mail was sent, is in the queue, or failed: flag, *)
(* record and job are in three databases and the flag comes before the     *)
(* mail.                                                                   *)
MailAccounted == flagged \subseteq mailed \cup mailJobs \cup failed

(* What is recorded as a batch to handle is handled in the end, whatever   *)
(* job fails on the way, even when a mail is recorded already and fails    *)
(* the batch again, unless Bull still knows an ended job of its id.        *)
BroadcastEnds ==
  \A b \in Batches :
    b \in batchRecs ~> b \notin batchRecs \/ batchJob[b] = "ended"
=============================================================================
