------------------------------ MODULE VoterRoll ------------------------------
(***************************************************************************)
(* How voters get on the roll of one paid election of smooth-ballot, and   *)
(* off it again.                                                           *)
(*                                                                         *)
(* An administrator adds voters one by one, people fill the accreditation  *)
(* form, and a CSV file is read by a queue worker.  A request counts the   *)
(* voters and looks for the email, each in a query of its own, and inserts *)
(* a row later; no key of the table is unique but the id.  The worker      *)
(* inserts rows chunk by chunk and compares the length of the file with    *)
(* the plan when it has read it all.  Its Bull job is over as soon as it   *)
(* has begun to read: nothing repeats it.                                  *)
(*                                                                         *)
(* The election has not started and is not disabled, and its plan stays.   *)
(* A row is named by the request or the line of the file it comes from.    *)
(***************************************************************************)
EXTENDS Naturals, FiniteSets

CONSTANTS
  Requests,  \* requests that add a voter, each made at most once
  Forms,     \* those of them that come through the accreditation form
  Lines,     \* lines a CSV file may have
  Email,     \* the email of each request and line
  Capacity,  \* no_of_voters of the last billing
  Chunk,     \* rows the worker inserts at a time
  Faults,    \* the kinds of fault that can happen
  MaxFaults  \* bound of the model: how many faults happen in all

Voters     == Requests \cup Lines
FaultKinds == {"csv", "job", "mail", "crash"}

ASSUME SourcesKnown == Forms \subseteq Requests /\ Requests \cap Lines = {}
ASSUME LinesFinite == IsFiniteSet(Lines)
ASSUME PlanIsNumber == Capacity \in Nat /\ Chunk \in Nat \ {0}
ASSUME FaultsBounded == Faults \subseteq FaultKinds /\ MaxFaults \in Nat

VARIABLES
  rows,    \* rows of Voters of the election
  asking,  \* how far each request is
  passed,  \* the checks it has passed
  csv,     \* how far the population of the roll from a file is, if there ever is one
  file,    \* the lines of the file
  unread,  \* those not read yet
  buffer,  \* lines read and not inserted yet
  raced,   \* history: a row was inserted on a count that another changed
  faults   \* faults so far

askVars  == <<asking, passed>>
csvVars  == <<csv, file, unread, buffer>>
rollVars == <<rows, askVars, csvVars, raced, faults>>

RollInit ==
  /\ rows   = {}
  /\ asking = [q \in Requests |-> "new"]
  /\ passed = [q \in Requests |-> {}]
  /\ csv    \in {"none", "never"}
  /\ file   = {}
  /\ unread = {}
  /\ buffer = {}
  /\ raced  = FALSE
  /\ faults = 0

Fault(k) ==
  /\ k \in Faults
  /\ faults < MaxFaults
  /\ faults' = faults + 1

Emails(S) == {Email[v] : v \in S}

(* Requests that have counted the voters and not inserted theirs.          *)
Counted == {q \in Requests : asking[q] = "check" /\ "count" \in passed[q]}

(***************************************************************************)
(* Requests.                                                               *)
(***************************************************************************)
Ask(q) ==
  /\ asking[q] = "new"
  /\ asking' = [asking EXCEPT ![q] = "check"]
  /\ UNCHANGED <<rows, passed, csvVars, raced, faults>>

(* A check lets the request go on, or answers it.                          *)
Check(q, c, ok) ==
  /\ asking[q] = "check"
  /\ c \notin passed[q]
  /\ IF ok
       THEN passed' = [passed EXCEPT ![q] = @ \cup {c}] /\ UNCHANGED asking
       ELSE asking' = [asking EXCEPT ![q] = "done"] /\ UNCHANGED passed
  /\ UNCHANGED <<rows, csvVars, raced, faults>>

CountVoters(q) == Check(q, "count", Cardinality(rows) < Capacity)

(* The form looks for the email after the count, create_voter asks for     *)
(* both at once.                                                           *)
FindVoter(q) ==
  /\ q \in Forms => "count" \in passed[q]
  /\ Check(q, "email", Email[q] \notin Emails(rows))

InsertVoter(q) ==
  /\ asking[q] = "check"
  /\ passed[q] = {"count", "email"}
  /\ rows' = rows \cup {q}
  /\ asking' = [asking EXCEPT ![q] = "done"]
  /\ raced' = (raced \/ csv \in {"waiting", "active"} \/ Counted # {q})
  /\ UNCHANGED <<passed, csvVars, faults>>

(* One voter, some, or all of them.                                        *)
DeleteVoters(S) ==
  /\ S # {}
  /\ S \subseteq rows
  /\ rows' = rows \ S
  /\ UNCHANGED <<askVars, csvVars, raced, faults>>

(***************************************************************************)
(* The file.                                                               *)
(***************************************************************************)
UploadFile(S) ==
  /\ csv = "none"
  /\ rows = {}
  /\ S # {}
  /\ csv' = "waiting"
  /\ file' = S
  /\ unread' = S
  /\ UNCHANGED <<rows, askVars, buffer, raced, faults>>

InsertLines(S) ==
  /\ rows' = rows \cup S
  /\ buffer' = {}
  /\ raced' = (raced \/ Counted # {})

ReadLine(x) ==
  /\ csv \in {"waiting", "active"}
  /\ x \in unread
  /\ csv' = "active"
  /\ unread' = unread \ {x}
  /\ IF Cardinality(buffer) + 1 = Chunk
       THEN InsertLines(buffer \cup {x})
       ELSE buffer' = buffer \cup {x} /\ UNCHANGED <<rows, raced>>
  /\ UNCHANGED <<askVars, file, faults>>

(* rollback_voters_population_process: the rows of this job are deleted.   *)
Rollback ==
  /\ rows' = rows \ file
  /\ csv' = "failed"
  /\ unread' = {}
  /\ buffer' = {}
  /\ UNCHANGED <<askVars, file, raced>>

FinishAnyFile ==  \* mutant: the length of the file is not compared
  /\ csv = "active"
  /\ unread = {}
  /\ InsertLines(buffer)
  /\ csv' = "done"
  /\ UNCHANGED <<askVars, file, unread, faults>>

(* The length of the file, not that of the roll, is held against the plan. *)
FinishFile ==
  /\ csv = "active"
  /\ unread = {}
  /\ IF Capacity < Cardinality(file)
       THEN Rollback
       ELSE /\ InsertLines(buffer)
            /\ csv' = "done"
            /\ UNCHANGED <<askVars, file, unread>>
  /\ UNCHANGED faults

FileFault ==
  /\ csv \in {"waiting", "active"}
  /\ Fault("csv")
  /\ Rollback

(* The process dies, and its requests and its reading of the file with it. *)
RollCrash ==
  /\ asking' = [q \in Requests |-> IF asking[q] = "new" THEN "new" ELSE "done"]
  /\ csv' = IF csv = "active" THEN "dead" ELSE csv
  /\ UNCHANGED <<rows, passed, file, unread, buffer, raced>>

RequestStep(q) == Ask(q) \/ CountVoters(q) \/ FindVoter(q) \/ InsertVoter(q)

FileStep ==
  \/ \E S \in SUBSET Lines : UploadFile(S)
  \/ \E x \in Lines : ReadLine(x)
  \/ FinishFile
  \/ FileFault

RollNext ==
  \/ \E q \in Requests : RequestStep(q)
  \/ \E S \in SUBSET Voters : DeleteVoters(S)
  \/ FileStep

(***************************************************************************)
(* Properties.                                                             *)
(***************************************************************************)
(* The roll outgrows the plan only while a file is being read, when a      *)
(* registration was counted while another or a file was under way, or when *)
(* the process died before it had read a file: the rows are inserted       *)
(* before the length of the file is compared and stay.                     *)
WithinPlan ==
  Cardinality(rows) > Capacity => raced \/ csv \in {"active", "dead"}
=============================================================================
