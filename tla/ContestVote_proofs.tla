------------------------- MODULE ContestVote_proofs -------------------------
(***************************************************************************)
(* Proofs about ContestVote, for every set of sessions, deliveries,        *)
(* workers and confirm requests and for every combination of faults.       *)
(***************************************************************************)
EXTENDS ContestVote, TLAPS, FiniteSetTheorems

(* Adding a payment to, or taking one from, a count per session.           *)
LEMMA AddType ==
  ASSUME NEW f \in [Sessions -> Nat], NEW s \in Sessions
  PROVE  Add(f, s) \in [Sessions -> Nat]
  BY DEF Add

LEMMA TakeOneType ==
  ASSUME NEW f \in [Sessions -> Nat], NEW s \in Sessions
  PROVE  TakeOne(f, s) \in [Sessions -> Nat]
  BY DEF TakeOne

(* The processors' part of the type invariant, kept by leaving and by      *)
(* going on in process_contest_vote.                                       *)
ProcType ==
  /\ pc \in [Processors -> ProcPC]
  /\ job \in [Processors -> Sessions \cup {NoSession}]
  /\ snap \in [Processors -> SUBSET Processors]
  /\ doomed \subseteq Processors
  /\ \A p \in Processors : pc[p] # "idle" => job[p] \in Sessions

LEMMA ReleaseType ==
  ASSUME ProcType, NEW p \in Processors, Release(p)
  PROVE  ProcType'
  BY DEF ProcType, Release, ProcPC

LEMMA GotoType ==
  ASSUME ProcType, NEW p \in Processors, NEW from, NEW to \in ProcPC,
         from # "idle", Goto(p, from, to)
  PROVE  ProcType'
  BY DEF ProcType, Goto

(* Every action keeps the types, whatever the configuration.               *)
LEMMA TypeStep == TypeOK /\ [Next]_vars => TypeOK'
<1> SUFFICES ASSUME TypeOK, [Next]_vars PROVE TypeOK'
  OBVIOUS
<1> USE DEF TypeOK, HookPC, ProcPC, PreTxn, InTxn, Processors, payVars, jobVars,
            bookVars, procVars, envVars
<1>1. CASE EndContest BY <1>1 DEF EndContest
<1>2. CASE ReopenContest
  <2>1. faults' \in Nat
    BY <1>2 DEF ReopenContest, Fault
  <2> QED
    BY <1>2, <2>1 DEF ReopenContest
<1>3. ASSUME NEW s \in Sessions, OpenSession(s) PROVE TypeOK'
  BY <1>3 DEF OpenSession
<1>4. ASSUME NEW s \in Sessions, Pay(s) PROVE TypeOK'
  BY <1>4 DEF Pay
<1>5. ASSUME NEW s \in Sessions, NEW d \in Deliveries, ReceiveWebhook(s, d)
      PROVE  TypeOK'
  BY <1>5 DEF ReceiveWebhook, HookStep
<1>6. ASSUME NEW s \in Sessions, NEW d \in Deliveries, ResolveVote(s, d)
      PROVE  TypeOK'
  BY <1>6 DEF ResolveVote, HookStep
<1>7. ASSUME NEW s \in Sessions, NEW d \in Deliveries, EnqueueVote(s, d)
      PROVE  TypeOK'
  BY AddType, <1>7 DEF EnqueueVote, HookStep
<1>8. ASSUME NEW s \in Sessions, NEW d \in Deliveries, CreateLog(s, d)
      PROVE  TypeOK'
  BY AddType, <1>8 DEF CreateLog, HookStep
<1>9. ASSUME NEW s \in Sessions, NEW d \in Deliveries, DeleteMetadata(s, d)
      PROVE  TypeOK'
  BY <1>9 DEF DeleteMetadata, HookStep
<1>10. ASSUME NEW s \in Sessions, NEW d \in Deliveries, WebhookFault(s, d)
       PROVE  TypeOK'
  BY <1>10 DEF WebhookFault, Fault
<1>11. ASSUME NEW b \in SUBSET Sessions, StartAudit(b) PROVE TypeOK'
  BY <1>11 DEF StartAudit
<1>12. ASSUME NEW s \in Sessions, RequeueStale(s) PROVE TypeOK'
  BY AddType, <1>12 DEF RequeueStale
<1>13. ASSUME NEW w \in Workers, NEW s \in Sessions, TakeJob(w, s) PROVE TypeOK'
  BY <1>13 DEF TakeJob, TakeOne
<1>14. ASSUME NEW c \in Callers, NEW s \in Sessions, ConfirmLookup(c, s)
       PROVE  TypeOK'
  BY <1>14 DEF ConfirmLookup
<1>15. ASSUME NEW c \in Callers, ConfirmMetadata(c) PROVE TypeOK'
  BY ReleaseType, GotoType, <1>15 DEF ConfirmMetadata, GotoIf, ProcType
<1>16. ASSUME NEW c \in Callers, ConfirmFetch(c) PROVE TypeOK'
  BY ReleaseType, GotoType, <1>16 DEF ConfirmFetch, GotoIf, ProcType
<1>17. ASSUME NEW p \in Processors, ReadContest(p) PROVE TypeOK'
  BY <1>17 DEF ReadContest, Goto
<1>18. ASSUME NEW p \in Processors, CheckVote(p) PROVE TypeOK'
  BY ReleaseType, GotoType, <1>18 DEF CheckVote, GotoIf, ProcType
<1>19. ASSUME NEW p \in Processors, FindRecord(p) PROVE TypeOK'
  BY <1>19 DEF FindRecord, Goto
<1>20. ASSUME NEW p \in Processors, CreateRecord(p) PROVE TypeOK'
  BY <1>20 DEF CreateRecord, Goto, None
<1>21. ASSUME NEW p \in Processors, BeginCount(p) PROVE TypeOK'
  BY <1>21 DEF BeginCount
<1>22. ASSUME NEW p \in Processors, PurgeLog(p) PROVE TypeOK'
  <2>1. job[p] \in Sessions
    BY <1>22 DEF PurgeLog, Goto
  <2>2. log' \in [Sessions -> Nat]
    BY <1>22, <2>1, TakeOneType DEF PurgeLog
  <2> QED
    BY <1>22, <2>2 DEF PurgeLog, Goto
<1>23. ASSUME NEW p \in Processors, CommitCount(p) PROVE TypeOK'
  BY <1>23 DEF CommitCount, Add
<1>24. ASSUME NEW p \in Processors, AbortCount(p) PROVE TypeOK'
  BY ReleaseType, <1>24 DEF AbortCount, Fault, ProcType
<1>25. ASSUME NEW p \in Processors, CheckRefund(p) PROVE TypeOK'
  BY ReleaseType, GotoType, <1>25 DEF CheckRefund, GotoIf, ProcType
<1>26. ASSUME NEW p \in Processors, CreateRefund(p) PROVE TypeOK'
  BY <1>26 DEF CreateRefund, Goto, Add
<1>27. ASSUME NEW p \in Processors, PurgeRefunded(p) PROVE TypeOK'
  <2>1. job[p] \in Sessions
    BY <1>27 DEF PurgeRefunded, Goto
  <2>2. log' \in [Sessions -> Nat]
    BY <1>27, <2>1, TakeOneType DEF PurgeRefunded
  <2> QED
    BY <1>27, <2>2 DEF PurgeRefunded, Goto
<1>28. ASSUME NEW p \in Processors, Finish(p) PROVE TypeOK'
  BY ReleaseType, <1>28 DEF Finish, ProcType
<1>29. ASSUME NEW p \in Processors, ReadFault(p) PROVE TypeOK'
  BY ReleaseType, <1>29 DEF ReadFault, Fault, ProcType
<1>30. ASSUME NEW p \in Processors, MongoFault(p) PROVE TypeOK'
  <2>1. faults' \in Nat
    BY <1>30 DEF MongoFault, Fault
  <2>2. CASE pc[p] = "open" /\ Release(p)
    BY ReleaseType, <1>30, <2>1, <2>2 DEF MongoFault, ProcType
  <2>3. CASE Goto(p, "refunded", "closing")
    BY GotoType, <1>30, <2>1, <2>3 DEF MongoFault, ProcType
  <2> QED
    BY <1>30, <2>2, <2>3 DEF MongoFault
<1>31. ASSUME NEW p \in Processors, Crash(p) PROVE TypeOK'
  BY ReleaseType, AddType, <1>31 DEF Crash, Fault, ProcType
<1>32. CASE UNCHANGED vars BY <1>32 DEF vars
<1> QED
  BY <1>1, <1>2, <1>3, <1>4, <1>5, <1>6, <1>7, <1>8, <1>9, <1>10, <1>11, <1>12,
     <1>13, <1>14, <1>15, <1>16, <1>17, <1>18, <1>19, <1>20, <1>21, <1>22, <1>23,
     <1>24, <1>25, <1>26, <1>27, <1>28, <1>29, <1>30, <1>31, <1>32
  DEF Next, PayerStep, HandlerStep, CronStep, CallerStep, ProcessStep

LEMMA TypeInit == Init => TypeOK
<1> SUFFICES ASSUME Init PROVE TypeOK
  OBVIOUS
<1>1. None \in [Sessions -> Nat]
  BY DEF None
<1>2. credits \in [Processors -> [Sessions -> Nat]]
  BY <1>1 DEF Init
<1>3. /\ hook \in [Sessions \X Deliveries -> HookPC]
      /\ pc \in [Processors -> ProcPC]
  BY DEF Init, HookPC, ProcPC
<1>4. /\ session \in [Sessions -> {"none", "linked", "paid"}]
      /\ metadata \in [Sessions -> BOOLEAN]
      /\ ended \in BOOLEAN
      /\ faults \in Nat
  BY DEF Init
<1> QED
  BY <1>1, <1>2, <1>3, <1>4 DEF Init, TypeOK

(* All the values the program keeps have the types they are declared with. *)
THEOREM TypeCorrect == Spec => []TypeOK
  BY TypeInit, TypeStep, PTL DEF Spec

(***************************************************************************)
(* The shape of a step.  Most steps leave the books alone, and move each   *)
(* processor along process_contest_vote or out of it.                      *)
(***************************************************************************)
Stays(p) == pc'[p] = pc[p] /\ job'[p] = job[p] /\ snap'[p] = snap[p]

Outside == {"idle", "confirm", "fetch", "read", "check", "refundcheck", "closing"}

Advances(p) ==
  /\ job'[p] = job[p]
  /\ \/ pc[p] = "check" /\ pc'[p] = "find" /\ votes[job[p]] = 0
     \/ pc[p] = "find" /\ pc'[p] = "create" /\ records = {}
     \/ pc[p] = "find" /\ pc'[p] = "begin" /\ records # {}
     \/ pc[p] = "begin" /\ pc'[p] = "open" /\ snap'[p] = records
     \/ pc[p] = "open" /\ pc'[p] = "purged" /\ snap'[p] = snap[p]
     \/ pc[p] = "refundcheck" /\ pc'[p] = "refund" /\ refunds[job[p]] = 0

Quiet ==
  /\ UNCHANGED <<records, credits, votes, refunds>>
  /\ \A p \in Processors : Stays(p) \/ pc'[p] \in Outside \/ Advances(p)

(* Only three actions change the books.                                    *)
LEMMA StepShape ==
  ASSUME TypeOK, [Next]_vars
  PROVE  \/ Quiet
         \/ \E p \in Processors : CommitCount(p) \/ CreateRecord(p) \/ CreateRefund(p)
<1> DEFINE Goal == Quiet
<1> USE DEF TypeOK, Stays, Outside, payVars, jobVars, bookVars, procVars, envVars
<1>1. CASE UNCHANGED procVars /\ UNCHANGED bookVars
  BY <1>1 DEF Quiet
<1>2. ASSUME NEW p \in Processors, Release(p), UNCHANGED bookVars PROVE Goal
  BY <1>2 DEF Quiet, Release
<1>3. CASE EndContest \/ ReopenContest
  BY <1>1, <1>3 DEF EndContest, ReopenContest
<1>4. CASE \E s \in Sessions : PayerStep(s)
  BY <1>1, <1>4 DEF PayerStep, OpenSession, Pay
<1>5. CASE \E s \in Sessions, d \in Deliveries :
             ReceiveWebhook(s, d) \/ HandlerStep(s, d) \/ WebhookFault(s, d)
  BY <1>1, <1>5 DEF ReceiveWebhook, HandlerStep, WebhookFault, ResolveVote,
                    EnqueueVote, CreateLog, DeleteMetadata
<1>6. CASE CronStep
  BY <1>1, <1>6 DEF CronStep, StartAudit, RequeueStale
<1>7. ASSUME NEW w \in Workers, NEW s \in Sessions, TakeJob(w, s) PROVE Goal
  BY <1>7 DEF Quiet, TakeJob, Processors
<1>8. ASSUME NEW c \in Callers, NEW s \in Sessions, ConfirmLookup(c, s) PROVE Goal
  BY <1>8 DEF Quiet, ConfirmLookup, Processors
<1>9. ASSUME NEW c \in Callers, CallerStep(c) PROVE Goal
  <2>1. CASE ConfirmMetadata(c)
    BY <1>2, <2>1 DEF Quiet, ConfirmMetadata, GotoIf, Goto, Processors
  <2>2. CASE ConfirmFetch(c)
    BY <1>2, <2>2 DEF Quiet, ConfirmFetch, GotoIf, Goto, Processors
  <2> QED
    BY <1>9, <2>1, <2>2 DEF CallerStep
<1>10. ASSUME NEW p \in Processors,
              ProcessStep(p) \/ ReadFault(p) \/ MongoFault(p) \/ Crash(p),
              ~CommitCount(p), ~CreateRecord(p), ~CreateRefund(p)
       PROVE  Goal
  <2>1. CASE ReadContest(p)
    BY <2>1 DEF Quiet, ReadContest, Goto
  <2>2. CASE CheckVote(p)
    BY <1>2, <2>2 DEF Quiet, CheckVote, GotoIf, Goto, Advances
  <2>3. CASE FindRecord(p)
    BY <2>3 DEF Quiet, FindRecord, Goto, Advances
  <2>4. CASE BeginCount(p)
    BY <2>4 DEF Quiet, BeginCount, Advances
  <2>5. CASE PurgeLog(p)
    BY <2>5 DEF Quiet, PurgeLog, Goto, Advances
  <2>6. CASE AbortCount(p) \/ Finish(p) \/ ReadFault(p) \/ Crash(p)
    BY <1>2, <2>6 DEF AbortCount, Finish, ReadFault, Crash
  <2>7. CASE CheckRefund(p)
    BY <1>2, <2>7 DEF Quiet, CheckRefund, GotoIf, Goto, Advances
  <2>8. CASE PurgeRefunded(p)
    BY <2>8 DEF Quiet, PurgeRefunded, Goto
  <2>9. CASE MongoFault(p)
    BY <1>2, <2>9 DEF Quiet, MongoFault, Goto
  <2> QED
    BY <1>10, <2>1, <2>2, <2>3, <2>4, <2>5, <2>6, <2>7, <2>8, <2>9 DEF ProcessStep
<1> QED
  BY <1>1, <1>3, <1>4, <1>5, <1>6, <1>7, <1>8, <1>9, <1>10 DEF Next, vars

(***************************************************************************)
(* How often a payment is counted.  A processor that looked for a vote and *)
(* found none is stale once a vote is counted; no processor becomes stale  *)
(* later on, and each stale one counts once.                               *)
(***************************************************************************)
Stale(s) == At(s, {"find", "create", "begin", "open", "purged"})

CountBound ==
  \A s \in Sessions :
    votes[s] = 0 \/ votes[s] + Cardinality(Stale(s)) <= Cardinality(Processors)

LEMMA AtFinite ==
  ASSUME NEW s, NEW L
  PROVE  /\ IsFiniteSet(At(s, L))
         /\ Cardinality(At(s, L)) \in Nat
         /\ Cardinality(At(s, L)) <= Cardinality(Processors)
         /\ Cardinality(Processors) \in Nat
<1>1. At(s, L) \subseteq Processors
  BY DEF At
<1> QED
  BY <1>1, ProcessorsFinite, FS_Subset, FS_CardinalityType

(* A bound on n plus the processors still able to add to n survives a step *)
(* in which n stays and none joins, and one in which a leaver adds one.    *)
LEMMA BoundKept ==
  ASSUME NEW n \in Nat, NEW m \in Nat, NEW A \in SUBSET Processors,
         NEW B \in SUBSET Processors,
         n = 0 \/ n + Cardinality(A) <= Cardinality(Processors),
         \/ m = n /\ (n = 0 \/ B \subseteq A)
         \/ m = n + 1 /\ \E p \in A : B \subseteq A \ {p}
  PROVE  m = 0 \/ m + Cardinality(B) <= Cardinality(Processors)
<1>1. /\ IsFiniteSet(A) /\ IsFiniteSet(B)
      /\ Cardinality(A) \in Nat /\ Cardinality(B) \in Nat
      /\ Cardinality(Processors) \in Nat
      /\ Cardinality(A) <= Cardinality(Processors)
  BY ProcessorsFinite, FS_Subset, FS_CardinalityType
<1>2. CASE m = n /\ n = 0
  BY <1>2
<1>3. CASE m = n /\ B \subseteq A
  <2>1. Cardinality(B) <= Cardinality(A)
    BY <1>1, <1>3, FS_Subset
  <2> QED
    BY <1>1, <1>3, <2>1
<1>4. CASE m = n + 1 /\ \E p \in A : B \subseteq A \ {p}
  <2>1. PICK p \in A : B \subseteq A \ {p}
    BY <1>4
  <2>2. /\ IsFiniteSet(A \ {p})
        /\ Cardinality(A \ {p}) = Cardinality(A) - 1
    BY <1>1, FS_RemoveElement
  <2>3. Cardinality(B) <= Cardinality(A \ {p})
    BY <2>1, <2>2, FS_Subset
  <2> QED
    BY <1>1, <1>4, <2>2, <2>3
<1> QED
  BY <1>2, <1>3, <1>4

LEMMA CountBoundStep ==
  ASSUME TypeOK, CountBound, [Next]_vars
  PROVE  CountBound'
<1> SUFFICES ASSUME NEW s \in Sessions
             PROVE  votes'[s] = 0 \/
                    votes'[s] + Cardinality(Stale(s)') <= Cardinality(Processors)
  BY DEF CountBound
<1> DEFINE A == Stale(s)
           B == Stale(s)'
<1> USE DEF Stale, At
<1>1. A \in SUBSET Processors /\ B \in SUBSET Processors
  OBVIOUS
<1>2. votes[s] \in Nat /\ votes'[s] \in Nat
  BY TypeStep DEF TypeOK
<1>3. votes[s] = 0 \/ votes[s] + Cardinality(A) <= Cardinality(Processors)
  BY DEF CountBound
<1>4. \/ votes'[s] = votes[s] /\ (votes[s] = 0 \/ B \subseteq A)
      \/ votes'[s] = votes[s] + 1 /\ \E p \in A : B \subseteq A \ {p}
  <2>1. CASE Quiet
    BY <2>1 DEF Quiet, Stays, Outside, Advances
  <2>2. ASSUME NEW p \in Processors, CommitCount(p) PROVE <1>4
    <3>1. B = A \ {p}
      BY <2>2 DEF CommitCount, TypeOK
    <3>2. CASE job[p] = s
      BY <2>2, <3>1, <3>2 DEF CommitCount, Add, TypeOK
    <3>3. CASE job[p] # s
      BY <2>2, <3>1, <3>3 DEF CommitCount, Add, TypeOK
    <3> QED
      BY <3>2, <3>3
  <2>3. ASSUME NEW p \in Processors, CreateRecord(p) \/ CreateRefund(p) PROVE <1>4
    BY <2>3 DEF CreateRecord, CreateRefund, Goto, TypeOK
  <2> QED
    BY <2>1, <2>2, <2>3, StepShape
<1> QED
  BY <1>1, <1>2, <1>3, <1>4, BoundKept

(* One payment is counted at most once per processor (worker or concurrent *)
(* confirm request): with one processor, never twice.                      *)
THEOREM CountedOncePerProcessorHolds == Spec => []CountedOncePerProcessor
<1>1. Init => CountBound
  BY DEF Init, CountBound, None
<1>2. TypeOK /\ CountBound /\ [Next]_vars => CountBound'
  BY CountBoundStep
<1>3. TypeOK /\ CountBound => CountedOncePerProcessor
  BY AtFinite DEF TypeOK, CountBound, CountedOncePerProcessor, Stale
<1> QED
  BY <1>1, <1>2, <1>3, TypeCorrect, PTL DEF Spec

(***************************************************************************)
(* How often a payment is refunded: the same argument.                     *)
(***************************************************************************)
Refunding(s) == At(s, {"refund"})

RefundBound ==
  \A s \in Sessions :
    refunds[s] = 0 \/ refunds[s] + Cardinality(Refunding(s)) <= Cardinality(Processors)

LEMMA RefundBoundStep ==
  ASSUME TypeOK, RefundBound, [Next]_vars
  PROVE  RefundBound'
<1> SUFFICES ASSUME NEW s \in Sessions
             PROVE  refunds'[s] = 0 \/
                    refunds'[s] + Cardinality(Refunding(s)') <= Cardinality(Processors)
  BY DEF RefundBound
<1> DEFINE A == Refunding(s)
           B == Refunding(s)'
<1> USE DEF Refunding, At
<1>1. A \in SUBSET Processors /\ B \in SUBSET Processors
  OBVIOUS
<1>2. refunds[s] \in Nat /\ refunds'[s] \in Nat
  BY TypeStep DEF TypeOK
<1>3. refunds[s] = 0 \/ refunds[s] + Cardinality(A) <= Cardinality(Processors)
  BY DEF RefundBound
<1>4. \/ refunds'[s] = refunds[s] /\ (refunds[s] = 0 \/ B \subseteq A)
      \/ refunds'[s] = refunds[s] + 1 /\ \E p \in A : B \subseteq A \ {p}
  <2>1. CASE Quiet
    BY <2>1 DEF Quiet, Stays, Outside, Advances
  <2>2. ASSUME NEW p \in Processors, CreateRefund(p) PROVE <1>4
    <3>1. B = A \ {p}
      BY <2>2 DEF CreateRefund, Goto, TypeOK
    <3>2. CASE job[p] = s
      BY <2>2, <3>1, <3>2 DEF CreateRefund, Goto, Add, TypeOK
    <3>3. CASE job[p] # s
      BY <2>2, <3>1, <3>3 DEF CreateRefund, Goto, Add, TypeOK
    <3> QED
      BY <3>2, <3>3
  <2>3. ASSUME NEW p \in Processors, CreateRecord(p) \/ CommitCount(p) PROVE <1>4
    BY <2>3 DEF CreateRecord, CommitCount, Goto, TypeOK
  <2> QED
    BY <2>1, <2>2, <2>3, StepShape
<1> QED
  BY <1>1, <1>2, <1>3, <1>4, BoundKept

(* One payment is refunded at most once per processor.                     *)
THEOREM RefundedOncePerProcessorHolds == Spec => []RefundedOncePerProcessor
<1>1. Init => RefundBound
  BY DEF Init, RefundBound, None
<1>2. TypeOK /\ RefundBound /\ [Next]_vars => RefundBound'
  BY RefundBoundStep
<1>3. TypeOK /\ RefundBound => RefundedOncePerProcessor
  BY AtFinite DEF TypeOK, RefundBound, RefundedOncePerProcessor, Refunding
<1> QED
  BY <1>1, <1>2, <1>3, TypeCorrect, PTL DEF Spec

(***************************************************************************)
(* The books.  The first record inserted is in the snapshot of every open  *)
(* transaction, so each commit credits it.                                 *)
(***************************************************************************)
LedgerInv ==
  /\ \A p \in Processors : p \notin records => credits[p] = None
  /\ records = {} => votes = None
  /\ records # {} =>
       \E r \in records :
         /\ credits[r] = votes
         /\ \A p \in Processors : pc[p] \in InTxn => r \in snap[p]
  /\ \A r \in records, s \in Sessions : credits[r][s] <= votes[s]
  /\ \A p \in Processors : pc[p] \in {"begin", "open", "purged"} => records # {}
  /\ \A p \in Processors : pc[p] \in InTxn => snap[p] \subseteq records
  /\ \A p \in Processors : pc[p] = "create" => p \notin records

LEMMA LedgerStep ==
  ASSUME TypeOK, LedgerInv, [Next]_vars
  PROVE  LedgerInv'
<1>1. CASE Quiet
  <2>1. ASSUME NEW p \in Processors, pc'[p] \in InTxn
        PROVE  \/ snap'[p] = records /\ pc[p] = "begin"
               \/ snap'[p] = snap[p] /\ pc[p] \in InTxn
    BY <1>1, <2>1 DEF Quiet, Stays, Outside, Advances, InTxn
  <2>2. ASSUME NEW p \in Processors, pc'[p] \in {"begin", "open", "purged"}
        PROVE  records # {}
    BY <1>1, <2>2 DEF Quiet, Stays, Outside, Advances, LedgerInv
  <2>3. ASSUME NEW p \in Processors, pc'[p] = "create"
        PROVE  p \notin records
    BY <1>1, <2>3 DEF Quiet, Stays, Outside, Advances, LedgerInv
  <2>4. UNCHANGED <<records, credits, votes>>
    BY <1>1 DEF Quiet
  <2>5. records # {} =>
          \E r \in records :
            /\ credits[r] = votes
            /\ \A p \in Processors : pc'[p] \in InTxn => r \in snap'[p]
    BY <2>1 DEF LedgerInv
  <2>6. \A p \in Processors : pc'[p] \in InTxn => snap'[p] \subseteq records
    BY <2>1 DEF LedgerInv
  <2> QED
    BY <2>2, <2>3, <2>4, <2>5, <2>6 DEF LedgerInv, None
<1>2. ASSUME NEW p \in Processors, CommitCount(p) PROVE LedgerInv'
  <2> DEFINE s == job[p]
  <2>1. /\ s \in Sessions
        /\ records # {}
        /\ snap[p] \subseteq records
        /\ UNCHANGED records
        /\ pc' = [pc EXCEPT ![p] = "closing"]
        /\ snap' = [snap EXCEPT ![p] = {}]
        /\ votes' = Add(votes, s)
        /\ credits' = [r \in Processors |->
                         IF r \in snap[p] THEN Add(credits[r], s) ELSE credits[r]]
    BY <1>2 DEF CommitCount, TypeOK, LedgerInv, InTxn, bookVars
  <2>2. \A q \in Processors : q \notin records => credits'[q] = None
    BY <2>1 DEF LedgerInv
  <2>3. PICK r \in records : /\ credits[r] = votes
                             /\ \A q \in Processors : pc[q] \in InTxn => r \in snap[q]
    BY <2>1 DEF LedgerInv
  <2>4. r \in snap[p] /\ r \in Processors
    BY <1>2, <2>3 DEF CommitCount, InTxn, TypeOK
  <2>5. credits'[r] = votes'
    BY <2>1, <2>3, <2>4
  <2>6. \A q \in Processors : pc'[q] \in InTxn => q # p /\ pc[q] \in InTxn
    BY <2>1 DEF TypeOK, InTxn
  <2>7. \A q \in Processors : pc'[q] \in InTxn => r \in snap'[q] /\ snap'[q] \subseteq records
    BY <2>1, <2>3, <2>6 DEF TypeOK, LedgerInv
  <2>8. ASSUME NEW q \in records, NEW x \in Sessions PROVE credits'[q][x] <= votes'[x]
    <3>1. /\ q \in Processors
          /\ credits[q] \in [Sessions -> Nat] /\ votes \in [Sessions -> Nat]
          /\ credits[q][x] <= votes[x]
      BY DEF TypeOK, LedgerInv
    <3>2. CASE q \in snap[p]
      BY <2>1, <3>1, <3>2 DEF Add
    <3>3. CASE q \notin snap[p]
      BY <2>1, <3>1, <3>3 DEF Add
    <3> QED
      BY <3>2, <3>3
  <2>9. \A q \in Processors : pc'[q] = "create" => q \notin records
    BY <2>1 DEF TypeOK, LedgerInv
  <2> QED
    BY <2>1, <2>2, <2>3, <2>5, <2>7, <2>8, <2>9 DEF LedgerInv, None
<1>3. ASSUME NEW p \in Processors, CreateRecord(p) PROVE LedgerInv'
  <2>1. /\ p \notin records
        /\ pc[p] = "create"
        /\ pc' = [pc EXCEPT ![p] = "begin"]
        /\ records' = records \cup {p}
        /\ UNCHANGED <<votes, snap>>
        /\ credits' = [credits EXCEPT ![p] = None]
    BY <1>3 DEF CreateRecord, Goto, LedgerInv
  <2>2. credits' = credits
    BY <2>1 DEF LedgerInv, TypeOK
  <2>3. \A q \in Processors : pc'[q] \in InTxn => pc[q] \in InTxn
    BY <2>1 DEF TypeOK, InTxn
  <2>4. \E r \in records' :
          /\ credits'[r] = votes'
          /\ \A q \in Processors : pc'[q] \in InTxn => r \in snap'[q]
    <3>1. CASE records = {}
      <4>1. credits'[p] = votes'
        BY <2>1, <2>2, <3>1 DEF LedgerInv
      <4>2. \A q \in Processors : pc'[q] \notin InTxn
        BY <2>3, <3>1 DEF LedgerInv, InTxn
      <4> QED
        BY <2>1, <4>1, <4>2
    <3>2. CASE records # {}
      BY <2>1, <2>2, <2>3, <3>2 DEF LedgerInv
    <3> QED
      BY <3>1, <3>2
  <2>5. \A r \in records', s \in Sessions : credits'[r][s] <= votes'[s]
    BY <2>1, <2>2 DEF LedgerInv, TypeOK, None
  <2>6. \A q \in Processors : pc'[q] = "create" => q \notin records'
    BY <2>1 DEF LedgerInv, TypeOK
  <2>7. \A q \in Processors : pc'[q] \in InTxn => snap'[q] \subseteq records'
    BY <2>1, <2>3 DEF LedgerInv
  <2>8. \A q \in Processors : q \notin records' => credits'[q] = None
    BY <2>1, <2>2 DEF LedgerInv
  <2> QED
    BY <2>1, <2>4, <2>5, <2>6, <2>7, <2>8 DEF LedgerInv, None
<1>4. ASSUME NEW p \in Processors, CreateRefund(p) PROVE LedgerInv'
  <2>1. /\ UNCHANGED <<records, credits, votes, snap>>
        /\ pc' = [pc EXCEPT ![p] = "refunded"]
    BY <1>4 DEF CreateRefund, Goto
  <2>2. \A q \in Processors : pc'[q] = pc[q] \/ pc'[q] = "refunded"
    BY <2>1 DEF TypeOK
  <2> QED
    BY <2>1, <2>2 DEF LedgerInv, None, InTxn
<1> QED
  BY <1>1, <1>2, <1>3, <1>4, StepShape

(* Some financial record sums exactly the counted votes, and none more.    *)
THEOREM LedgerMatchesVotesHolds == Spec => []LedgerMatchesVotes
<1>1. Init => LedgerInv
  BY DEF Init, LedgerInv, InTxn
<1>2. TypeOK /\ LedgerInv /\ [Next]_vars => LedgerInv'
  BY LedgerStep
<1>3. LedgerInv => LedgerMatchesVotes
  BY DEF LedgerInv, LedgerMatchesVotes
<1> QED
  BY <1>1, <1>2, <1>3, TypeCorrect, PTL DEF Spec

(***************************************************************************)
(* Where a payment is once its metadata is gone.  A delivery that is about *)
(* to delete the metadata has made sure that the payment is accounted for, *)
(* and no step of anyone loses an accounted payment.                       *)
(***************************************************************************)
TrackInv ==
  /\ \A p \in Processors : pc[p] = "refunded" => refunds[job[p]] > 0
  /\ \A s \in Sessions, d \in Deliveries : hook[<<s, d>>] = "cleanup" => Accounted(s)
  /\ PaymentTracked

(* A session's log is only deleted by a processor that has its refund, or  *)
(* that is now between the deletion and its commit.                        *)
LEMMA AccountedKept ==
  ASSUME TypeOK, [Next]_vars, NEW s \in Sessions, Accounted(s),
         \A p \in Processors : pc[p] = "refunded" => refunds[job[p]] > 0
  PROVE  Accounted(s)'
<1> DEFINE Goal == Accounted(s)'
<1> USE DEF TypeOK, Accounted, Settled, At, payVars, jobVars, bookVars, procVars, envVars
<1>1. CASE UNCHANGED <<log, votes, refunds, pc, job, aborted>>
  BY <1>1
<1>2. CASE EndContest \/ ReopenContest
  BY <1>1, <1>2 DEF EndContest, ReopenContest
<1>3. ASSUME NEW t \in Sessions, PayerStep(t) PROVE Goal
  BY <1>1, <1>3 DEF PayerStep, OpenSession, Pay
<1>4. ASSUME NEW t \in Sessions, NEW d \in Deliveries,
             ReceiveWebhook(t, d) \/ HandlerStep(t, d) \/ WebhookFault(t, d)
      PROVE  Goal
  <2>1. CASE CreateLog(t, d)
    BY <2>1 DEF CreateLog, Add
  <2> QED
    BY <1>1, <1>4, <2>1 DEF ReceiveWebhook, HandlerStep, WebhookFault, ResolveVote,
                            EnqueueVote, DeleteMetadata
<1>5. CASE CronStep
  BY <1>1, <1>5 DEF CronStep, StartAudit, RequeueStale
<1>6. ASSUME NEW p \in Processors, pc[p] # "purged",
             UNCHANGED <<log, votes, refunds, aborted>>,
             \A q \in Processors : q # p => pc'[q] = pc[q] /\ job'[q] = job[q]
      PROVE  Goal
  BY <1>6
<1>7. ASSUME NEW w \in Workers, NEW t \in Sessions, TakeJob(w, t) PROVE Goal
  BY <1>6, <1>7 DEF TakeJob, Processors
<1>8. ASSUME NEW c \in Callers, NEW t \in Sessions, ConfirmLookup(c, t) PROVE Goal
  BY <1>6, <1>8 DEF ConfirmLookup, Processors
<1>9. ASSUME NEW c \in Callers, CallerStep(c) PROVE Goal
  BY <1>6, <1>9 DEF CallerStep, ConfirmMetadata, ConfirmFetch, GotoIf, Goto, Release,
                    Processors
<1>10. ASSUME NEW p \in Processors,
              ProcessStep(p) \/ ReadFault(p) \/ MongoFault(p) \/ Crash(p)
       PROVE  Goal
  <2>1. CASE ReadContest(p) \/ CheckVote(p) \/ FindRecord(p) \/ CreateRecord(p)
    BY <1>6, <2>1 DEF ReadContest, CheckVote, FindRecord, CreateRecord, GotoIf, Goto,
                      Release
  <2>2. CASE BeginCount(p) \/ CheckRefund(p) \/ Finish(p)
    BY <1>6, <2>2 DEF BeginCount, CheckRefund, Finish, GotoIf, Goto, Release
  <2>3. CASE ReadFault(p) \/ MongoFault(p)
    BY <1>6, <2>3 DEF ReadFault, MongoFault, Goto, Release, PreTxn
  <2>4. CASE PurgeLog(p)
    <3>1. CASE job[p] = s
      BY <2>4, <3>1 DEF PurgeLog, Goto
    <3>2. CASE job[p] # s
      BY <2>4, <3>2 DEF PurgeLog, Goto, TakeOne
    <3> QED
      BY <3>1, <3>2
  <2>5. CASE PurgeRefunded(p)
    <3>1. CASE job[p] = s
      BY <2>5, <3>1 DEF PurgeRefunded, Goto
    <3>2. CASE job[p] # s
      BY <2>5, <3>2 DEF PurgeRefunded, Goto, TakeOne
    <3> QED
      BY <3>1, <3>2
  <2>6. CASE CreateRefund(p)
    BY <2>6 DEF CreateRefund, Goto, Add
  <2>7. CASE CommitCount(p)
    BY <2>7 DEF CommitCount, Add
  <2>8. CASE AbortCount(p)
    BY <2>8 DEF AbortCount, Release
  <2>9. CASE Crash(p)
    BY <2>9 DEF Crash, Release
  <2> QED
    BY <1>10, <2>1, <2>2, <2>3, <2>4, <2>5, <2>6, <2>7, <2>8, <2>9 DEF ProcessStep
<1> QED
  BY <1>1, <1>2, <1>3, <1>4, <1>5, <1>7, <1>8, <1>9, <1>10 DEF Next, vars

(* Only payers and deliveries change sessions, metadata and deliveries.    *)
LEMMA FrontShape ==
  ASSUME [Next]_vars
  PROVE  \/ UNCHANGED <<session, metadata, hook>>
         \/ \E s \in Sessions : PayerStep(s)
         \/ \E s \in Sessions, d \in Deliveries :
              ReceiveWebhook(s, d) \/ HandlerStep(s, d) \/ WebhookFault(s, d)
<1> DEFINE Same == UNCHANGED <<session, metadata, hook>>
<1> USE DEF payVars
<1>1. CASE EndContest \/ ReopenContest \/ CronStep
  BY <1>1 DEF EndContest, ReopenContest, CronStep, StartAudit, RequeueStale
<1>2. ASSUME NEW w \in Workers, NEW s \in Sessions, TakeJob(w, s) PROVE Same
  BY <1>2 DEF TakeJob
<1>3. ASSUME NEW c \in Callers,
             (\E s \in Sessions : ConfirmLookup(c, s)) \/ CallerStep(c)
      PROVE  Same
  BY <1>3 DEF ConfirmLookup, CallerStep, ConfirmMetadata, ConfirmFetch
<1>4. ASSUME NEW p \in Processors,
             ProcessStep(p) \/ ReadFault(p) \/ MongoFault(p) \/ Crash(p)
      PROVE  Same
  <2>1. ASSUME ReadFault(p) \/ MongoFault(p) \/ Crash(p) PROVE Same
    BY <2>1 DEF ReadFault, MongoFault, Crash
  <2>2. ASSUME ProcessStep(p) PROVE Same
    BY <2>2 DEF ProcessStep, ReadContest, CheckVote, FindRecord, CreateRecord,
                BeginCount, PurgeLog, CommitCount, AbortCount, CheckRefund,
                CreateRefund, PurgeRefunded, Finish
  <2> QED
    BY <1>4, <2>1, <2>2
<1>5. CASE UNCHANGED vars
  BY <1>5 DEF vars
<1> QED
  BY <1>1, <1>2, <1>3, <1>4, <1>5 DEF Next

LEMMA TrackStep ==
  ASSUME TypeOK, TrackInv, [Next]_vars
  PROVE  TrackInv'
<1> USE DEF TypeOK, payVars, jobVars, bookVars, procVars, envVars
<1>1. ASSUME NEW p \in Processors, pc'[p] = "refunded" PROVE refunds'[job'[p]] > 0
  <2>1. CASE Quiet
    BY <1>1, <2>1 DEF Quiet, Stays, Outside, Advances, TrackInv
  <2>2. ASSUME NEW q \in Processors, CreateRefund(q) PROVE refunds'[job'[p]] > 0
    BY <1>1, <2>2 DEF CreateRefund, Goto, Add, TrackInv
  <2>3. ASSUME NEW q \in Processors, CommitCount(q) \/ CreateRecord(q)
        PROVE  refunds'[job'[p]] > 0
    BY <1>1, <2>3 DEF CommitCount, CreateRecord, Goto, TrackInv
  <2> QED
    BY <2>1, <2>2, <2>3, StepShape
<1>2. \A s \in Sessions : Accounted(s) => Accounted(s)'
  BY AccountedKept DEF TrackInv
<1>3. ASSUME NEW s \in Sessions, NEW d \in Deliveries, hook'[<<s, d>>] = "cleanup"
      PROVE  Accounted(s)'
  <2> <<s, d>> \in Sessions \X Deliveries
    OBVIOUS
  <2>1. CASE UNCHANGED <<session, metadata, hook>>
    BY <1>2, <1>3, <2>1 DEF TrackInv
  <2>2. ASSUME NEW t \in Sessions, PayerStep(t) PROVE Accounted(s)'
    BY <1>2, <1>3, <2>2 DEF TrackInv, PayerStep, OpenSession, Pay
  <2>3. ASSUME NEW t \in Sessions, NEW e \in Deliveries,
               ReceiveWebhook(t, e) \/ HandlerStep(t, e) \/ WebhookFault(t, e)
        PROVE  Accounted(s)'
    <3>1. CASE hook[<<s, d>>] = "cleanup"
      BY <1>2, <3>1 DEF TrackInv
    <3>2. CASE ResolveVote(t, e) /\ hook[<<s, d>>] # "cleanup"
      <4>1. s = t /\ votes[t] > 0
        BY <1>3, <3>2 DEF ResolveVote, HookStep
      <4>2. Accounted(s)
        BY <4>1 DEF Accounted, Settled
      <4> QED
        BY <1>2, <4>2
    <3>3. CASE CreateLog(t, e) /\ hook[<<s, d>>] # "cleanup"
      <4>1. s = t
        BY <1>3, <3>3 DEF CreateLog, HookStep
      <4>2. log'[s] > 0
        BY <3>3, <4>1 DEF CreateLog, Add
      <4> QED
        BY <4>2 DEF Accounted
    <3> QED
      BY <1>3, <2>3, <3>1, <3>2, <3>3
      DEF ReceiveWebhook, HandlerStep, WebhookFault, EnqueueVote, DeleteMetadata, HookStep
  <2> QED
    BY <2>1, <2>2, <2>3, FrontShape
<1>4. ASSUME NEW s \in Sessions, session'[s] # "none", ~metadata'[s]
      PROVE  Accounted(s)'
  <2>1. CASE session[s] # "none" /\ ~metadata[s]
    BY <1>2, <2>1 DEF TrackInv, PaymentTracked
  <2>2. ASSUME NEW d \in Deliveries, DeleteMetadata(s, d) PROVE Accounted(s)'
    BY <1>2, <2>2 DEF TrackInv, DeleteMetadata, HookStep
  <2>3. CASE ~(session[s] # "none" /\ ~metadata[s])
    <3>1. CASE UNCHANGED <<session, metadata, hook>>
      BY <1>4, <2>3, <3>1
    <3>2. ASSUME NEW t \in Sessions, PayerStep(t) PROVE FALSE
      BY <1>4, <2>3, <3>2 DEF PayerStep, OpenSession, Pay
    <3>3. ASSUME NEW t \in Sessions, NEW d \in Deliveries,
                 ReceiveWebhook(t, d) \/ HandlerStep(t, d) \/ WebhookFault(t, d)
          PROVE  DeleteMetadata(s, d)
      BY <1>4, <2>3, <3>3 DEF ReceiveWebhook, HandlerStep, WebhookFault, ResolveVote,
                              EnqueueVote, CreateLog, DeleteMetadata
    <3> QED
      BY <1>4, <2>2, <2>3, <3>1, <3>2, <3>3, FrontShape
  <2> QED
    BY <2>1, <2>3
<1> QED
  BY <1>1, <1>3, <1>4 DEF TrackInv, PaymentTracked

(* A payment whose metadata is gone is settled, has an audit log, is about *)
(* to be committed, or was rolled back after its log's deletion.           *)
THEOREM PaymentTrackedHolds == Spec => []PaymentTracked
<1>1. Init => TrackInv
  BY DEF Init, TrackInv, PaymentTracked
<1>2. TypeOK /\ TrackInv /\ [Next]_vars => TrackInv'
  BY TrackStep
<1>3. TrackInv => PaymentTracked
  BY DEF TrackInv
<1> QED
  BY <1>1, <1>2, <1>3, TypeCorrect, PTL DEF Spec

(* With a single processor the check for an existing vote is enough: one   *)
(* payment is counted at most once.                                        *)
THEOREM SingleProcessorCountsOnce ==
  ASSUME Cardinality(Processors) <= 1
  PROVE  Spec => []CountedOnce
<1>1. Cardinality(Processors) \in Nat
  BY ProcessorsFinite, FS_CardinalityType
<1>2. TypeOK /\ CountedOncePerProcessor => CountedOnce
  BY <1>1 DEF TypeOK, CountedOncePerProcessor, CountedOnce
<1> QED
  BY <1>2, TypeCorrect, CountedOncePerProcessorHolds, PTL

(***************************************************************************)
(* When no payment is lost.  A transaction rolled back after its log's     *)
(* deletion is the only danger.  It is harmless when the vote it would     *)
(* have counted has just been counted by another, and when a crash rolled  *)
(* it back and the job of the payment runs undisturbed: Bull has put back  *)
(* the worker's, and that of a request's payment is still to be done.      *)
(***************************************************************************)
Working == {"read", "check", "find", "create", "begin", "open", "purged", "refundcheck", "refund"}

DoomInv == \A p \in doomed : pc[p] \in InTxn /\ Settled(job[p])

StallInv == stalled # {} => faults > 0

(* A job of the payment waits in the queue or is being worked on.          *)
Pending(s) == queue[s] > 0 \/ \E w \in Workers : job[w] = s /\ pc[w] \in Working

(* Paystack's report of the payment has been queued.                       *)
Reported(s) ==
  \/ session[s] # "none" /\ ~metadata[s]
  \/ \E d \in Deliveries : hook[<<s, d>>] \in {"log", "cleanup"}

QueueInv ==
  faults = 0 => \A s \in Sessions : Reported(s) => Settled(s) \/ Pending(s)

AbortInv ==
  \A s \in aborted :
    Settled(s) \/ (faults = MaxFaults /\ (Reported(s) => Pending(s)))

LEMMA SettledStays ==
  ASSUME TypeOK, [Next]_vars, NEW s \in Sessions, Settled(s)
  PROVE  Settled(s)'
<1> USE DEF TypeOK, Settled
<1>1. CASE Quiet
  BY <1>1 DEF Quiet
<1>2. ASSUME NEW p \in Processors, CommitCount(p) PROVE Settled(s)'
  <2>1. votes'[s] \in {votes[s], votes[s] + 1} /\ UNCHANGED refunds
    BY <1>2 DEF CommitCount, Add
  <2> QED
    BY <2>1
<1>3. ASSUME NEW p \in Processors, CreateRecord(p) PROVE Settled(s)'
  BY <1>3 DEF CreateRecord
<1>4. ASSUME NEW p \in Processors, CreateRefund(p) PROVE Settled(s)'
  <2>1. refunds'[s] \in {refunds[s], refunds[s] + 1} /\ UNCHANGED votes
    BY <1>4 DEF CreateRefund, Add
  <2> QED
    BY <2>1
<1> QED
  BY <1>1, <1>2, <1>3, <1>4, StepShape

(* The transactions that a commit dooms are of the payment it settles.     *)
Alone == (\E p : Processors = {p}) \/ (\E s : Sessions = {s})

LEMMA DoomStep ==
  ASSUME TypeOK, DoomInv, Alone, [Next]_vars
  PROVE  DoomInv'
<1> SUFFICES ASSUME NEW p \in doomed' PROVE pc'[p] \in InTxn /\ Settled(job[p])'
  BY DEF DoomInv
<1> DEFINE Kept == p \in doomed /\ pc'[p] \in InTxn /\ job'[p] = job[p]
<1>0. ASSUME Kept PROVE pc'[p] \in InTxn /\ Settled(job[p])'
  <2>1. Settled(job[p]) /\ p \in Processors /\ pc[p] \in InTxn
    BY <1>0 DEF DoomInv, TypeOK
  <2>2. job[p] \in Sessions
    BY <2>1 DEF TypeOK, InTxn
  <2>3. Settled(job[p])' <=> (\E t \in {job[p]} : Settled(t)')
    BY <1>0 DEF Settled
  <2> QED
    BY <1>0, <2>1, <2>2, <2>3, SettledStays
<1>1. CASE UNCHANGED procVars
  <2>1. p \in doomed /\ pc[p] \in InTxn
    BY <1>1 DEF DoomInv, procVars
  <2> QED
    BY <1>0, <1>1, <2>1 DEF procVars
<1> USE DEF TypeOK, DoomInv, InTxn, PreTxn, Processors, payVars, jobVars, bookVars, envVars
<1>2. ASSUME NEW q \in Processors, Release(q) PROVE Kept
  BY <1>2 DEF Release
<1>3. CASE EndContest \/ ReopenContest
  BY <1>1, <1>3 DEF EndContest, ReopenContest
<1>4. CASE \E s \in Sessions : PayerStep(s)
  BY <1>1, <1>4 DEF PayerStep, OpenSession, Pay
<1>5. CASE \E s \in Sessions, d \in Deliveries :
             ReceiveWebhook(s, d) \/ HandlerStep(s, d) \/ WebhookFault(s, d)
  BY <1>1, <1>5 DEF ReceiveWebhook, HandlerStep, WebhookFault, ResolveVote,
                    EnqueueVote, CreateLog, DeleteMetadata
<1>6. CASE CronStep
  BY <1>1, <1>6 DEF CronStep, StartAudit, RequeueStale
<1>7. ASSUME NEW w \in Workers, NEW s \in Sessions, TakeJob(w, s) PROVE Kept
  BY <1>7 DEF TakeJob
<1>8. ASSUME NEW c \in Callers, NEW s \in Sessions, ConfirmLookup(c, s) PROVE Kept
  BY <1>8 DEF ConfirmLookup
<1>9. ASSUME NEW c \in Callers, CallerStep(c) PROVE Kept
  BY <1>2, <1>9 DEF CallerStep, ConfirmMetadata, ConfirmFetch, GotoIf, Goto
<1>10. ASSUME NEW q \in Processors, ProcessStep(q) \/ ReadFault(q) \/ MongoFault(q) \/ Crash(q),
              ~CommitCount(q)
       PROVE  Kept
  <2>1. CASE ReadContest(q) \/ CheckVote(q) \/ FindRecord(q) \/ CreateRecord(q) \/ BeginCount(q)
    BY <1>2, <2>1 DEF ReadContest, CheckVote, FindRecord, CreateRecord, BeginCount, GotoIf, Goto
  <2>2. CASE PurgeLog(q)
    BY <2>2 DEF PurgeLog, Goto
  <2>3. CASE AbortCount(q) \/ Finish(q) \/ ReadFault(q) \/ Crash(q)
    BY <1>2, <2>3 DEF AbortCount, Finish, ReadFault, Crash
  <2>4. CASE CheckRefund(q) \/ CreateRefund(q) \/ PurgeRefunded(q) \/ MongoFault(q)
    BY <1>2, <2>4 DEF CheckRefund, CreateRefund, PurgeRefunded, MongoFault, GotoIf, Goto
  <2> QED
    BY <1>10, <2>1, <2>2, <2>3, <2>4 DEF ProcessStep
<1>11. ASSUME NEW q \in Processors, CommitCount(q) PROVE pc'[p] \in InTxn /\ Settled(job[p])'
  <2>1. CASE p \in doomed /\ p # q
    BY <1>0, <1>11, <2>1 DEF CommitCount
  <2>2. CASE ~(p \in doomed /\ p # q)
    <3>1. p \in Processors \ {q} /\ pc[p] \in InTxn /\ pc'[p] = pc[p] /\ job'[p] = job[p]
      BY <1>11, <2>2 DEF CommitCount
    <3>2. job[p] \in Sessions /\ job[q] \in Sessions
      BY <1>11, <3>1 DEF CommitCount
    <3>3. job[p] = job[q]
      BY <3>1, <3>2 DEF Alone
    <3>4. votes'[job[q]] > 0
      BY <1>11, <3>2 DEF CommitCount, Add
    <3> QED
      BY <3>1, <3>3, <3>4 DEF Settled
  <2> QED
    BY <2>1, <2>2
<1>12. CASE UNCHANGED vars
  BY <1>1, <1>12 DEF vars, procVars
<1> QED
  BY <1>0, <1>3, <1>4, <1>5, <1>6, <1>7, <1>8, <1>9, <1>10, <1>11, <1>12 DEF Next

(* Without a fault the job of a payment is not gone before the payment is  *)
(* settled.                                                                *)
LEMMA PendingStays ==
  ASSUME TypeOK, DoomInv, [Next]_vars, faults' = faults, NEW s \in Sessions, Pending(s)
  PROVE  Pending(s)' \/ Settled(s)'
<1> DEFINE Goal == Pending(s)' \/ Settled(s)'
<1>0. \A k : ~Fault(k)
  BY DEF Fault, TypeOK
<1> USE DEF TypeOK, Pending, Working, Processors, payVars, jobVars, bookVars, procVars, envVars
<1>1. CASE UNCHANGED <<queue, pc, job>>
  BY <1>1
<1>2. CASE EndContest \/ ReopenContest
  BY <1>0, <1>1, <1>2 DEF EndContest, ReopenContest
<1>3. CASE \E t \in Sessions : PayerStep(t)
  BY <1>1, <1>3 DEF PayerStep, OpenSession, Pay
<1>4. ASSUME NEW t \in Sessions, NEW d \in Deliveries,
             ReceiveWebhook(t, d) \/ HandlerStep(t, d) \/ WebhookFault(t, d)
      PROVE  Goal
  <2>1. CASE EnqueueVote(t, d)
    BY <2>1 DEF EnqueueVote, Add
  <2> QED
    BY <1>0, <1>1, <1>4, <2>1 DEF ReceiveWebhook, HandlerStep, WebhookFault, ResolveVote,
                                  CreateLog, DeleteMetadata
<1>5. CASE CronStep
  <2>1. ASSUME NEW t \in Sessions, RequeueStale(t) PROVE Goal
    <3>1. queue[s] > 0 => queue'[s] > 0
      BY <2>1 DEF RequeueStale, Add
    <3> QED
      BY <2>1, <3>1 DEF RequeueStale
  <2> QED
    BY <1>1, <1>5, <2>1 DEF CronStep, StartAudit
<1>6. ASSUME NEW w \in Workers, NEW t \in Sessions, TakeJob(w, t) PROVE Goal
  <2>1. CASE s = t
    <3>1. job'[w] = s /\ pc'[w] \in Working
      BY <1>6, <2>1 DEF TakeJob
    <3> QED
      BY <1>6, <3>1 DEF TakeJob
  <2>2. CASE s # t
    BY <1>6, <2>2 DEF TakeJob, TakeOne
  <2> QED
    BY <2>1, <2>2
<1>7. ASSUME NEW q \in Processors, UNCHANGED queue,
             \A r \in Processors \ {q} : pc'[r] = pc[r] /\ job'[r] = job[r],
             \/ pc[q] \notin Working
             \/ job[q] # s
             \/ pc'[q] \in Working /\ job'[q] = job[q]
             \/ Settled(s)'
      PROVE  Goal
  BY <1>7
<1>8. ASSUME NEW c \in Callers, NEW t \in Sessions, ConfirmLookup(c, t) PROVE Goal
  BY <1>7, <1>8 DEF ConfirmLookup
<1>9. ASSUME NEW c \in Callers, CallerStep(c) PROVE Goal
  BY <1>7, <1>9 DEF CallerStep, ConfirmMetadata, ConfirmFetch, GotoIf, Goto, Release
<1>10. ASSUME NEW q \in Processors, ProcessStep(q) \/ ReadFault(q) \/ MongoFault(q) \/ Crash(q)
       PROVE  Goal
  <2>1. CASE ReadContest(q) \/ FindRecord(q) \/ CreateRecord(q) \/ BeginCount(q) \/ PurgeLog(q)
    BY <1>7, <2>1 DEF ReadContest, FindRecord, CreateRecord, BeginCount, PurgeLog, Goto
  <2>2. CASE CheckVote(q)
    <3>1. job[q] = s /\ votes[s] # 0 => Settled(s)'
      BY <2>2 DEF CheckVote, Settled
    <3> QED
      BY <1>7, <2>2, <3>1 DEF CheckVote, GotoIf, Goto, Release
  <2>3. CASE CheckRefund(q)
    <3>1. job[q] = s /\ refunds[s] # 0 => Settled(s)'
      BY <2>3 DEF CheckRefund, Settled
    <3> QED
      BY <1>7, <2>3, <3>1 DEF CheckRefund, GotoIf, Goto, Release
  <2>4. CASE CommitCount(q)
    <3>1. job[q] = s => Settled(s)'
      BY <2>4 DEF CommitCount, Add, Settled
    <3> QED
      BY <1>7, <2>4, <3>1 DEF CommitCount
  <2>5. CASE AbortCount(q)
    <3>1. q \in doomed
      BY <1>0, <2>5 DEF AbortCount
    <3>2. job[q] = s => Settled(s)'
      BY <2>5, <3>1 DEF DoomInv, AbortCount, Settled
    <3> QED
      BY <1>0, <1>7, <2>5, <3>2 DEF AbortCount, Release
  <2>6. CASE CreateRefund(q)
    <3>1. job[q] = s => Settled(s)'
      BY <2>6 DEF CreateRefund, Goto, Add, Settled
    <3> QED
      BY <1>7, <2>6, <3>1 DEF CreateRefund, Goto
  <2>7. CASE PurgeRefunded(q) \/ Finish(q)
    BY <1>7, <2>7 DEF PurgeRefunded, Finish, Goto, Release
  <2> QED
    BY <1>0, <1>10, <2>1, <2>2, <2>3, <2>4, <2>5, <2>6, <2>7
    DEF ProcessStep, ReadFault, MongoFault, Crash
<1> QED
  BY <1>1, <1>2, <1>3, <1>4, <1>5, <1>6, <1>8, <1>9, <1>10 DEF Next, vars

(* Reports are queued, or are of payments settled before.                  *)
LEMMA ReportStep ==
  ASSUME TypeOK, [Next]_vars, NEW s \in Sessions, Reported(s)'
  PROVE  Reported(s) \/ Settled(s) \/ Pending(s)'
<1> DEFINE Goal == Reported(s) \/ Settled(s) \/ Pending(s)'
<1> USE DEF TypeOK, Reported, payVars
<1>1. CASE UNCHANGED <<session, metadata, hook>>
  BY <1>1
<1>2. CASE EndContest \/ ReopenContest \/ CronStep
  BY <1>1, <1>2 DEF EndContest, ReopenContest, CronStep, StartAudit, RequeueStale
<1>3. CASE \E t \in Sessions : PayerStep(t)
  BY <1>3 DEF PayerStep, OpenSession, Pay
<1>4. ASSUME NEW t \in Sessions, NEW d \in Deliveries,
             ReceiveWebhook(t, d) \/ HandlerStep(t, d) \/ WebhookFault(t, d)
      PROVE  Goal
  <2>1. CASE ReceiveWebhook(t, d) \/ CreateLog(t, d) \/ DeleteMetadata(t, d) \/ WebhookFault(t, d)
    BY <2>1 DEF ReceiveWebhook, CreateLog, DeleteMetadata, WebhookFault, HookStep
  <2>2. CASE ResolveVote(t, d)
    BY <2>2 DEF ResolveVote, HookStep, Settled
  <2>3. CASE EnqueueVote(t, d)
    <3>1. CASE s = t
      BY <2>3, <3>1 DEF EnqueueVote, Add, Pending
    <3>2. CASE s # t
      BY <2>3, <3>2 DEF EnqueueVote, HookStep
    <3> QED
      BY <3>1, <3>2
  <2> QED
    BY <1>4, <2>1, <2>2, <2>3 DEF HandlerStep
<1>5. ASSUME NEW w \in Workers, NEW t \in Sessions, TakeJob(w, t) PROVE Goal
  BY <1>1, <1>5 DEF TakeJob
<1>6. ASSUME NEW c \in Callers,
             (\E t \in Sessions : ConfirmLookup(c, t)) \/ CallerStep(c)
      PROVE  Goal
  BY <1>1, <1>6 DEF ConfirmLookup, CallerStep, ConfirmMetadata, ConfirmFetch
<1>7. ASSUME NEW q \in Processors, ProcessStep(q) \/ ReadFault(q) \/ MongoFault(q) \/ Crash(q)
      PROVE  Goal
  <2>1. CASE ProcessStep(q)
    BY <1>1, <2>1 DEF ProcessStep, ReadContest, CheckVote, FindRecord, CreateRecord, BeginCount,
                      PurgeLog, CommitCount, AbortCount, CheckRefund, CreateRefund,
                      PurgeRefunded, Finish
  <2>2. CASE ReadFault(q) \/ MongoFault(q) \/ Crash(q)
    BY <1>1, <2>2 DEF ReadFault, MongoFault, Crash
  <2> QED
    BY <1>7, <2>1, <2>2
<1> QED
  BY <1>1, <1>2, <1>3, <1>4, <1>5, <1>6, <1>7 DEF Next, vars

(* Faults are counted, up to the bound.                                    *)
LEMMA FaultStep ==
  ASSUME TypeOK, [Next]_vars
  PROVE  faults' = faults \/ (faults < MaxFaults /\ faults' = faults + 1)
<1> DEFINE Goal == faults' = faults \/ (faults < MaxFaults /\ faults' = faults + 1)
<1> USE DEF envVars, Fault
<1>1. CASE EndContest \/ ReopenContest \/ CronStep
  BY <1>1 DEF EndContest, ReopenContest, CronStep, StartAudit, RequeueStale
<1>2. CASE \E s \in Sessions : PayerStep(s)
  BY <1>2 DEF PayerStep, OpenSession, Pay
<1>3. ASSUME NEW s \in Sessions, NEW d \in Deliveries,
             ReceiveWebhook(s, d) \/ HandlerStep(s, d) \/ WebhookFault(s, d)
      PROVE  Goal
  BY <1>3 DEF ReceiveWebhook, HandlerStep, WebhookFault, ResolveVote, EnqueueVote, CreateLog,
              DeleteMetadata
<1>4. ASSUME NEW w \in Workers, NEW s \in Sessions, TakeJob(w, s) PROVE Goal
  BY <1>4 DEF TakeJob
<1>5. ASSUME NEW c \in Callers,
             (\E s \in Sessions : ConfirmLookup(c, s)) \/ CallerStep(c)
      PROVE  Goal
  BY <1>5 DEF ConfirmLookup, CallerStep, ConfirmMetadata, ConfirmFetch
<1>6. ASSUME NEW q \in Processors, ProcessStep(q) \/ ReadFault(q) \/ MongoFault(q) \/ Crash(q)
      PROVE  Goal
  <2>1. CASE ProcessStep(q)
    BY <2>1 DEF ProcessStep, ReadContest, CheckVote, FindRecord, CreateRecord, BeginCount,
                PurgeLog, CommitCount, AbortCount, CheckRefund, CreateRefund, PurgeRefunded,
                Finish
  <2>2. CASE ReadFault(q) \/ MongoFault(q) \/ Crash(q)
    BY <2>2 DEF ReadFault, MongoFault, Crash
  <2> QED
    BY <1>6, <2>1, <2>2
<1>7. CASE UNCHANGED vars
  BY <1>7 DEF vars
<1> QED
  BY <1>1, <1>2, <1>3, <1>4, <1>5, <1>6, <1>7 DEF Next

LEMMA QueueStep ==
  ASSUME TypeOK, DoomInv, QueueInv, [Next]_vars
  PROVE  QueueInv'
<1> SUFFICES ASSUME faults' = 0, NEW s \in Sessions, Reported(s)'
             PROVE  Settled(s)' \/ Pending(s)'
  BY DEF QueueInv
<1>1. faults' = faults
  BY FaultStep DEF TypeOK
<1>2. Settled(s) \/ Pending(s) \/ Pending(s)'
  BY <1>1, ReportStep DEF QueueInv
<1> QED
  BY <1>1, <1>2, SettledStays, PendingStays

(* Who is rolled back after its log's deletion.                            *)
LEMMA AbortShape ==
  ASSUME TypeOK, [Next]_vars
  PROVE  \/ UNCHANGED aborted
         \/ \E p \in Processors : AbortCount(p) \/ Crash(p)
<1> DEFINE Same == UNCHANGED aborted
<1> USE DEF envVars
<1>1. CASE EndContest \/ ReopenContest \/ CronStep
  BY <1>1 DEF EndContest, ReopenContest, CronStep, StartAudit, RequeueStale
<1>2. CASE \E s \in Sessions : PayerStep(s)
  BY <1>2 DEF PayerStep, OpenSession, Pay
<1>3. ASSUME NEW s \in Sessions, NEW d \in Deliveries,
             ReceiveWebhook(s, d) \/ HandlerStep(s, d) \/ WebhookFault(s, d)
      PROVE  Same
  BY <1>3 DEF ReceiveWebhook, HandlerStep, WebhookFault, ResolveVote, EnqueueVote, CreateLog,
              DeleteMetadata
<1>4. ASSUME NEW w \in Workers, NEW s \in Sessions, TakeJob(w, s) PROVE Same
  BY <1>4 DEF TakeJob
<1>5. ASSUME NEW c \in Callers,
             (\E s \in Sessions : ConfirmLookup(c, s)) \/ CallerStep(c)
      PROVE  Same
  BY <1>5 DEF ConfirmLookup, CallerStep, ConfirmMetadata, ConfirmFetch
<1>6. ASSUME NEW p \in Processors, ProcessStep(p) \/ ReadFault(p) \/ MongoFault(p),
             ~AbortCount(p)
      PROVE  Same
  <2>1. ASSUME ReadFault(p) \/ MongoFault(p) PROVE Same
    BY <2>1 DEF ReadFault, MongoFault
  <2>2. ASSUME ProcessStep(p) PROVE Same
    BY <1>6, <2>2 DEF ProcessStep, ReadContest, CheckVote, FindRecord, CreateRecord,
                BeginCount, PurgeLog, CommitCount, CheckRefund,
                CreateRefund, PurgeRefunded, Finish
  <2> QED
    BY <1>6, <2>1, <2>2
<1>7. CASE UNCHANGED vars
  BY <1>7 DEF vars
<1> QED
  BY <1>1, <1>2, <1>3, <1>4, <1>5, <1>6, <1>7 DEF Next

(* Bull has put a job back only after a crash.                             *)
LEMMA StallStep ==
  ASSUME TypeOK, StallInv, [Next]_vars
  PROVE  StallInv'
<1> USE DEF StallInv, TypeOK, envVars
<1>1. CASE UNCHANGED <<stalled, faults>>
  BY <1>1
<1>2. ASSUME NEW k, Fault(k) PROVE StallInv'
  BY <1>2 DEF Fault
<1>3. CASE EndContest \/ ReopenContest \/ CronStep
  BY <1>2, <1>3 DEF EndContest, ReopenContest, CronStep, StartAudit, RequeueStale
<1>4. CASE \E s \in Sessions : PayerStep(s)
  BY <1>4 DEF PayerStep, OpenSession, Pay
<1>5. ASSUME NEW s \in Sessions, NEW d \in Deliveries,
             ReceiveWebhook(s, d) \/ HandlerStep(s, d) \/ WebhookFault(s, d)
      PROVE  StallInv'
  BY <1>2, <1>5 DEF ReceiveWebhook, HandlerStep, WebhookFault, ResolveVote, EnqueueVote, CreateLog,
                    DeleteMetadata
<1>6. ASSUME NEW w \in Workers, NEW s \in Sessions, TakeJob(w, s) PROVE StallInv'
  BY <1>6 DEF TakeJob
<1>7. ASSUME NEW c \in Callers,
             (\E s \in Sessions : ConfirmLookup(c, s)) \/ CallerStep(c)
      PROVE  StallInv'
  BY <1>7 DEF ConfirmLookup, CallerStep, ConfirmMetadata, ConfirmFetch
<1>8. ASSUME NEW p \in Processors, ReadFault(p) \/ MongoFault(p) \/ Crash(p) PROVE StallInv'
  BY <1>2, <1>8 DEF ReadFault, MongoFault, Crash
<1>9. ASSUME NEW p \in Processors, ProcessStep(p) PROVE StallInv'
  BY <1>2, <1>9 DEF ProcessStep, ReadContest, CheckVote, FindRecord, CreateRecord, BeginCount,
                    PurgeLog, CommitCount, AbortCount, CheckRefund, CreateRefund, PurgeRefunded,
                    Finish
<1>10. CASE UNCHANGED vars
  BY <1>10 DEF vars
<1> QED
  BY <1>3, <1>4, <1>5, <1>6, <1>7, <1>8, <1>9, <1>10 DEF Next

(* Where an instance can crash, there is one fault in all.                 *)
OneCrash == "crash" \in Faults => MaxFaults <= 1

LEMMA AbortStep ==
  ASSUME TypeOK, DoomInv, StallInv, QueueInv, AbortInv, "commit" \notin Faults, OneCrash,
         [Next]_vars
  PROVE  AbortInv'
<1> SUFFICES ASSUME NEW s \in aborted'
             PROVE  Settled(s)' \/ (faults' = MaxFaults /\ (Reported(s)' => Pending(s)'))
  BY DEF AbortInv
<1>1. aborted \subseteq Sessions /\ aborted' \subseteq Sessions
  BY TypeStep DEF TypeOK
<1>2. Settled(s) => Settled(s)'
  BY <1>1, SettledStays
<1>3. CASE s \in aborted
  <2>1. CASE faults = MaxFaults /\ (Reported(s) => Pending(s))
    <3>1. faults' = faults
      BY <2>1, FaultStep DEF TypeOK
    <3>2. Pending(s) => Settled(s)' \/ Pending(s)'
      BY <1>1, <3>1, PendingStays
    <3>3. Reported(s)' => Reported(s) \/ Settled(s) \/ Pending(s)'
      BY <1>1, ReportStep
    <3> QED
      BY <1>2, <2>1, <3>1, <3>2, <3>3
  <2> QED
    BY <1>2, <1>3, <2>1 DEF AbortInv
<1>4. ASSUME s \notin aborted, NEW p \in Processors, AbortCount(p)
      PROVE  Settled(s)'
  <2>1. p \in doomed /\ s = job[p]
    BY <1>4 DEF AbortCount, Fault
  <2> QED
    BY <1>4, <2>1 DEF DoomInv, AbortCount, Settled, bookVars
<1>5. ASSUME s \notin aborted, NEW p \in Processors, Crash(p)
      PROVE  Settled(s)' \/ (faults' = MaxFaults /\ (Reported(s)' => Pending(s)'))
  <2>0. s = job[p] /\ pc[p] = "purged"
    BY <1>5 DEF Crash
  <2>1. s = job[p] /\ faults < MaxFaults /\ faults' = faults + 1 /\ MaxFaults <= 1
    BY <1>5, <2>0 DEF Crash, Fault, OneCrash
  <2>2. faults = 0 /\ MaxFaults = 1
    BY <2>1, FaultsKnown DEF TypeOK
  <2>3. stalled = {}
    BY <2>2 DEF StallInv
  <2>4. Reported(s)' => Settled(s) \/ Pending(s)
    BY <1>1, <1>5, <2>2 DEF QueueInv, Reported, Crash, payVars
  <2>5. Pending(s) => Pending(s)'
    <3>1. CASE p \in Workers
      <4>1. queue' = Add(queue, s)
        BY <1>5, <2>1, <2>3, <3>1 DEF Crash
      <4> QED
        BY <1>1, <4>1 DEF TypeOK, Add, Pending
    <3>2. CASE p \notin Workers
      BY <1>5, <3>2 DEF TypeOK, Processors, Crash, Release, Pending
    <3> QED
      BY <3>1, <3>2
  <2> QED
    BY <1>2, <2>1, <2>2, <2>4, <2>5
<1> QED
  BY <1>3, <1>4, <1>5, AbortShape

(* No payment is lost: once Paystack will no longer report it, it is       *)
(* settled or still on its way, however many webhooks, reads and deletions *)
(* of logs fail and however often the contest is reopened, or with a crash *)
(* as the only fault, as long as commits do not fail and there is one      *)
(* processor or one payment: a transaction rolled back by the commit of    *)
(* another payment after its log's deletion is not found again.            *)
THEOREM NoPaymentLostHolds ==
  ASSUME "commit" \notin Faults, OneCrash, Alone
  PROVE  Spec => []NoPaymentLost
<1> DEFINE LostInv == DoomInv /\ StallInv /\ QueueInv /\ AbortInv
<1>1. Init => LostInv
  BY DEF Init, None, DoomInv, StallInv, QueueInv, Reported, AbortInv
<1>2. TypeOK /\ LostInv /\ [Next]_vars => LostInv'
  BY DoomStep, StallStep, QueueStep, AbortStep
<1>3. TypeOK /\ PaymentTracked /\ LostInv => NoPaymentLost
  <2> SUFFICES ASSUME TypeOK, PaymentTracked, LostInv, NEW s \in Sessions,
                      session[s] = "paid", ~metadata[s]
               PROVE  Settled(s) \/ OnItsWay(s)
    BY DEF NoPaymentLost
  <2>1. Settled(s) \/ log[s] > 0 \/ At(s, {"purged"}) # {} \/ s \in aborted
    BY DEF PaymentTracked, Accounted
  <2>2. At(s, {"purged"}) # {} \/ Pending(s) => At(s, ProcPC) # {} \/ queue[s] > 0
    BY DEF At, Pending, Working, Processors, ProcPC, PreTxn, InTxn
  <2>3. s \in aborted => Settled(s) \/ OnItsWay(s)
    BY <2>2 DEF AbortInv, Reported, OnItsWay
  <2> QED
    BY <2>1, <2>2, <2>3 DEF OnItsWay
<1> QED
  BY <1>1, <1>2, <1>3, TypeCorrect, PaymentTrackedHolds, PTL DEF Spec

(***************************************************************************)
(* ContestVote implements VoteSettlement: the temporal property the run    *)
(* vote_race checks.  Besides the invariants above the argument needs that *)
(* nobody works on a session that is not paid.                             *)
(***************************************************************************)
(* Sessions in a delivery, a job, an audit log or the cron's batch.        *)
InFlight(s) ==
  s \in batch \/ queue[s] > 0 \/ log[s] > 0 \/
    \E d \in Deliveries : hook[<<s, d>>] # "idle"

PaidInv ==
  /\ \A s \in Sessions : InFlight(s) => session[s] = "paid"
  /\ \A p \in Processors :
       pc[p] \notin {"idle", "confirm", "fetch"} => session[job[p]] = "paid"
  /\ \A w \in Workers : pc[w] \notin {"confirm", "fetch"}

LEMMA TakeOnePositive ==
  ASSUME NEW f \in [Sessions -> Nat], NEW s, NEW t \in Sessions, TakeOne(f, s)[t] > 0
  PROVE  f[t] > 0
<1>1. CASE s = t
  BY <1>1 DEF TakeOne
<1>2. CASE s # t
  BY <1>2 DEF TakeOne
<1> QED
  BY <1>1, <1>2

LEMMA PaidStep ==
  ASSUME TypeOK, PaidInv, [Next]_vars
  PROVE  PaidInv'
<1> DEFINE Goal == PaidInv'
<1> USE DEF TypeOK, PaidInv, InFlight, Processors, payVars, jobVars, bookVars, procVars, envVars
<1>1. CASE UNCHANGED <<session, hook, queue, batch, log, pc, job>>
  BY <1>1
<1>2. CASE EndContest \/ ReopenContest
  BY <1>1, <1>2 DEF EndContest, ReopenContest
<1>3. ASSUME NEW s \in Sessions, PayerStep(s) PROVE Goal
  <2>1. \A t \in Sessions : session[t] = "paid" => session'[t] = "paid"
    BY <1>3 DEF PayerStep, OpenSession, Pay
  <2>2. UNCHANGED <<hook, queue, batch, log, pc, job>>
    BY <1>3 DEF PayerStep, OpenSession, Pay
  <2> QED
    BY <2>1, <2>2
<1>4. ASSUME NEW s \in Sessions, NEW d \in Deliveries,
             ReceiveWebhook(s, d) \/ HandlerStep(s, d) \/ WebhookFault(s, d)
      PROVE  Goal
  <2> <<s, d>> \in Sessions \X Deliveries
    OBVIOUS
  <2>1. UNCHANGED <<session, batch, pc, job>>
    BY <1>4 DEF ReceiveWebhook, HandlerStep, WebhookFault, ResolveVote, EnqueueVote,
                CreateLog, DeleteMetadata
  <2>2. session[s] = "paid"
    BY <1>4 DEF ReceiveWebhook, HandlerStep, WebhookFault, ResolveVote, EnqueueVote,
                CreateLog, DeleteMetadata, HookStep
  <2>3. ASSUME NEW t \in Sessions, t # s
        PROVE  /\ queue'[t] = queue[t]
               /\ log'[t] = log[t]
               /\ \A e \in Deliveries : hook'[<<t, e>>] = hook[<<t, e>>]
    BY <1>4, <2>3 DEF ReceiveWebhook, HandlerStep, WebhookFault, ResolveVote,
                      EnqueueVote, CreateLog, DeleteMetadata, HookStep, Add
  <2> HIDE DEF TypeOK
  <2>4. ASSUME NEW t \in Sessions, InFlight(t)' PROVE session'[t] = "paid"
    <3>1. CASE t = s
      BY <2>1, <2>2, <3>1
    <3>2. CASE t # s
      <4>1. InFlight(t)
        BY <2>1, <2>3, <2>4, <3>2
      <4> QED
        BY <2>1, <4>1
    <3> QED
      BY <3>1, <3>2
  <2> QED
    BY <2>1, <2>4
<1>5. CASE CronStep
  <2>1. ASSUME NEW b \in SUBSET Sessions, StartAudit(b) PROVE Goal
    BY <2>1 DEF StartAudit
  <2>2. ASSUME NEW s \in Sessions, RequeueStale(s) PROVE Goal
    BY <2>2 DEF RequeueStale, Add
  <2> QED
    BY <1>5, <2>1, <2>2 DEF CronStep
<1>6. ASSUME NEW p \in Processors, UNCHANGED <<session, hook, batch>>,
             \A s \in Sessions :
               /\ queue'[s] > 0 => queue[s] > 0 \/ (s = job[p] /\ session[s] = "paid")
               /\ log'[s] > 0 => log[s] > 0,
             \A q \in Processors : q # p => pc'[q] = pc[q] /\ job'[q] = job[q],
             pc'[p] \notin {"idle", "confirm", "fetch"} => session[job'[p]] = "paid",
             pc'[p] \in {"confirm", "fetch"} => p \notin Workers
      PROVE  Goal
  BY <1>6
<1>7. ASSUME NEW w \in Workers, NEW s \in Sessions, TakeJob(w, s) PROVE Goal
  BY <1>6, <1>7 DEF TakeJob, TakeOne
<1>8. ASSUME NEW c \in Callers, NEW s \in Sessions, ConfirmLookup(c, s) PROVE Goal
  BY <1>6, <1>8, WorkersNotCallers DEF ConfirmLookup
<1>9. ASSUME NEW c \in Callers, CallerStep(c) PROVE Goal
  BY <1>6, <1>9, WorkersNotCallers
  DEF CallerStep, ConfirmMetadata, ConfirmFetch, GotoIf, Goto, Release
<1>10. ASSUME NEW p \in Processors,
              ProcessStep(p) \/ ReadFault(p) \/ MongoFault(p) \/ Crash(p)
       PROVE  Goal
  <2>1. CASE ReadContest(p) \/ CheckVote(p) \/ FindRecord(p) \/ CreateRecord(p)
    BY <1>6, <2>1 DEF ReadContest, CheckVote, FindRecord, CreateRecord, GotoIf, Goto,
                      Release
  <2>2. CASE BeginCount(p) \/ CheckRefund(p) \/ Finish(p) \/ CreateRefund(p)
    BY <1>6, <2>2 DEF BeginCount, CheckRefund, Finish, CreateRefund, GotoIf, Goto,
                      Release
  <2>3. CASE CommitCount(p) \/ AbortCount(p)
    BY <1>6, <2>3 DEF CommitCount, AbortCount, Release
  <2>4. CASE PurgeLog(p) \/ PurgeRefunded(p)
    <3>1. \A s \in Sessions : log'[s] > 0 => log[s] > 0
      BY <2>4, TakeOnePositive DEF PurgeLog, PurgeRefunded
    <3> QED
      BY <1>6, <2>4, <3>1 DEF PurgeLog, PurgeRefunded, Goto
  <2>5. CASE ReadFault(p) \/ MongoFault(p)
    BY <1>6, <2>5 DEF ReadFault, MongoFault, Goto, Release
  <2>6. CASE Crash(p)
    <3>1. /\ UNCHANGED <<session, hook, batch, log>>
          /\ \A q \in Processors : q # p => pc'[q] = pc[q] /\ job'[q] = job[q]
          /\ pc'[p] = "idle"
      BY <2>6 DEF Crash, Release
    <3>2. p \in Workers /\ pc[p] # "idle" => session[job[p]] = "paid"
      OBVIOUS
    <3>3. \A s \in Sessions :
            queue'[s] > 0 => queue[s] > 0 \/ (s = job[p] /\ session[s] = "paid")
      BY <2>6, <3>2 DEF Crash, Add
    <3> QED
      BY <1>6, <3>1, <3>3
  <2> QED
    BY <1>10, <2>1, <2>2, <2>3, <2>4, <2>5, <2>6 DEF ProcessStep
<1>11. CASE UNCHANGED vars
  BY <1>1, <1>11 DEF vars
<1> QED
  BY <1>2, <1>3, <1>4, <1>5, <1>7, <1>8, <1>9, <1>10, <1>11 DEF Next


(***************************************************************************)
(* The refinement mapping.                                                 *)
(***************************************************************************)

Income == IF records = {} THEN None ELSE credits[OldestRecord]

(* The oldest record's income is the counted votes.                        *)
LEMMA IncomeIsVotes ==
  ASSUME TypeOK, LedgerInv
  PROVE  Income = votes
<1> USE DEF Income
<1>1. CASE records = {}
  BY <1>1 DEF LedgerInv
<1>2. CASE records # {}
  <2> DEFINE IsOldest(r) == \A q \in records, s \in Sessions : credits[q][s] <= credits[r][s]
  <2>1. PICK r \in records : credits[r] = votes
    BY <1>2 DEF LedgerInv
  <2>2. IsOldest(r)
    BY <2>1 DEF LedgerInv
  <2>3. OldestRecord \in records /\ IsOldest(OldestRecord)
    BY <2>2 DEF OldestRecord
  <2>4. ASSUME NEW s \in Sessions PROVE credits[OldestRecord][s] = votes[s]
    <3>1. votes[s] <= credits[OldestRecord][s]
      BY <2>1, <2>3
    <3>2. credits[OldestRecord][s] <= votes[s]
      BY <2>3 DEF LedgerInv
    <3>3. credits[OldestRecord][s] \in Nat /\ votes[s] \in Nat
      BY <2>3 DEF TypeOK
    <3> QED
      BY <3>1, <3>2, <3>3
  <2>5. /\ credits[OldestRecord] \in [Sessions -> Nat]
        /\ votes \in [Sessions -> Nat]
    BY <2>3 DEF TypeOK
  <2> QED
    BY <1>2, <2>4, <2>5
<1> QED
  BY <1>1, <1>2

Paid == {s \in Sessions : session[s] = "paid"}

Inv == TypeOK /\ CountBound /\ RefundBound /\ LedgerInv /\ PaidInv

(* Only a payment changes what is paid.                                    *)
LEMMA PaidShape ==
  ASSUME TypeOK, [Next]_vars
  PROVE  \/ session' = session
         \/ \E s \in Sessions : Pay(s)
         \/ \E s \in Sessions : OpenSession(s)
<1>1. ASSUME NEW s \in Sessions, NEW d \in Deliveries,
             ReceiveWebhook(s, d) \/ HandlerStep(s, d) \/ WebhookFault(s, d)
      PROVE  session' = session
  BY <1>1 DEF ReceiveWebhook, HandlerStep, WebhookFault, ResolveVote, EnqueueVote,
              CreateLog, DeleteMetadata, payVars
<1> QED
  BY <1>1, FrontShape DEF PayerStep

(* Every step is a step of VoteSettlement or a stutter.                    *)
LEMMA SettlementStep ==
  ASSUME Inv, [Next]_vars, Income = votes, (Income = votes)'
  PROVE  [Settlement!Next]_Settlement!vars
<1> DEFINE Goal == [Settlement!Next]_Settlement!vars
<1>1. Income = votes /\ Income' = votes'
  OBVIOUS
<1>2. CASE UNCHANGED <<Paid, votes, refunds>>
  BY <1>1, <1>2 DEF Settlement!vars, Paid, Income
<1>3. ASSUME NEW s \in Sessions, Pay(s) PROVE Goal
  <2>1. s \notin Paid /\ Paid' = Paid \cup {s}
    BY <1>3 DEF Pay, Paid, Inv, TypeOK
  <2>2. UNCHANGED <<votes, refunds>>
    BY <1>3 DEF Pay, bookVars
  <2>3. Settlement!Pay(s)
    BY <1>1, <2>1, <2>2 DEF Settlement!Pay, Paid, Income
  <2> QED
    BY <2>3 DEF Settlement!Next
<1>4. ASSUME NEW p \in Processors, CommitCount(p) PROVE Goal
  <2> DEFINE s == job[p]
  <2>1. s \in Paid /\ p \in Stale(s)
    BY <1>4 DEF CommitCount, Inv, TypeOK, PaidInv, Paid, Stale, At
  <2>2. votes[s] < Cardinality(Processors)
    <3>1. IsFiniteSet(Stale(s)) /\ Cardinality(Stale(s)) \in Nat
          /\ Cardinality(Stale(s)) <= Cardinality(Processors)
          /\ Cardinality(Processors) \in Nat
      BY AtFinite DEF Stale
    <3>2. Cardinality(Stale(s)) # 0
      BY <2>1, <3>1, FS_EmptySet
    <3>3. votes[s] = 0 \/ votes[s] + Cardinality(Stale(s)) <= Cardinality(Processors)
      BY <2>1 DEF Inv, CountBound, Paid
    <3>4. votes[s] \in Nat
      BY <2>1 DEF Inv, TypeOK, Paid
    <3> QED
      BY <3>1, <3>2, <3>3, <3>4
  <2>3. votes' = Add(votes, s) /\ refunds' = refunds /\ Paid' = Paid
    BY <1>4 DEF CommitCount, payVars, Paid
  <2>4. Settlement!Count(s)
    BY <1>1, <2>1, <2>2, <2>3 DEF Settlement!Count, Settlement!Add, Add, Paid, Income
  <2> QED
    BY <2>1, <2>4 DEF Settlement!Next, Paid
<1>5. ASSUME NEW p \in Processors, CreateRefund(p) PROVE Goal
  <2> DEFINE s == job[p]
  <2>1. s \in Paid /\ p \in Refunding(s)
    BY <1>5 DEF CreateRefund, Goto, Inv, TypeOK, PaidInv, Paid, Refunding, At
  <2>2. refunds[s] < Cardinality(Processors)
    <3>1. IsFiniteSet(Refunding(s)) /\ Cardinality(Refunding(s)) \in Nat
          /\ Cardinality(Refunding(s)) <= Cardinality(Processors)
          /\ Cardinality(Processors) \in Nat
      BY AtFinite DEF Refunding
    <3>2. Cardinality(Refunding(s)) # 0
      BY <2>1, <3>1, FS_EmptySet
    <3>3. refunds[s] = 0 \/
            refunds[s] + Cardinality(Refunding(s)) <= Cardinality(Processors)
      BY <2>1 DEF Inv, RefundBound, Paid
    <3>4. refunds[s] \in Nat
      BY <2>1 DEF Inv, TypeOK, Paid
    <3> QED
      BY <3>1, <3>2, <3>3, <3>4
  <2>3. refunds' = Add(refunds, s) /\ votes' = votes /\ Paid' = Paid
    BY <1>5 DEF CreateRefund, payVars, Paid
  <2>4. Settlement!Refund(s)
    BY <1>1, <2>1, <2>2, <2>3 DEF Settlement!Refund, Settlement!Add, Add, Paid, Income
  <2> QED
    BY <2>1, <2>4 DEF Settlement!Next, Paid
<1>6. ASSUME NEW p \in Processors, CreateRecord(p) PROVE Goal
  BY <1>2, <1>6 DEF CreateRecord, payVars, Paid
<1>7. CASE Quiet
  <2>1. CASE session' = session
    BY <1>2, <1>7, <2>1 DEF Quiet, Paid
  <2>2. ASSUME NEW s \in Sessions, OpenSession(s) PROVE Goal
    <3>1. Paid' = Paid
      BY <2>2 DEF OpenSession, Paid, Inv, TypeOK
    <3> QED
      BY <1>2, <1>7, <3>1 DEF Quiet
  <2> QED
    BY <1>3, <2>1, <2>2, PaidShape DEF Inv
<1> QED
  BY <1>4, <1>5, <1>6, <1>7, StepShape DEF Inv

(* Webhooks, workers, confirm requests, cron and faults together implement *)
(* the settlement of payments: a payment is counted and refunded at most   *)
(* once per processor, only when it was made, and the income of the oldest *)
(* financial record changes with the votes and with nothing else.          *)
THEOREM SettlementImplemented == Spec => ImplementsSettlement
<1>1. Init => Inv
  <2> SUFFICES ASSUME Init PROVE Inv
    OBVIOUS
  <2>1. CountBound /\ RefundBound
    BY DEF Init, CountBound, RefundBound, None
  <2>2. LedgerInv
    BY DEF Init, LedgerInv, InTxn
  <2>3. PaidInv
    <3>1. \A s \in Sessions : ~InFlight(s)
      <4>1. \A s \in Sessions, d \in Deliveries : hook[<<s, d>>] = "idle"
        BY DEF Init
      <4>2. \A s \in Sessions : s \notin batch /\ ~(queue[s] > 0) /\ ~(log[s] > 0)
        BY DEF Init, None
      <4> QED
        BY <4>1, <4>2, Zenon DEF InFlight
    <3>2. \A p \in Processors : pc[p] = "idle"
      BY DEF Init
    <3> QED
      BY <3>1, <3>2 DEF PaidInv, Processors
  <2> QED
    BY <2>1, <2>2, <2>3, TypeInit DEF Inv
<1>2. Inv /\ [Next]_vars => Inv'
  BY TypeStep, CountBoundStep, RefundBoundStep, LedgerStep, PaidStep DEF Inv
<1>3. Init => Settlement!Init
  BY DEF Init, Settlement!Init, None
<1>4. Inv => Income = votes
  BY IncomeIsVotes DEF Inv
<1>5. Inv /\ [Next]_vars /\ Income = votes /\ (Income = votes)'
        => [Settlement!Next]_Settlement!vars
  BY SettlementStep
<1> QED
  BY <1>1, <1>2, <1>3, <1>4, <1>5, PTL DEF Spec, ImplementsSettlement, Settlement!Spec

=============================================================================
