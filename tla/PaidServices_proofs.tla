------------------------ MODULE PaidServices_proofs ------------------------
(***************************************************************************)
(* Proofs about PaidServices, for every set of handlers, payments and      *)
(* tickets, every size of the pool, and any faults.                        *)
(***************************************************************************)
EXTENDS PaidServices, SumTheorems

(***************************************************************************)
(* Requests and their connections.                                         *)
(***************************************************************************)
FundSteps == {"fundLook", "fundCredit", "fundCommit"}
SellSteps == {"sellPay", "sellCommit", "sellUnlog"}
LockSteps == {"fundCommit", "spendCommit"}
Arguments == Charges \cup Plans \cup {Nothing}

(* What a request may be about at a step.                                  *)
Role(step, x) ==
  /\ step \in FundSteps => x \in Payments
  /\ step \in SellSteps => x \in Tickets
  /\ step \in Spending => x \in Plans \ {"free"}
  /\ step = "freeInsert" => x = "free"
  /\ step = "forget" => x \in Charges

RequestInv ==
  /\ pc \in [Handlers -> Steps]
  /\ arg \in [Handlers -> Arguments]
  /\ \A h \in Handlers : Role(pc[h], arg[h])

PoolInv ==
  /\ RequestInv
  /\ held = {h \in Handlers : pc[h] \in InTransaction}
  /\ lock # Nothing => lock \in Handlers /\ pc[lock] \in LockSteps

LEMMA PoolStart == Init => PoolInv
  BY DEF Init, PoolInit, MoneyInit, PoolInv, RequestInv, Role, FundSteps, SellSteps, Spending,
         InTransaction, Steps, Arguments

(* Every action of a request is a move to a step, and perhaps on to        *)
(* another subject.                                                        *)
Moves(h, to, x) ==
  /\ pc' = [pc EXCEPT ![h] = to]
  /\ arg' = [arg EXCEPT ![h] = x]

LEMMA MoveForms ==
  ASSUME RequestInv, NEW h \in Handlers, NEW from, NEW to, NEW x
  PROVE  /\ Start(h, to, x) => pc[h] = "idle" /\ Moves(h, to, x)
         /\ Go(h, from, to) => pc[h] = from /\ Moves(h, to, arg[h])
         /\ Finish(h) => Moves(h, "idle", Nothing)
  BY DEF RequestInv, Start, Go, Finish, Moves

(* The requests at some steps for y, after a move.                         *)
LEMMA BetweenMoves ==
  ASSUME RequestInv, NEW h \in Handlers, NEW to, NEW x, Moves(h, to, x), NEW y, NEW S
  PROVE  /\ x = y /\ to \in S => Between(y, S)' = Between(y, S) \cup {h}
         /\ ~(x = y /\ to \in S) => Between(y, S)' = Between(y, S) \ {h}
  BY DEF RequestInv, Moves, Between

LEMMA MoveKeepsRequests ==
  ASSUME RequestInv, NEW h \in Handlers, NEW to \in Steps, NEW x \in Arguments,
         Moves(h, to, x), Role(to, x)
  PROVE  RequestInv'
  BY DEF RequestInv, Moves

(* A move keeps the account of the pool when the connection comes and goes *)
(* with the steps of transactions, and the lock with those that hold it.   *)
LEMMA MoveInside ==
  ASSUME PoolInv, NEW h \in Handlers, NEW to \in InTransaction, NEW x \in Arguments,
         Moves(h, to, x), Role(to, x),
         held' = held \cup {h},
         lock' \in {lock, h}, lock' = h /\ h # Nothing => to \in LockSteps
  PROVE  PoolInv'
<1>1. RequestInv'
  BY MoveKeepsRequests DEF PoolInv, Steps
<1>2. held' = {g \in Handlers : pc'[g] \in InTransaction}
  BY DEF PoolInv, RequestInv, Moves
<1>3. lock' # Nothing => lock' \in Handlers /\ pc'[lock'] \in LockSteps
  BY DEF PoolInv, RequestInv, Moves
<1> QED
  BY <1>1, <1>2, <1>3 DEF PoolInv

LEMMA MoveOutside ==
  ASSUME PoolInv, NEW h \in Handlers, NEW to \in Steps \ InTransaction, NEW x \in Arguments,
         Moves(h, to, x), Role(to, x),
         held' = held \ {h},
         lock' = (IF lock = h THEN Nothing ELSE lock)
  PROVE  PoolInv'
<1>1. RequestInv'
  BY MoveKeepsRequests DEF PoolInv
<1>2. held' = {g \in Handlers : pc'[g] \in InTransaction}
  BY DEF PoolInv, RequestInv, Moves
<1>3. lock' # Nothing => lock' \in Handlers /\ pc'[lock'] \in LockSteps
  BY DEF PoolInv, RequestInv, Moves
<1> QED
  BY <1>1, <1>2, <1>3 DEF PoolInv

(* Which steps may be about what, and which have a transaction.            *)
LEMMA StepFacts ==
  /\ {"idle", "forget", "freeInsert", "sellUnlog"} \subseteq Steps \ InTransaction
  /\ FundSteps \cup Spending \cup {"sellPay", "sellCommit"} \subseteq InTransaction
  /\ LockSteps \subseteq InTransaction
  BY DEF Steps, InTransaction, FundSteps, Spending, LockSteps

LEMMA RoleFacts ==
  /\ \A x : Role("idle", x)
  /\ \A x \in Charges : Role("forget", x)
  /\ \A s \in SellSteps, x \in Tickets : Role(s, x)
  /\ \A s \in FundSteps, x \in Payments : Role(s, x)
  /\ \A s \in Spending, x \in Plans \ {"free"} : Role(s, x)
  /\ Role("freeInsert", "free")
  BY ChargesKnown DEF Role, FundSteps, SellSteps, Spending

(* What each request holds, and is about.                                  *)
LEMMA HandlerFacts ==
  ASSUME PoolInv, NEW h \in Handlers
  PROVE  /\ arg[h] \in Arguments
         /\ Nothing \in Arguments /\ Tickets \cup Payments \subseteq Arguments
         /\ Plans \subseteq Arguments
         /\ pc[h] \in SellSteps => arg[h] \in Tickets
         /\ pc[h] \in FundSteps => arg[h] \in Payments
         /\ pc[h] \in Spending => arg[h] \in Plans \ {"free"}
         /\ pc[h] \in InTransaction => held \cup {h} = held
         /\ pc[h] \notin InTransaction => held \ {h} = held
         /\ pc[h] \notin LockSteps => lock = (IF lock = h THEN Nothing ELSE lock)
         /\ pc[h] \notin LockSteps /\ lock = h => h = Nothing
  BY ChargesKnown DEF PoolInv, RequestInv, Role, Arguments

(* Moves of the requests that sell tickets.                                *)
LEMMA TicketMoves ==
  ASSUME PoolInv, NEW h \in Handlers, NEW t \in Tickets
  PROVE  /\ RecordSale(h, t) => pc[h] = "idle" /\ Moves(h, "forget", t) /\ UNCHANGED held
         /\ BeginSale(h, t) => pc[h] = "idle" /\ Moves(h, "sellPay", t) /\ held' = held \cup {h}
         /\ AlreadySold(h, t) => pc[h] = "idle" /\ Moves(h, "sellUnlog", t) /\ UNCHANGED held
         /\ RecordAgain(h, t) \/ RecordFault(h, t) \/ LoseJob(h, t) =>
              UNCHANGED <<pc, arg, held>>
  BY MoveForms
  DEF PoolInv, RecordSale, BeginSale, AlreadySold, RecordAgain, RecordFault, LoseJob, Query,
      OpenTransaction, poolVars

LEMMA SellMoves ==
  ASSUME PoolInv, NEW h \in Handlers
  PROVE  /\ SellPay(h) => pc[h] = "sellPay" /\ Moves(h, "sellCommit", arg[h]) /\ UNCHANGED held
         /\ SellCommit(h) =>
              pc[h] = "sellCommit" /\ Moves(h, "sellUnlog", arg[h]) /\ held' = held \ {h}
         /\ SellUnlog(h) => pc[h] = "sellUnlog" /\ Moves(h, "idle", Nothing) /\ UNCHANGED held
         /\ SellTimeout(h) => pc[h] = "sellPay" /\ Moves(h, "idle", Nothing) /\ held' = held \ {h}
         /\ SellFault(h) =>
              /\ pc[h] \in {"sellPay", "sellCommit"}
              /\ Moves(h, "idle", Nothing) /\ held' = held \ {h}
         /\ SaleRecorded(h) =>
              /\ arg[h] \in Tickets /\ pc[h] = "forget"
              /\ Moves(h, "idle", Nothing) /\ UNCHANGED held
  BY MoveForms
  DEF PoolInv, SellPay, SellCommit, SellUnlog, SellTimeout, SellFault, SaleRecorded, Forget,
      ForgetTimeout, Query,
      EndTransaction, poolVars

(* Moves of the requests about money.                                      *)
LEMMA FundMoves ==
  ASSUME PoolInv, NEW h \in Handlers
  PROVE  /\ \A p \in Payments :
              FundWebhook(h, p) =>
                pc[h] = "idle" /\ Moves(h, "fundLook", p) /\ held' = held \cup {h}
         /\ FundLook(h) => pc[h] = "fundLook" /\ Moves(h, "fundCredit", arg[h]) /\ UNCHANGED held
         /\ FundDuplicate(h) =>
              pc[h] = "fundLook" /\ Moves(h, "forget", arg[h]) /\ held' = held \ {h}
         /\ FundCredit(h) => pc[h] = "fundCredit" /\ Moves(h, "fundCommit", arg[h]) /\ UNCHANGED held
         /\ FundConflict(h) =>
              pc[h] = "fundCredit" /\ Moves(h, "idle", Nothing) /\ held' = held \ {h}
         /\ FundCommit(h) =>
              pc[h] = "fundCommit" /\ Moves(h, "forget", arg[h]) /\ held' = held \ {h}
         /\ FundResolve(h) => pc[h] = "forget" /\ Moves(h, "idle", Nothing) /\ UNCHANGED held
         /\ FundTimeout(h) => pc[h] = "fundLook" /\ Moves(h, "idle", Nothing) /\ held' = held \ {h}
         /\ FundFault(h) =>
              /\ pc[h] \in {"fundCredit", "fundCommit"}
              /\ Moves(h, "idle", Nothing) /\ held' = held \ {h}
  BY MoveForms
  DEF PoolInv, FundWebhook, FundLook, FundDuplicate, FundCredit, FundConflict, FundCommit,
      FundResolve, FundTimeout, FundFault, Forget, ForgetTimeout, Rollback, CommitWallet, Query,
      OpenTransaction, EndTransaction, LeaveOpen, poolVars

LEMMA SpendMoves ==
  ASSUME PoolInv, NEW h \in Handlers
  PROVE  /\ \A k \in Plans \ {"free"} :
              RequestPlan(h, k) =>
                pc[h] = "idle" /\ Moves(h, "spendRead", k) /\ held' = held \cup {h}
         /\ RequestFree(h) => pc[h] = "idle" /\ Moves(h, "freeInsert", "free") /\ UNCHANGED held
         /\ FreeInsert(h) => pc[h] = "freeInsert" /\ Moves(h, "idle", Nothing) /\ UNCHANGED held
         /\ SpendRead(h) => pc[h] = "spendRead" /\ Moves(h, "spendInsert", arg[h]) /\ UNCHANGED held
         /\ SpendInsert(h) =>
              pc[h] = "spendInsert" /\ Moves(h, "spendDebit", arg[h]) /\ UNCHANGED held
         /\ SpendDebit(h) =>
              pc[h] = "spendDebit" /\ Moves(h, "spendCommit", arg[h]) /\ UNCHANGED held
         /\ SpendCommit(h) =>
              pc[h] = "spendCommit" /\ Moves(h, "idle", Nothing) /\ held' = held \ {h}
         /\ Insufficient(h) \/ SpendConflict(h) \/ SpendTimeout(h) \/ SpendFault(h) =>
              /\ pc[h] \in {"freeInsert"} \cup Spending
              /\ Moves(h, "idle", Nothing) /\ held' = held \ {h}
  BY MoveForms
  DEF PoolInv, RequestPlan, RequestFree, FreeInsert, SpendRead, SpendInsert, SpendDebit,
      SpendCommit, Insufficient, SpendConflict, SpendTimeout, SpendFault, Rollback, CommitWallet,
      Query, OpenTransaction, EndTransaction, Spending, poolVars

(* Every way to sell, to fund or to spend keeps the account.               *)
LEMMA SaleKeepsPool ==
  ASSUME PoolInv, UNCHANGED lock, NEW h \in Handlers, NEW t \in Tickets,
         RecordSale(h, t) \/ BeginSale(h, t) \/ AlreadySold(h, t)
  PROVE  PoolInv'
<1> USE StepFacts, RoleFacts, HandlerFacts DEF SellSteps, FundSteps, Spending, LockSteps
<1>1. CASE RecordSale(h, t)
  <2>1. /\ Moves(h, "forget", t) /\ t \in Arguments /\ Role("forget", t)
        /\ "forget" \in Steps \ InTransaction
        /\ held' = held \ {h}
        /\ lock' = (IF lock = h THEN Nothing ELSE lock)
    BY <1>1, TicketMoves, ChargesKnown
  <2> QED
    BY <2>1, MoveOutside
<1>2. CASE BeginSale(h, t)
  <2>1. /\ Moves(h, "sellPay", t) /\ t \in Arguments /\ Role("sellPay", t)
        /\ "sellPay" \in InTransaction
        /\ held' = held \cup {h}
        /\ lock' = lock /\ ("sellPay" \in LockSteps \/ lock' # h \/ h = Nothing)
    BY <1>2, TicketMoves, ChargesKnown
  <2> QED
    BY <2>1, MoveInside
<1>3. CASE AlreadySold(h, t)
  <2>1. /\ Moves(h, "sellUnlog", t) /\ t \in Arguments /\ Role("sellUnlog", t)
        /\ "sellUnlog" \in Steps \ InTransaction
        /\ held' = held \ {h}
        /\ lock' = (IF lock = h THEN Nothing ELSE lock)
    BY <1>3, TicketMoves, ChargesKnown
  <2> QED
    BY <2>1, MoveOutside
<1> QED
  BY <1>1, <1>2, <1>3

LEMMA SellKeepsPool ==
  ASSUME PoolInv, UNCHANGED lock, NEW h \in Handlers, SellStep(h) \/ SellFault(h)
  PROVE  PoolInv'
<1> USE StepFacts, RoleFacts, HandlerFacts DEF SellSteps, FundSteps, Spending, LockSteps
<1>1. CASE SellPay(h)
  <2>1. /\ Moves(h, "sellCommit", arg[h]) /\ arg[h] \in Arguments /\ Role("sellCommit", arg[h])
        /\ "sellCommit" \in InTransaction
        /\ held' = held \cup {h}
        /\ lock' = lock /\ ("sellCommit" \in LockSteps \/ lock' # h \/ h = Nothing)
    BY <1>1, SellMoves, ChargesKnown
  <2> QED
    BY <2>1, MoveInside
<1>2. CASE SellCommit(h)
  <2>1. /\ Moves(h, "sellUnlog", arg[h]) /\ arg[h] \in Arguments /\ Role("sellUnlog", arg[h])
        /\ "sellUnlog" \in Steps \ InTransaction
        /\ held' = held \ {h}
        /\ lock' = (IF lock = h THEN Nothing ELSE lock)
    BY <1>2, SellMoves, ChargesKnown
  <2> QED
    BY <2>1, MoveOutside
<1>3. CASE SellUnlog(h) \/ SellTimeout(h) \/ SellFault(h) \/ SaleRecorded(h)
  <2>1. /\ Moves(h, "idle", Nothing) /\ Nothing \in Arguments /\ Role("idle", Nothing)
        /\ "idle" \in Steps \ InTransaction
        /\ held' = held \ {h}
        /\ lock' = (IF lock = h THEN Nothing ELSE lock)
    BY <1>3, SellMoves, ChargesKnown
  <2> QED
    BY <2>1, MoveOutside
<1> QED
  BY <1>1, <1>2, <1>3 DEF SellStep

LEMMA FundKeepsPool ==
  ASSUME PoolInv, NEW h \in Handlers,
         (\E p \in Payments : FundWebhook(h, p)) \/ FundStep(h) \/ FundFault(h)
  PROVE  PoolInv'
<1> USE StepFacts, RoleFacts, HandlerFacts DEF SellSteps, FundSteps, Spending, LockSteps
<1>1. ASSUME NEW p \in Payments, FundWebhook(h, p) PROVE PoolInv'
  <2>1. /\ Moves(h, "fundLook", p) /\ p \in Arguments /\ Role("fundLook", p)
        /\ "fundLook" \in InTransaction
        /\ held' = held \cup {h}
        /\ lock' = lock /\ ("fundLook" \in LockSteps \/ lock' # h \/ h = Nothing)
    BY <1>1, FundMoves, ChargesKnown DEF FundWebhook, moneyVars, walletVars
  <2> QED
    BY <2>1, MoveInside
<1>2. CASE FundLook(h)
  <2>1. /\ Moves(h, "fundCredit", arg[h]) /\ arg[h] \in Arguments /\ Role("fundCredit", arg[h])
        /\ "fundCredit" \in InTransaction
        /\ held' = held \cup {h}
        /\ lock' = lock /\ ("fundCredit" \in LockSteps \/ lock' # h \/ h = Nothing)
    BY <1>2, FundMoves, ChargesKnown DEF FundLook, moneyVars, walletVars
  <2> QED
    BY <2>1, MoveInside
<1>3. CASE FundCredit(h)
  <2>1. /\ Moves(h, "fundCommit", arg[h]) /\ arg[h] \in Arguments /\ Role("fundCommit", arg[h])
        /\ "fundCommit" \in InTransaction
        /\ held' = held \cup {h}
        /\ lock' = h /\ ("fundCommit" \in LockSteps \/ lock' # h \/ h = Nothing)
    BY <1>3, FundMoves, ChargesKnown DEF FundCredit
  <2> QED
    BY <2>1, MoveInside
<1>4. CASE FundDuplicate(h)
  <2>1. /\ Moves(h, "forget", arg[h]) /\ arg[h] \in Arguments /\ Role("forget", arg[h])
        /\ "forget" \in Steps \ InTransaction
        /\ held' = held \ {h}
        /\ lock' = (IF lock = h THEN Nothing ELSE lock)
    BY <1>4, FundMoves, ChargesKnown DEF FundDuplicate, moneyVars, walletVars
  <2> QED
    BY <2>1, MoveOutside
<1>5. CASE FundCommit(h)
  <2>1. /\ Moves(h, "forget", arg[h]) /\ arg[h] \in Arguments /\ Role("forget", arg[h])
        /\ "forget" \in Steps \ InTransaction
        /\ held' = held \ {h}
        /\ lock' = (IF lock = h THEN Nothing ELSE lock)
    BY <1>5, FundMoves, ChargesKnown DEF FundCommit, CommitWallet, Unlock
  <2> QED
    BY <2>1, MoveOutside
<1>6. CASE FundConflict(h) \/ FundFault(h)
  <2>1. /\ Moves(h, "idle", Nothing) /\ Nothing \in Arguments /\ Role("idle", Nothing)
        /\ "idle" \in Steps \ InTransaction
        /\ held' = held \ {h}
        /\ lock' = (IF lock = h THEN Nothing ELSE lock)
    BY <1>6, FundMoves, ChargesKnown DEF FundConflict, FundFault, Rollback, Unlock
  <2> QED
    BY <2>1, MoveOutside
<1>7. CASE FundResolve(h) \/ FundTimeout(h)
  <2>1. /\ Moves(h, "idle", Nothing) /\ Nothing \in Arguments /\ Role("idle", Nothing)
        /\ "idle" \in Steps \ InTransaction
        /\ held' = held \ {h}
        /\ lock' = (IF lock = h THEN Nothing ELSE lock)
    BY <1>7, FundMoves, ChargesKnown DEF FundResolve, FundTimeout, moneyVars, walletVars
  <2> QED
    BY <2>1, MoveOutside
<1> QED
  BY <1>1, <1>2, <1>3, <1>4, <1>5, <1>6, <1>7 DEF FundStep

LEMMA SpendKeepsPool ==
  ASSUME PoolInv, NEW h \in Handlers,
         \/ \E k \in Plans \ {"free"} : RequestPlan(h, k)
         \/ RequestFree(h) \/ SpendStep(h) \/ SpendFault(h)
  PROVE  PoolInv'
<1> USE StepFacts, RoleFacts, HandlerFacts DEF SellSteps, FundSteps, Spending, LockSteps
<1>1. ASSUME NEW k \in Plans \ {"free"}, RequestPlan(h, k) PROVE PoolInv'
  <2>1. /\ Moves(h, "spendRead", k) /\ k \in Arguments /\ Role("spendRead", k)
        /\ "spendRead" \in InTransaction
        /\ held' = held \cup {h}
        /\ lock' = lock /\ ("spendRead" \in LockSteps \/ lock' # h \/ h = Nothing)
    BY <1>1, SpendMoves, ChargesKnown DEF RequestPlan, walletVars
  <2> QED
    BY <2>1, MoveInside
<1>2. CASE RequestFree(h)
  <2>1. /\ Moves(h, "freeInsert", "free") /\ "free" \in Arguments /\ Role("freeInsert", "free")
        /\ "freeInsert" \in Steps \ InTransaction
        /\ held' = held \ {h}
        /\ lock' = (IF lock = h THEN Nothing ELSE lock)
    BY <1>2, SpendMoves, ChargesKnown DEF RequestFree, walletVars, Plans
  <2> QED
    BY <2>1, MoveOutside
<1>3. CASE SpendRead(h)
  <2>1. /\ Moves(h, "spendInsert", arg[h]) /\ arg[h] \in Arguments /\ Role("spendInsert", arg[h])
        /\ "spendInsert" \in InTransaction
        /\ held' = held \cup {h}
        /\ lock' = lock /\ ("spendInsert" \in LockSteps \/ lock' # h \/ h = Nothing)
    BY <1>3, SpendMoves, ChargesKnown DEF SpendRead, moneyVars, walletVars
  <2> QED
    BY <2>1, MoveInside
<1>4. CASE SpendInsert(h)
  <2>1. /\ Moves(h, "spendDebit", arg[h]) /\ arg[h] \in Arguments /\ Role("spendDebit", arg[h])
        /\ "spendDebit" \in InTransaction
        /\ held' = held \cup {h}
        /\ lock' = lock /\ ("spendDebit" \in LockSteps \/ lock' # h \/ h = Nothing)
    BY <1>4, SpendMoves, ChargesKnown DEF SpendInsert, moneyVars, walletVars
  <2> QED
    BY <2>1, MoveInside
<1>5. CASE SpendDebit(h)
  <2>1. /\ Moves(h, "spendCommit", arg[h]) /\ arg[h] \in Arguments /\ Role("spendCommit", arg[h])
        /\ "spendCommit" \in InTransaction
        /\ held' = held \cup {h}
        /\ lock' = h /\ ("spendCommit" \in LockSteps \/ lock' # h \/ h = Nothing)
    BY <1>5, SpendMoves, ChargesKnown DEF SpendDebit
  <2> QED
    BY <2>1, MoveInside
<1>6. CASE SpendCommit(h)
  <2>1. /\ Moves(h, "idle", Nothing) /\ Nothing \in Arguments /\ Role("idle", Nothing)
        /\ "idle" \in Steps \ InTransaction
        /\ held' = held \ {h}
        /\ lock' = (IF lock = h THEN Nothing ELSE lock)
    BY <1>6, SpendMoves, ChargesKnown DEF SpendCommit, CommitWallet, Unlock
  <2> QED
    BY <2>1, MoveOutside
<1>7. CASE FreeInsert(h)
  <2>1. /\ Moves(h, "idle", Nothing) /\ Nothing \in Arguments /\ Role("idle", Nothing)
        /\ "idle" \in Steps \ InTransaction
        /\ held' = held \ {h}
        /\ lock' = (IF lock = h THEN Nothing ELSE lock)
    BY <1>7, SpendMoves, ChargesKnown DEF FreeInsert, walletVars
  <2> QED
    BY <2>1, MoveOutside
<1>8. CASE Insufficient(h) \/ SpendConflict(h) \/ SpendTimeout(h) \/ SpendFault(h)
  <2>1. /\ Moves(h, "idle", Nothing) /\ Nothing \in Arguments /\ Role("idle", Nothing)
        /\ "idle" \in Steps \ InTransaction
        /\ held' = held \ {h}
        /\ lock' = (IF lock = h THEN Nothing ELSE lock)
    BY <1>8, SpendMoves, ChargesKnown DEF Insufficient, SpendConflict, SpendTimeout, SpendFault,
        Rollback, Unlock
  <2> QED
    BY <2>1, MoveOutside
<1> QED
  BY <1>1, <1>2, <1>3, <1>4, <1>5, <1>6, <1>7, <1>8 DEF SpendStep

LEMMA DieKeepsPool == PoolInv /\ Die => PoolInv'
  BY DEF PoolInv, RequestInv, Die, Steps, Arguments, Role, FundSteps, SellSteps, Spending,
         InTransaction

LEMMA PoolKept == PoolInv /\ [Next]_vars => PoolInv'
<1> SUFFICES ASSUME PoolInv, [Next]_vars PROVE PoolInv'
  OBVIOUS
<1>1. CASE TicketNext /\ UNCHANGED moneyVars
  <2>1. UNCHANGED lock
    BY <1>1 DEF moneyVars, walletVars
  <2>2. ASSUME NEW h \in Handlers, NEW t \in Tickets,
               RecordAgain(h, t) \/ RecordFault(h, t) \/ LoseJob(h, t)
        PROVE  PoolInv'
    BY <2>1, <2>2, TicketMoves DEF PoolInv, RequestInv
  <2> QED
    BY <1>1, <2>1, <2>2, SaleKeepsPool, SellKeepsPool DEF TicketNext
<1>2. CASE WalletNext
  <2>1. ASSUME NEW h \in Handlers, RefuseRenewal(h) PROVE PoolInv'
    BY <2>1 DEF PoolInv, RequestInv, RefuseRenewal, LeaveOpen, walletVars, InTransaction
  <2> QED
    BY <1>2, <2>1, FundKeepsPool, SpendKeepsPool DEF WalletNext
<1>3. CASE ChargeNext /\ UNCHANGED <<moneyVars, ticketVars>>
  <2>1. ASSUME NEW x \in Charges, Charge(x) PROVE PoolInv'
    BY <1>3, <2>1 DEF PoolInv, RequestInv, Charge, poolVars, moneyVars, walletVars
  <2> QED
    BY <1>3, <2>1 DEF ChargeNext
<1>4. CASE Restart \/ \E h \in Handlers : MailFault(h)
  BY <1>4, DieKeepsPool DEF Restart, MailFault
<1>5. CASE UNCHANGED vars
  BY <1>5 DEF PoolInv, RequestInv, vars, requestVars, poolVars, moneyVars, walletVars
<1> QED
  BY <1>1, <1>2, <1>3, <1>4, <1>5 DEF Next

(***************************************************************************)
(* Ticket sales.                                                           *)
(***************************************************************************)
Paying(t) == Between(t, {"sellPay"})
Issuing(t) == Between(t, {"sellCommit"})
Unlogging(t) == Between(t, {"sellUnlog"})
Noting(t) == Between(t, {"forget"})

(* The attendees are created for every payment row, except where a run is  *)
(* about to create them or has failed there; and the paper trail of a paid *)
(* purchase only ends with a payment row.                                  *)
TrailInv(t) ==
  /\ IsFiniteSet(Issuing(t))
  /\ t \notin halfway => receipts[t] = issued[t] + Cardinality(Issuing(t))
  /\ t \in charged /\ receipts[t] = 0 => t \in metadata \cup logs
  /\ Noting(t) # {} => receipts[t] > 0 \/ t \in logs
  /\ Issuing(t) \cup Unlogging(t) # {} => receipts[t] > 0

(* Unless two runs had looked for the payment row before either wrote it,  *)
(* one run at a time pays or issues, and only one ever does.               *)
OnceInv(t) ==
  t \notin raced =>
    /\ receipts[t] <= 1
    /\ issued[t] <= receipts[t]
    /\ Paying(t) # {} => receipts[t] = 0
    /\ Issuing(t) # {} => receipts[t] = 1 /\ issued[t] = 0
    /\ \A g, h \in Paying(t) : g = h
    /\ \A g, h \in Issuing(t) : g = h

SaleInv ==
  /\ receipts \in [Tickets -> Nat]
  /\ issued \in [Tickets -> Nat]
  /\ \A t \in Tickets : TrailInv(t) /\ OnceInv(t)

LEMMA SaleStart == Init => SaleInv
<1> SUFFICES ASSUME Init PROVE SaleInv
  OBVIOUS
<1>1. receipts = [t \in Tickets |-> 0] /\ issued = [t \in Tickets |-> 0] /\ charged = {}
  BY DEF Init, PoolInit, TicketInit
<1>2. ASSUME NEW t \in Tickets PROVE TrailInv(t) /\ OnceInv(t)
  <2>1. Paying(t) = {} /\ Issuing(t) = {} /\ Unlogging(t) = {} /\ Noting(t) = {}
    BY DEF Init, PoolInit, Paying, Issuing, Unlogging, Noting, Between
  <2> QED
    BY <1>1, <2>1, FS_EmptySet DEF TrailInv, OnceInv
<1> QED
  BY <1>1, <1>2 DEF SaleInv

(* What a move does to the requests at work on a purchase.                 *)
LEMMA PayingMoves ==
  ASSUME RequestInv, NEW h \in Handlers, NEW to, NEW x, Moves(h, to, x), NEW t
  PROVE  /\ h \in Paying(t) <=> pc[h] = "sellPay" /\ arg[h] = t
         /\ x = t /\ to = "sellPay" => Paying(t)' = Paying(t) \cup {h}
         /\ ~(x = t /\ to = "sellPay") => Paying(t)' = Paying(t) \ {h}
         /\ ~(x = t /\ to = "sellPay") /\ ~(arg[h] = t /\ pc[h] = "sellPay") => Paying(t)' = Paying(t)
  BY DEF RequestInv, Moves, Paying, Between

LEMMA IssuingMoves ==
  ASSUME RequestInv, NEW h \in Handlers, NEW to, NEW x, Moves(h, to, x), NEW t
  PROVE  /\ h \in Issuing(t) <=> pc[h] = "sellCommit" /\ arg[h] = t
         /\ x = t /\ to = "sellCommit" => Issuing(t)' = Issuing(t) \cup {h}
         /\ ~(x = t /\ to = "sellCommit") => Issuing(t)' = Issuing(t) \ {h}
         /\ ~(x = t /\ to = "sellCommit") /\ ~(arg[h] = t /\ pc[h] = "sellCommit") => Issuing(t)' = Issuing(t)
  BY DEF RequestInv, Moves, Issuing, Between

LEMMA UnloggingMoves ==
  ASSUME RequestInv, NEW h \in Handlers, NEW to, NEW x, Moves(h, to, x), NEW t
  PROVE  /\ h \in Unlogging(t) <=> pc[h] = "sellUnlog" /\ arg[h] = t
         /\ x = t /\ to = "sellUnlog" => Unlogging(t)' = Unlogging(t) \cup {h}
         /\ ~(x = t /\ to = "sellUnlog") => Unlogging(t)' = Unlogging(t) \ {h}
         /\ ~(x = t /\ to = "sellUnlog") /\ ~(arg[h] = t /\ pc[h] = "sellUnlog") => Unlogging(t)' = Unlogging(t)
  BY DEF RequestInv, Moves, Unlogging, Between

LEMMA NotingMoves ==
  ASSUME RequestInv, NEW h \in Handlers, NEW to, NEW x, Moves(h, to, x), NEW t
  PROVE  /\ h \in Noting(t) <=> pc[h] = "forget" /\ arg[h] = t
         /\ x = t /\ to = "forget" => Noting(t)' = Noting(t) \cup {h}
         /\ ~(x = t /\ to = "forget") => Noting(t)' = Noting(t) \ {h}
         /\ ~(x = t /\ to = "forget") /\ ~(arg[h] = t /\ pc[h] = "forget") => Noting(t)' = Noting(t)
  BY DEF RequestInv, Moves, Noting, Between

(* What leaves a purchase alone keeps its invariant.                       *)
LEMMA SaleFrame ==
  ASSUME NEW t \in Tickets, SaleInv,
         UNCHANGED <<receipts[t], issued[t], t \in logs, t \in charged, t \in halfway>>,
         Issuing(t)' = Issuing(t), Paying(t)' \subseteq Paying(t),
         Unlogging(t)' \subseteq Unlogging(t), Noting(t)' \subseteq Noting(t),
         raced \subseteq raced', t \in metadata => t \in metadata'
  PROVE  TrailInv(t)' /\ OnceInv(t)'
  BY DEF SaleInv, TrailInv, OnceInv

LEMMA RecordKeepsSale ==
  ASSUME PoolInv, SaleInv, NEW h \in Handlers, NEW t \in Tickets,
         RecordSale(h, t) \/ RecordAgain(h, t) \/ RecordFault(h, t) \/ LoseJob(h, t)
  PROVE  SaleInv'
<1>1. /\ UNCHANGED <<receipts, issued, halfway, charged, metadata, raced>>
      /\ logs' \in {logs, logs \cup {t}}
      /\ RecordSale(h, t) => logs' = logs \cup {t}
  BY DEF RecordSale, RecordAgain, RecordFault, LoseJob, AddJob, chargeVars
<1>2. \/ RecordSale(h, t) /\ pc[h] = "idle" /\ Moves(h, "forget", t)
      \/ UNCHANGED <<pc, arg>>
  BY TicketMoves
<1>3. ASSUME NEW u \in Tickets PROVE TrailInv(u)' /\ OnceInv(u)'
  <2>1. /\ Issuing(u)' = Issuing(u) /\ Paying(u)' = Paying(u) /\ Unlogging(u)' = Unlogging(u)
        /\ Noting(u)' = Noting(u) \/ (u = t /\ u \in logs')
    <3>1. CASE RecordSale(h, t) /\ pc[h] = "idle" /\ Moves(h, "forget", t)
      BY <1>1, <3>1, PayingMoves, IssuingMoves, UnloggingMoves, NotingMoves DEF PoolInv
    <3>2. CASE UNCHANGED <<pc, arg>>
      BY <3>2 DEF Issuing, Paying, Unlogging, Noting, Between
    <3> QED
      BY <1>2, <3>1, <3>2
  <2> QED
    BY <1>1, <2>1 DEF SaleInv, TrailInv, OnceInv
<1> QED
  BY <1>1, <1>3 DEF SaleInv

LEMMA BeginKeepsSale ==
  ASSUME PoolInv, SaleInv, NEW h \in Handlers, NEW t \in Tickets,
         BeginSale(h, t) \/ AlreadySold(h, t)
  PROVE  SaleInv'
<1>1. UNCHANGED <<receipts, issued, halfway, charged, metadata, logs>>
  BY DEF BeginSale, AlreadySold, chargeVars
<1>2. CASE BeginSale(h, t)
  <2>1. pc[h] = "idle" /\ Moves(h, "sellPay", t)
    BY <1>2, TicketMoves
  <2>2. receipts[t] = 0 /\ raced' = IF Paying(t) = {} THEN raced ELSE raced \cup {t}
    BY <1>2 DEF BeginSale, Checked, Paying
  <2>3. ASSUME NEW u \in Tickets PROVE TrailInv(u)' /\ OnceInv(u)'
    <3>1. CASE u = t
      <4>1. /\ Paying(t)' = Paying(t) \cup {h} /\ Issuing(t)' = Issuing(t)
            /\ Unlogging(t)' = Unlogging(t) /\ Noting(t)' = Noting(t)
        BY <2>1, PayingMoves, IssuingMoves, UnloggingMoves, NotingMoves DEF PoolInv
      <4> QED
        BY <1>1, <2>2, <3>1, <4>1 DEF SaleInv, TrailInv, OnceInv
    <3>2. CASE u # t
      BY <1>1, <2>1, <2>2, <3>2, PayingMoves, IssuingMoves, UnloggingMoves, NotingMoves,
          SaleFrame DEF PoolInv
    <3> QED
      BY <3>1, <3>2
  <2> QED
    BY <1>1, <2>3 DEF SaleInv
<1>3. CASE AlreadySold(h, t)
  <2>1. pc[h] = "idle" /\ Moves(h, "sellUnlog", t)
    BY <1>3, TicketMoves
  <2>2. receipts[t] > 0 /\ UNCHANGED raced
    BY <1>3 DEF AlreadySold
  <2>3. ASSUME NEW u \in Tickets PROVE TrailInv(u)' /\ OnceInv(u)'
    <3>1. /\ Paying(u)' = Paying(u) /\ Issuing(u)' = Issuing(u) /\ Noting(u)' = Noting(u)
          /\ Unlogging(u)' = Unlogging(u) \/ u = t
      BY <2>1, PayingMoves, IssuingMoves, UnloggingMoves, NotingMoves DEF PoolInv
    <3> QED
      BY <1>1, <2>2, <3>1 DEF SaleInv, TrailInv, OnceInv
  <2> QED
    BY <1>1, <2>3 DEF SaleInv
<1> QED
  BY <1>2, <1>3

(* The payment row is written: one run less is about to, and one more is   *)
(* about to issue.                                                         *)
LEMMA PayKeepsSale ==
  ASSUME PoolInv, SaleInv, NEW h \in Handlers, SellPay(h)
  PROVE  SaleInv'
<1>1. PICK t \in Tickets : arg[h] = t /\ pc[h] = "sellPay" /\ Moves(h, "sellCommit", t)
  BY SellMoves, HandlerFacts DEF SellSteps
<1>2. /\ receipts' = [receipts EXCEPT ![t] = @ + 1]
      /\ UNCHANGED <<logs, issued, halfway, charged, metadata, raced>>
  BY <1>1 DEF SellPay, chargeVars
<1>3. ASSUME NEW u \in Tickets PROVE TrailInv(u)' /\ OnceInv(u)'
  <2>1. CASE u = t
    <3>1. /\ h \in Paying(t) /\ h \notin Issuing(t)
          /\ Paying(t)' = Paying(t) \ {h} /\ Issuing(t)' = Issuing(t) \cup {h}
          /\ Unlogging(t)' = Unlogging(t) /\ Noting(t)' = Noting(t)
      BY <1>1, PayingMoves, IssuingMoves, UnloggingMoves, NotingMoves DEF PoolInv
    <3>2. receipts'[t] = receipts[t] + 1 /\ receipts[t] \in Nat /\ issued[t] \in Nat
      BY <1>1, <1>2 DEF SaleInv
    <3>3. /\ IsFiniteSet(Issuing(t)') /\ Cardinality(Issuing(t)) \in Nat
          /\ Cardinality(Issuing(t)') = Cardinality(Issuing(t)) + 1
      BY <1>1, <3>1, FS_AddElement, FS_CardinalityType DEF SaleInv, TrailInv
    <3>4. TrailInv(t)'
      BY <1>1, <1>2, <3>1, <3>2, <3>3 DEF SaleInv, TrailInv
    <3>5. OnceInv(t)'
      BY <1>1, <1>2, <3>1, <3>2 DEF SaleInv, OnceInv
    <3> QED
      BY <2>1, <3>4, <3>5
  <2>2. CASE u # t
    <3>1. /\ Paying(u)' = Paying(u) /\ Issuing(u)' = Issuing(u)
          /\ Unlogging(u)' = Unlogging(u) /\ Noting(u)' = Noting(u)
      BY <1>1, <2>2, PayingMoves, IssuingMoves, UnloggingMoves, NotingMoves DEF PoolInv
    <3>2. receipts'[u] = receipts[u]
      BY <1>1, <1>2, <2>2 DEF SaleInv
    <3> QED
      BY <1>2, <3>1, <3>2, SaleFrame
  <2> QED
    BY <2>1, <2>2
<1> QED
  BY <1>1, <1>2, <1>3 DEF SaleInv

LEMMA CommitKeepsSale ==
  ASSUME PoolInv, SaleInv, NEW h \in Handlers, SellCommit(h)
  PROVE  SaleInv'
<1>1. PICK t \in Tickets : arg[h] = t /\ pc[h] = "sellCommit" /\ Moves(h, "sellUnlog", t)
  BY SellMoves, HandlerFacts DEF SellSteps
<1>2. /\ issued' = [issued EXCEPT ![t] = @ + 1]
      /\ UNCHANGED <<logs, receipts, halfway, charged, metadata, raced>>
  BY <1>1 DEF SellCommit, chargeVars
<1>3. ASSUME NEW u \in Tickets PROVE TrailInv(u)' /\ OnceInv(u)'
  <2>1. CASE u = t
    <3>1. /\ h \in Issuing(t)
          /\ Paying(t)' = Paying(t) /\ Issuing(t)' = Issuing(t) \ {h}
          /\ Noting(t)' = Noting(t)
      BY <1>1, PayingMoves, IssuingMoves, UnloggingMoves, NotingMoves DEF PoolInv
    <3>2. issued'[t] = issued[t] + 1 /\ receipts[t] \in Nat /\ issued[t] \in Nat
      BY <1>1, <1>2 DEF SaleInv
    <3>3. /\ IsFiniteSet(Issuing(t)') /\ Cardinality(Issuing(t)) \in Nat
          /\ Cardinality(Issuing(t)') = Cardinality(Issuing(t)) - 1
          /\ Cardinality(Issuing(t)') \in Nat
      BY <1>1, <3>1, FS_RemoveElement, FS_CardinalityType DEF SaleInv, TrailInv
    <3>4. TrailInv(t)'
      BY <1>1, <1>2, <3>1, <3>2, <3>3 DEF SaleInv, TrailInv
    <3>5. OnceInv(t)'
      BY <1>1, <1>2, <3>1, <3>2 DEF SaleInv, OnceInv
    <3> QED
      BY <2>1, <3>4, <3>5
  <2>2. CASE u # t
    <3>1. /\ Paying(u)' = Paying(u) /\ Issuing(u)' = Issuing(u)
          /\ Unlogging(u)' = Unlogging(u) /\ Noting(u)' = Noting(u)
      BY <1>1, <2>2, PayingMoves, IssuingMoves, UnloggingMoves, NotingMoves DEF PoolInv
    <3>2. issued'[u] = issued[u]
      BY <1>1, <1>2, <2>2 DEF SaleInv
    <3> QED
      BY <1>2, <3>1, <3>2, SaleFrame
  <2> QED
    BY <2>1, <2>2
<1> QED
  BY <1>1, <1>2, <1>3 DEF SaleInv

LEMMA EndKeepsSale ==
  ASSUME PoolInv, SaleInv, NEW h \in Handlers,
         SellUnlog(h) \/ SellTimeout(h) \/ SellFault(h) \/ SaleRecorded(h)
  PROVE  SaleInv'
<1>1. PICK t \in Tickets :
        /\ arg[h] = t
        /\ pc[h] \in SellSteps \cup {"forget"}
        /\ Moves(h, "idle", Nothing)
        /\ UNCHANGED <<receipts, issued, charged, raced>>
        /\ logs' = logs \/ (pc[h] = "sellUnlog" /\ logs' = logs \ {t})
        /\ metadata' = metadata \/ (pc[h] = "forget" /\ metadata' = metadata \ {t})
        /\ halfway' = halfway \cup {t} \/ (pc[h] # "sellCommit" /\ halfway' = halfway)
  <2>1. arg[h] \in Tickets /\ pc[h] \in SellSteps \cup {"forget"} /\ Moves(h, "idle", Nothing)
    BY SellMoves, HandlerFacts DEF SellSteps
  <2>2. CASE SellUnlog(h) \/ SellTimeout(h)
    BY <2>1, <2>2 DEF SellUnlog, SellTimeout, ticketVars, chargeVars
  <2>3. CASE SellFault(h)
    BY <2>1, <2>3 DEF SellFault, chargeVars
  <2>4. CASE SaleRecorded(h)
    BY <2>1, <2>4 DEF SaleRecorded, Forget, ForgetTimeout, ticketVars, chargeVars
  <2> QED
    BY <2>2, <2>3, <2>4
<1>2. ASSUME NEW u \in Tickets PROVE TrailInv(u)' /\ OnceInv(u)'
  <2>1. /\ Paying(u)' \subseteq Paying(u) /\ Unlogging(u)' \subseteq Unlogging(u)
        /\ Noting(u)' \subseteq Noting(u)
    BY <1>1, PayingMoves, UnloggingMoves, NotingMoves DEF PoolInv
  <2>2. CASE u # t \/ pc[h] # "sellCommit"
    <3>1. Issuing(u)' = Issuing(u)
      BY <1>1, <2>2, IssuingMoves DEF PoolInv
    <3>2. CASE u # t
      BY <1>1, <2>1, <3>1, <3>2, SaleFrame
    <3>3. CASE u = t
      <4>1. pc[h] = "sellUnlog" => receipts[t] > 0
        BY <1>1, UnloggingMoves DEF PoolInv, SaleInv, TrailInv
      <4>2. pc[h] = "forget" => receipts[t] > 0 \/ t \in logs
        BY <1>1, NotingMoves DEF PoolInv, SaleInv, TrailInv
      <4>3. receipts[t] \in Nat
        BY DEF SaleInv
      <4> QED
        BY <1>1, <2>1, <3>1, <3>3, <4>1, <4>2, <4>3 DEF SaleInv, TrailInv, OnceInv
    <3> QED
      BY <3>2, <3>3
  <2>3. CASE u = t /\ pc[h] = "sellCommit"
    <3>1. Issuing(u)' \subseteq Issuing(u)
      BY <1>1, <2>3, IssuingMoves DEF PoolInv
    <3>2. IsFiniteSet(Issuing(u)')
      BY <3>1, FS_Subset DEF SaleInv, TrailInv
    <3> QED
      BY <1>1, <2>1, <2>3, <3>1, <3>2 DEF SaleInv, TrailInv, OnceInv
  <2> QED
    BY <2>2, <2>3
<1> QED
  BY <1>1, <1>2 DEF SaleInv

(* Moves of others leave ticket sales alone.                               *)
LEMMA OthersKeepSale ==
  ASSUME PoolInv, SaleInv, NEW h \in Handlers, NEW to, NEW x, Moves(h, to, x),
         pc[h] \notin SellSteps, to \notin SellSteps, to = "forget" => x \notin Tickets,
         UNCHANGED <<ticketVars, charged>>, raced \subseteq raced',
         \A t \in Tickets : t \in metadata => t \in metadata'
  PROVE  SaleInv'
<1>1. ASSUME NEW t \in Tickets PROVE TrailInv(t)' /\ OnceInv(t)'
  <2>1. /\ Paying(t)' = Paying(t) /\ Issuing(t)' = Issuing(t)
        /\ Unlogging(t)' = Unlogging(t) /\ Noting(t)' \subseteq Noting(t)
    BY PayingMoves, IssuingMoves, UnloggingMoves, NotingMoves DEF PoolInv, SellSteps
  <2> QED
    BY <2>1, SaleFrame DEF ticketVars
<1> QED
  BY <1>1 DEF SaleInv, ticketVars

LEMMA StillKeepsSale ==
  ASSUME SaleInv, UNCHANGED <<pc, arg, ticketVars, charged>>, raced \subseteq raced',
         \A t \in Tickets : t \in metadata => t \in metadata'
  PROVE  SaleInv'
<1>1. ASSUME NEW t \in Tickets PROVE TrailInv(t)' /\ OnceInv(t)'
  <2>1. /\ Paying(t)' = Paying(t) /\ Issuing(t)' = Issuing(t)
        /\ Unlogging(t)' = Unlogging(t) /\ Noting(t)' = Noting(t)
    BY DEF Paying, Issuing, Unlogging, Noting, Between
  <2> QED
    BY <2>1, SaleFrame DEF ticketVars
<1> QED
  BY <1>1 DEF SaleInv, ticketVars

LEMMA FundKeepsSale ==
  ASSUME PoolInv, SaleInv, UNCHANGED ticketVars, NEW h \in Handlers,
         (\E p \in Payments : FundWebhook(h, p)) \/ FundStep(h) \/ FundFault(h)
  PROVE  SaleInv'
<1> USE DEF SellSteps
<1>1. ASSUME NEW p \in Payments, FundWebhook(h, p) PROVE SaleInv'
  <2>1. pc[h] = "idle" /\ Moves(h, "fundLook", p) /\ UNCHANGED <<charged, metadata, raced>>
    BY <1>1, FundMoves DEF FundWebhook, chargeVars
  <2> QED
    BY <2>1, OthersKeepSale
<1>2. CASE FundLook(h)
  <2>1. /\ pc[h] = "fundLook" /\ Moves(h, "fundCredit", arg[h])
        /\ UNCHANGED <<charged, metadata>> /\ raced \subseteq raced'
    BY <1>2, FundMoves DEF FundLook, Checked, chargeVars
  <2> QED
    BY <2>1, OthersKeepSale
<1>3. CASE FundDuplicate(h) \/ FundCommit(h)
  <2>1. /\ pc[h] \in FundSteps /\ Moves(h, "forget", arg[h])
        /\ UNCHANGED <<charged, metadata, raced>>
    BY <1>3, FundMoves DEF FundDuplicate, FundCommit, chargeVars, FundSteps
  <2>2. arg[h] \notin Tickets /\ pc[h] \notin SellSteps
    BY <2>1, HandlerFacts, ChargesKnown DEF FundSteps
  <2> QED
    BY <2>1, <2>2, OthersKeepSale
<1>4. CASE FundCredit(h)
  <2>1. /\ pc[h] = "fundCredit" /\ Moves(h, "fundCommit", arg[h])
        /\ UNCHANGED <<charged, metadata, raced>>
    BY <1>4, FundMoves DEF FundCredit, chargeVars
  <2> QED
    BY <2>1, OthersKeepSale
<1>5. CASE FundConflict(h) \/ FundTimeout(h) \/ FundFault(h)
  <2>1. /\ pc[h] \in FundSteps /\ Moves(h, "idle", Nothing)
        /\ UNCHANGED <<charged, metadata, raced>>
    BY <1>5, FundMoves DEF FundConflict, FundTimeout, FundFault, Rollback, chargeVars, FundSteps
  <2> QED
    BY <2>1, OthersKeepSale DEF FundSteps
<1>6. CASE FundResolve(h)
  <2>1. /\ pc[h] = "forget" /\ Moves(h, "idle", Nothing)
        /\ arg[h] \in Payments /\ metadata' \in {metadata, metadata \ {arg[h]}}
        /\ UNCHANGED <<charged, raced>>
    BY <1>6, FundMoves DEF FundResolve, Forget, ForgetTimeout, chargeVars
  <2> QED
    BY <2>1, OthersKeepSale, ChargesKnown
<1> QED
  BY <1>1, <1>2, <1>3, <1>4, <1>5, <1>6 DEF FundStep

LEMMA SpendKeepsSale ==
  ASSUME PoolInv, SaleInv, UNCHANGED ticketVars, NEW h \in Handlers,
         \/ \E k \in Plans \ {"free"} : RequestPlan(h, k)
         \/ RequestFree(h) \/ RefuseRenewal(h) \/ SpendStep(h) \/ SpendFault(h)
  PROVE  SaleInv'
<1> USE DEF SellSteps
<1>1. ASSUME NEW k \in Plans \ {"free"}, RequestPlan(h, k) PROVE SaleInv'
  <2>1. /\ pc[h] = "idle" /\ Moves(h, "spendRead", k)
        /\ UNCHANGED <<charged, metadata>> /\ raced \subseteq raced'
    BY <1>1, SpendMoves DEF RequestPlan, Checked, chargeVars
  <2> QED
    BY <2>1, OthersKeepSale
<1>2. CASE RequestFree(h)
  <2>1. /\ pc[h] = "idle" /\ Moves(h, "freeInsert", "free")
        /\ UNCHANGED <<charged, metadata>> /\ raced \subseteq raced'
    BY <1>2, SpendMoves DEF RequestFree, Checked, chargeVars
  <2> QED
    BY <2>1, OthersKeepSale
<1>3. CASE RefuseRenewal(h)
  BY <1>3, StillKeepsSale DEF RefuseRenewal, chargeVars
<1>4. CASE SpendRead(h)
  <2>1. /\ pc[h] = "spendRead" /\ Moves(h, "spendInsert", arg[h])
        /\ UNCHANGED <<charged, metadata>> /\ raced \subseteq raced'
    BY <1>4, SpendMoves DEF SpendRead, chargeVars
  <2> QED
    BY <2>1, OthersKeepSale
<1>5. CASE SpendInsert(h)
  <2>1. /\ pc[h] = "spendInsert" /\ Moves(h, "spendDebit", arg[h])
        /\ UNCHANGED <<charged, metadata, raced>>
    BY <1>5, SpendMoves DEF SpendInsert, chargeVars
  <2> QED
    BY <2>1, OthersKeepSale
<1>6. CASE SpendDebit(h)
  <2>1. /\ pc[h] = "spendDebit" /\ Moves(h, "spendCommit", arg[h])
        /\ UNCHANGED <<charged, metadata, raced>>
    BY <1>6, SpendMoves DEF SpendDebit, chargeVars
  <2> QED
    BY <2>1, OthersKeepSale
<1>7. CASE \/ FreeInsert(h) \/ SpendCommit(h) \/ Insufficient(h) \/ SpendConflict(h)
           \/ SpendTimeout(h) \/ SpendFault(h)
  <2>1. /\ pc[h] \in Spending \cup {"freeInsert"} /\ Moves(h, "idle", Nothing)
        /\ UNCHANGED <<charged, metadata, raced>>
    BY <1>7, SpendMoves
    DEF FreeInsert, SpendCommit, Insufficient, SpendConflict, SpendTimeout, SpendFault, Rollback,
        chargeVars, Spending
  <2> QED
    BY <2>1, OthersKeepSale DEF Spending
<1> QED
  BY <1>1, <1>2, <1>3, <1>4, <1>5, <1>6, <1>7 DEF SpendStep

LEMMA DieKeepsSale == PoolInv /\ SaleInv /\ Die => SaleInv'
<1> SUFFICES ASSUME PoolInv, SaleInv, Die PROVE SaleInv'
  OBVIOUS
<1>1. ASSUME NEW t \in Tickets PROVE TrailInv(t)' /\ OnceInv(t)'
  <2>1. Paying(t)' = {} /\ Issuing(t)' = {} /\ Unlogging(t)' = {} /\ Noting(t)' = {}
    BY DEF Die, Paying, Issuing, Unlogging, Noting, Between
  <2>2. t \in halfway' <=> t \in halfway \/ Issuing(t) # {}
    BY ChargesKnown DEF Die, HalfDone, Issuing, Between
  <2>3. UNCHANGED <<receipts, issued, logs, metadata, charged, raced>>
    BY DEF Die, chargeVars
  <2>4. receipts[t] \in Nat /\ issued[t] \in Nat
    BY DEF SaleInv
  <2> QED
    BY <2>1, <2>2, <2>3, <2>4, FS_EmptySet DEF SaleInv, TrailInv, OnceInv
<1> QED
  BY <1>1 DEF SaleInv, Die

LEMMA SaleKept == PoolInv /\ SaleInv /\ [Next]_vars => SaleInv'
<1> SUFFICES ASSUME PoolInv, SaleInv, [Next]_vars PROVE SaleInv'
  OBVIOUS
<1>1. CASE TicketNext /\ UNCHANGED moneyVars
  BY <1>1, RecordKeepsSale, BeginKeepsSale, PayKeepsSale, CommitKeepsSale, EndKeepsSale
  DEF TicketNext, SellStep
<1>2. CASE WalletNext /\ UNCHANGED ticketVars
  BY <1>2, FundKeepsSale, SpendKeepsSale DEF WalletNext
<1>3. CASE ChargeNext /\ UNCHANGED <<moneyVars, ticketVars>>
  <2>1. ASSUME NEW x \in Charges, Charge(x) PROVE SaleInv'
    <3>1. ASSUME NEW t \in Tickets PROVE TrailInv(t)' /\ OnceInv(t)'
      <4>1. /\ Paying(t)' = Paying(t) /\ Issuing(t)' = Issuing(t)
            /\ Unlogging(t)' = Unlogging(t) /\ Noting(t)' = Noting(t)
        BY <2>1 DEF Charge, Paying, Issuing, Unlogging, Noting, Between
      <4> QED
        BY <1>3, <2>1, <4>1 DEF Charge, SaleInv, TrailInv, OnceInv, ticketVars
    <3> QED
      BY <1>3, <3>1 DEF SaleInv, ticketVars
  <2> QED
    BY <1>3, <2>1 DEF ChargeNext
<1>4. CASE Restart \/ \E h \in Handlers : MailFault(h)
  BY <1>4, DieKeepsSale DEF Restart, MailFault
<1>5. CASE UNCHANGED vars
  BY <1>5, StillKeepsSale DEF vars, requestVars, chargeVars
<1> QED
  BY <1>1, <1>2, <1>3, <1>4, <1>5 DEF Next

(***************************************************************************)
(* Wallet and plans.                                                       *)
(***************************************************************************)
CreditSteps == {"fundCredit", "fundCommit"}
DebitSteps == {"spendInsert", "spendDebit", "spendCommit"}

Crediting(p) == Between(p, CreditSteps)
Debiting == {h \in Handlers : pc[h] \in DebitSteps}
Renewing == Between("renewal", Spending)
Freeing == Between("free", {"freeInsert"})

(* Unless two had looked before either acted, whoever has looked is alone, *)
(* and what was seen still holds.                                          *)
CreditInv(p) ==
  p \notin raced =>
    /\ credited[p] <= 1
    /\ Crediting(p) # {} => credited[p] = 0
    /\ \A g, h \in Crediting(p) : g = h

DebitInv ==
  "wallet" \notin raced =>
    /\ balance >= 0
    /\ Debiting # {} => balance >= 1
    /\ \A g, h \in Debiting : g = h

RenewalInv ==
  "renewal" \notin raced =>
    /\ capacity = plans["renewal"]
    /\ \A h \in Renewing : base[h] = capacity
    /\ \A g, h \in Renewing : g = h

FreeInv ==
  "free" \notin raced =>
    /\ plans["free"] <= 1
    /\ Freeing # {} => plans["free"] = 0
    /\ \A g, h \in Freeing : g = h

MoneyType ==
  /\ balance \in Int
  /\ credited \in [Payments -> Nat]
  /\ plans \in [Plans -> Nat]
  /\ capacity \in Nat
  /\ base \in [Handlers -> Nat]

MoneyInv ==
  /\ MoneyType
  /\ \A p \in Payments : CreditInv(p)
  /\ DebitInv
  /\ RenewalInv
  /\ FreeInv

LEMMA MoneyStart == Init => MoneyInv
  BY DEF Init, PoolInit, MoneyInit, MoneyInv, MoneyType, CreditInv, DebitInv, RenewalInv, FreeInv,
         Crediting, Debiting, Renewing, Freeing, Between, CreditSteps, DebitSteps, Spending, Plans

(* Who leaves one of the sets of requests, or stays in it, disturbs none   *)
(* of the four.                                                            *)
LEMMA CreditFrame ==
  ASSUME MoneyInv, NEW p \in Payments, UNCHANGED credited, raced \subseteq raced',
         Crediting(p)' \subseteq Crediting(p)
  PROVE  CreditInv(p)'
  BY DEF MoneyInv, CreditInv

LEMMA DebitFrame ==
  ASSUME MoneyInv, UNCHANGED balance, raced \subseteq raced', Debiting' \subseteq Debiting
  PROVE  DebitInv'
  BY DEF MoneyInv, DebitInv

LEMMA RenewalFrame ==
  ASSUME MoneyInv, UNCHANGED <<plans["renewal"], capacity>>, raced \subseteq raced',
         Renewing' \subseteq Renewing, \A h \in Renewing' : base'[h] = base[h]
  PROVE  RenewalInv'
  BY DEF MoneyInv, RenewalInv

LEMMA FreeFrame ==
  ASSUME MoneyInv, UNCHANGED plans["free"], raced \subseteq raced', Freeing' \subseteq Freeing
  PROVE  FreeInv'
  BY DEF MoneyInv, FreeInv

(* What a move does to the four sets.                                      *)
LEMMA CreditMoves ==
  ASSUME RequestInv, NEW h \in Handlers, NEW to, NEW x, Moves(h, to, x), NEW p
  PROVE  /\ h \in Crediting(p) <=> pc[h] \in CreditSteps /\ arg[h] = p
         /\ x = p /\ to \in CreditSteps => Crediting(p)' = Crediting(p) \cup {h}
         /\ ~(x = p /\ to \in CreditSteps) => Crediting(p)' = Crediting(p) \ {h}
  BY DEF RequestInv, Moves, Crediting, Between

LEMMA DebitMoves ==
  ASSUME RequestInv, NEW h \in Handlers, NEW to, NEW x, Moves(h, to, x)
  PROVE  /\ h \in Debiting <=> pc[h] \in DebitSteps
         /\ to \in DebitSteps => Debiting' = Debiting \cup {h}
         /\ to \notin DebitSteps => Debiting' = Debiting \ {h}
  BY DEF RequestInv, Moves, Debiting

LEMMA RenewalMoves ==
  ASSUME RequestInv, NEW h \in Handlers, NEW to, NEW x, Moves(h, to, x)
  PROVE  /\ h \in Renewing <=> pc[h] \in Spending /\ arg[h] = "renewal"
         /\ x = "renewal" /\ to \in Spending => Renewing' = Renewing \cup {h}
         /\ ~(x = "renewal" /\ to \in Spending) => Renewing' = Renewing \ {h}
  BY DEF RequestInv, Moves, Renewing, Between

LEMMA FreeMoves ==
  ASSUME RequestInv, NEW h \in Handlers, NEW to, NEW x, Moves(h, to, x)
  PROVE  /\ h \in Freeing <=> pc[h] = "freeInsert" /\ arg[h] = "free"
         /\ x = "free" /\ to = "freeInsert" => Freeing' = Freeing \cup {h}
         /\ ~(x = "free" /\ to = "freeInsert") => Freeing' = Freeing \ {h}
  BY DEF RequestInv, Moves, Freeing, Between

(* A step that moves no money and takes nobody into one of the sets.       *)
LEMMA MoneyFrame ==
  ASSUME PoolInv, MoneyInv, NEW h \in Handlers, NEW to, NEW x, Moves(h, to, x),
         to # "freeInsert",
         to \in Spending => pc[h] \in Spending /\ x = arg[h],
         to \in DebitSteps => pc[h] \in DebitSteps,
         to \in CreditSteps => pc[h] \in CreditSteps /\ x = arg[h],
         UNCHANGED <<balance, credited, plans, capacity>>,
         base' = base \/ (base' = [base EXCEPT ![h] = 0] /\ to \notin Spending),
         raced \subseteq raced'
  PROVE  MoneyInv'
<1>0. RequestInv /\ base \in [Handlers -> Nat]
  BY DEF PoolInv, MoneyInv, MoneyType
<1>1. ASSUME NEW p \in Payments PROVE CreditInv(p)'
  <2>1. Crediting(p)' \subseteq Crediting(p)
    BY <1>0, CreditMoves
  <2> QED
    BY <2>1, CreditFrame
<1>2. DebitInv'
  <2>1. Debiting' \subseteq Debiting
    BY <1>0, DebitMoves
  <2> QED
    BY <2>1, DebitFrame
<1>3. RenewalInv'
  <2>1. Renewing' \subseteq Renewing
    BY <1>0, RenewalMoves
  <2>2. to \in Spending \/ h \notin Renewing'
    BY <1>0, RenewalMoves
  <2>3. Renewing' \subseteq Handlers
    BY <2>1 DEF Renewing, Between
  <2>4. \A g \in Renewing' : base'[g] = base[g]
    BY <1>0, <2>2, <2>3
  <2> QED
    BY <2>1, <2>4, RenewalFrame
<1>4. FreeInv'
  <2>1. Freeing' \subseteq Freeing
    BY <1>0, FreeMoves
  <2> QED
    BY <2>1, FreeFrame
<1>5. MoneyType'
  BY <1>0 DEF MoneyInv, MoneyType
<1> QED
  BY <1>1, <1>2, <1>3, <1>4, <1>5 DEF MoneyInv

LEMMA MoneyStill ==
  ASSUME MoneyInv, UNCHANGED <<pc, arg, balance, credited, plans, capacity, base>>,
         raced \subseteq raced'
  PROVE  MoneyInv'
<1>1. /\ \A p \in Payments : Crediting(p)' = Crediting(p)
      /\ Debiting' = Debiting /\ Renewing' = Renewing /\ Freeing' = Freeing
  BY DEF Crediting, Debiting, Renewing, Freeing, Between
<1> QED
  BY <1>1 DEF MoneyInv, MoneyType, CreditInv, DebitInv, RenewalInv, FreeInv

(* The steps that do: a payment is looked for and credited.                *)
LEMMA LookKeepsMoney ==
  ASSUME PoolInv, MoneyInv, NEW h \in Handlers, FundLook(h)
  PROVE  MoneyInv'
<1>1. PICK q \in Payments : arg[h] = q /\ pc[h] = "fundLook" /\ Moves(h, "fundCredit", q)
  BY FundMoves, HandlerFacts DEF FundSteps
<1>2. /\ UNCHANGED <<balance, credited, plans, capacity, base>>
      /\ credited[q] = 0
      /\ raced' = IF Crediting(q) = {} THEN raced ELSE raced \cup {q}
  BY <1>1 DEF FundLook, Checked, Crediting, CreditSteps, moneyVars, walletVars, planVars
<1>3. RequestInv /\ raced \subseteq raced'
  BY <1>2 DEF PoolInv
<1>4. ASSUME NEW p \in Payments PROVE CreditInv(p)'
  <2>1. CASE p = q
    <3>1. Crediting(q)' = Crediting(q) \cup {h}
      BY <1>1, <1>3, CreditMoves DEF CreditSteps
    <3> QED
      BY <1>2, <1>3, <2>1, <3>1 DEF CreditInv
  <2>2. CASE p # q
    <3>1. Crediting(p)' \subseteq Crediting(p)
      BY <1>1, <1>3, <2>2, CreditMoves
    <3> QED
      BY <1>2, <1>3, <3>1, CreditFrame
  <2> QED
    BY <2>1, <2>2
<1>5. Debiting' \subseteq Debiting /\ Renewing' \subseteq Renewing /\ Freeing' \subseteq Freeing
  BY <1>1, <1>3, DebitMoves, RenewalMoves, FreeMoves DEF DebitSteps, Spending
<1>6. DebitInv' /\ RenewalInv' /\ FreeInv'
  BY <1>2, <1>3, <1>5, DebitFrame, RenewalFrame, FreeFrame
<1> QED
  BY <1>2, <1>4, <1>6 DEF MoneyInv, MoneyType

LEMMA CommitKeepsMoney ==
  ASSUME PoolInv, MoneyInv, NEW h \in Handlers, FundCommit(h)
  PROVE  MoneyInv'
<1>1. PICK q \in Payments : arg[h] = q /\ pc[h] = "fundCommit" /\ Moves(h, "forget", q)
  BY FundMoves, HandlerFacts DEF FundSteps
<1>2. /\ UNCHANGED <<plans, capacity, base, raced>>
      /\ balance' = balance + 1
      /\ credited' = [credited EXCEPT ![q] = @ + 1]
  BY <1>1 DEF FundCommit, planVars
<1>3. RequestInv /\ MoneyType
  BY DEF PoolInv, MoneyInv
<1>4. ASSUME NEW p \in Payments PROVE CreditInv(p)'
  <2>1. Crediting(p)' = Crediting(p) \ {h} /\ (p = q => h \in Crediting(p))
    BY <1>1, <1>3, CreditMoves DEF CreditSteps
  <2>2. credited'[p] = IF p = q THEN credited[p] + 1 ELSE credited[p]
    BY <1>2, <1>3 DEF MoneyType
  <2> QED
    BY <1>2, <2>1, <2>2 DEF MoneyInv, CreditInv
<1>5. Debiting' \subseteq Debiting /\ Renewing' \subseteq Renewing /\ Freeing' \subseteq Freeing
  BY <1>1, <1>3, DebitMoves, RenewalMoves, FreeMoves DEF DebitSteps, Spending
<1>6. DebitInv'
  BY <1>2, <1>3, <1>5 DEF MoneyInv, MoneyType, DebitInv
<1>7. RenewalInv' /\ FreeInv'
  BY <1>2, <1>5, RenewalFrame, FreeFrame
<1>8. MoneyType'
  BY <1>2, <1>3 DEF MoneyType
<1> QED
  BY <1>4, <1>6, <1>7, <1>8 DEF MoneyInv

(* A plan is asked for: the last one is read.                              *)
LEMMA RequestKeepsMoney ==
  ASSUME PoolInv, MoneyInv, NEW h \in Handlers, NEW k \in Plans \ {"free"}, RequestPlan(h, k)
  PROVE  MoneyInv'
<1>1. pc[h] = "idle" /\ Moves(h, "spendRead", k)
  BY SpendMoves
<1>2. /\ UNCHANGED <<balance, credited, plans, capacity>>
      /\ base' = [base EXCEPT ![h] = IF k = "renewal" THEN capacity ELSE 0]
      /\ raced \subseteq raced'
      /\ k = "renewal" => raced' = IF Renewing = {} THEN raced ELSE raced \cup {"renewal"}
  BY DEF RequestPlan, Checked, Renewing, walletVars
<1>3. RequestInv /\ MoneyType
  BY DEF PoolInv, MoneyInv
<1>4. /\ \A p \in Payments : Crediting(p)' \subseteq Crediting(p)
      /\ Debiting' \subseteq Debiting /\ Freeing' \subseteq Freeing
  BY <1>1, <1>3, CreditMoves, DebitMoves, FreeMoves DEF CreditSteps, DebitSteps
<1>5. DebitInv' /\ FreeInv' /\ \A p \in Payments : CreditInv(p)'
  BY <1>2, <1>4, CreditFrame, DebitFrame, FreeFrame
<1>6. RenewalInv'
  <2>1. CASE k = "renewal"
    <3>1. Renewing' = Renewing \cup {h}
      BY <1>1, <1>3, <2>1, RenewalMoves DEF Spending
    <3>2. base'[h] = capacity
      BY <1>2, <1>3, <2>1 DEF MoneyType
    <3> QED
      BY <1>2, <2>1, <3>1, <3>2 DEF MoneyInv, RenewalInv
  <2>2. CASE k # "renewal"
    <3>1. Renewing' = Renewing \ {h} /\ Renewing \subseteq Handlers
      BY <1>1, <1>3, <2>2, RenewalMoves DEF Renewing, Between
    <3>2. \A g \in Renewing' : base'[g] = base[g]
      BY <1>2, <1>3, <3>1 DEF MoneyType
    <3> QED
      BY <1>2, <3>1, <3>2, RenewalFrame
  <2> QED
    BY <2>1, <2>2
<1>7. MoneyType'
  BY <1>2, <1>3 DEF MoneyType
<1> QED
  BY <1>5, <1>6, <1>7 DEF MoneyInv

LEMMA FreeKeepsMoney ==
  ASSUME PoolInv, MoneyInv, NEW h \in Handlers, RequestFree(h) \/ FreeInsert(h)
  PROVE  MoneyInv'
<1>1. \/ RequestFree(h) /\ pc[h] = "idle" /\ Moves(h, "freeInsert", "free")
      \/ FreeInsert(h) /\ pc[h] = "freeInsert" /\ arg[h] = "free" /\ Moves(h, "idle", Nothing)
  BY SpendMoves DEF PoolInv, RequestInv, Role
<1>2. /\ UNCHANGED <<balance, credited, capacity, base>>
      /\ raced \subseteq raced'
      /\ RequestFree(h) => /\ UNCHANGED plans /\ plans["free"] = 0
                           /\ raced' = IF Freeing = {} THEN raced ELSE raced \cup {"free"}
      /\ FreeInsert(h) => plans' = [plans EXCEPT !["free"] = @ + 1] /\ UNCHANGED raced
  BY DEF RequestFree, FreeInsert, Checked, Freeing, walletVars, planVars
<1>3. RequestInv /\ MoneyType
  BY DEF PoolInv, MoneyInv
<1>4. /\ \A p \in Payments : Crediting(p)' \subseteq Crediting(p)
      /\ Debiting' \subseteq Debiting /\ Renewing' \subseteq Renewing
  BY <1>1, <1>3, CreditMoves, DebitMoves, RenewalMoves DEF CreditSteps, DebitSteps, Spending
<1>5. plans'["renewal"] = plans["renewal"]
  BY <1>1, <1>2, <1>3 DEF MoneyType, Plans
<1>6. DebitInv' /\ RenewalInv' /\ \A p \in Payments : CreditInv(p)'
  BY <1>2, <1>4, <1>5, CreditFrame, DebitFrame, RenewalFrame
<1>7. FreeInv'
  <2>1. CASE RequestFree(h) /\ pc[h] = "idle" /\ Moves(h, "freeInsert", "free")
    <3>1. Freeing' = Freeing \cup {h}
      BY <1>3, <2>1, FreeMoves
    <3> QED
      BY <1>2, <2>1, <3>1 DEF FreeInv
  <2>2. CASE FreeInsert(h) /\ pc[h] = "freeInsert" /\ arg[h] = "free" /\ Moves(h, "idle", Nothing)
    <3>1. Freeing' = Freeing \ {h} /\ h \in Freeing
      BY <1>3, <2>2, FreeMoves
    <3>2. plans'["free"] = plans["free"] + 1
      BY <1>2, <1>3, <2>2 DEF MoneyType, Plans
    <3> QED
      BY <1>2, <2>2, <3>1, <3>2 DEF MoneyInv, FreeInv
  <2> QED
    BY <1>1, <2>1, <2>2
<1>8. MoneyType'
  BY <1>1, <1>2, <1>3 DEF MoneyType, Plans
<1> QED
  BY <1>6, <1>7, <1>8 DEF MoneyInv

(* The balance is read, and in the end debited.                            *)
LEMMA ReadKeepsMoney ==
  ASSUME PoolInv, MoneyInv, NEW h \in Handlers, SpendRead(h)
  PROVE  MoneyInv'
<1>1. pc[h] = "spendRead" /\ Moves(h, "spendInsert", arg[h])
  BY SpendMoves
<1>2. /\ UNCHANGED <<balance, credited, plans, capacity, base>>
      /\ balance >= 1
      /\ raced' = IF Debiting # {} THEN raced \cup {"wallet"} ELSE raced
  <2>1. (\E g \in Handlers : pc[g] \in DebitSteps) <=> Debiting # {}
    BY DEF Debiting
  <2> QED
    BY <2>1 DEF SpendRead, DebitSteps, moneyVars, walletVars, planVars
<1>3. RequestInv /\ raced \subseteq raced'
  BY <1>2 DEF PoolInv
<1>4. /\ \A p \in Payments : Crediting(p)' \subseteq Crediting(p)
      /\ Renewing' \subseteq Renewing /\ Freeing' \subseteq Freeing
      /\ Debiting' = Debiting \cup {h}
  BY <1>1, <1>3, CreditMoves, RenewalMoves, FreeMoves, DebitMoves DEF CreditSteps, Spending,
      DebitSteps
<1>5. RenewalInv' /\ FreeInv' /\ \A p \in Payments : CreditInv(p)'
  BY <1>2, <1>3, <1>4, CreditFrame, RenewalFrame, FreeFrame
<1>6. DebitInv'
  BY <1>2, <1>4 DEF MoneyInv, MoneyType, DebitInv
<1> QED
  BY <1>2, <1>5, <1>6 DEF MoneyInv, MoneyType

LEMMA DebitKeepsMoney ==
  ASSUME PoolInv, MoneyInv, NEW h \in Handlers, SpendCommit(h)
  PROVE  MoneyInv'
<1>1. PICK k \in Plans \ {"free"} :
        arg[h] = k /\ pc[h] = "spendCommit" /\ Moves(h, "idle", Nothing)
  BY SpendMoves, HandlerFacts DEF Spending
<1>2. /\ UNCHANGED <<credited, raced>>
      /\ balance' = balance - 1
      /\ plans' = [plans EXCEPT ![k] = @ + 1]
      /\ capacity' = IF k = "renewal" THEN base[h] + 1 ELSE capacity
      /\ base' = [base EXCEPT ![h] = 0]
  BY <1>1 DEF SpendCommit
<1>3. RequestInv /\ MoneyType
  BY DEF PoolInv, MoneyInv
<1>4. /\ \A p \in Payments : Crediting(p)' \subseteq Crediting(p)
      /\ Freeing' \subseteq Freeing
      /\ Debiting' = Debiting \ {h} /\ h \in Debiting
      /\ Renewing' = Renewing \ {h} /\ (k = "renewal" => h \in Renewing)
  BY <1>1, <1>3, CreditMoves, FreeMoves, DebitMoves, RenewalMoves DEF CreditSteps, DebitSteps,
      Spending
<1>5. plans'["free"] = plans["free"]
  BY <1>1, <1>2, <1>3 DEF MoneyType
<1>6. FreeInv' /\ \A p \in Payments : CreditInv(p)'
  BY <1>2, <1>4, <1>5, CreditFrame, FreeFrame
<1>7. DebitInv'
  BY <1>2, <1>3, <1>4 DEF MoneyInv, MoneyType, DebitInv
<1>8. RenewalInv'
  <2>1. CASE k = "renewal"
    <3>1. plans'["renewal"] = plans["renewal"] + 1 /\ capacity' = base[h] + 1
      BY <1>2, <1>3, <2>1 DEF MoneyType, Plans
    <3>2. "renewal" \notin raced => Renewing' = {}
      BY <1>4, <2>1 DEF MoneyInv, RenewalInv
    <3> QED
      BY <1>2, <1>4, <2>1, <3>1, <3>2 DEF MoneyInv, RenewalInv
  <2>2. CASE k # "renewal"
    <3>1. plans'["renewal"] = plans["renewal"] /\ capacity' = capacity
      BY <1>2, <1>3, <2>2 DEF MoneyType, Plans
    <3>2. Renewing \subseteq Handlers
      BY DEF Renewing, Between
    <3>3. \A g \in Renewing' : base'[g] = base[g]
      BY <1>2, <1>3, <1>4, <3>2 DEF MoneyType
    <3> QED
      BY <1>2, <1>4, <3>1, <3>3, RenewalFrame
  <2> QED
    BY <2>1, <2>2
<1>9. MoneyType'
  <2>1. plans' \in [Plans -> Nat] /\ base' \in [Handlers -> Nat]
    BY <1>1, <1>2, <1>3 DEF MoneyType
  <2>2. capacity' \in Nat /\ balance' \in Int
    BY <1>2, <1>3 DEF MoneyType
  <2> QED
    BY <1>2, <1>3, <2>1, <2>2 DEF MoneyType
<1> QED
  BY <1>6, <1>7, <1>8, <1>9 DEF MoneyInv

LEMMA FundKeepsMoney ==
  ASSUME PoolInv, MoneyInv, NEW h \in Handlers,
         (\E p \in Payments : FundWebhook(h, p)) \/ FundStep(h) \/ FundFault(h)
  PROVE  MoneyInv'
<1> USE DEF FundSteps, Spending, DebitSteps, CreditSteps
<1>1. ASSUME NEW p \in Payments, FundWebhook(h, p) PROVE MoneyInv'
  <2>1. /\ pc[h] = "idle" /\ Moves(h, "fundLook", p)
        /\ UNCHANGED <<balance, credited, plans, capacity, base, raced>>
    BY <1>1, FundMoves DEF FundWebhook, moneyVars, walletVars, planVars
  <2> QED
    BY <2>1, MoneyFrame
<1>2. CASE FundCredit(h)
  <2>1. /\ pc[h] = "fundCredit" /\ Moves(h, "fundCommit", arg[h])
        /\ UNCHANGED <<balance, credited, plans, capacity, base, raced>>
    BY <1>2, FundMoves DEF FundCredit, planVars
  <2> QED
    BY <2>1, MoneyFrame
<1>3. CASE FundDuplicate(h)
  <2>1. /\ pc[h] = "fundLook" /\ Moves(h, "forget", arg[h])
        /\ UNCHANGED <<balance, credited, plans, capacity, base, raced>>
    BY <1>3, FundMoves DEF FundDuplicate, moneyVars, walletVars, planVars
  <2> QED
    BY <2>1, MoneyFrame
<1>4. CASE FundConflict(h) \/ FundFault(h) \/ FundTimeout(h) \/ FundResolve(h)
  <2>1. /\ pc[h] \in FundSteps \cup {"forget"} /\ Moves(h, "idle", Nothing)
        /\ UNCHANGED <<balance, credited, plans, capacity, raced>>
        /\ base' \in {base, [base EXCEPT ![h] = 0]}
    BY <1>4, FundMoves
    DEF FundConflict, FundFault, FundTimeout, FundResolve, Forget, ForgetTimeout, Rollback,
        moneyVars, walletVars,
        planVars
  <2> QED
    BY <2>1, MoneyFrame
<1> QED
  BY <1>1, <1>2, <1>3, <1>4, LookKeepsMoney, CommitKeepsMoney DEF FundStep

LEMMA SpendKeepsMoney ==
  ASSUME PoolInv, MoneyInv, NEW h \in Handlers,
         \/ \E k \in Plans \ {"free"} : RequestPlan(h, k)
         \/ RequestFree(h) \/ RefuseRenewal(h) \/ SpendStep(h) \/ SpendFault(h)
  PROVE  MoneyInv'
<1> USE DEF Spending, DebitSteps, CreditSteps
<1>1. CASE RefuseRenewal(h)
  BY <1>1, MoneyStill DEF RefuseRenewal, walletVars, planVars
<1>2. CASE SpendInsert(h)
  <2>1. /\ pc[h] = "spendInsert" /\ Moves(h, "spendDebit", arg[h])
        /\ UNCHANGED <<balance, credited, plans, capacity, base, raced>>
    BY <1>2, SpendMoves DEF SpendInsert, moneyVars, walletVars, planVars
  <2> QED
    BY <2>1, MoneyFrame
<1>3. CASE SpendDebit(h)
  <2>1. /\ pc[h] = "spendDebit" /\ Moves(h, "spendCommit", arg[h])
        /\ UNCHANGED <<balance, credited, plans, capacity, base, raced>>
    BY <1>3, SpendMoves DEF SpendDebit, planVars
  <2> QED
    BY <2>1, MoneyFrame
<1>4. CASE Insufficient(h) \/ SpendConflict(h) \/ SpendTimeout(h) \/ SpendFault(h)
  <2>1. /\ Moves(h, "idle", Nothing)
        /\ UNCHANGED <<balance, credited, plans, capacity, raced>>
        /\ base' = [base EXCEPT ![h] = 0]
    BY <1>4, SpendMoves DEF Insufficient, SpendConflict, SpendTimeout, SpendFault, Rollback
  <2> QED
    BY <2>1, MoneyFrame
<1> QED
  BY <1>1, <1>2, <1>3, <1>4, RequestKeepsMoney, FreeKeepsMoney, ReadKeepsMoney, DebitKeepsMoney
  DEF SpendStep

LEMMA TicketsKeepMoney ==
  ASSUME PoolInv, MoneyInv, TicketNext, UNCHANGED moneyVars
  PROVE  MoneyInv'
<1> USE DEF Spending, DebitSteps, CreditSteps
<1>1. UNCHANGED <<balance, credited, plans, capacity, base>>
  BY DEF moneyVars, walletVars, planVars
<1>2. ASSUME NEW h \in Handlers, NEW t \in Tickets,
             RecordSale(h, t) \/ BeginSale(h, t) \/ AlreadySold(h, t)
      PROVE  MoneyInv'
  <2>1. raced \subseteq raced'
    BY <1>2 DEF RecordSale, BeginSale, AlreadySold, Checked
  <2>2. PICK to \in {"forget", "sellPay", "sellUnlog"} : Moves(h, to, t)
    BY <1>2, TicketMoves
  <2> QED
    BY <1>1, <2>1, <2>2, MoneyFrame
<1>3. ASSUME NEW h \in Handlers, NEW t \in Tickets,
             RecordAgain(h, t) \/ RecordFault(h, t) \/ LoseJob(h, t)
      PROVE  MoneyInv'
  BY <1>1, <1>3, MoneyStill DEF RecordAgain, RecordFault, LoseJob
<1>4. ASSUME NEW h \in Handlers, SellStep(h) \/ SellFault(h) PROVE MoneyInv'
  <2>1. raced' = raced
    BY <1>4 DEF SellStep, SellPay, SellCommit, SellUnlog, SellTimeout, SellFault, SaleRecorded,
                Forget, ForgetTimeout
  <2>2. \/ Moves(h, "sellCommit", arg[h])
        \/ Moves(h, "sellUnlog", arg[h])
        \/ Moves(h, "idle", Nothing)
    BY <1>4, SellMoves DEF SellStep
  <2> QED
    BY <1>1, <2>1, <2>2, MoneyFrame
<1> QED
  BY <1>2, <1>3, <1>4 DEF TicketNext

LEMMA DieKeepsMoney == MoneyInv /\ Die => MoneyInv'
<1> SUFFICES ASSUME MoneyInv, Die PROVE MoneyInv'
  OBVIOUS
<1>1. /\ \A p \in Payments : Crediting(p)' = {}
      /\ Debiting' = {} /\ Renewing' = {} /\ Freeing' = {}
  BY DEF Die, Crediting, Debiting, Renewing, Freeing, Between, CreditSteps, DebitSteps, Spending
<1>2. UNCHANGED <<balance, credited, plans, capacity, raced>> /\ base' = [h \in Handlers |-> 0]
  BY DEF Die
<1> QED
  BY <1>1, <1>2 DEF MoneyInv, MoneyType, CreditInv, DebitInv, RenewalInv, FreeInv

LEMMA MoneyKept == PoolInv /\ MoneyInv /\ [Next]_vars => MoneyInv'
<1> SUFFICES ASSUME PoolInv, MoneyInv, [Next]_vars PROVE MoneyInv'
  OBVIOUS
<1>1. CASE WalletNext
  BY <1>1, FundKeepsMoney, SpendKeepsMoney DEF WalletNext
<1>2. CASE ChargeNext /\ UNCHANGED <<moneyVars, ticketVars>>
  <2>1. ASSUME NEW x \in Charges, Charge(x) PROVE MoneyInv'
    BY <1>2, <2>1, MoneyStill DEF Charge, moneyVars, walletVars, planVars
  <2> QED
    BY <1>2, <2>1 DEF ChargeNext
<1>3. CASE Restart \/ \E h \in Handlers : MailFault(h)
  BY <1>3, DieKeepsMoney DEF Restart, MailFault
<1>4. CASE UNCHANGED vars
  BY <1>4, MoneyStill DEF vars, requestVars, moneyVars, walletVars, planVars
<1> QED
  BY <1>1, <1>2, <1>3, <1>4, TicketsKeepMoney DEF Next

(***************************************************************************)
(* The end of a funding.                                                   *)
(***************************************************************************)
Closed(p) == credited[p] > 0 => p \in resolved \cup halfway \/ Noting(p) # {}

CloseInv == \A p \in Payments : Closed(p)

LEMMA CloseStart == Init => CloseInv
  BY DEF Init, MoneyInit, CloseInv, Closed

(* What neither credits nor leaves a payment between its credit and its    *)
(* key without the key.                                                    *)
LEMMA CloseStill ==
  ASSUME CloseInv, UNCHANGED <<pc, arg, credited, resolved>>, halfway \subseteq halfway'
  PROVE  CloseInv'
  BY DEF CloseInv, Closed, Noting, Between

LEMMA CloseMove ==
  ASSUME PoolInv, CloseInv, NEW h \in Handlers, NEW to, NEW x, Moves(h, to, x),
         UNCHANGED credited, resolved \subseteq resolved', halfway \subseteq halfway',
         pc[h] = "forget" /\ arg[h] \in Payments => arg[h] \in resolved'
  PROVE  CloseInv'
<1>1. ASSUME NEW p \in Payments PROVE Closed(p)'
  <2>1. Noting(p)' = Noting(p) \/ p \in resolved' \/ h \in Noting(p)'
    BY NotingMoves DEF PoolInv
  <2> QED
    BY <2>1 DEF CloseInv, Closed
<1> QED
  BY <1>1 DEF CloseInv

LEMMA CommitCloses ==
  ASSUME PoolInv, MoneyInv, CloseInv, UNCHANGED halfway, NEW h \in Handlers, FundCommit(h)
  PROVE  CloseInv'
<1>1. PICK q \in Payments : arg[h] = q /\ pc[h] = "fundCommit" /\ Moves(h, "forget", q)
  BY FundMoves, HandlerFacts DEF FundSteps
<1>2. UNCHANGED resolved /\ credited' = [credited EXCEPT ![q] = @ + 1]
  BY <1>1 DEF FundCommit
<1>3. ASSUME NEW p \in Payments PROVE Closed(p)'
  <2>1. CASE p = q
    BY <1>1, <2>1, NotingMoves DEF PoolInv, Closed
  <2>2. CASE p # q
    <3>1. Noting(p)' = Noting(p)
      BY <1>1, <2>2, NotingMoves DEF PoolInv
    <3>2. credited'[p] = credited[p]
      BY <1>2, <2>2 DEF MoneyInv, MoneyType
    <3> QED
      BY <1>2, <3>1, <3>2 DEF CloseInv, Closed
  <2> QED
    BY <2>1, <2>2
<1> QED
  BY <1>3 DEF CloseInv

LEMMA FundCloses ==
  ASSUME PoolInv, MoneyInv, CloseInv, UNCHANGED ticketVars, NEW h \in Handlers,
         (\E p \in Payments : FundWebhook(h, p)) \/ FundStep(h) \/ FundFault(h)
  PROVE  CloseInv'
<1>1. CASE FundCommit(h)
  BY <1>1, CommitCloses DEF ticketVars
<1>2. CASE FundResolve(h)
  <2>1. /\ Moves(h, "idle", Nothing) /\ UNCHANGED <<credited, halfway>>
        /\ resolved' = resolved \cup {arg[h]}
    BY <1>2, FundMoves DEF FundResolve, ticketVars
  <2> QED
    BY <2>1, CloseMove
<1>3. CASE ~ FundCommit(h) /\ ~ FundResolve(h)
  <2>1. pc[h] # "forget" /\ \E to, x : Moves(h, to, x)
    BY <1>3, FundMoves DEF FundStep
  <2>2. UNCHANGED <<credited, resolved, halfway>>
    BY <1>3 DEF FundWebhook, FundStep, FundLook, FundDuplicate, FundCredit, FundConflict,
                FundTimeout, FundFault, Rollback, moneyVars, walletVars, ticketVars
  <2> QED
    BY <2>1, <2>2, CloseMove
<1> QED
  BY <1>1, <1>2, <1>3

LEMMA SpendCloses ==
  ASSUME PoolInv, CloseInv, UNCHANGED ticketVars, NEW h \in Handlers,
         \/ \E k \in Plans \ {"free"} : RequestPlan(h, k)
         \/ RequestFree(h) \/ RefuseRenewal(h) \/ SpendStep(h) \/ SpendFault(h)
  PROVE  CloseInv'
<1>1. CASE RefuseRenewal(h)
  BY <1>1, CloseStill DEF RefuseRenewal, walletVars, ticketVars
<1>2. CASE ~ RefuseRenewal(h)
  <2>1. pc[h] # "forget" /\ \E to, x : Moves(h, to, x)
    BY <1>2, SpendMoves DEF SpendStep, Spending
  <2>2. UNCHANGED <<credited, resolved, halfway>>
    BY <1>2 DEF RequestPlan, RequestFree, SpendStep, FreeInsert, SpendRead, Insufficient,
                SpendInsert,
                SpendDebit, SpendConflict, SpendCommit, SpendTimeout, SpendFault, Rollback,
                moneyVars,
                walletVars, ticketVars
  <2> QED
    BY <2>1, <2>2, CloseMove
<1> QED
  BY <1>1, <1>2

LEMMA TicketsKeepClosed ==
  ASSUME PoolInv, CloseInv, TicketNext, UNCHANGED moneyVars
  PROVE  CloseInv'
<1>0. UNCHANGED <<credited, resolved>>
  BY DEF moneyVars, walletVars
<1>1. ASSUME NEW h \in Handlers, NEW t \in Tickets,
             RecordSale(h, t) \/ BeginSale(h, t) \/ AlreadySold(h, t)
      PROVE  CloseInv'
  <2>1. pc[h] = "idle" /\ \E to, x : Moves(h, to, x)
    BY <1>1, TicketMoves
  <2>2. UNCHANGED halfway
    BY <1>1 DEF RecordSale, BeginSale, AlreadySold
  <2> QED
    BY <1>0, <2>1, <2>2, CloseMove
<1>2. ASSUME NEW h \in Handlers, NEW t \in Tickets,
             RecordAgain(h, t) \/ RecordFault(h, t) \/ LoseJob(h, t)
      PROVE  CloseInv'
  BY <1>0, <1>2, CloseStill DEF RecordAgain, RecordFault, LoseJob
<1>3. ASSUME NEW h \in Handlers, SellStep(h) \/ SellFault(h) PROVE CloseInv'
  <2>1. ~ (pc[h] = "forget" /\ arg[h] \in Payments) /\ \E to, x : Moves(h, to, x)
    BY <1>3, SellMoves, ChargesKnown DEF SellStep
  <2>2. halfway \subseteq halfway'
    BY <1>3 DEF SellStep, SellPay, SellCommit, SellUnlog, SellTimeout, SellFault, SaleRecorded,
                ticketVars
  <2> QED
    BY <1>0, <2>1, <2>2, CloseMove
<1> QED
  BY <1>1, <1>2, <1>3 DEF TicketNext

(* A payment that a dying request leaves without its key is halfway.       *)
LEMMA DieKeepsClosed ==
  ASSUME CloseInv, Die
  PROVE  CloseInv'
<1>1. ASSUME NEW p \in Payments PROVE Closed(p)'
  <2>1. UNCHANGED <<credited, resolved>> /\ halfway \subseteq halfway'
    BY DEF Die
  <2>2. Noting(p) # {} => p \in halfway'
    BY DEF Die, HalfDone, Noting, Between
  <2> QED
    BY <2>1, <2>2 DEF CloseInv, Closed
<1> QED
  BY <1>1 DEF CloseInv

LEMMA CloseKept == PoolInv /\ MoneyInv /\ CloseInv /\ [Next]_vars => CloseInv'
<1> SUFFICES ASSUME PoolInv, MoneyInv, CloseInv, [Next]_vars PROVE CloseInv'
  OBVIOUS
<1>1. CASE WalletNext /\ UNCHANGED ticketVars
  BY <1>1, FundCloses, SpendCloses DEF WalletNext
<1>2. CASE ChargeNext /\ UNCHANGED <<moneyVars, ticketVars>>
  BY <1>2, CloseStill DEF ChargeNext, Charge, moneyVars, walletVars, ticketVars
<1>3. CASE Restart \/ \E h \in Handlers : MailFault(h)
  BY <1>3, DieKeepsClosed DEF Restart, MailFault
<1>4. CASE UNCHANGED vars
  BY <1>4, CloseStill DEF vars, requestVars, moneyVars, walletVars, ticketVars
<1> QED
  BY <1>1, <1>2, <1>3, <1>4, TicketsKeepClosed DEF Next

(***************************************************************************)
(* The bound of the pool, and the types that nothing above needs.          *)
(***************************************************************************)
BoundInv ==
  /\ IsFiniteSet(held)
  /\ leaked \in Nat
  /\ Cardinality(held) + leaked <= PoolSize

(* Only a request at its debit can have an old snapshot.                   *)
StaleInv == stale \subseteq Snapshots

RestType ==
  /\ charged \subseteq Charges
  /\ metadata \subseteq charged
  /\ faults \in Nat
  /\ resolved \subseteq Payments
  /\ asked \in 0..MaxRequests
  /\ logs \subseteq Tickets
  /\ jobs \in [Tickets -> 0..MaxJobs]
  /\ halfway \subseteq Charges

LEMMA RestStart == Init => BoundInv /\ StaleInv /\ RestType
  BY FS_EmptySet, PoolNumbers, RequestsBounded, JobsBounded
  DEF Init, PoolInit, MoneyInit, TicketInit, BoundInv, StaleInv, RestType

(* What a request can do to the pool.                                      *)
PoolStep(h) ==
  \/ UNCHANGED poolVars
  \/ OpenTransaction(h)
  \/ EndTransaction(h)
  \/ LeaveOpen(h) /\ (h \in held \/ Free > 0)

LEMMA PoolSteps ==
  ASSUME PoolInv, Next
  PROVE  Die \/ UNCHANGED poolVars \/ \E h \in Handlers : PoolStep(h)
<1>1. ASSUME NEW h \in Handlers, NEW t \in Tickets,
             \/ RecordSale(h, t) \/ RecordAgain(h, t) \/ RecordFault(h, t)
             \/ BeginSale(h, t) \/ AlreadySold(h, t) \/ LoseJob(h, t)
      PROVE  PoolStep(h)
  BY <1>1 DEF RecordSale, RecordAgain, RecordFault, BeginSale, AlreadySold, LoseJob, Query,
              PoolStep,
              poolVars
<1>2. ASSUME NEW h \in Handlers, SellStep(h) \/ SellFault(h) PROVE PoolStep(h)
  BY <1>2 DEF SellStep, SellPay, SellCommit, SellUnlog, SellTimeout, SaleRecorded, SellFault,
              Forget, ForgetTimeout, Query, PoolStep, poolVars
<1>3. ASSUME NEW h \in Handlers,
             \/ \E p \in Payments : FundWebhook(h, p)
             \/ \E k \in Plans \ {"free"} : RequestPlan(h, k)
             \/ RequestFree(h) \/ RefuseRenewal(h)
      PROVE  PoolStep(h)
  BY <1>3 DEF FundWebhook, RequestPlan, RequestFree, RefuseRenewal, Query, PoolStep, poolVars
<1>4. ASSUME NEW h \in Handlers, FundStep(h) \/ FundFault(h) PROVE PoolStep(h)
  <2>1. pc[h] = "fundLook" => h \in held
    BY DEF PoolInv, InTransaction
  <2> QED
    BY <1>4, <2>1 DEF FundStep, FundLook, FundDuplicate, FundCredit, FundConflict, FundCommit,
              FundResolve, FundTimeout, FundFault, Go, Forget, ForgetTimeout, Rollback,
              CommitWallet, Query, PoolStep,
              poolVars
<1>5. ASSUME NEW h \in Handlers, SpendStep(h) \/ SpendFault(h) PROVE PoolStep(h)
  BY <1>5 DEF SpendStep, FreeInsert, SpendRead, Insufficient, SpendInsert, SpendDebit,
              SpendConflict, SpendCommit, SpendTimeout, SpendFault, Rollback, CommitWallet,
              Query, PoolStep, poolVars
<1>6. ASSUME NEW x \in Charges, Charge(x) PROVE UNCHANGED poolVars
  BY <1>6 DEF Charge
<1> QED
  BY <1>1, <1>2, <1>3, <1>4, <1>5, <1>6
  DEF Next, TicketNext, WalletNext, ChargeNext, Restart, MailFault

LEMMA BoundKept == PoolInv /\ BoundInv /\ [Next]_vars => BoundInv'
<1> SUFFICES ASSUME PoolInv, BoundInv, [Next]_vars PROVE BoundInv'
  OBVIOUS
<1> USE PoolNumbers
<1>1. CASE Die
  BY <1>1, FS_EmptySet DEF Die, BoundInv
<1>2. CASE UNCHANGED poolVars
  BY <1>2 DEF BoundInv, poolVars
<1>3. ASSUME NEW h \in Handlers, PoolStep(h) PROVE BoundInv'
  <2>1. /\ IsFiniteSet(held \cup {h}) /\ IsFiniteSet(held \ {h})
        /\ Cardinality(held) \in Nat /\ Cardinality(held \ {h}) \in Nat
        /\ Cardinality(held \cup {h}) <= Cardinality(held) + 1
        /\ Cardinality(held \cup {h}) \in Nat
        /\ Cardinality(held \ {h}) = Cardinality(held) - (IF h \in held THEN 1 ELSE 0)
    BY FS_AddElement, FS_RemoveElement, FS_CardinalityType DEF BoundInv
  <2>2. CASE OpenTransaction(h)
    BY <2>1, <2>2 DEF BoundInv, OpenTransaction, Free
  <2>3. CASE EndTransaction(h)
    BY <2>1, <2>3 DEF BoundInv, EndTransaction
  <2>4. CASE LeaveOpen(h) /\ (h \in held \/ Free > 0)
    BY <2>1, <2>4 DEF BoundInv, LeaveOpen, Free
  <2> QED
    BY <1>2, <1>3, <2>2, <2>3, <2>4 DEF PoolStep
<1>4. CASE UNCHANGED vars
  BY <1>2, <1>4 DEF vars, requestVars
<1> QED
  BY <1>1, <1>2, <1>3, <1>4, PoolSteps

(* A request that moves loses its snapshot, or had none.                   *)
Leaves(h) ==
  /\ \E to, x : Moves(h, to, x)
  /\ stale' \subseteq Snapshots \ {h}

LEMMA StaleSteps ==
  ASSUME PoolInv, StaleInv, Next
  PROVE  Die \/ UNCHANGED <<pc, stale>> \/ \E h \in Handlers : Leaves(h)
<1>0. \A h \in Handlers : pc[h] # "spendDebit" => stale \subseteq Snapshots \ {h}
  BY DEF StaleInv, Snapshots
<1>1. ASSUME TicketNext, UNCHANGED moneyVars
      PROVE  UNCHANGED <<pc, stale>> \/ \E h \in Handlers : Leaves(h)
  <2> USE <1>0, <1>1 DEF moneyVars, walletVars, Leaves
  <2>1. ASSUME NEW h \in Handlers, NEW t \in Tickets,
               \/ RecordSale(h, t) \/ RecordAgain(h, t) \/ RecordFault(h, t)
               \/ BeginSale(h, t) \/ AlreadySold(h, t) \/ LoseJob(h, t)
        PROVE  UNCHANGED <<pc, stale>> \/ Leaves(h)
    BY <2>1, TicketMoves
  <2>2. ASSUME NEW h \in Handlers, SellStep(h) \/ SellFault(h) PROVE Leaves(h)
    BY <2>2, SellMoves DEF SellStep
  <2> QED
    BY <2>1, <2>2 DEF TicketNext
<1>2. ASSUME WalletNext
      PROVE  UNCHANGED <<pc, stale>> \/ \E h \in Handlers : Leaves(h)
  <2>1. ASSUME NEW h \in Handlers,
               \/ \E p \in Payments : FundWebhook(h, p)
               \/ \E k \in Plans \ {"free"} : RequestPlan(h, k)
               \/ RequestFree(h)
        PROVE  Leaves(h)
    <3>1. UNCHANGED stale
      BY <2>1 DEF FundWebhook, RequestPlan, RequestFree, moneyVars, walletVars
    <3>2. pc[h] = "idle" /\ \E to, x : Moves(h, to, x)
      BY <2>1, FundMoves, SpendMoves
    <3> QED
      BY <1>0, <3>1, <3>2 DEF Leaves
  <2>2. ASSUME NEW h \in Handlers, FundStep(h) \/ FundFault(h) PROVE Leaves(h)
    <3>1. pc[h] # "spendDebit" /\ \E to, x : Moves(h, to, x)
      BY <2>2, FundMoves DEF FundStep
    <3>2. stale' \in {stale, stale \ {h}, (stale \cup Snapshots) \ {h}}
      BY <2>2 DEF FundStep, FundLook, FundDuplicate, FundCredit, FundConflict, FundCommit,
                  FundResolve, FundTimeout, FundFault, Rollback, CommitWallet, moneyVars,
                  walletVars
    <3> QED
      BY <1>0, <3>1, <3>2 DEF Leaves, StaleInv
  <2>3. ASSUME NEW h \in Handlers, SpendStep(h) \/ SpendFault(h) PROVE Leaves(h)
    <3>1. \E to, x : Moves(h, to, x)
      BY <2>3, SpendMoves DEF SpendStep
    <3>2. \/ stale' = stale /\ (pc[h] # "spendDebit" \/ h \notin stale)
          \/ stale' \in {stale \ {h}, (stale \cup Snapshots) \ {h}}
      BY <2>3 DEF SpendStep, FreeInsert, SpendRead, Insufficient, SpendInsert, SpendDebit, Go,
                  SpendConflict, SpendCommit, SpendTimeout, SpendFault, Rollback, CommitWallet,
                  moneyVars, walletVars
    <3> QED
      BY <1>0, <3>1, <3>2 DEF Leaves, StaleInv
  <2>4. ASSUME NEW h \in Handlers, RefuseRenewal(h) PROVE UNCHANGED <<pc, stale>>
    BY <2>4 DEF RefuseRenewal, walletVars
  <2> QED
    BY <1>2, <2>1, <2>2, <2>3, <2>4 DEF WalletNext
<1>3. ASSUME ChargeNext, UNCHANGED <<moneyVars, ticketVars>>
      PROVE  UNCHANGED <<pc, stale>> \/ \E h \in Handlers : Leaves(h)
  BY <1>3 DEF ChargeNext, Charge, moneyVars, walletVars
<1> QED
  BY <1>1, <1>2, <1>3 DEF Next, Restart, MailFault

LEMMA StaleKept == PoolInv /\ StaleInv /\ [Next]_vars => StaleInv'
<1> SUFFICES ASSUME PoolInv, StaleInv, [Next]_vars PROVE StaleInv'
  OBVIOUS
<1>1. CASE Die
  BY <1>1 DEF Die, StaleInv
<1>2. CASE UNCHANGED <<pc, stale>>
  BY <1>2 DEF StaleInv, Snapshots
<1>3. ASSUME NEW h \in Handlers, Leaves(h) PROVE StaleInv'
  <2>1. Snapshots \ {h} \subseteq Snapshots'
    BY <1>3 DEF Leaves, Moves, Snapshots, PoolInv, RequestInv
  <2> QED
    BY <1>3, <2>1 DEF Leaves, StaleInv
<1>4. CASE UNCHANGED vars
  BY <1>2, <1>4 DEF vars, requestVars, moneyVars, walletVars
<1> QED
  BY <1>1, <1>2, <1>3, <1>4, StaleSteps

LEMMA RestKept == PoolInv /\ RestType /\ [Next]_vars => RestType'
<1> SUFFICES ASSUME PoolInv, RestType, [Next]_vars PROVE RestType'
  OBVIOUS
<1> USE ChargesKnown, RequestsBounded, JobsBounded
<1>1. ASSUME NEW h \in Handlers, NEW t \in Tickets, UNCHANGED moneyVars,
             \/ RecordSale(h, t) \/ RecordAgain(h, t) \/ RecordFault(h, t)
             \/ BeginSale(h, t) \/ AlreadySold(h, t) \/ LoseJob(h, t)
      PROVE  RestType'
  <2>1. UNCHANGED <<charged, metadata, resolved, asked, halfway>>
    BY <1>1 DEF RecordSale, RecordAgain, RecordFault, BeginSale, AlreadySold, LoseJob, chargeVars,
                moneyVars, walletVars
  <2>2. faults' \in Nat
    BY <1>1 DEF RecordSale, RecordAgain, RecordFault, BeginSale, AlreadySold, LoseJob, Fault,
                RestType
  <2>3. logs' \subseteq Tickets
    BY <1>1 DEF RecordSale, RecordAgain, RecordFault, BeginSale, AlreadySold, LoseJob, RestType
  <2>4. jobs' \in [Tickets -> 0..MaxJobs]
    <3>1. \/ UNCHANGED jobs
          \/ AddJob(t)
          \/ jobs[t] > 0 /\ jobs' = [jobs EXCEPT ![t] = @ - 1]
      BY <1>1 DEF RecordSale, RecordAgain, RecordFault, BeginSale, AlreadySold, LoseJob, FindWork
    <3> QED
      BY <3>1 DEF AddJob, RestType
  <2> QED
    BY <2>1, <2>2, <2>3, <2>4 DEF RestType
<1>2. ASSUME NEW h \in Handlers, UNCHANGED moneyVars, SellStep(h) \/ SellFault(h)
      PROVE  RestType'
  <2>1. pc[h] = "sellCommit" => arg[h] \in Tickets
    BY DEF PoolInv, RequestInv, Role, SellSteps
  <2> QED
    BY <1>2, <2>1 DEF SellStep, SellPay, SellCommit, SellUnlog, SellTimeout, SaleRecorded,
                      SellFault,
                Forget, ForgetTimeout, Fault, RestType, chargeVars, ticketVars, moneyVars,
                walletVars
<1>3. ASSUME NEW h \in Handlers, UNCHANGED ticketVars,
             \/ \E p \in Payments : FundWebhook(h, p)
             \/ \E k \in Plans \ {"free"} : RequestPlan(h, k)
             \/ RequestFree(h) \/ RefuseRenewal(h)
      PROVE  RestType'
  BY <1>3 DEF FundWebhook, RequestPlan, RequestFree, RefuseRenewal, Ask, RestType, chargeVars,
              ticketVars, moneyVars, walletVars
<1>4. ASSUME NEW h \in Handlers, UNCHANGED ticketVars, FundStep(h) \/ FundFault(h)
      PROVE  RestType'
  BY <1>4 DEF FundStep, FundLook, FundDuplicate, FundCredit, FundConflict, FundCommit, FundResolve,
              FundTimeout, FundFault, Forget, ForgetTimeout, Rollback, Fault, RestType,
              chargeVars, ticketVars,
              moneyVars, walletVars
<1>5. ASSUME NEW h \in Handlers, UNCHANGED ticketVars, SpendStep(h) \/ SpendFault(h)
      PROVE  RestType'
  BY <1>5 DEF SpendStep, FreeInsert, SpendRead, Insufficient, SpendInsert, SpendDebit,
              SpendConflict,
              SpendCommit, SpendTimeout, SpendFault, Rollback, Fault, RestType, chargeVars,
              ticketVars, moneyVars, walletVars
<1>6. ASSUME UNCHANGED <<moneyVars, ticketVars>>, ChargeNext PROVE RestType'
  BY <1>6 DEF ChargeNext, Charge, RestType, chargeVars, ticketVars, moneyVars, walletVars
<1>7. ASSUME Die, Restart \/ \E h \in Handlers : MailFault(h) PROVE RestType'
  <2>1. UNCHANGED <<charged, metadata, resolved, asked, logs>> /\ faults' \in Nat
    BY <1>7 DEF Die, Restart, MailFault, Fault, RestType, chargeVars
  <2>2. halfway' \subseteq Charges
    BY <1>7 DEF Die, HalfDone, RestType, PoolInv, RequestInv, Role, SellSteps
  <2>3. jobs' \in [Tickets -> 0..MaxJobs]
    BY <1>7 DEF Die, RestType
  <2> QED
    BY <2>1, <2>2, <2>3 DEF RestType
<1>8. CASE UNCHANGED vars
  BY <1>8 DEF vars, requestVars, chargeVars, ticketVars, moneyVars, walletVars, RestType
<1> QED
  BY <1>1, <1>2, <1>3, <1>4, <1>5, <1>6, <1>7, <1>8
  DEF Next, TicketNext, WalletNext, Restart, MailFault

(* What is recorded as checked twice is a charge, a plan or the wallet.    *)
RacedType == raced \subseteq Charges \cup Plans \cup {"wallet"}

LEMMA RacedKept == PoolInv /\ RacedType /\ [Next]_vars => RacedType'
<1> SUFFICES ASSUME PoolInv, RacedType, [Next]_vars PROVE RacedType'
  OBVIOUS
<1> USE ChargesKnown
<1>1. ASSUME UNCHANGED raced \/ \E x \in Charges \cup Plans : \E S : Checked(x, S) PROVE RacedType'
  BY <1>1 DEF RacedType, Checked
<1>2. ASSUME NEW h \in Handlers, NEW t \in Tickets,
             \/ RecordSale(h, t) \/ RecordAgain(h, t) \/ RecordFault(h, t)
             \/ BeginSale(h, t) \/ AlreadySold(h, t) \/ LoseJob(h, t)
      PROVE  RacedType'
  BY <1>1, <1>2 DEF RecordSale, RecordAgain, RecordFault, BeginSale, AlreadySold, LoseJob
<1>3. ASSUME NEW h \in Handlers, SellStep(h) \/ SellFault(h) PROVE RacedType'
  BY <1>1, <1>3 DEF SellStep, SellPay, SellCommit, SellUnlog, SellTimeout, SaleRecorded, SellFault,
                    Forget, ForgetTimeout
<1>4. ASSUME NEW h \in Handlers, NEW p \in Payments, FundWebhook(h, p) PROVE RacedType'
  BY <1>1, <1>4 DEF FundWebhook
<1>5. ASSUME NEW h \in Handlers, NEW k \in Plans \ {"free"}, RequestPlan(h, k) PROVE RacedType'
  BY <1>1, <1>5 DEF RequestPlan
<1>6. ASSUME NEW h \in Handlers, RequestFree(h) \/ RefuseRenewal(h) PROVE RacedType'
  BY <1>1, <1>6 DEF RequestFree, RefuseRenewal, Plans
<1>7. ASSUME NEW h \in Handlers, FundStep(h) \/ FundFault(h) PROVE RacedType'
  <2>1. FundLook(h) => arg[h] \in Charges
    BY FundMoves DEF PoolInv, RequestInv, Role, FundSteps
  <2> QED
    BY <1>1, <1>7, <2>1
    DEF FundStep, FundLook, FundDuplicate, FundCredit, FundConflict, FundCommit, FundResolve,
        FundTimeout, FundFault, Forget, ForgetTimeout, Rollback
<1>8. ASSUME NEW h \in Handlers, SpendStep(h) \/ SpendFault(h) PROVE RacedType'
  <2>1. SpendRead(h) => RacedType'
    BY DEF SpendRead, RacedType
  <2> QED
    BY <1>1, <1>8, <2>1
    DEF SpendStep, FreeInsert, Insufficient, SpendInsert, SpendDebit, SpendConflict, SpendCommit,
        SpendTimeout, SpendFault, Rollback
<1>9. ASSUME ChargeNext \/ Die \/ UNCHANGED vars PROVE RacedType'
  BY <1>1, <1>9 DEF ChargeNext, Charge, Die, vars, requestVars
<1> QED
  BY <1>2, <1>3, <1>4, <1>5, <1>6, <1>7, <1>8, <1>9
  DEF Next, TicketNext, WalletNext, Restart, MailFault

(***************************************************************************)
(* The books of the wallet.                                                *)
(***************************************************************************)
Paid == plans["purchase"] + plans["renewal"]

(* All that can happen to the wallet and the plans: a funding is credited, *)
(* a plan is paid for, a free plan is created.                             *)
Credits(p) ==
  /\ balance' = balance + 1
  /\ credited' = [credited EXCEPT ![p] = @ + 1]
  /\ UNCHANGED plans

Pays(k) ==
  /\ balance' = balance - 1
  /\ plans' = [plans EXCEPT ![k] = @ + 1]
  /\ UNCHANGED credited

Gives ==
  /\ plans' = [plans EXCEPT !["free"] = @ + 1]
  /\ UNCHANGED <<balance, credited>>

WalletStep ==
  \/ \E p \in Payments : Credits(p)
  \/ \E k \in {"purchase", "renewal"} : Pays(k)
  \/ Gives
  \/ UNCHANGED <<balance, credited, plans>>

LEMMA WalletSteps == PoolInv /\ [Next]_vars => WalletStep
<1> SUFFICES ASSUME PoolInv, [Next]_vars PROVE WalletStep
  OBVIOUS
<1>1. ASSUME NEW h \in Handlers, FundStep(h) PROVE WalletStep
  <2>1. CASE FundCommit(h)
    <3>1. arg[h] \in Payments
      BY <2>1, FundMoves DEF PoolInv, RequestInv, Role, FundSteps
    <3>2. Credits(arg[h])
      BY <2>1 DEF FundCommit, Credits, planVars
    <3> QED
      BY <3>1, <3>2 DEF WalletStep
  <2>2. CASE ~ FundCommit(h)
    BY <1>1, <2>2
    DEF FundStep, FundLook, FundDuplicate, FundCredit, FundConflict, FundResolve, FundTimeout,
        Rollback, WalletStep, moneyVars, walletVars, planVars
  <2> QED
    BY <2>1, <2>2
<1>2. ASSUME NEW h \in Handlers, SpendStep(h) PROVE WalletStep
  <2>1. CASE SpendCommit(h)
    <3>1. arg[h] \in {"purchase", "renewal"}
      BY <2>1, SpendMoves DEF PoolInv, RequestInv, Role, Spending, Plans
    <3>2. Pays(arg[h])
      BY <2>1 DEF SpendCommit, Pays
    <3> QED
      BY <3>1, <3>2 DEF WalletStep
  <2>2. CASE FreeInsert(h)
    BY <2>2 DEF FreeInsert, Gives, WalletStep, walletVars
  <2>3. CASE ~ SpendCommit(h) /\ ~ FreeInsert(h)
    BY <1>2, <2>3
    DEF SpendStep, SpendRead, Insufficient, SpendInsert, SpendDebit, SpendConflict, SpendTimeout,
        Rollback, WalletStep, moneyVars, walletVars, planVars
  <2> QED
    BY <2>1, <2>2, <2>3
<1>3. CASE WalletNext
  <2>1. ASSUME NEW h \in Handlers,
               \/ \E p \in Payments : FundWebhook(h, p)
               \/ \E k \in Plans \ {"free"} : RequestPlan(h, k)
               \/ RequestFree(h) \/ RefuseRenewal(h) \/ FundFault(h) \/ SpendFault(h)
        PROVE  WalletStep
    BY <2>1
    DEF FundWebhook, RequestPlan, RequestFree, RefuseRenewal, FundFault, SpendFault, Rollback,
        WalletStep, moneyVars, walletVars, planVars
  <2> QED
    BY <1>1, <1>2, <1>3, <2>1 DEF WalletNext
<1>4. CASE UNCHANGED moneyVars \/ Die \/ UNCHANGED vars
  BY <1>4 DEF Die, WalletStep, vars, moneyVars, walletVars, planVars
<1> QED
  BY <1>3, <1>4 DEF Next, Restart, MailFault

BookInv == balance = SumFunctionOnSet(credited, Payments) - Paid

LEMMA BookStart == Init => BookInv
<1> SUFFICES ASSUME Init PROVE BookInv
  OBVIOUS
<1>1. balance = 0 /\ credited = [p \in Payments |-> 0] /\ Paid = 0
  BY DEF Init, MoneyInit, Paid, Plans
<1>2. SumFunctionOnSet([p \in Payments |-> 0], Payments) = 0
  BY PaymentsFinite, SumZero
<1> QED
  BY <1>1, <1>2 DEF BookInv

LEMMA BookKept == MoneyType /\ BookInv /\ WalletStep => BookInv'
<1> SUFFICES ASSUME MoneyType, BookInv, WalletStep PROVE BookInv'
  OBVIOUS
<1>1. Paid \in Int /\ balance \in Int /\ credited \in [Payments -> Int]
  BY DEF MoneyType, Paid, Plans
<1>2. SumFunctionOnSet(credited, Payments) \in Int
  BY <1>1, PaymentsFinite, SumInt
<1>3. ASSUME NEW p \in Payments, Credits(p) PROVE BookInv'
  <2>1. SumFunctionOnSet(credited, Payments)' = SumFunctionOnSet(credited, Payments) + 1
    <3>1. /\ \A q \in Payments : credited[q] \in Int /\ credited'[q] \in Int
          /\ \A q \in Payments \ {p} : credited'[q] = credited[q]
          /\ credited'[p] - credited[p] = 1
      BY <1>1, <1>3 DEF Credits
    <3>2. SumFunctionOnSet(credited', Payments) =
            SumFunctionOnSet(credited, Payments) + (credited'[p] - credited[p])
      BY <3>1, PaymentsFinite, SumChange
    <3> QED
      BY <3>1, <3>2
  <2>2. Paid' = Paid /\ balance' = balance + 1
    BY <1>3 DEF Credits, Paid
  <2> QED
    BY <1>1, <1>2, <2>1, <2>2 DEF BookInv
<1>4. ASSUME NEW k \in {"purchase", "renewal"}, Pays(k) PROVE BookInv'
  <2>1. Paid' = Paid + 1
    BY <1>4 DEF Pays, Paid, MoneyType, Plans
  <2>2. balance' = balance - 1 /\ credited' = credited
    BY <1>4 DEF Pays
  <2> QED
    BY <1>1, <1>2, <2>1, <2>2 DEF BookInv
<1>5. CASE Gives
  <2>1. Paid' = Paid
    BY <1>5 DEF Gives, Paid, MoneyType, Plans
  <2> QED
    BY <1>5, <2>1 DEF BookInv, Gives
<1>6. CASE UNCHANGED <<balance, credited, plans>>
  BY <1>6 DEF BookInv, Paid
<1> QED
  BY <1>3, <1>4, <1>5, <1>6 DEF WalletStep

(***************************************************************************)
(* How far the races go: what has been done to a payment, a purchase, the  *)
(* wallet or the free plan and the requests that may still do it are never *)
(* more than the requests that can be under way at once.                   *)
(***************************************************************************)
Limit == Cardinality(Handlers)

Within(n, S) == n = 0 \/ n + Cardinality(S) <= Limit

CreditBound == \A p \in Payments : Within(credited[p], Crediting(p))
FreeBound   == Within(plans["free"], Freeing)
PayBound    == \A t \in Tickets : Within(receipts[t], Paying(t))
IssueBound  == \A t \in Tickets : issued[t] + Cardinality(Issuing(t)) <= receipts[t]
DebitBound  == Handlers # {} => balance - Cardinality(Debiting) >= 1 - Limit

(* A renewal has read no more than was paid for.                           *)
RenewBound ==
  /\ capacity <= plans["renewal"]
  /\ \A h \in Handlers : base[h] <= plans["renewal"]

(* What is worked on, waits or has a log was paid for.                     *)
PaidFor ==
  /\ \A h \in Handlers : pc[h] \in FundSteps \cup SellSteps => arg[h] \in charged
  /\ logs \subseteq charged
  /\ \A t \in Tickets : jobs[t] > 0 => t \in charged

LimitInv ==
  /\ CreditBound /\ FreeBound /\ PayBound /\ IssueBound /\ DebitBound
  /\ RenewBound /\ PaidFor

LEMMA LimitStart == Init => LimitInv
<1> SUFFICES ASSUME Init PROVE LimitInv
  OBVIOUS
<1>1. /\ Debiting = {} /\ Freeing = {}
      /\ \A t \in Tickets : Issuing(t) = {}
  BY DEF Init, PoolInit, Debiting, Freeing, Issuing, Between, DebitSteps
<1>2. Limit \in Nat /\ (Handlers # {} => Limit # 0)
  BY HandlersFinite, FS_CardinalityType, FS_EmptySet DEF Limit
<1>3. DebitBound /\ IssueBound
  BY <1>1, <1>2, FS_EmptySet DEF Init, MoneyInit, TicketInit, DebitBound, IssueBound
<1>4. CreditBound /\ FreeBound /\ PayBound /\ RenewBound
  BY DEF Init, MoneyInit, TicketInit, CreditBound, FreeBound, PayBound, RenewBound, Within, Plans
<1>5. PaidFor
  BY DEF Init, PoolInit, TicketInit, PaidFor, FundSteps, SellSteps
<1> QED
  BY <1>3, <1>4, <1>5 DEF LimitInv

(* Sets of requests are finite.                                            *)
LEMMA Requests ==
  ASSUME NEW S \in SUBSET Handlers
  PROVE  /\ IsFiniteSet(S) /\ Cardinality(S) \in Nat /\ Limit \in Nat /\ Cardinality(S) <= Limit
         /\ \A T \in SUBSET S : Cardinality(T) \in Nat /\ Cardinality(T) <= Cardinality(S)
         /\ \A h \in S : Cardinality(S \ {h}) = Cardinality(S) - 1 /\ Cardinality(S) >= 1
<1>1. IsFiniteSet(S) /\ Cardinality(S) <= Limit
  BY HandlersFinite, FS_Subset DEF Limit
<1>2. Cardinality(S) \in Nat /\ Limit \in Nat
  BY <1>1, HandlersFinite, FS_CardinalityType DEF Limit
<1>3. ASSUME NEW T \in SUBSET S PROVE Cardinality(T) \in Nat /\ Cardinality(T) <= Cardinality(S)
  BY <1>1, FS_Subset, FS_CardinalityType
<1>4. ASSUME NEW h \in S PROVE Cardinality(S \ {h}) = Cardinality(S) - 1 /\ Cardinality(S) >= 1
  <2>1. IsFiniteSet(S \ {h}) /\ Cardinality(S \ {h}) = Cardinality(S) - 1
    BY <1>1, FS_RemoveElement
  <2>2. Cardinality(S \ {h}) \in Nat
    BY <2>1, FS_CardinalityType
  <2> QED
    BY <1>2, <2>1, <2>2
<1> QED
  BY <1>1, <1>2, <1>3, <1>4

(* A count goes up only with one of those that had looked, and none are    *)
(* added to them once it has.                                              *)
Counts(n, m, S, T) ==
  \/ m = 0
  \/ m = n /\ T \subseteq S
  \/ m = n + 1 /\ \E h \in S : T = S \ {h}

LEMMA WithinKept ==
  ASSUME NEW n \in Nat, NEW m, NEW S \in SUBSET Handlers, NEW T, Within(n, S), Counts(n, m, S, T)
  PROVE  Within(m, T)
<1>1. CASE m = 0
  BY <1>1 DEF Within
<1>2. CASE m = n /\ T \subseteq S
  BY <1>2, Requests DEF Within
<1>3. ASSUME m = n + 1, NEW h \in S, T = S \ {h} PROVE Within(m, T)
  BY <1>3, Requests DEF Within
<1> QED
  BY <1>1, <1>2, <1>3 DEF Counts

LEMMA WithinLimit ==
  ASSUME NEW n \in Nat, NEW S \in SUBSET Handlers, Within(n, S)
  PROVE  n <= Limit /\ (S # {} => n < Limit)
<1>1. S # {} => Cardinality(S) >= 1
  BY Requests
<1> QED
  BY <1>1, Requests DEF Within

(* Attendees are created by those who have written a payment row.          *)
Issues(t) ==
  \/ /\ UNCHANGED <<receipts[t], issued[t]>>
     /\ Issuing(t)' \subseteq Issuing(t)
  \/ /\ receipts'[t] = receipts[t] + 1 /\ issued'[t] = issued[t]
     /\ \E h \in Handlers : Issuing(t)' = Issuing(t) \cup {h}
  \/ /\ receipts'[t] = receipts[t] /\ issued'[t] = issued[t] + 1
     /\ \E h \in Issuing(t) : Issuing(t)' = Issuing(t) \ {h}

LEMMA IssuesKeep ==
  ASSUME NEW t \in Tickets, receipts[t] \in Nat, issued[t] \in Nat,
         issued[t] + Cardinality(Issuing(t)) <= receipts[t], Issues(t)
  PROVE  issued'[t] + Cardinality(Issuing(t)') <= receipts'[t]
<1>1. Issuing(t) \in SUBSET Handlers
  BY DEF Issuing, Between
<1>2. CASE UNCHANGED <<receipts[t], issued[t]>> /\ Issuing(t)' \subseteq Issuing(t)
  BY <1>1, <1>2, Requests
<1>3. ASSUME receipts'[t] = receipts[t] + 1, issued'[t] = issued[t],
             NEW h \in Handlers, Issuing(t)' = Issuing(t) \cup {h}
      PROVE  issued'[t] + Cardinality(Issuing(t)') <= receipts'[t]
  <2>1. IsFiniteSet(Issuing(t)) /\ Cardinality(Issuing(t)) \in Nat
    BY <1>1, Requests
  <2>2. Cardinality(Issuing(t)') \in {Cardinality(Issuing(t)), Cardinality(Issuing(t)) + 1}
    BY <1>3, <2>1, FS_AddElement
  <2> QED
    BY <1>3, <2>1, <2>2
<1>4. ASSUME receipts'[t] = receipts[t], issued'[t] = issued[t] + 1,
             NEW h \in Issuing(t), Issuing(t)' = Issuing(t) \ {h}
      PROVE  issued'[t] + Cardinality(Issuing(t)') <= receipts'[t]
  BY <1>1, <1>4, Requests
<1> QED
  BY <1>2, <1>3, <1>4 DEF Issues

(* The wallet is debited by those who have found a unit in it.             *)
Debits ==
  \/ balance' \in {balance, balance + 1} /\ Debiting' \subseteq Debiting
  \/ balance' = balance /\ balance >= 1
  \/ balance' = balance - 1 /\ \E h \in Debiting : Debiting' = Debiting \ {h}

LEMMA DebitsKeep == balance \in Int /\ DebitBound /\ Debits => DebitBound'
<1> SUFFICES ASSUME balance \in Int, DebitBound, Debits, Handlers # {} PROVE DebitBound'
  BY DEF DebitBound
<1>1. Debiting \in SUBSET Handlers /\ Debiting' \in SUBSET Handlers /\ Limit' = Limit
  BY DEF Debiting, Limit
<1>2. balance - Cardinality(Debiting) >= 1 - Limit /\ Limit \in Nat
  BY <1>1, Requests DEF DebitBound
<1>3. CASE balance' \in {balance, balance + 1} /\ Debiting' \subseteq Debiting
  BY <1>1, <1>2, <1>3, Requests DEF DebitBound
<1>4. CASE balance' = balance /\ balance >= 1
  BY <1>1, <1>2, <1>4, Requests DEF DebitBound
<1>5. ASSUME balance' = balance - 1, NEW h \in Debiting, Debiting' = Debiting \ {h}
      PROVE  DebitBound'
  BY <1>1, <1>2, <1>5, Requests DEF DebitBound
<1> QED
  BY <1>3, <1>4, <1>5 DEF Debits

(* Every step is of these forms.                                           *)
Advances ==
  /\ \A p \in Payments : Counts(credited[p], credited'[p], Crediting(p), Crediting(p)')
  /\ Counts(plans["free"], plans'["free"], Freeing, Freeing')
  /\ \A t \in Tickets : Counts(receipts[t], receipts'[t], Paying(t), Paying(t)') /\ Issues(t)
  /\ Debits

(* Nobody more has looked.                                                 *)
Shrinks ==
  /\ \A p \in Payments : Crediting(p)' \subseteq Crediting(p)
  /\ Debiting' \subseteq Debiting /\ Freeing' \subseteq Freeing
  /\ \A t \in Tickets : Paying(t)' \subseteq Paying(t) /\ Issuing(t)' \subseteq Issuing(t)

LEMMA MoveShrinks ==
  ASSUME RequestInv, NEW h \in Handlers, NEW to, NEW x, Moves(h, to, x)
  PROVE  /\ \A p : (to \in CreditSteps => pc[h] \in CreditSteps /\ x = arg[h]) \/ x # p =>
              Crediting(p)' \subseteq Crediting(p)
         /\ (to \in DebitSteps => pc[h] \in DebitSteps) => Debiting' \subseteq Debiting
         /\ to # "freeInsert" => Freeing' \subseteq Freeing
         /\ \A t : to # "sellPay" \/ x # t => Paying(t)' \subseteq Paying(t)
         /\ \A t : to # "sellCommit" \/ x # t => Issuing(t)' \subseteq Issuing(t)
<1>1. Debiting' \subseteq Debiting \/ (to \in DebitSteps /\ pc[h] \notin DebitSteps)
  BY DebitMoves
<1>2. Freeing' \subseteq Freeing \/ to = "freeInsert"
  BY FreeMoves
<1>3. ASSUME NEW y
      PROVE  /\ (to \in CreditSteps => pc[h] \in CreditSteps /\ x = arg[h]) \/ x # y =>
                  Crediting(y)' \subseteq Crediting(y)
             /\ to # "sellPay" \/ x # y => Paying(y)' \subseteq Paying(y)
             /\ to # "sellCommit" \/ x # y => Issuing(y)' \subseteq Issuing(y)
  BY CreditMoves, PayingMoves, IssuingMoves
<1> QED
  BY <1>1, <1>2, <1>3

LEMMA QuietMove ==
  ASSUME PoolInv, NEW h \in Handlers, NEW to, NEW x, Moves(h, to, x),
         to \notin {"freeInsert", "sellPay", "sellCommit"},
         to \in CreditSteps => pc[h] \in CreditSteps /\ x = arg[h],
         to \in DebitSteps => pc[h] \in DebitSteps
  PROVE  Shrinks
<1>1. RequestInv
  BY DEF PoolInv
<1> QED
  BY <1>1, MoveShrinks DEF Shrinks

LEMMA StillShrinks == UNCHANGED <<pc, arg>> \/ Die => Shrinks
<1>1. ASSUME UNCHANGED <<pc, arg>> PROVE Shrinks
  BY <1>1 DEF Shrinks, Crediting, Debiting, Freeing, Paying, Issuing, Between
<1>2. ASSUME Die PROVE Shrinks
  BY <1>2 DEF Die, Shrinks, Crediting, Debiting, Freeing, Paying, Issuing, Between, CreditSteps,
              DebitSteps
<1> QED
  BY <1>1, <1>2

(* Steps that count nothing.                                               *)
Quiet == Shrinks /\ UNCHANGED <<balance, credited, plans, receipts, issued>>

LEMMA QuietAdvances == Quiet => Advances
  BY DEF Quiet, Shrinks, Advances, Counts, Issues, Debits

LEMMA SaleQuiet ==
  ASSUME PoolInv, UNCHANGED moneyVars, NEW h \in Handlers,
         \/ \E t \in Tickets :
              \/ RecordSale(h, t) \/ RecordAgain(h, t) \/ RecordFault(h, t)
              \/ AlreadySold(h, t) \/ LoseJob(h, t)
         \/ SellUnlog(h) \/ SellTimeout(h) \/ SaleRecorded(h) \/ SellFault(h)
  PROVE  Quiet
<1> USE DEF CreditSteps, DebitSteps
<1>1. UNCHANGED <<balance, credited, plans, receipts, issued>>
  BY DEF moneyVars, walletVars, planVars, RecordSale, RecordAgain, RecordFault, AlreadySold,
         LoseJob, SellUnlog, SellTimeout, SaleRecorded, SellFault, ticketVars
<1>2. ASSUME NEW t \in Tickets, RecordSale(h, t) \/ AlreadySold(h, t) PROVE Shrinks
  BY <1>2, TicketMoves, QuietMove
<1>3. ASSUME NEW t \in Tickets, RecordAgain(h, t) \/ RecordFault(h, t) \/ LoseJob(h, t)
      PROVE  Shrinks
  BY <1>3, TicketMoves, StillShrinks
<1>4. ASSUME SellUnlog(h) \/ SellTimeout(h) \/ SaleRecorded(h) \/ SellFault(h) PROVE Shrinks
  <2>1. Moves(h, "idle", Nothing)
    BY <1>4, SellMoves
  <2> QED
    BY <2>1, QuietMove
<1> QED
  BY <1>1, <1>2, <1>3, <1>4 DEF Quiet

LEMMA FundQuiet ==
  ASSUME PoolInv, UNCHANGED ticketVars, NEW h \in Handlers,
         \/ \E p \in Payments : FundWebhook(h, p)
         \/ FundDuplicate(h) \/ FundCredit(h) \/ FundConflict(h) \/ FundResolve(h)
         \/ FundTimeout(h) \/ FundFault(h)
  PROVE  Quiet
<1> USE DEF CreditSteps, DebitSteps
<1>1. UNCHANGED <<balance, credited, plans, receipts, issued>>
  BY DEF moneyVars, walletVars, planVars, FundWebhook, FundDuplicate, FundCredit, FundConflict,
         FundResolve, FundTimeout, FundFault, Rollback, ticketVars
<1>2. ASSUME NEW p \in Payments, FundWebhook(h, p) PROVE Shrinks
  BY <1>2, FundMoves, QuietMove
<1>3. ASSUME FundDuplicate(h) \/ FundCredit(h) PROVE Shrinks
  <2>1. \/ Moves(h, "forget", arg[h])
        \/ Moves(h, "fundCommit", arg[h]) /\ pc[h] = "fundCredit"
    BY <1>3, FundMoves
  <2> QED
    BY <2>1, QuietMove
<1>4. ASSUME FundConflict(h) \/ FundResolve(h) \/ FundTimeout(h) \/ FundFault(h) PROVE Shrinks
  <2>1. Moves(h, "idle", Nothing)
    BY <1>4, FundMoves
  <2> QED
    BY <2>1, QuietMove
<1> QED
  BY <1>1, <1>2, <1>3, <1>4 DEF Quiet

LEMMA SpendQuiet ==
  ASSUME PoolInv, UNCHANGED ticketVars, NEW h \in Handlers,
         \/ \E k \in Plans \ {"free"} : RequestPlan(h, k)
         \/ RefuseRenewal(h) \/ Insufficient(h) \/ SpendInsert(h) \/ SpendDebit(h)
         \/ SpendConflict(h) \/ SpendTimeout(h) \/ SpendFault(h)
  PROVE  Quiet
<1> USE DEF CreditSteps, DebitSteps
<1>1. UNCHANGED <<balance, credited, plans, receipts, issued>>
  BY DEF moneyVars, walletVars, planVars, RequestPlan, RefuseRenewal, Insufficient, SpendInsert,
         SpendDebit, SpendConflict, SpendTimeout, SpendFault, Rollback, ticketVars
<1>2. ASSUME NEW k \in Plans \ {"free"}, RequestPlan(h, k) PROVE Shrinks
  BY <1>2, SpendMoves, QuietMove
<1>3. ASSUME RefuseRenewal(h) PROVE Shrinks
  <2>1. UNCHANGED <<pc, arg>>
    BY <1>3 DEF RefuseRenewal
  <2> QED
    BY <2>1, StillShrinks
<1>4. ASSUME SpendInsert(h) \/ SpendDebit(h) PROVE Shrinks
  <2>1. \/ Moves(h, "spendDebit", arg[h]) /\ pc[h] = "spendInsert"
        \/ Moves(h, "spendCommit", arg[h]) /\ pc[h] = "spendDebit"
    BY <1>4, SpendMoves
  <2> QED
    BY <2>1, QuietMove
<1>5. ASSUME Insufficient(h) \/ SpendConflict(h) \/ SpendTimeout(h) \/ SpendFault(h) PROVE Shrinks
  <2>1. Moves(h, "idle", Nothing)
    BY <1>5, SpendMoves
  <2> QED
    BY <2>1, QuietMove
<1> QED
  BY <1>1, <1>2, <1>3, <1>4, <1>5 DEF Quiet

LEMMA RestQuiet ==
  ASSUME PoolInv,
         \/ ChargeNext /\ UNCHANGED <<moneyVars, ticketVars>>
         \/ Die \/ UNCHANGED vars
  PROVE  Quiet
<1>1. UNCHANGED <<balance, credited, plans, receipts, issued>>
  BY DEF moneyVars, walletVars, planVars, ticketVars, Die, vars
<1> QED
  BY <1>1, StillShrinks DEF Quiet, ChargeNext, Charge, vars, requestVars

(* Steps that look or count.                                               *)
LEMMA LookAdvances ==
  ASSUME PoolInv, UNCHANGED ticketVars, NEW h \in Handlers, FundLook(h)
  PROVE  Advances
<1>1. PICK q \in Payments : arg[h] = q /\ pc[h] = "fundLook" /\ Moves(h, "fundCredit", q)
  BY FundMoves, HandlerFacts DEF FundSteps
<1>2. UNCHANGED <<balance, credited, plans, receipts, issued>> /\ credited[q] = 0
  BY <1>1 DEF FundLook, moneyVars, walletVars, planVars, ticketVars
<1>3. RequestInv
  BY DEF PoolInv
<1>4. /\ \A p \in Payments : p # q => Crediting(p)' \subseteq Crediting(p)
      /\ Debiting' \subseteq Debiting /\ Freeing' \subseteq Freeing
      /\ \A t \in Tickets : Paying(t)' \subseteq Paying(t) /\ Issuing(t)' \subseteq Issuing(t)
  BY <1>1, <1>3, MoveShrinks DEF DebitSteps
<1> QED
  BY <1>2, <1>4 DEF Advances, Counts, Issues, Debits

LEMMA CreditAdvances ==
  ASSUME PoolInv, MoneyInv, UNCHANGED ticketVars, NEW h \in Handlers, FundCommit(h)
  PROVE  Advances
<1>1. PICK q \in Payments : arg[h] = q /\ pc[h] = "fundCommit" /\ Moves(h, "forget", q)
  BY FundMoves, HandlerFacts DEF FundSteps
<1>2. /\ UNCHANGED <<plans, receipts, issued>>
      /\ balance' = balance + 1
      /\ credited' = [credited EXCEPT ![q] = @ + 1]
  BY <1>1 DEF FundCommit, planVars, ticketVars
<1>3. RequestInv
  BY DEF PoolInv
<1>4. Shrinks
  BY <1>1, QuietMove DEF CreditSteps, DebitSteps
<1>5. ASSUME NEW p \in Payments
      PROVE  Counts(credited[p], credited'[p], Crediting(p), Crediting(p)')
  <2>1. CASE p = q
    <3>1. h \in Crediting(q) /\ Crediting(q)' = Crediting(q) \ {h}
      BY <1>1, <1>3, CreditMoves DEF CreditSteps
    <3>2. credited'[q] = credited[q] + 1
      BY <1>2 DEF MoneyInv, MoneyType
    <3> QED
      BY <2>1, <3>1, <3>2 DEF Counts
  <2>2. CASE p # q
    BY <1>2, <1>4, <2>2 DEF MoneyInv, MoneyType, Counts, Shrinks
  <2> QED
    BY <2>1, <2>2
<1> QED
  BY <1>2, <1>4, <1>5 DEF Advances, Shrinks, Counts, Issues, Debits

LEMMA FreeAdvances ==
  ASSUME PoolInv, MoneyInv, UNCHANGED ticketVars, NEW h \in Handlers,
         RequestFree(h) \/ FreeInsert(h)
  PROVE  Advances
<1>1. RequestInv
  BY DEF PoolInv
<1>2. CASE RequestFree(h)
  <2>1. Moves(h, "freeInsert", "free")
    BY <1>2, SpendMoves
  <2>2. UNCHANGED <<balance, credited, plans, receipts, issued>> /\ plans["free"] = 0
    BY <1>2 DEF RequestFree, walletVars, planVars, ticketVars
  <2>3. /\ \A p \in Payments : Crediting(p)' \subseteq Crediting(p)
        /\ Debiting' \subseteq Debiting
        /\ \A t \in Tickets : Paying(t)' \subseteq Paying(t) /\ Issuing(t)' \subseteq Issuing(t)
    BY <1>1, <2>1, MoveShrinks DEF CreditSteps, DebitSteps
  <2> QED
    BY <2>2, <2>3 DEF Advances, Counts, Issues, Debits
<1>3. CASE FreeInsert(h)
  <2>1. pc[h] = "freeInsert" /\ Moves(h, "idle", Nothing) /\ arg[h] = "free"
    BY <1>1, <1>3, SpendMoves DEF RequestInv, Role
  <2>2. /\ UNCHANGED <<balance, credited, receipts, issued>>
        /\ plans'["free"] = plans["free"] + 1
    BY <1>3 DEF FreeInsert, walletVars, ticketVars, MoneyInv, MoneyType, Plans
  <2>3. h \in Freeing /\ Freeing' = Freeing \ {h}
    BY <1>1, <2>1, FreeMoves
  <2>4. Shrinks
    BY <2>1, QuietMove DEF CreditSteps, DebitSteps
  <2> QED
    BY <2>2, <2>3, <2>4 DEF Advances, Shrinks, Counts, Issues, Debits
<1> QED
  BY <1>2, <1>3

LEMMA SpendAdvances ==
  ASSUME PoolInv, MoneyInv, UNCHANGED ticketVars, NEW h \in Handlers,
         SpendRead(h) \/ SpendCommit(h)
  PROVE  Advances
<1>1. RequestInv
  BY DEF PoolInv
<1>2. CASE SpendRead(h)
  <2>1. Moves(h, "spendInsert", arg[h])
    BY <1>2, SpendMoves
  <2>2. UNCHANGED <<balance, credited, plans, receipts, issued>> /\ balance >= 1
    BY <1>2 DEF SpendRead, moneyVars, walletVars, planVars, ticketVars
  <2>3. /\ \A p \in Payments : Crediting(p)' \subseteq Crediting(p)
        /\ Freeing' \subseteq Freeing
        /\ \A t \in Tickets : Paying(t)' \subseteq Paying(t) /\ Issuing(t)' \subseteq Issuing(t)
    BY <1>1, <2>1, MoveShrinks DEF CreditSteps
  <2> QED
    BY <2>2, <2>3 DEF Advances, Counts, Issues, Debits
<1>3. CASE SpendCommit(h)
  <2>1. pc[h] = "spendCommit" /\ Moves(h, "idle", Nothing) /\ arg[h] \in Plans \ {"free"}
    BY <1>3, SpendMoves, HandlerFacts DEF Spending
  <2>2. /\ UNCHANGED <<credited, receipts, issued>> /\ balance' = balance - 1
        /\ plans'["free"] = plans["free"]
    BY <1>3, <2>1 DEF SpendCommit, ticketVars, MoneyInv, MoneyType, Plans
  <2>3. h \in Debiting /\ Debiting' = Debiting \ {h}
    BY <1>1, <2>1, DebitMoves DEF DebitSteps
  <2>4. Shrinks
    BY <2>1, QuietMove DEF CreditSteps, DebitSteps
  <2> QED
    BY <2>2, <2>3, <2>4 DEF Advances, Shrinks, Counts, Issues, Debits
<1> QED
  BY <1>2, <1>3

LEMMA BeginAdvances ==
  ASSUME PoolInv, UNCHANGED moneyVars, NEW h \in Handlers, NEW t \in Tickets, BeginSale(h, t)
  PROVE  Advances
<1>1. RequestInv /\ Moves(h, "sellPay", t)
  BY TicketMoves DEF PoolInv
<1>2. UNCHANGED <<balance, credited, plans, receipts, issued>> /\ receipts[t] = 0
  BY DEF BeginSale, moneyVars, walletVars, planVars
<1>3. /\ \A p \in Payments : Crediting(p)' \subseteq Crediting(p)
      /\ Debiting' \subseteq Debiting /\ Freeing' \subseteq Freeing
      /\ \A u \in Tickets : u # t => Paying(u)' \subseteq Paying(u)
      /\ \A u \in Tickets : Issuing(u)' \subseteq Issuing(u)
  BY <1>1, MoveShrinks DEF CreditSteps, DebitSteps
<1> QED
  BY <1>2, <1>3 DEF Advances, Counts, Issues, Debits

LEMMA PayAdvances ==
  ASSUME PoolInv, SaleInv, UNCHANGED moneyVars, NEW h \in Handlers, SellPay(h)
  PROVE  Advances
<1>1. PICK t \in Tickets : arg[h] = t /\ pc[h] = "sellPay" /\ Moves(h, "sellCommit", t)
  BY SellMoves, HandlerFacts DEF SellSteps
<1>2. /\ receipts' = [receipts EXCEPT ![t] = @ + 1]
      /\ UNCHANGED <<balance, credited, plans, issued>>
  BY <1>1 DEF SellPay, moneyVars, walletVars, planVars
<1>3. RequestInv /\ receipts \in [Tickets -> Nat]
  BY DEF PoolInv, SaleInv
<1>4. /\ \A p \in Payments : Crediting(p)' \subseteq Crediting(p)
      /\ Debiting' \subseteq Debiting /\ Freeing' \subseteq Freeing
      /\ \A u \in Tickets : Paying(u)' \subseteq Paying(u)
      /\ \A u \in Tickets : u # t => Issuing(u)' \subseteq Issuing(u)
  BY <1>1, <1>3, MoveShrinks DEF CreditSteps, DebitSteps
<1>5. /\ h \in Paying(t) /\ Paying(t)' = Paying(t) \ {h}
      /\ Issuing(t)' = Issuing(t) \cup {h}
  BY <1>1, <1>3, PayingMoves, IssuingMoves
<1>6. ASSUME NEW u \in Tickets
      PROVE  Counts(receipts[u], receipts'[u], Paying(u), Paying(u)') /\ Issues(u)
  <2>1. CASE u = t
    <3>1. receipts'[t] = receipts[t] + 1
      BY <1>2, <1>3
    <3> QED
      BY <1>2, <1>5, <2>1, <3>1 DEF Counts, Issues
  <2>2. CASE u # t
    <3>1. receipts'[u] = receipts[u]
      BY <1>2, <1>3, <2>2
    <3> QED
      BY <1>2, <1>4, <2>2, <3>1 DEF Counts, Issues
  <2> QED
    BY <2>1, <2>2
<1> QED
  BY <1>2, <1>4, <1>6 DEF Advances, Counts, Debits

LEMMA IssueAdvances ==
  ASSUME PoolInv, SaleInv, UNCHANGED moneyVars, NEW h \in Handlers, SellCommit(h)
  PROVE  Advances
<1>1. PICK t \in Tickets : arg[h] = t /\ pc[h] = "sellCommit" /\ Moves(h, "sellUnlog", t)
  BY SellMoves, HandlerFacts DEF SellSteps
<1>2. /\ issued' = [issued EXCEPT ![t] = @ + 1]
      /\ UNCHANGED <<balance, credited, plans, receipts>>
  BY <1>1 DEF SellCommit, moneyVars, walletVars, planVars
<1>3. RequestInv /\ issued \in [Tickets -> Nat]
  BY DEF PoolInv, SaleInv
<1>4. Shrinks
  BY <1>1, QuietMove DEF CreditSteps, DebitSteps
<1>5. h \in Issuing(t) /\ Issuing(t)' = Issuing(t) \ {h}
  BY <1>1, <1>3, IssuingMoves
<1>6. ASSUME NEW u \in Tickets PROVE Issues(u)
  <2>1. CASE u = t
    <3>1. issued'[t] = issued[t] + 1
      BY <1>2, <1>3
    <3> QED
      BY <1>2, <1>5, <2>1, <3>1 DEF Issues
  <2>2. CASE u # t
    <3>1. issued'[u] = issued[u]
      BY <1>2, <1>3, <2>2
    <3> QED
      BY <1>2, <1>4, <3>1 DEF Issues, Shrinks
  <2> QED
    BY <2>1, <2>2
<1> QED
  BY <1>2, <1>4, <1>6 DEF Advances, Shrinks, Counts, Debits

LEMMA AllAdvance == PoolInv /\ MoneyInv /\ SaleInv /\ [Next]_vars => Advances
<1> SUFFICES ASSUME PoolInv, MoneyInv, SaleInv, [Next]_vars PROVE Advances
  OBVIOUS
<1>1. CASE TicketNext /\ UNCHANGED moneyVars
  BY <1>1, SaleQuiet, QuietAdvances, BeginAdvances, PayAdvances, IssueAdvances
  DEF TicketNext, SellStep
<1>2. CASE WalletNext /\ UNCHANGED ticketVars
  BY <1>2, FundQuiet, SpendQuiet, QuietAdvances, LookAdvances, CreditAdvances, FreeAdvances,
     SpendAdvances
  DEF WalletNext, FundStep, SpendStep
<1>3. CASE \/ ChargeNext /\ UNCHANGED <<moneyVars, ticketVars>>
           \/ Die \/ UNCHANGED vars
  BY <1>3, RestQuiet, QuietAdvances
<1> QED
  BY <1>1, <1>2, <1>3 DEF Next, Restart, MailFault

LEMMA CountsKept ==
  ASSUME MoneyInv, SaleInv, CreditBound, FreeBound, PayBound, IssueBound, DebitBound, Advances
  PROVE  (CreditBound /\ FreeBound /\ PayBound /\ IssueBound /\ DebitBound)'
<1>1. /\ \A p \in Payments : credited[p] \in Nat /\ Crediting(p) \in SUBSET Handlers
      /\ plans["free"] \in Nat /\ Freeing \in SUBSET Handlers
      /\ \A t \in Tickets : /\ receipts[t] \in Nat /\ issued[t] \in Nat
                            /\ Paying(t) \in SUBSET Handlers
      /\ balance \in Int
  BY DEF MoneyInv, MoneyType, SaleInv, Plans, Crediting, Freeing, Paying, Between
<1>2. ASSUME NEW p \in Payments PROVE Within(credited'[p], Crediting(p)')
  BY <1>1, WithinKept DEF CreditBound, Advances
<1>3. Within(plans'["free"], Freeing')
  BY <1>1, WithinKept DEF FreeBound, Advances
<1>4. ASSUME NEW t \in Tickets PROVE Within(receipts'[t], Paying(t)')
  BY <1>1, WithinKept DEF PayBound, Advances
<1>5. ASSUME NEW t \in Tickets
      PROVE  issued'[t] + Cardinality(Issuing(t)') <= receipts'[t]
  BY <1>1, IssuesKeep DEF IssueBound, Advances
<1>6. DebitBound'
  BY <1>1, DebitsKeep DEF Advances
<1>7. CreditBound' /\ FreeBound' /\ PayBound'
  BY <1>2, <1>3, <1>4 DEF CreditBound, FreeBound, PayBound, Within, Limit
<1> QED
  BY <1>5, <1>6, <1>7 DEF IssueBound

(* Renewals: the number read, and the number written.                      *)
Renews(h) ==
  /\ plans'["renewal"] = plans["renewal"] + 1
  /\ capacity' = base[h] + 1

RenewSteps ==
  /\ \/ \E h \in Handlers : Renews(h)
     \/ plans'["renewal"] = plans["renewal"] /\ capacity' = capacity
  /\ \A h \in Handlers : base'[h] \in {base[h], capacity, 0}

LEMMA AllRenew == PoolInv /\ MoneyInv /\ [Next]_vars => RenewSteps
<1> SUFFICES ASSUME PoolInv, MoneyInv, [Next]_vars PROVE RenewSteps
  OBVIOUS
<1>0. base \in [Handlers -> Nat] /\ plans \in [Plans -> Nat] /\ "renewal" \in Plans
  BY DEF MoneyInv, MoneyType, Plans
<1>1. ASSUME NEW h \in Handlers, \E k \in Plans \ {"free"} : RequestPlan(h, k) PROVE RenewSteps
  BY <1>0, <1>1 DEF RequestPlan, RenewSteps
<1>2. ASSUME NEW h \in Handlers,
             \/ \E p \in Payments : FundWebhook(h, p)
             \/ RequestFree(h) \/ RefuseRenewal(h) \/ FundStep(h) \/ FundFault(h)
      PROVE  RenewSteps
  BY <1>0, <1>2 DEF FundWebhook, RequestFree, RefuseRenewal, FundStep, FundLook, FundDuplicate,
              FundCredit, FundConflict, FundCommit, FundResolve, FundTimeout, FundFault, Rollback,
              RenewSteps, moneyVars, planVars
<1>3. ASSUME NEW h \in Handlers, SpendStep(h) \/ SpendFault(h) PROVE RenewSteps
  <2>1. CASE SpendCommit(h)
    BY <1>0, <2>1 DEF SpendCommit, RenewSteps, Renews
  <2>2. CASE ~ SpendCommit(h)
    BY <1>0, <1>3, <2>2
    DEF SpendStep, FreeInsert, SpendRead, Insufficient, SpendInsert, SpendDebit, SpendConflict,
        SpendTimeout, SpendFault, Rollback, RenewSteps, moneyVars, planVars
  <2> QED
    BY <2>1, <2>2
<1>4. CASE UNCHANGED moneyVars \/ Die \/ UNCHANGED vars
  BY <1>0, <1>4 DEF Die, RenewSteps, vars, moneyVars, planVars
<1> QED
  BY <1>1, <1>2, <1>3, <1>4 DEF Next, WalletNext, Restart, MailFault

LEMMA RenewKept == MoneyInv /\ RenewBound /\ RenewSteps => RenewBound'
<1> SUFFICES ASSUME MoneyInv, RenewBound, RenewSteps PROVE RenewBound'
  OBVIOUS
<1>1. /\ plans["renewal"] \in Nat /\ capacity \in Nat
      /\ \A h \in Handlers : base[h] \in Nat
  BY DEF MoneyInv, MoneyType, Plans
<1>2. ASSUME NEW h \in Handlers, Renews(h) PROVE RenewBound'
  BY <1>1, <1>2 DEF RenewBound, Renews, RenewSteps
<1>3. CASE plans'["renewal"] = plans["renewal"] /\ capacity' = capacity
  BY <1>1, <1>3 DEF RenewBound, RenewSteps
<1> QED
  BY <1>2, <1>3 DEF RenewSteps

(* What is worked on was paid for: a request starts on a charge with       *)
(* metadata, a job or a log.                                               *)
Takes(h) ==
  \E to \in Steps, x \in Arguments :
    /\ Moves(h, to, x)
    /\ to \in FundSteps \cup SellSteps =>
         x \in charged \/ (x = arg[h] /\ pc[h] \in FundSteps \cup SellSteps)

Works ==
  /\ charged \subseteq charged'
  /\ \/ UNCHANGED <<pc, arg>>
     \/ \E h \in Handlers : Takes(h)
     \/ pc' = [h \in Handlers |-> "idle"]
  /\ logs' \subseteq logs \cup charged
  /\ \A t \in Tickets : jobs'[t] > 0 => jobs[t] > 0 \/ t \in charged

LEMMA WorksKeep == PoolInv /\ PaidFor /\ Works => PaidFor'
<1> SUFFICES ASSUME PoolInv, PaidFor, Works PROVE PaidFor'
  OBVIOUS
<1>1. logs' \subseteq charged' /\ \A t \in Tickets : jobs'[t] > 0 => t \in charged'
  BY DEF PaidFor, Works
<1>2. ASSUME NEW h \in Handlers, Takes(h), NEW g \in Handlers, pc'[g] \in FundSteps \cup SellSteps
      PROVE  arg'[g] \in charged'
  BY <1>2 DEF Takes, Moves, PoolInv, RequestInv, PaidFor, Works
<1>3. CASE UNCHANGED <<pc, arg>> \/ pc' = [h \in Handlers |-> "idle"]
  BY <1>1, <1>3 DEF PaidFor, Works, FundSteps, SellSteps
<1> QED
  BY <1>1, <1>2, <1>3 DEF PaidFor, Works

LEMMA SaleWorks ==
  ASSUME PoolInv, RestType, PaidFor, TicketNext
  PROVE  Works
<1> USE StepFacts, ChargesKnown DEF FundSteps, SellSteps
<1>1. ASSUME NEW h \in Handlers, NEW t \in Tickets,
             RecordSale(h, t) \/ BeginSale(h, t) \/ AlreadySold(h, t)
      PROVE  Works
  <2>1. PICK to \in {"forget", "sellPay", "sellUnlog"} : Moves(h, to, t)
    BY <1>1, TicketMoves
  <2>2. t \in charged /\ charged' = charged
    BY <1>1 DEF RecordSale, BeginSale, AlreadySold, FindWork, RestType, PaidFor, chargeVars
  <2>3. logs' \subseteq logs \cup charged
    BY <1>1, <2>2 DEF RecordSale, BeginSale, AlreadySold
  <2>4. \A u \in Tickets : jobs'[u] > 0 => jobs[u] > 0 \/ u \in charged
    BY <1>1, <2>2 DEF RecordSale, BeginSale, AlreadySold, FindWork, AddJob, RestType
  <2>5. Takes(h)
    BY <2>1, <2>2, HandlerFacts DEF Takes, Steps
  <2> QED
    BY <2>2, <2>3, <2>4, <2>5 DEF Works
<1>2. ASSUME NEW h \in Handlers, NEW t \in Tickets,
             RecordAgain(h, t) \/ RecordFault(h, t) \/ LoseJob(h, t)
      PROVE  Works
  <2>1. UNCHANGED <<pc, arg, charged>>
    BY <1>2 DEF RecordAgain, RecordFault, LoseJob, chargeVars
  <2>2. t \in charged
    BY <1>2 DEF RecordAgain, RecordFault, LoseJob, RestType, PaidFor
  <2>3. logs' \subseteq logs \cup charged
    BY <1>2, <2>2 DEF RecordAgain, RecordFault, LoseJob
  <2>4. \A u \in Tickets : jobs'[u] > 0 => jobs[u] > 0 \/ u \in charged
    BY <1>2, <2>2 DEF RecordAgain, RecordFault, LoseJob, AddJob, RestType
  <2> QED
    BY <2>1, <2>3, <2>4 DEF Works
<1>3. ASSUME NEW h \in Handlers, SellStep(h) \/ SellFault(h) PROVE Works
  <2>1. /\ charged' = charged /\ jobs' = jobs
        /\ logs' \subseteq logs
    BY <1>3 DEF SellStep, SellPay, SellCommit, SellUnlog, SellTimeout, SellFault, SaleRecorded,
                Forget, ForgetTimeout, chargeVars, ticketVars
  <2>2. \/ Moves(h, "sellCommit", arg[h]) /\ pc[h] = "sellPay"
        \/ Moves(h, "sellUnlog", arg[h]) /\ pc[h] = "sellCommit"
        \/ Moves(h, "idle", Nothing)
    BY <1>3, SellMoves DEF SellStep
  <2>3. Takes(h)
    BY <2>2, HandlerFacts DEF Takes, Steps, InTransaction
  <2> QED
    BY <2>1, <2>3 DEF Works
<1> QED
  BY <1>1, <1>2, <1>3 DEF TicketNext

LEMMA WalletWorks ==
  ASSUME PoolInv, RestType, WalletNext, UNCHANGED ticketVars
  PROVE  Works
<1> USE StepFacts, ChargesKnown DEF FundSteps, SellSteps
<1>0. UNCHANGED <<logs, jobs>>
  BY DEF ticketVars
<1>1. ASSUME NEW h \in Handlers, NEW p \in Payments, FundWebhook(h, p) PROVE Works
  <2>1. Moves(h, "fundLook", p) /\ p \in charged /\ charged' = charged
    BY <1>1, FundMoves DEF FundWebhook, RestType, chargeVars
  <2>2. Takes(h)
    BY <2>1, HandlerFacts DEF Takes, Steps, InTransaction
  <2> QED
    BY <1>0, <2>1, <2>2 DEF Works
<1>2. ASSUME NEW h \in Handlers, FundStep(h) \/ FundFault(h) PROVE Works
  <2>1. charged' = charged
    BY <1>2 DEF FundStep, FundLook, FundDuplicate, FundCredit, FundConflict, FundCommit,
                FundResolve, FundTimeout, FundFault, Forget, ForgetTimeout, Rollback, chargeVars
  <2>2. \/ Moves(h, "fundCredit", arg[h]) /\ pc[h] = "fundLook"
        \/ Moves(h, "fundCommit", arg[h]) /\ pc[h] = "fundCredit"
        \/ Moves(h, "forget", arg[h])
        \/ Moves(h, "idle", Nothing)
    BY <1>2, FundMoves DEF FundStep
  <2>3. Takes(h)
    BY <2>2, HandlerFacts DEF Takes, Steps, InTransaction
  <2> QED
    BY <1>0, <2>1, <2>3 DEF Works
<1>3. ASSUME NEW h \in Handlers,
             \/ \E k \in Plans \ {"free"} : RequestPlan(h, k)
             \/ RequestFree(h) \/ SpendStep(h) \/ SpendFault(h)
      PROVE  Works
  <2>1. charged' = charged
    BY <1>3 DEF RequestPlan, RequestFree, SpendStep, FreeInsert, SpendRead, Insufficient,
                SpendInsert,
                SpendDebit, SpendConflict, SpendCommit, SpendTimeout, SpendFault, Rollback,
                chargeVars
  <2>2. \E to \in Spending \cup {"freeInsert", "idle"}, x \in Arguments : Moves(h, to, x)
    <3>1. CASE \E k \in Plans \ {"free"} : RequestPlan(h, k)
      BY <3>1, SpendMoves, HandlerFacts DEF Spending
    <3>2. CASE RequestFree(h)
      BY <3>2, SpendMoves, HandlerFacts DEF Plans
    <3>3. CASE SpendStep(h) \/ SpendFault(h)
      <4>1. \E to \in Spending \cup {"idle"} : Moves(h, to, arg[h]) \/ Moves(h, to, Nothing)
        BY <3>3, SpendMoves DEF SpendStep, Spending
      <4> QED
        BY <4>1, HandlerFacts
    <3> QED
      BY <1>3, <3>1, <3>2, <3>3
  <2>3. Takes(h)
    BY <2>2 DEF Takes, Steps, InTransaction, Spending
  <2> QED
    BY <1>0, <2>1, <2>3 DEF Works
<1>4. ASSUME NEW h \in Handlers, RefuseRenewal(h) PROVE Works
  BY <1>0, <1>4 DEF RefuseRenewal, Works, chargeVars
<1> QED
  BY <1>1, <1>2, <1>3, <1>4 DEF WalletNext

LEMMA AllWork == PoolInv /\ RestType /\ PaidFor /\ [Next]_vars => Works
<1> SUFFICES ASSUME PoolInv, RestType, PaidFor, [Next]_vars PROVE Works
  OBVIOUS
<1>1. CASE ChargeNext /\ UNCHANGED <<moneyVars, ticketVars>>
  <2>1. ASSUME NEW x \in Charges, Charge(x) PROVE Works
    BY <1>1, <2>1 DEF Charge, Works, ticketVars
  <2> QED
    BY <1>1, <2>1 DEF ChargeNext
<1>2. CASE Die
  <2>1. \A t \in Tickets : Selling(t) => t \in charged
    BY DEF Selling, Between, PaidFor, SellSteps
  <2>2. \A t \in Tickets : jobs'[t] > 0 => jobs[t] > 0 \/ t \in charged
    BY <1>2, <2>1 DEF Die
  <2> QED
    BY <1>2, <2>2 DEF Die, Works, chargeVars
<1>3. CASE UNCHANGED vars
  BY <1>3 DEF vars, requestVars, chargeVars, ticketVars, Works
<1> QED
  BY <1>1, <1>2, <1>3, SaleWorks, WalletWorks DEF Next, Restart, MailFault

LEMMA LimitKept ==
  PoolInv /\ MoneyInv /\ SaleInv /\ RestType /\ LimitInv /\ [Next]_vars => LimitInv'
<1>1. PoolInv /\ MoneyInv /\ SaleInv /\ LimitInv /\ Advances
        => (CreditBound /\ FreeBound /\ PayBound /\ IssueBound /\ DebitBound)'
  BY CountsKept DEF LimitInv
<1> QED
  BY <1>1, AllAdvance, AllRenew, RenewKept, AllWork, WorksKeep DEF LimitInv

(* What the steps are to those who pay.                                    *)
AccountStep ==
  \/ UNCHANGED <<charged, balance, credited, plans, capacity, issued>>
  \/ \E x \in Charges :
       /\ Charge(x)
       /\ UNCHANGED <<balance, credited, plans, capacity, issued>>
  \/ \E h \in Handlers :
       /\ \/ FundCommit(h) /\ UNCHANGED issued
          \/ FreeInsert(h) /\ UNCHANGED issued
          \/ SpendCommit(h) /\ UNCHANGED issued
          \/ SellCommit(h) /\ UNCHANGED <<balance, credited, plans, capacity>>
       /\ UNCHANGED charged

LEMMA AccountSteps == [Next]_vars => AccountStep
<1> SUFFICES ASSUME [Next]_vars PROVE AccountStep
  OBVIOUS
<1>1. CASE TicketNext /\ UNCHANGED moneyVars
  <2>0. UNCHANGED <<balance, credited, plans, capacity>>
    BY <1>1 DEF moneyVars, walletVars, planVars
  <2>1. ASSUME NEW h \in Handlers, NEW t \in Tickets,
               \/ RecordSale(h, t) \/ RecordAgain(h, t) \/ RecordFault(h, t)
               \/ BeginSale(h, t) \/ AlreadySold(h, t) \/ LoseJob(h, t)
        PROVE  UNCHANGED <<charged, issued>>
    BY <2>1 DEF RecordSale, RecordAgain, RecordFault, BeginSale, AlreadySold, LoseJob, chargeVars
  <2>2. ASSUME NEW h \in Handlers, SellStep(h) \/ SellFault(h), ~ SellCommit(h)
        PROVE  UNCHANGED <<charged, issued>>
    BY <2>2 DEF SellStep, SellPay, SellUnlog, SellTimeout, SellFault, SaleRecorded, Forget,
                ForgetTimeout,
                chargeVars, ticketVars
  <2>3. ASSUME NEW h \in Handlers, SellCommit(h) PROVE AccountStep
    BY <2>0, <2>3 DEF SellCommit, AccountStep, chargeVars
  <2> QED
    BY <1>1, <2>0, <2>1, <2>2, <2>3 DEF TicketNext, AccountStep
<1>2. CASE WalletNext /\ UNCHANGED ticketVars
  <2>0. UNCHANGED issued
    BY <1>2 DEF ticketVars
  <2>1. ASSUME NEW h \in Handlers,
               \/ \E p \in Payments : FundWebhook(h, p)
               \/ \E k \in Plans \ {"free"} : RequestPlan(h, k)
               \/ RequestFree(h) \/ RefuseRenewal(h) \/ FundFault(h) \/ SpendFault(h)
        PROVE  UNCHANGED <<charged, balance, credited, plans, capacity>>
    BY <2>1 DEF FundWebhook, RequestPlan, RequestFree, RefuseRenewal, FundFault, SpendFault,
                Rollback, moneyVars, walletVars, planVars, chargeVars
  <2>2. ASSUME NEW h \in Handlers, FundStep(h), ~ FundCommit(h)
        PROVE  UNCHANGED <<charged, balance, credited, plans, capacity>>
    BY <2>2 DEF FundStep, FundLook, FundDuplicate, FundCredit, FundConflict, FundResolve,
                FundTimeout, Forget, ForgetTimeout, Rollback, moneyVars, walletVars, planVars,
                chargeVars
  <2>3. ASSUME NEW h \in Handlers, SpendStep(h), ~ FreeInsert(h), ~ SpendCommit(h)
        PROVE  UNCHANGED <<charged, balance, credited, plans, capacity>>
    BY <2>3 DEF SpendStep, SpendRead, Insufficient, SpendInsert, SpendDebit, SpendConflict,
                SpendTimeout, Rollback, moneyVars, walletVars, planVars, chargeVars
  <2>4. ASSUME NEW h \in Handlers, FundCommit(h) \/ FreeInsert(h) \/ SpendCommit(h)
        PROVE  AccountStep
    BY <2>0, <2>4 DEF FundCommit, FreeInsert, SpendCommit, AccountStep, chargeVars
  <2> QED
    BY <1>2, <2>0, <2>1, <2>2, <2>3, <2>4 DEF WalletNext, AccountStep
<1>3. CASE ChargeNext /\ UNCHANGED <<moneyVars, ticketVars>>
  BY <1>3 DEF ChargeNext, AccountStep, moneyVars, walletVars, planVars, ticketVars,
              chargeVars
<1>4. CASE Die \/ UNCHANGED vars
  BY <1>4 DEF Die, AccountStep, vars, requestVars, chargeVars, moneyVars, walletVars, planVars,
              ticketVars
<1> QED
  BY <1>1, <1>2, <1>3, <1>4 DEF Next, Restart, MailFault

LEMMA AccountsAbove ==
  ASSUME PoolInv, MoneyInv, SaleInv, LimitInv, AccountStep
  PROVE  [Accounts!Next]_Accounts!vars
<1> USE DEF Accounts!Add
<1>1. ASSUME NEW x \in Charges, Charge(x),
             UNCHANGED <<balance, credited, plans, capacity, issued>>
      PROVE  Accounts!Next
  BY <1>1, ChargesKnown DEF Charge, Accounts!Charge, Accounts!Next
<1>2. ASSUME NEW h \in Handlers, FundCommit(h), UNCHANGED <<issued, charged>>
      PROVE  Accounts!Next
  <2>1. PICK p \in Payments : arg[h] = p /\ pc[h] = "fundCommit"
    BY <1>2, FundMoves, HandlerFacts DEF FundSteps
  <2>2. p \in charged
    BY <2>1 DEF LimitInv, PaidFor, FundSteps
  <2>3. credited[p] < Limit
    <3>1. Within(credited[p], Crediting(p)) /\ credited[p] \in Nat
      BY DEF LimitInv, CreditBound, MoneyInv, MoneyType
    <3>2. h \in Crediting(p) /\ Crediting(p) \in SUBSET Handlers
      BY <2>1 DEF Crediting, Between, CreditSteps
    <3> QED
      BY <3>1, <3>2, WithinLimit
  <2>4. Accounts!Credit(p)
    BY <1>2, <2>1, <2>2, <2>3 DEF FundCommit, planVars, Accounts!Credit, Limit
  <2> QED
    BY <2>4 DEF Accounts!Next
<1>3. ASSUME NEW h \in Handlers, FreeInsert(h), UNCHANGED <<issued, charged>>
      PROVE  Accounts!Next
  <2>1. h \in Freeing /\ Freeing \in SUBSET Handlers
    BY <1>3, SpendMoves DEF FreeInsert, PoolInv, RequestInv, Role, Freeing, Between
  <2>2. Within(plans["free"], Freeing) /\ plans["free"] \in Nat
    BY DEF LimitInv, FreeBound, MoneyInv, MoneyType, Plans
  <2>3. plans["free"] < Limit
    BY <2>1, <2>2, WithinLimit
  <2>4. Accounts!GiveFree
    BY <1>3, <2>3 DEF FreeInsert, walletVars, Accounts!GiveFree, Limit
  <2> QED
    BY <2>4 DEF Accounts!Next
<1>4. ASSUME NEW h \in Handlers, SpendCommit(h), UNCHANGED <<issued, charged>>
      PROVE  Accounts!Next
  <2>1. arg[h] \in {"purchase", "renewal"} /\ pc[h] = "spendCommit"
    BY <1>4, SpendMoves DEF PoolInv, RequestInv, Role, Spending, Plans
  <2>2. balance + Limit > 1
    <3>1. h \in Debiting /\ Debiting \in SUBSET Handlers
      BY <2>1 DEF Debiting, DebitSteps
    <3>2. balance \in Int /\ balance - Cardinality(Debiting) >= 1 - Limit
      BY DEF LimitInv, DebitBound, MoneyInv, MoneyType
    <3>3. Cardinality(Debiting) \in Nat /\ Cardinality(Debiting) >= 1 /\ Limit \in Nat
      BY <3>1, Requests
    <3> QED
      BY <3>2, <3>3
  <2>3. Accounts!PayFor(arg[h])
    BY <1>4, <2>2 DEF SpendCommit, Accounts!PayFor, Limit
  <2>4. CASE arg[h] = "purchase"
    <3>1. Accounts!Buy
      BY <1>4, <2>3, <2>4 DEF SpendCommit, Accounts!Buy
    <3> QED
      BY <3>1 DEF Accounts!Next
  <2>5. CASE arg[h] = "renewal"
    <3>1. base[h] \in Nat /\ plans["renewal"] \in Nat /\ base[h] <= plans["renewal"]
      BY DEF LimitInv, RenewBound, MoneyInv, MoneyType, Plans
    <3>2. capacity' = base[h] + 1
      BY <1>4, <2>5 DEF SpendCommit
    <3>3. Accounts!Renew
      BY <2>3, <2>5, <3>1, <3>2 DEF Accounts!Renew
    <3> QED
      BY <3>3 DEF Accounts!Next
  <2> QED
    BY <2>1, <2>4, <2>5
<1>5. ASSUME NEW h \in Handlers, SellCommit(h),
             UNCHANGED <<balance, credited, plans, capacity, charged>>
      PROVE  Accounts!Next
  <2>1. PICK t \in Tickets : arg[h] = t /\ pc[h] = "sellCommit"
    BY <1>5, SellMoves, HandlerFacts DEF SellSteps
  <2>2. t \in charged
    BY <2>1 DEF LimitInv, PaidFor, SellSteps
  <2>3. issued[t] < Limit
    <3>1. h \in Issuing(t) /\ Issuing(t) \in SUBSET Handlers /\ Paying(t) \in SUBSET Handlers
      BY <2>1 DEF Issuing, Paying, Between
    <3>2. Cardinality(Issuing(t)) \in Nat /\ Cardinality(Issuing(t)) >= 1 /\ Limit \in Nat
      BY <3>1, Requests
    <3>3. receipts[t] \in Nat /\ issued[t] \in Nat
      BY DEF SaleInv
    <3>4. receipts[t] <= Limit
      BY <3>1, <3>3, WithinLimit DEF LimitInv, PayBound
    <3>5. issued[t] + Cardinality(Issuing(t)) <= receipts[t]
      BY DEF LimitInv, IssueBound
    <3> QED
      BY <3>2, <3>3, <3>4, <3>5
  <2>4. Accounts!Issue(t)
    BY <1>5, <2>1, <2>2, <2>3 DEF SellCommit, Accounts!Issue, Limit
  <2> QED
    BY <2>4 DEF Accounts!Next
<1> QED
  BY <1>1, <1>2, <1>3, <1>4, <1>5 DEF AccountStep, Accounts!vars

(***************************************************************************)
(* The theorems.                                                           *)
(***************************************************************************)
Inv ==
  PoolInv /\ SaleInv /\ MoneyInv /\ CloseInv /\ BoundInv /\ StaleInv /\ RestType /\ RacedType

LEMMA AlwaysInv == Spec => []Inv
<1>1. Init => Inv
  BY PoolStart, SaleStart, MoneyStart, CloseStart, RestStart DEF Inv, RacedType, Init, PoolInit
<1>2. Inv /\ [Next]_vars => Inv'
  BY PoolKept, SaleKept, MoneyKept, CloseKept, BoundKept, StaleKept, RestKept, RacedKept DEF Inv
<1> QED
  BY <1>1, <1>2, PTL DEF Spec

(* Every variable has its type; connections held and forgotten never       *)
(* exceed the pool, and only a request with a transaction has a snapshot.  *)
THEOREM TypeCorrect == Spec => []TypeOK
<1>1. Inv => TypeOK
  <2> SUFFICES ASSUME Inv PROVE TypeOK
    OBVIOUS
  <2>1. held \subseteq Handlers /\ leaked \in 0..PoolSize
    <3>1. Cardinality(held) \in Nat
      BY FS_CardinalityType DEF Inv, BoundInv
    <3> QED
      BY <3>1, PoolNumbers DEF Inv, PoolInv, BoundInv
  <2>2. RequestTypeOK
    BY <2>1 DEF Inv, BoundInv, RestType, RequestTypeOK
  <2>3. lock \in held \cup {Nothing} /\ stale \subseteq held
    BY DEF Inv, PoolInv, StaleInv, Snapshots, LockSteps, InTransaction
  <2>4. MoneyTypeOK
    BY <2>3 DEF Inv, MoneyInv, MoneyType, RestType, MoneyTypeOK
  <2>5. TicketTypeOK
    BY DEF Inv, SaleInv, RestType, TicketTypeOK
  <2>6. pc \in [Handlers -> Steps] /\ arg \in [Handlers -> Arguments]
    BY DEF Inv, PoolInv, RequestInv
  <2> QED
    BY <2>2, <2>4, <2>5, <2>6 DEF Inv, RacedType, Arguments, TypeOK
<1> QED
  BY <1>1, AlwaysInv, PTL

(* A credited payment is closed to further deliveries, each of which would *)
(* cost the pool a connection: its key is set, or a request is about to    *)
(* set it, or the server died between the commit and the key.              *)
THEOREM CreditIsClosedHolds == Spec => []CreditIsClosed
<1>1. Inv => CreditIsClosed
  BY DEF Inv, CloseInv, Closed, Noting, Between, CreditIsClosed
<1> QED
  BY <1>1, AlwaysInv, PTL

(* A payment is credited twice only when two webhooks had looked for the   *)
(* credit before either committed one.                                     *)
THEOREM CreditedOnceHolds == Spec => []CreditedOnceUnlessRaced
<1>1. Inv => CreditedOnceUnlessRaced
  BY DEF Inv, MoneyInv, CreditInv, CreditedOnceUnlessRaced
<1> QED
  BY <1>1, AlwaysInv, PTL

(* The wallet is overdrawn only when two requests had read the balance     *)
(* before either debited it.                                               *)
THEOREM OverdrawnOnlyByRaceHolds == Spec => []OverdrawnOnlyByRace
<1>1. Inv => OverdrawnOnlyByRace
  BY DEF Inv, MoneyInv, DebitInv, OverdrawnOnlyByRace
<1> QED
  BY <1>1, AlwaysInv, PTL

(* A user has one free plan, and as many voters as renewals were paid for, *)
(* unless two requests had read the last plan before either wrote.         *)
THEOREM PlansAsPaidHolds == Spec => []PlansAsPaid
<1>1. Inv => PlansAsPaid
  BY DEF Inv, MoneyInv, RenewalInv, FreeInv, PlansAsPaid
<1> QED
  BY <1>1, AlwaysInv, PTL

(* A paid purchase keeps its metadata or a log until it has a payment row, *)
(* and a payment row without attendees is being worked on or was left by a *)
(* failed run.                                                             *)
THEOREM PurchaseAccountedHolds == Spec => []PurchaseAccounted
<1>1. Inv => PurchaseAccounted
  <2> SUFFICES ASSUME Inv, NEW t \in Tickets \cap charged
               PROVE  /\ receipts[t] = 0 => t \in metadata \cup logs
                      /\ receipts[t] > issued[t] =>
                           t \in halfway \/ \E h \in Handlers : arg[h] = t /\ pc[h] = "sellCommit"
    BY DEF PurchaseAccounted
  <2>1. TrailInv(t) /\ receipts[t] \in Nat /\ issued[t] \in Nat
    BY DEF Inv, SaleInv
  <2>2. receipts[t] > issued[t] /\ t \notin halfway => Issuing(t) # {}
    BY <2>1, FS_EmptySet DEF TrailInv
  <2> QED
    BY <2>1, <2>2 DEF TrailInv, Issuing, Between
<1> QED
  BY <1>1, AlwaysInv, PTL

(* Attendees are created twice only when two runs had looked for the       *)
(* payment row before either wrote it.                                     *)
THEOREM IssuedOnceHolds == Spec => []IssuedOnceUnlessRaced
<1>1. Inv => IssuedOnceUnlessRaced
  BY DEF Inv, SaleInv, OnceInv, IssuedOnceUnlessRaced
<1> QED
  BY <1>1, AlwaysInv, PTL

(* The wallet and the plans change together: one unit for every funding    *)
(* that is credited, one for every plan that is created and not free.      *)
THEOREM WalletMovesHold == Spec => [][WalletStep]_<<balance, credited, plans>>
<1>1. Inv /\ [Next]_vars => WalletStep
  BY WalletSteps DEF Inv
<1> QED
  BY <1>1, AlwaysInv, PTL DEF Spec

(* The wallet holds what its credits brought less what its plans cost, a   *)
(* payment is credited twice only when two webhooks had looked before      *)
(* either committed, and the wallet is overdrawn only when two requests    *)
(* had read the balance before either debited it.                          *)
THEOREM WalletSoundHolds == Spec => []WalletSound
<1>1. Inv /\ BookInv => WalletSound
  <2> SUFFICES ASSUME Inv, BookInv PROVE WalletSound
    OBVIOUS
  <2>1. plans["purchase"] \in Int /\ plans["renewal"] \in Int
    BY DEF Inv, MoneyInv, MoneyType, Plans
  <2>2. SumFunctionOnSet(credited, Payments) \in Int
    <3>1. \A p \in Payments : credited[p] \in Int
      BY DEF Inv, MoneyInv, MoneyType
    <3> QED
      BY <3>1, PaymentsFinite, SumInt
  <2>3. balance = SumFunctionOnSet(credited, Payments) - plans["purchase"] - plans["renewal"]
    BY <2>1, <2>2 DEF BookInv, Paid
  <2> QED
    BY <2>3 DEF Inv, MoneyInv, CreditInv, DebitInv, WalletSound, CreditedOnceUnlessRaced,
                OverdrawnOnlyByRace
<1>2. Inv /\ BookInv /\ [Next]_vars => BookInv'
  BY WalletSteps, BookKept DEF Inv, MoneyInv
<1> QED
  BY <1>1, <1>2, BookStart, AlwaysInv, PTL DEF Spec

(* Requests, webhooks, workers, the sweep and faults together implement    *)
(* what users are promised: nothing is credited or issued that was not     *)
(* paid for, nothing more often than requests can be under way at once,    *)
(* the wallet owes at most one unit less than that, and only renewals      *)
(* change how many voters are allowed, and never beyond what was paid.     *)
THEOREM AccountsImplemented == Spec => ImplementsAccounts
<1>1. Inv /\ LimitInv /\ [Next]_vars => LimitInv'
  BY LimitKept DEF Inv
<1>2. Init => Accounts!Init
  BY DEF Init, PoolInit, MoneyInit, TicketInit, Accounts!Init, Plans
<1>3. Inv /\ LimitInv /\ [Next]_vars => [Accounts!Next]_Accounts!vars
  BY AccountSteps, AccountsAbove DEF Inv
<1> QED
  BY <1>1, <1>2, <1>3, LimitStart, AlwaysInv, PTL DEF Spec, ImplementsAccounts, Accounts!Spec

(* However many deliveries, jobs and requests race, nothing is done more   *)
(* often than there are requests under way at once: no payment is credited *)
(* and no purchase issued more often, no more free plans are given, and    *)
(* the wallet owes at most one unit less.  Renewals allow no more voters   *)
(* than were paid for, whatever they overwrite.                            *)
RacesBounded ==
  /\ \A p \in Payments : credited[p] <= Limit
  /\ \A t \in Tickets : issued[t] <= receipts[t] /\ receipts[t] <= Limit
  /\ plans["free"] <= Limit
  /\ Handlers # {} => balance >= 1 - Limit
  /\ capacity <= plans["renewal"]

THEOREM RacesBoundedHolds == Spec => []RacesBounded
<1>1. Inv /\ LimitInv /\ [Next]_vars => LimitInv'
  BY LimitKept DEF Inv
<1>2. Inv /\ LimitInv => RacesBounded
  <2> SUFFICES ASSUME Inv, LimitInv PROVE RacesBounded
    OBVIOUS
  <2>1. /\ \A p \in Payments : credited[p] \in Nat /\ Crediting(p) \in SUBSET Handlers
        /\ \A t \in Tickets : receipts[t] \in Nat /\ issued[t] \in Nat
        /\ \A t \in Tickets : Paying(t) \in SUBSET Handlers /\ Issuing(t) \in SUBSET Handlers
        /\ plans["free"] \in Nat /\ Freeing \in SUBSET Handlers /\ Debiting \in SUBSET Handlers
        /\ balance \in Int
    BY DEF Inv, MoneyInv, MoneyType, SaleInv, Crediting, Paying, Issuing, Freeing, Debiting,
           Between, Plans
  <2>2. \A p \in Payments : credited[p] <= Limit
    BY <2>1, WithinLimit DEF LimitInv, CreditBound
  <2>3. ASSUME NEW t \in Tickets PROVE receipts[t] <= Limit /\ issued[t] <= receipts[t]
    <3>1. receipts[t] <= Limit
      BY <2>1, WithinLimit DEF LimitInv, PayBound
    <3>2. Cardinality(Issuing(t)) \in Nat
      BY <2>1, Requests
    <3> QED
      BY <2>1, <3>1, <3>2 DEF LimitInv, IssueBound
  <2>4. plans["free"] <= Limit
    BY <2>1, WithinLimit DEF LimitInv, FreeBound
  <2>5. Handlers # {} => balance >= 1 - Limit
    <3>1. Cardinality(Debiting) \in Nat /\ Limit \in Nat
      BY <2>1, Requests
    <3> QED
      BY <2>1, <3>1 DEF LimitInv, DebitBound
  <2> QED
    BY <2>2, <2>3, <2>4, <2>5 DEF RacesBounded, LimitInv, RenewBound
<1> QED
  BY <1>1, <1>2, LimitStart, AlwaysInv, PTL DEF Spec
=============================================================================
