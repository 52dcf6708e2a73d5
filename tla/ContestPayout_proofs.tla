------------------------ MODULE ContestPayout_proofs ------------------------
(***************************************************************************)
(* Proofs about ContestPayout, for every set of records, refunds and       *)
(* callers, every threshold of the breaker, and any faults.                *)
(***************************************************************************)
EXTENDS ContestPayout, SumTheorems, FunctionTheorems

(***************************************************************************)
(* The circuit breaker.                                                    *)
(***************************************************************************)
(* Callers that Paystack has refused and that have not written the counter *)
(* yet.                                                                    *)
Counting == {p \in Callers : at[p] \in {"count", "write"}}

(* While Paystack has refused less often than the threshold says, the      *)
(* counter, and every reading of it, leaves room for the refusals that are *)
(* still to be counted, and no caller is about to open the breaker.        *)
CountInv ==
  refusals # Threshold =>
    /\ ~open
    /\ IsFiniteSet(Counting)
    /\ failures + Cardinality(Counting) <= refusals
    /\ \A p \in Callers : at[p] = "write" => seen[p] + Cardinality(Counting) <= refusals
    /\ \A p \in Callers : at[p] # "open"

BreakerInv == BreakerTypeOK /\ CountInv

(* All that can happen to the breaker.                                     *)
BreakerStep ==
  \/ \E p \in Callers :
       \/ BeginCall(p) \/ Blocked(p) \/ LetThrough(p) \/ Accepted(p) \/ Declined(p)
       \/ ClearFailures(p) \/ ReadFailures(p)
       \/ CountAndOpen(p) \/ CountOnly(p) \/ SetOpen(p) \/ Abandon(p)
  \/ ExpireOpen \/ ExpireFailures
  \/ UNCHANGED breakerVars

LEMMA BreakerStart == Init => BreakerInv
<1> SUFFICES ASSUME Init PROVE BreakerInv
  OBVIOUS
<1>1. Counting = {} /\ ~open /\ failures = 0 /\ refusals = 0
  BY DEF Init, BreakerInit, Counting
<1>2. BreakerTypeOK
  <2>1. 0 \in 0..Threshold
    BY ThresholdPositive
  <2> QED
    BY <2>1 DEF Init, BreakerInit, BreakerTypeOK, CallPC
<1>3. \A p \in Callers : at[p] \notin {"write", "open"}
  BY DEF Init, BreakerInit
<1> QED
  BY <1>1, <1>2, <1>3, FS_EmptySet DEF BreakerInv, CountInv

LEMMA BreakerTyped == BreakerTypeOK /\ BreakerStep => BreakerTypeOK'
<1> SUFFICES ASSUME BreakerTypeOK, BreakerStep PROVE BreakerTypeOK'
  OBVIOUS
<1> USE DEF BreakerTypeOK, CallPC, Move
<1>0. 0 \in 0..Threshold /\ \A n \in 0..Threshold : Capped(n + 1) \in 0..Threshold
  BY ThresholdPositive DEF Capped
<1>1. ASSUME NEW p \in Callers, BeginCall(p) \/ Blocked(p) \/ LetThrough(p) \/ Accepted(p)
      PROVE  BreakerTypeOK'
  BY <1>1 DEF BeginCall, Blocked, LetThrough, Accepted
<1>2. ASSUME NEW p \in Callers, Declined(p) \/ ClearFailures(p) \/ ReadFailures(p) PROVE BreakerTypeOK'
  BY <1>0, <1>2 DEF Declined, ClearFailures, ReadFailures
<1>3. ASSUME NEW p \in Callers, CountAndOpen(p) \/ CountOnly(p) PROVE BreakerTypeOK'
  <2>1. open' \in BOOLEAN /\ refusals' \in 0..Threshold
    BY <1>3 DEF CountAndOpen, CountOnly, WriteFailures
  <2>2. at' \in [Callers -> CallPC]
    BY <1>3 DEF CountAndOpen, CountOnly
  <2>3. seen' \in [Callers -> 0..Threshold] /\ failures' \in 0..Threshold
    BY <1>0, <1>3 DEF CountAndOpen, CountOnly, WriteFailures
  <2> QED
    BY <2>1, <2>2, <2>3
<1>6. ASSUME NEW p \in Callers, SetOpen(p) PROVE BreakerTypeOK'
  BY <1>6 DEF SetOpen
<1>4. ASSUME NEW p \in Callers, Abandon(p) PROVE BreakerTypeOK'
  BY <1>0, <1>4 DEF Abandon
<1>5. CASE ExpireOpen \/ ExpireFailures \/ UNCHANGED breakerVars
  BY <1>0, <1>5 DEF ExpireOpen, ExpireFailures, breakerVars
<1> QED
  BY <1>1, <1>2, <1>3, <1>4, <1>5, <1>6 DEF BreakerStep

(* A caller that moves joins the callers to be counted, stays or leaves.   *)
LEMMA CountingMoves ==
  ASSUME BreakerTypeOK, NEW p \in Callers, NEW to \in CallPC, at' = [at EXCEPT ![p] = to],
         IsFiniteSet(Counting)
  PROVE  /\ IsFiniteSet(Counting') /\ Cardinality(Counting) \in Nat /\ Cardinality(Counting') \in Nat
         /\ to \in {"count", "write"} /\ p \notin Counting =>
              Cardinality(Counting') = Cardinality(Counting) + 1
         /\ to \in {"count", "write"} /\ p \in Counting => Counting' = Counting
         /\ to \notin {"count", "write"} /\ p \in Counting =>
              Cardinality(Counting') = Cardinality(Counting) - 1
         /\ to \notin {"count", "write"} /\ p \notin Counting => Counting' = Counting
         /\ p \in Counting => Cardinality(Counting) >= 1
         /\ to \notin {"count", "write"} => Cardinality(Counting') <= Cardinality(Counting)
<1>1. /\ to \in {"count", "write"} => Counting' = Counting \cup {p}
      /\ to \notin {"count", "write"} => Counting' = Counting \ {p}
  BY DEF BreakerTypeOK, Counting
<1>2. /\ IsFiniteSet(Counting \cup {p}) /\ IsFiniteSet(Counting \ {p})
      /\ p \notin Counting => Cardinality(Counting \cup {p}) = Cardinality(Counting) + 1
      /\ p \in Counting => Cardinality(Counting \ {p}) = Cardinality(Counting) - 1
  BY FS_AddElement, FS_RemoveElement
<1>3. Cardinality(Counting) \in Nat /\ IsFiniteSet(Counting') /\ Cardinality(Counting') \in Nat
  BY <1>1, <1>2, FS_CardinalityType
<1>4. p \in Counting => Cardinality(Counting) >= 1
  <2>1. p \in Counting => Cardinality(Counting \ {p}) \in Nat
    BY <1>2, FS_CardinalityType
  <2> QED
    BY <1>2, <1>3, <2>1
<1>5. /\ to \in {"count", "write"} /\ p \in Counting => Counting' = Counting
      /\ to \notin {"count", "write"} /\ p \notin Counting => Counting' = Counting
  BY <1>1
<1>6. to \in {"count", "write"} /\ p \notin Counting =>
        Cardinality(Counting') = Cardinality(Counting) + 1
  BY <1>1, <1>2
<1>7. to \notin {"count", "write"} /\ p \in Counting =>
        Cardinality(Counting') = Cardinality(Counting) - 1
  BY <1>1, <1>2
<1>8. to \notin {"count", "write"} => Cardinality(Counting') <= Cardinality(Counting)
  <2>1. CASE p \in Counting
    BY <1>3, <1>7, <2>1
  <2>2. CASE p \notin Counting
    BY <1>3, <1>5, <2>2
  <2> QED
    BY <2>1, <2>2
<1> QED
  BY <1>3, <1>4, <1>5, <1>6, <1>7, <1>8

LEMMA BreakerKept == BreakerInv /\ BreakerStep => BreakerInv'
<1> SUFFICES ASSUME BreakerInv, BreakerStep PROVE CountInv'
  BY BreakerTyped DEF BreakerInv
<1>1. BreakerTypeOK /\ CountInv /\ BreakerTypeOK'
  BY BreakerTyped DEF BreakerInv
<1>2. refusals = Threshold => refusals' = Threshold
  <2>1. refusals' = refusals \/ refusals' = Capped(refusals + 1)
    BY DEF BreakerStep, BeginCall, Blocked, LetThrough, Accepted, Declined, ClearFailures,
           ReadFailures, CountAndOpen, CountOnly, SetOpen, WriteFailures, Abandon, ExpireOpen,
           ExpireFailures, breakerVars
  <2> QED
    BY <2>1, ThresholdPositive DEF Capped
<1> SUFFICES ASSUME refusals # Threshold, refusals' # Threshold PROVE CountInv'
  BY <1>2 DEF CountInv
<1>3. /\ ~open /\ IsFiniteSet(Counting)
      /\ failures + Cardinality(Counting) <= refusals
      /\ \A p \in Callers : at[p] = "write" => seen[p] + Cardinality(Counting) <= refusals
      /\ \A p \in Callers : at[p] # "open"
  BY <1>1 DEF CountInv
<1>4. /\ failures \in Nat /\ refusals \in Nat /\ refusals < Threshold
      /\ at \in [Callers -> CallPC] /\ seen \in [Callers -> Nat]
  BY <1>1, ThresholdPositive DEF BreakerTypeOK
<1>5. ASSUME NEW p \in Callers, BeginCall(p) \/ Blocked(p) \/ LetThrough(p) \/ Accepted(p)
      PROVE  CountInv'
  <2>1. /\ UNCHANGED <<failures, seen, refusals, open>> /\ p \notin Counting
    BY <1>5 DEF BeginCall, Blocked, LetThrough, Accepted, Move, Counting
  <2>2. PICK to \in {"ask", "out", "transfer", "clear"} : at' = [at EXCEPT ![p] = to]
    BY <1>5 DEF BeginCall, Blocked, LetThrough, Accepted, Move
  <2>3. Counting' = Counting
    BY <1>1, <1>3, <2>1, <2>2, CountingMoves DEF CallPC
  <2>4. \A q \in Callers : at'[q] # "open" /\ (at'[q] = "write" => at[q] = "write")
    BY <1>3, <1>4, <2>2
  <2> QED
    BY <1>3, <2>1, <2>3, <2>4 DEF CountInv
<1>6. ASSUME NEW p \in Callers, Declined(p) PROVE CountInv'
  <2>1. /\ UNCHANGED <<failures, seen, open>> /\ p \notin Counting
        /\ refusals' = refusals + 1 /\ at' = [at EXCEPT ![p] = "count"]
    <3>1. Capped(refusals + 1) = refusals + 1
      BY <1>4, ThresholdPositive DEF Capped
    <3> QED
      BY <1>6, <3>1 DEF Declined, Move, Counting
  <2>2. /\ IsFiniteSet(Counting') /\ Cardinality(Counting) \in Nat
        /\ Cardinality(Counting') = Cardinality(Counting) + 1
        /\ \A q \in Callers : at'[q] # "open" /\ (at'[q] = "write" => at[q] = "write")
    BY <1>1, <1>3, <1>4, <2>1, CountingMoves DEF CallPC
  <2> QED
    BY <1>3, <1>4, <2>1, <2>2 DEF CountInv
<1>7. ASSUME NEW p \in Callers, ClearFailures(p) PROVE CountInv'
  <2>1. /\ UNCHANGED <<seen, refusals, open>> /\ failures' = 0 /\ p \notin Counting
        /\ at' = [at EXCEPT ![p] = "out"]
    BY <1>7 DEF ClearFailures, Move, Counting
  <2>2. /\ Counting' = Counting /\ Cardinality(Counting) \in Nat
        /\ \A q \in Callers : at'[q] # "open" /\ (at'[q] = "write" => at[q] = "write")
    BY <1>1, <1>3, <1>4, <2>1, CountingMoves DEF CallPC
  <2> QED
    BY <1>3, <1>4, <2>1, <2>2 DEF CountInv
<1>8. ASSUME NEW p \in Callers, ReadFailures(p) PROVE CountInv'
  <2>1. /\ UNCHANGED <<failures, refusals, open>> /\ p \in Counting
        /\ seen' = [seen EXCEPT ![p] = failures] /\ at' = [at EXCEPT ![p] = "write"]
    BY <1>8 DEF ReadFailures, Move, Counting
  <2>2. /\ Counting' = Counting
        /\ \A q \in Callers : at'[q] # "open"
        /\ \A q \in Callers : at'[q] = "write" => seen'[q] = failures \/ (at[q] = "write" /\ seen'[q] = seen[q])
    BY <1>1, <1>3, <1>4, <2>1, CountingMoves DEF CallPC
  <2> QED
    BY <1>3, <1>4, <2>1, <2>2 DEF CountInv
<1>9. ASSUME NEW p \in Callers, CountAndOpen(p) \/ CountOnly(p) \/ SetOpen(p) PROVE CountInv'
  <2>1. p \in Counting /\ at[p] = "write" /\ WriteFailures(p)
    BY <1>3, <1>9 DEF CountAndOpen, CountOnly, SetOpen, Move, Counting
  <2>2. seen[p] + Cardinality(Counting) <= refusals /\ seen[p] \in Nat
    BY <1>3, <1>4, <2>1
  <2>3. Cardinality(Counting) \in Nat /\ Cardinality(Counting) >= 1
    <3>1. Counting # {}
      BY <2>1
    <3> QED
      BY <1>3, <3>1, FS_CardinalityType, FS_EmptySet
  <2>4. Capped(seen[p] + 1) = seen[p] + 1 /\ ~MustOpen(p)
    BY <1>4, <2>2, <2>3, ThresholdPositive DEF Capped, MustOpen
  <2>5. at' = [at EXCEPT ![p] = "out"]
    BY <1>3, <1>9, <2>4 DEF CountAndOpen, CountOnly, SetOpen, Move
  <2>6. /\ UNCHANGED <<refusals, open>> /\ seen' = [seen EXCEPT ![p] = 0]
        /\ failures' = seen[p] + 1
    BY <2>1, <2>4 DEF WriteFailures
  <2>7. IsFiniteSet(Counting') /\ Cardinality(Counting') = Cardinality(Counting) - 1
    BY <1>1, <1>3, <2>1, <2>5, CountingMoves DEF CallPC
  <2>8. \A q \in Callers : at'[q] # "open" /\ (at'[q] = "write" => at[q] = "write" /\ seen'[q] = seen[q])
    BY <1>3, <1>4, <2>5, <2>6
  <2> QED
    BY <1>3, <1>4, <2>2, <2>3, <2>6, <2>7, <2>8 DEF CountInv
<1>10. ASSUME NEW p \in Callers, Abandon(p) PROVE CountInv'
  <2>1. /\ UNCHANGED <<failures, refusals, open>>
        /\ seen' = [seen EXCEPT ![p] = 0] /\ at' = [at EXCEPT ![p] = "out"]
    BY <1>10 DEF Abandon
  <2>2. /\ IsFiniteSet(Counting') /\ Cardinality(Counting) \in Nat /\ Cardinality(Counting') \in Nat
        /\ Cardinality(Counting') <= Cardinality(Counting)
    BY <1>1, <1>3, <2>1, CountingMoves DEF CallPC
  <2>3. \A q \in Callers : at'[q] # "open" /\ (at'[q] = "write" => at[q] = "write" /\ seen'[q] = seen[q])
    BY <1>3, <1>4, <2>1
  <2> QED
    BY <1>3, <1>4, <2>1, <2>2, <2>3 DEF CountInv
<1>11. CASE ExpireOpen \/ ExpireFailures \/ UNCHANGED breakerVars
  <2>1. /\ UNCHANGED <<at, seen, refusals>> /\ ~open' /\ failures' \in {failures, 0}
    BY <1>3, <1>11 DEF ExpireOpen, ExpireFailures, breakerVars
  <2>2. Counting' = Counting /\ Cardinality(Counting) \in Nat
    BY <1>3, <2>1, FS_CardinalityType DEF Counting
  <2> QED
    BY <1>3, <1>4, <2>1, <2>2 DEF CountInv
<1> QED
  BY <1>5, <1>6, <1>7, <1>8, <1>9, <1>10, <1>11 DEF BreakerStep

LEMMA NextMovesBreaker == [Next]_vars => BreakerStep
<1> SUFFICES ASSUME [Next]_vars PROVE BreakerStep
  OBVIOUS
<1> USE DEF BreakerStep
<1>1. ASSUME NEW r \in Records, Earn(r) \/ AddPayee(r) \/ QueuePayout(r) PROVE BreakerStep
  BY <1>1 DEF Earn, AddPayee, QueuePayout
<1>2. ASSUME NEW s \in Refunds, AddBankDetails(s) \/ VerifyRefund(s) PROVE BreakerStep
  BY <1>2 DEF AddBankDetails, VerifyRefund
<1>3. ASSUME NEW q \in Workers, NEW r \in Records, TakePayout(q, r) PROVE BreakerStep
  BY <1>3 DEF TakePayout
<1>4. ASSUME NEW q \in Admins, NEW r \in Records, NEW n \in Amounts, RequestPayout(q, r, n)
      PROVE  BreakerStep
  BY <1>4 DEF RequestPayout
<1>5. ASSUME NEW q \in Payers, PayerStep(q) PROVE BreakerStep
  BY <1>5, CallersKnown DEF PayerStep, RefusePayout, DecidePayout, RecordPayout
<1>6. CASE RefundStep
  BY <1>6, CallersKnown DEF RefundStep, StartRefunds, NextRefund, RecordRefund
<1>7. ASSUME NEW q \in Callers, TransferStep(q) \/ CallFault(q) PROVE BreakerStep
  BY <1>7 DEF TransferStep, CallBlocked, CallStep, TransferAccepted, CallSucceeds, CallFails,
              CallFault
<1>8. ASSUME NEW q \in Callers, RecordFault(q) \/ Crash(q) PROVE BreakerStep
  BY <1>8 DEF RecordFault, Crash
<1>9. ASSUME NEW row \in payouts, VerifyPayout(row) PROVE BreakerStep
  BY <1>9 DEF VerifyPayout
<1>10. CASE Expire \/ UNCHANGED vars
  BY <1>10 DEF Expire, vars
<1> QED
  BY <1>1, <1>2, <1>3, <1>4, <1>5, <1>6, <1>7, <1>8, <1>9, <1>10 DEF Next

(***************************************************************************)
(* Where callers are, and what they work for.                              *)
(***************************************************************************)
CallType ==
  /\ at \in [Callers -> CallPC]
  /\ pc \in [Callers -> {"idle", "read", "transfer", "record", "done"}]
  /\ target \in [Callers -> Targets \cup {Nobody}]
  /\ amount \in [Callers -> Int]
  /\ code \in [Callers -> Codes \cup {NoCode}]
  /\ issued \in [Targets -> 0..MaxTransfers]
  /\ due \in [Records -> Int \cup {Null}]

(* A caller is inside initiate_transfer exactly while it transfers, and    *)
(* has a code from the answer of Paystack until it has recorded it.  The   *)
(* refund run works for refunds, everybody else for records.               *)
CallOK(p) ==
  /\ pc[p] = "transfer" <=> at[p] # "out"
  /\ code[p] # NoCode <=> pc[p] = "record" \/ at[p] = "clear"
  /\ pc[p] \in {"read", "transfer", "record"} <=> target[p] # Nobody
  /\ target[p] # Nobody /\ p \in Payers => target[p] \in Records
  /\ target[p] # Nobody /\ p = RefundCron =>
       target[p] \in Refunds /\ amount[p] = RefundAmount[target[p]] /\ pc[p] # "read"

CallInv == CallType /\ \A p \in Callers : CallOK(p)

(* What a step does to the caller that takes it.                           *)
Sets(p, a, s, t, n, c) ==
  /\ at' = [at EXCEPT ![p] = a]
  /\ pc' = [pc EXCEPT ![p] = s]
  /\ target' = [target EXCEPT ![p] = t]
  /\ amount' = [amount EXCEPT ![p] = n]
  /\ code' = [code EXCEPT ![p] = c]

LEMMA CallStart == Init => CallInv
<1> SUFFICES ASSUME Init PROVE CallInv
  OBVIOUS
<1>1. CallType
  <2>1. 0 \in 0..MaxTransfers
    BY BoundsAreNumbers
  <2>2. due \in [Records -> Int \cup {Null}]
    BY DEF Init
  <2> QED
    BY <2>1, <2>2 DEF Init, BreakerInit, CallPC, CallType
<1> QED
  BY <1>1, TargetsKnown DEF CallInv, CallOK, Init, BreakerInit

LEMMA CallMoves ==
  ASSUME CallInv, NEW p \in Callers, NEW a \in CallPC,
         NEW s \in {"idle", "read", "transfer", "record", "done"},
         NEW t \in Targets \cup {Nobody}, NEW n \in Int, NEW c \in Codes \cup {NoCode},
         Sets(p, a, s, t, n, c),
         s = "transfer" <=> a # "out",
         c # NoCode <=> s = "record" \/ a = "clear",
         s \in {"read", "transfer", "record"} <=> t # Nobody,
         t # Nobody /\ p \in Payers => t \in Records,
         t # Nobody /\ p = RefundCron => t \in Refunds /\ n = RefundAmount[t] /\ s # "read",
         issued' \in [Targets -> 0..MaxTransfers],
         due' \in [Records -> Int \cup {Null}]
  PROVE  CallInv'
<1>1. CallType'
  BY DEF CallInv, CallType, Sets
<1>2. ASSUME NEW q \in Callers PROVE CallOK(q)'
  <2>1. CASE q = p
    BY <2>1 DEF CallInv, CallType, CallOK, Sets
  <2>2. CASE q # p
    BY <2>2 DEF CallInv, CallType, CallOK, Sets
  <2> QED
    BY <2>1, <2>2
<1> QED
  BY <1>1, <1>2 DEF CallInv

LEMMA CallFrame ==
  ASSUME CallInv, UNCHANGED <<at, pc, target, amount, code, issued>>,
         due' \in [Records -> Int \cup {Null}]
  PROVE  CallInv'
  BY DEF CallInv, CallType, CallOK

(* Every step of a caller, as what it sets.                                *)
Rest(p) == IF p \in Admins THEN "done" ELSE "idle"

LEMMA LeaveSets ==
  ASSUME CallInv, NEW p \in Callers, Leave(p), at' = [at EXCEPT ![p] = "out"]
  PROVE  Sets(p, "out", Rest(p), Nobody, 0, NoCode)
  BY DEF Leave, Sets, Rest

LEMMA PayerSets ==
  ASSUME CallInv, NEW p \in Payers
  PROVE  /\ RefusePayout(p) \/ RecordPayout(p) => Sets(p, "out", Rest(p), Nobody, 0, NoCode)
         /\ DecidePayout(p) =>
              /\ Sets(p, "ask", "transfer", target[p], amount'[p], NoCode)
              /\ pc[p] = "read" /\ target[p] \in Records /\ amount'[p] \in Int
         /\ \A r \in Records : TakePayout(p, r) => Sets(p, "out", "read", r, amount[p], NoCode)
         /\ \A r \in Records, n \in Amounts :
              RequestPayout(p, r, n) => Sets(p, "out", "read", r, n, NoCode)
<1>1. p \in Callers
  BY CallersKnown
<1>2. CallType /\ CallOK(p)
  BY <1>1 DEF CallInv
<1>3. ASSUME RefusePayout(p) \/ RecordPayout(p) PROVE Sets(p, "out", Rest(p), Nobody, 0, NoCode)
  <2>1. Leave(p) /\ at[p] = "out" /\ UNCHANGED at
    BY <1>2, <1>3 DEF RefusePayout, RecordPayout, breakerVars, CallOK
  <2>2. at' = [at EXCEPT ![p] = "out"]
    BY <1>1, <1>2, <2>1 DEF CallType
  <2> QED
    BY <1>1, <2>1, <2>2, LeaveSets
<1>4. ASSUME DecidePayout(p)
      PROVE  /\ Sets(p, "ask", "transfer", target[p], amount'[p], NoCode)
             /\ pc[p] = "read" /\ target[p] \in Records /\ amount'[p] \in Int
  <2>1. /\ pc[p] = "read" /\ target[p] \in Records /\ code[p] = NoCode
        /\ at' = [at EXCEPT ![p] = "ask"] /\ pc' = [pc EXCEPT ![p] = "transfer"]
        /\ UNCHANGED <<target, code>>
    BY <1>2, <1>4 DEF DecidePayout, Goto, BeginCall, Move, CallOK
  <2>2. amount' = [amount EXCEPT ![p] = amount'[p]] /\ amount'[p] \in Int
    BY <1>1, <1>2, <1>4, <2>1 DEF DecidePayout, CallType
  <2>3. target' = [target EXCEPT ![p] = target[p]] /\ code' = [code EXCEPT ![p] = NoCode]
    BY <1>1, <1>2, <2>1 DEF CallType
  <2> QED
    BY <2>1, <2>2, <2>3, <1>4 DEF Sets
<1>5. ASSUME NEW r \in Records, TakePayout(p, r) PROVE Sets(p, "out", "read", r, amount[p], NoCode)
  BY <1>1, <1>2, <1>5 DEF TakePayout, Goto, Sets, CallType, CallOK, breakerVars
<1>6. ASSUME NEW r \in Records, NEW n \in Amounts, RequestPayout(p, r, n)
      PROVE  Sets(p, "out", "read", r, n, NoCode)
  BY <1>1, <1>2, <1>6 DEF RequestPayout, Goto, Sets, CallType, CallOK, breakerVars
<1> QED
  BY <1>3, <1>4, <1>5, <1>6

LEMMA RefundSets ==
  ASSUME CallInv
  PROVE  /\ RecordRefund => Sets(RefundCron, "out", "idle", Nobody, 0, NoCode)
         /\ \A s \in Refunds :
              NextRefund(s) => Sets(RefundCron, "ask", "transfer", s, RefundAmount[s], NoCode)
<1>1. RefundCron \in Callers /\ CallType /\ CallOK(RefundCron) /\ Rest(RefundCron) = "idle"
  BY CallersKnown DEF CallInv, Rest, Payers
<1>2. ASSUME RecordRefund PROVE Sets(RefundCron, "out", "idle", Nobody, 0, NoCode)
  <2>1. Leave(RefundCron) /\ at[RefundCron] = "out" /\ UNCHANGED at
    BY <1>1, <1>2 DEF RecordRefund, breakerVars, CallOK
  <2>2. at' = [at EXCEPT ![RefundCron] = "out"]
    BY <1>1, <2>1 DEF CallType
  <2> QED
    BY <1>1, <2>1, <2>2, LeaveSets
<1>3. ASSUME NEW s \in Refunds, NextRefund(s)
      PROVE  Sets(RefundCron, "ask", "transfer", s, RefundAmount[s], NoCode)
  <2>1. code[RefundCron] = NoCode /\ UNCHANGED code
    BY <1>1, <1>3 DEF NextRefund, Goto, CallOK
  <2> QED
    BY <1>1, <1>3, <2>1 DEF NextRefund, Goto, BeginCall, Move, Sets, CallType
<1> QED
  BY <1>2, <1>3

(* Inside initiate_transfer.                                               *)
LEMMA TransferSets ==
  ASSUME CallInv, NEW p \in Callers
  PROVE  /\ CallBlocked(p) \/ CallFails(p) =>
              /\ code[p] = NoCode /\ pc[p] = "transfer"
              /\ Sets(p, "out", Rest(p), Nobody, 0, NoCode)
         /\ CallStep(p) =>
              /\ pc[p] = "transfer" /\ UNCHANGED <<pc, target, amount, code>>
              /\ \E a \in {"transfer", "count", "write", "open"} :
                   code[p] = NoCode /\ at' = [at EXCEPT ![p] = a]
         /\ TransferAccepted(p) =>
              /\ pc[p] = "transfer" /\ code[p] = NoCode
              /\ Sets(p, "clear", "transfer", target[p], amount[p], NextCode(target[p]))
         /\ CallSucceeds(p) =>
              /\ pc[p] = "transfer" /\ code[p] # NoCode
              /\ Sets(p, "out", "record", target[p], amount[p], code[p])
         /\ CallFault(p) =>
              /\ code[p] = NoCode /\ pc[p] = "transfer"
              /\ Sets(p, "out", Rest(p), Nobody, 0, NoCode)
         /\ RecordFault(p) =>
              /\ code[p] # NoCode /\ pc[p] = "record"
              /\ Sets(p, "out", Rest(p), Nobody, 0, NoCode)
         /\ Crash(p) => Sets(p, "out", Rest(p), Nobody, 0, NoCode)
<1>1. CallType /\ CallOK(p)
  BY DEF CallInv
<1> DEFINE Left == Sets(p, "out", Rest(p), Nobody, 0, NoCode)
<1>2. ASSUME CallBlocked(p) \/ CallFails(p) PROVE code[p] = NoCode /\ pc[p] = "transfer" /\ Left
  <2>1. /\ at[p] \in {"ask", "write", "open"} /\ at' = [at EXCEPT ![p] = "out"] /\ Leave(p)
    BY <1>2 DEF CallBlocked, CallFails, Blocked, CountOnly, SetOpen, Move, GiveUp
  <2>2. Left
    BY <2>1, LeaveSets
  <2> QED
    BY <1>1, <2>1, <2>2 DEF CallOK
<1>3. ASSUME CallStep(p)
      PROVE  /\ pc[p] = "transfer" /\ UNCHANGED <<pc, target, amount, code>>
             /\ \E a \in {"transfer", "count", "write", "open"} :
                  code[p] = NoCode /\ at' = [at EXCEPT ![p] = a]
  BY <1>1, <1>3 DEF CallStep, LetThrough, Declined, ReadFailures, CountAndOpen, Move, CallOK,
                    callVars
<1>4. ASSUME TransferAccepted(p)
      PROVE  /\ pc[p] = "transfer" /\ code[p] = NoCode
             /\ Sets(p, "clear", "transfer", target[p], amount[p], NextCode(target[p]))
  <2>1. /\ at[p] = "transfer" /\ at' = [at EXCEPT ![p] = "clear"]
        /\ code' = [code EXCEPT ![p] = NextCode(target[p])] /\ UNCHANGED <<pc, target, amount>>
    BY <1>4 DEF TransferAccepted, Accepted, Move
  <2>2. pc[p] = "transfer" /\ code[p] = NoCode
    BY <1>1, <2>1 DEF CallOK
  <2>3. /\ pc' = [pc EXCEPT ![p] = "transfer"] /\ target' = [target EXCEPT ![p] = target[p]]
        /\ amount' = [amount EXCEPT ![p] = amount[p]]
    BY <1>1, <2>1, <2>2 DEF CallType
  <2> QED
    BY <2>1, <2>2, <2>3 DEF Sets
<1>5. ASSUME CallSucceeds(p)
      PROVE  /\ pc[p] = "transfer" /\ code[p] # NoCode
             /\ Sets(p, "out", "record", target[p], amount[p], code[p])
  <2>1. /\ at[p] = "clear" /\ at' = [at EXCEPT ![p] = "out"]
        /\ pc[p] = "transfer" /\ pc' = [pc EXCEPT ![p] = "record"]
        /\ UNCHANGED <<target, amount, code>>
    BY <1>5 DEF CallSucceeds, ClearFailures, Move, Goto
  <2>2. /\ target' = [target EXCEPT ![p] = target[p]]
        /\ amount' = [amount EXCEPT ![p] = amount[p]] /\ code' = [code EXCEPT ![p] = code[p]]
    BY <1>1, <2>1 DEF CallType
  <2> QED
    BY <1>1, <2>1, <2>2 DEF Sets, CallOK
<1>6. ASSUME CallFault(p) PROVE code[p] = NoCode /\ pc[p] = "transfer" /\ Left
  <2>1. at[p] = "transfer" /\ at' = [at EXCEPT ![p] = "out"] /\ Leave(p)
    BY <1>6 DEF CallFault, Abandon, GiveUp
  <2>2. Left
    BY <2>1, LeaveSets
  <2> QED
    BY <1>1, <2>1, <2>2 DEF CallOK
<1>7. ASSUME RecordFault(p) PROVE code[p] # NoCode /\ pc[p] = "record" /\ Left
  <2>1. pc[p] = "record" /\ at[p] = "out" /\ UNCHANGED at /\ Leave(p)
    BY <1>1, <1>7 DEF RecordFault, breakerVars, GiveUp, CallOK
  <2>2. at' = [at EXCEPT ![p] = "out"]
    BY <1>1, <2>1 DEF CallType
  <2>3. Left
    BY <2>1, <2>2, LeaveSets
  <2> QED
    BY <1>1, <2>1, <2>3 DEF CallOK
<1>8. ASSUME Crash(p) PROVE Left
  <2>1. Leave(p) /\ ((at[p] = "out" /\ UNCHANGED at) \/ at' = [at EXCEPT ![p] = "out"])
    BY <1>8 DEF Crash, Abandon, GiveUp, breakerVars
  <2>2. at' = [at EXCEPT ![p] = "out"]
    BY <1>1, <2>1 DEF CallType
  <2> QED
    BY <2>1, <2>2, LeaveSets
<1> QED
  BY <1>2, <1>3, <1>4, <1>5, <1>6, <1>7, <1>8

(* What a caller works for, by what it is.                                 *)
LEMMA TargetFacts ==
  ASSUME CallInv, NEW p \in Callers
  PROVE  /\ p \in Payers \/ p = RefundCron
         /\ p \in Payers => p # RefundCron
         /\ Records \subseteq Targets /\ Refunds \subseteq Targets /\ Nobody \notin Targets
         /\ NoCode \notin Codes
         /\ Rest(p) \in {"idle", "done"}
         /\ amount[p] \in Int /\ 0 \in Int /\ Amounts \subseteq Int
         /\ \A s \in Refunds : RefundAmount[s] \in Int
         /\ pc[p] = "transfer" =>
              /\ target[p] \in Targets /\ target[p] # Nobody
              /\ p \in Payers => target[p] \in Records
              /\ p = RefundCron => target[p] \in Refunds /\ amount[p] = RefundAmount[target[p]]
  BY CallersKnown, TargetsKnown, AmountsPositive
  DEF CallInv, CallType, CallOK, Targets, Codes, NoCode, Rest

LEMMA OrderFacts ==
  ASSUME CallInv, NEW p \in Callers, OrderTransfer(p), target[p] \in Targets
  PROVE  /\ NextCode(target[p]) \in Codes
         /\ issued[target[p]] + 1 \in 1..MaxTransfers
         /\ issued' = [issued EXCEPT ![target[p]] = @ + 1]
         /\ issued' \in [Targets -> 0..MaxTransfers]
         /\ transfers' = transfers \cup
              {[code |-> NextCode(target[p]), to |-> target[p], amount |-> amount[p]]}
<1>1. issued[target[p]] \in 0..MaxTransfers /\ issued[target[p]] < MaxTransfers
  BY DEF CallInv, CallType, OrderTransfer
<1>2. issued[target[p]] + 1 \in 1..MaxTransfers /\ issued[target[p]] + 1 \in 0..MaxTransfers
  BY <1>1, BoundsAreNumbers
<1>3. issued' = [issued EXCEPT ![target[p]] = @ + 1]
  BY DEF OrderTransfer
<1>4. issued' \in [Targets -> 0..MaxTransfers]
  BY <1>2, <1>3 DEF CallInv, CallType
<1> QED
  BY <1>2, <1>3, <1>4 DEF OrderTransfer, NextCode, Codes

(* A caller that leaves with nothing.                                      *)
LEMMA LeaveKeepsCall ==
  ASSUME CallInv, NEW p \in Callers, Sets(p, "out", Rest(p), Nobody, 0, NoCode),
         issued' \in [Targets -> 0..MaxTransfers],
         due' \in [Records -> Int \cup {Null}]
  PROVE  CallInv'
<1>1. Rest(p) \in {"idle", "done"} /\ "out" \in CallPC
  BY DEF Rest, CallPC
<1> QED
  BY <1>1, CallMoves

LEMMA PayerKeepsCall ==
  ASSUME CallInv, NEW p \in Payers,
         \/ PayerStep(p)
         \/ \E r \in Records : p \in Workers /\ TakePayout(p, r)
         \/ \E r \in Records, n \in Amounts : p \in Admins /\ RequestPayout(p, r, n)
  PROVE  CallInv'
<1>1. p \in Callers /\ CallType /\ {"out", "ask"} \subseteq CallPC
  BY CallersKnown DEF CallInv, CallPC
<1>2. CASE RefusePayout(p) \/ RecordPayout(p)
  <2>1. due' \in [Records -> Int \cup {Null}]
    <3>1. CASE RefusePayout(p)
      BY <1>1, <3>1 DEF RefusePayout, dbVars, CallType
    <3>2. CASE RecordPayout(p)
      <4>1. /\ amount[p] \in Int
            /\ due' = IF due[target[p]] = Null THEN due
                      ELSE [due EXCEPT ![target[p]] = due[target[p]] - amount[p]]
        BY <1>1, <3>2 DEF RecordPayout, CallType
      <4>2. target[p] \in Records /\ due[target[p]] # Null => due[target[p]] - amount[p] \in Int
        BY <1>1, <4>1 DEF CallType
      <4> QED
        BY <1>1, <4>1, <4>2 DEF CallType
    <3> QED
      BY <1>2, <3>1, <3>2
  <2>2. issued' \in [Targets -> 0..MaxTransfers]
    BY <1>1, <1>2 DEF RefusePayout, RecordPayout, stackVars, CallType
  <2> QED
    BY <1>1, <1>2, <2>1, <2>2, PayerSets, LeaveKeepsCall
<1>3. CASE DecidePayout(p)
  <2>1. UNCHANGED <<due, issued>>
    BY <1>3 DEF DecidePayout, dbVars, stackVars
  <2>2. /\ Sets(p, "ask", "transfer", target[p], amount'[p], NoCode)
        /\ target[p] \in Records /\ amount'[p] \in Int
    BY <1>3, PayerSets
  <2>3. target[p] \in Targets /\ target[p] # Nobody /\ p # RefundCron
    BY <1>1, <2>2, TargetFacts
  <2> QED
    BY <1>1, <2>1, <2>2, <2>3, CallMoves DEF CallType
<1>4. ASSUME NEW r \in Records, TakePayout(p, r) PROVE CallInv'
  <2>1. UNCHANGED <<due, issued>> /\ Sets(p, "out", "read", r, amount[p], NoCode)
    BY <1>4, PayerSets DEF TakePayout, dbVars, stackVars
  <2>2. r \in Targets /\ r # Nobody /\ p # RefundCron /\ amount[p] \in Int
    BY <1>1, TargetFacts
  <2> QED
    BY <1>1, <2>1, <2>2, CallMoves DEF CallType
<1>5. ASSUME NEW r \in Records, NEW n \in Amounts, RequestPayout(p, r, n) PROVE CallInv'
  <2>1. UNCHANGED <<due, issued>> /\ Sets(p, "out", "read", r, n, NoCode)
    BY <1>5, PayerSets DEF RequestPayout, dbVars, stackVars
  <2>2. r \in Targets /\ r # Nobody /\ p # RefundCron /\ n \in Int
    BY <1>1, TargetFacts
  <2> QED
    BY <1>1, <2>1, <2>2, CallMoves DEF CallType
<1> QED
  BY <1>2, <1>3, <1>4, <1>5 DEF PayerStep

LEMMA RefundKeepsCall ==
  ASSUME CallInv, RefundStep
  PROVE  CallInv'
<1>1. RefundCron \in Callers /\ RefundCron \notin Payers /\ CallType /\ {"out", "ask"} \subseteq CallPC
  BY CallersKnown DEF CallInv, CallPC
<1>2. UNCHANGED <<due, issued>>
  BY DEF RefundStep, StartRefunds, NextRefund, RecordRefund, dbVars, stackVars
<1>3. CASE StartRefunds
  BY <1>1, <1>2, <1>3, CallFrame DEF StartRefunds, breakerVars, callVars, CallType
<1>4. ASSUME NEW s \in Refunds, NextRefund(s) PROVE CallInv'
  <2>1. Sets(RefundCron, "ask", "transfer", s, RefundAmount[s], NoCode)
    BY <1>4, RefundSets
  <2>2. s \in Targets /\ s # Nobody /\ RefundAmount[s] \in Int
    BY <1>1, TargetFacts
  <2> QED
    BY <1>1, <1>2, <2>1, <2>2, CallMoves DEF CallType
<1>5. CASE RecordRefund
  <2>1. Sets(RefundCron, "out", Rest(RefundCron), Nobody, 0, NoCode)
    BY <1>1, <1>5, RefundSets DEF Rest, Payers
  <2> QED
    BY <1>1, <1>2, <2>1, LeaveKeepsCall DEF CallType
<1> QED
  BY <1>3, <1>4, <1>5 DEF RefundStep

LEMMA TransferKeepsCall ==
  ASSUME CallInv, NEW p \in Callers, TransferStep(p) \/ CallFault(p) \/ RecordFault(p) \/ Crash(p)
  PROVE  CallInv'
<1>1. /\ CallType /\ CallOK(p)
      /\ {"out", "ask", "transfer", "count", "write", "open", "clear"} \subseteq CallPC
  BY DEF CallInv, CallPC
<1>2. UNCHANGED due
  BY DEF TransferStep, CallBlocked, CallStep, TransferAccepted, CallSucceeds, CallFails, CallFault,
         RecordFault, Crash, dbVars
<1>3. CASE CallBlocked(p) \/ CallFails(p) \/ RecordFault(p) \/ Crash(p)
  <2>1. UNCHANGED issued
    BY <1>3 DEF CallBlocked, CallFails, RecordFault, Crash, stackVars
  <2> QED
    BY <1>1, <1>2, <1>3, <2>1, TransferSets, LeaveKeepsCall DEF CallType
<1>4. CASE CallFault(p)
  <2>1. issued' \in [Targets -> 0..MaxTransfers]
    <3>1. target[p] \in Targets
      BY <1>4, TransferSets, TargetFacts
    <3>2. UNCHANGED stackVars \/ OrderTransfer(p)
      BY <1>4 DEF CallFault
    <3> QED
      BY <1>1, <3>1, <3>2, OrderFacts DEF stackVars, CallType
  <2> QED
    BY <1>1, <1>2, <1>4, <2>1, TransferSets, LeaveKeepsCall DEF CallType
<1>5. CASE CallStep(p)
  <2>1. PICK a \in {"transfer", "count", "write", "open"} :
          code[p] = NoCode /\ at' = [at EXCEPT ![p] = a]
    BY <1>5, TransferSets
  <2>2. pc[p] = "transfer" /\ UNCHANGED <<pc, target, amount, code>> /\ UNCHANGED issued
    BY <1>5, TransferSets DEF CallStep, stackVars
  <2>3. Sets(p, a, "transfer", target[p], amount[p], NoCode)
    BY <1>1, <2>1, <2>2 DEF Sets, CallType
  <2>4. /\ target[p] \in Targets /\ target[p] # Nobody /\ amount[p] \in Int
        /\ p \in Payers => target[p] \in Records
        /\ p = RefundCron => target[p] \in Refunds /\ amount[p] = RefundAmount[target[p]]
    BY <2>2, TargetFacts
  <2> QED
    BY <1>1, <1>2, <2>1, <2>2, <2>3, <2>4, CallMoves DEF CallType
<1>6. CASE TransferAccepted(p)
  <2>1. /\ pc[p] = "transfer"
        /\ Sets(p, "clear", "transfer", target[p], amount[p], NextCode(target[p]))
    BY <1>6, TransferSets
  <2>2. /\ target[p] \in Targets /\ target[p] # Nobody /\ amount[p] \in Int
        /\ p \in Payers => target[p] \in Records
        /\ p = RefundCron => target[p] \in Refunds /\ amount[p] = RefundAmount[target[p]]
    BY <2>1, TargetFacts
  <2>3. OrderTransfer(p)
    BY <1>6 DEF TransferAccepted
  <2>4. /\ NextCode(target[p]) \in Codes /\ NextCode(target[p]) # NoCode
        /\ issued' \in [Targets -> 0..MaxTransfers]
    BY <2>2, <2>3, OrderFacts, TargetFacts
  <2> QED
    BY <1>1, <1>2, <2>1, <2>2, <2>4, CallMoves DEF CallType
<1>7. CASE CallSucceeds(p)
  <2>1. /\ pc[p] = "transfer" /\ code[p] # NoCode
        /\ Sets(p, "out", "record", target[p], amount[p], code[p]) /\ UNCHANGED issued
    BY <1>7, TransferSets DEF CallSucceeds, stackVars
  <2>2. /\ target[p] \in Targets /\ target[p] # Nobody /\ amount[p] \in Int
        /\ p \in Payers => target[p] \in Records
        /\ p = RefundCron => target[p] \in Refunds /\ amount[p] = RefundAmount[target[p]]
    BY <2>1, TargetFacts
  <2> QED
    BY <1>1, <1>2, <2>1, <2>2, CallMoves DEF CallType
<1> QED
  BY <1>3, <1>4, <1>5, <1>6, <1>7 DEF TransferStep

LEMMA CallKept == CallInv /\ [Next]_vars => CallInv'
<1> SUFFICES ASSUME CallInv, [Next]_vars PROVE CallInv'
  OBVIOUS
<1>1. CallType
  BY DEF CallInv
<1>2. ASSUME NEW r \in Records, Earn(r) PROVE CallInv'
  <2>1. UNCHANGED <<at, pc, target, amount, code, issued>>
    BY <1>2 DEF Earn, breakerVars, callVars, stackVars
  <2>2. due' \in [Records -> Int \cup {Null}]
    BY <1>1, <1>2 DEF Earn, CallType
  <2> QED
    BY <2>1, <2>2, CallFrame
<1>3. ASSUME UNCHANGED <<breakerVars, due, callVars, stackVars>> PROVE CallInv'
  BY <1>1, <1>3, CallFrame DEF breakerVars, callVars, stackVars, CallType
<1>4. ASSUME NEW r \in Records, AddPayee(r) \/ QueuePayout(r) PROVE CallInv'
  BY <1>3, <1>4 DEF AddPayee, QueuePayout, dbVars
<1>5. ASSUME NEW s \in Refunds, AddBankDetails(s) \/ VerifyRefund(s) PROVE CallInv'
  BY <1>3, <1>5 DEF AddBankDetails, VerifyRefund
<1>6. ASSUME NEW row \in payouts, VerifyPayout(row) PROVE CallInv'
  BY <1>3, <1>6 DEF VerifyPayout
<1>7. CASE Expire
  BY <1>1, <1>7, CallFrame
  DEF Expire, ExpireOpen, ExpireFailures, dbVars, callVars, stackVars, CallType
<1>8. CASE UNCHANGED vars
  BY <1>3, <1>8 DEF vars, dbVars
<1>9. Workers \subseteq Payers /\ Admins \subseteq Payers
  BY DEF Payers
<1> QED
  BY <1>2, <1>4, <1>5, <1>6, <1>7, <1>8, <1>9, PayerKeepsCall, RefundKeepsCall, TransferKeepsCall
  DEF Next

(***************************************************************************)
(* The refund run works on pending refunds only.                           *)
(***************************************************************************)
RefundInv ==
  /\ paid \in [Refunds -> Codes \cup {NoCode}]
  /\ bank \subseteq Refunds
  /\ todo \subseteq Refunds
  /\ \A s \in todo : paid[s] = NoCode
  /\ target[RefundCron] # Nobody =>
       paid[target[RefundCron]] = NoCode /\ target[RefundCron] \notin todo

LEMMA RefundStart == Init => RefundInv
  BY CallersKnown DEF Init, RefundInv

LEMMA RefundFrame ==
  ASSUME RefundInv, UNCHANGED paid, todo' \in {todo, {}}, bank' \subseteq Refunds,
         target'[RefundCron] \in {target[RefundCron], Nobody}
  PROVE  RefundInv'
  BY DEF RefundInv

LEMMA OthersTarget ==
  ASSUME CallInv, NEW p \in Callers, p # RefundCron,
         NEW a, NEW s, NEW t, NEW n, NEW c, Sets(p, a, s, t, n, c)
  PROVE  target'[RefundCron] = target[RefundCron]
  BY CallersKnown DEF CallInv, CallType, Sets

LEMMA RefundKept == CallInv /\ RefundInv /\ [Next]_vars => RefundInv'
<1> SUFFICES ASSUME CallInv, RefundInv, [Next]_vars PROVE RefundInv'
  OBVIOUS
<1>1. RefundCron \in Callers /\ RefundCron \notin Payers /\ CallType /\ CallOK(RefundCron)
  BY CallersKnown DEF CallInv
<1>2. ASSUME UNCHANGED <<paid, todo, target, bank>> PROVE RefundInv'
  BY <1>2, RefundFrame DEF RefundInv
<1>3. ASSUME NEW p \in Payers,
             \/ PayerStep(p)
             \/ \E r \in Records : TakePayout(p, r)
             \/ \E r \in Records, n \in Amounts : RequestPayout(p, r, n)
      PROVE  RefundInv'
  <2>1. UNCHANGED <<paid, todo, bank>>
    BY <1>3 DEF PayerStep, RefusePayout, DecidePayout, RecordPayout, TakePayout, RequestPayout,
                dbVars, bookVars, queueVars
  <2>2. p \in Callers /\ p # RefundCron
    BY <1>1, CallersKnown
  <2>3. target'[RefundCron] = target[RefundCron]
    <3>1. CASE PayerStep(p)
      BY <2>2, <3>1, PayerSets, OthersTarget DEF PayerStep
    <3>2. ASSUME NEW r \in Records, TakePayout(p, r) PROVE target'[RefundCron] = target[RefundCron]
      BY <2>2, <3>2, PayerSets, OthersTarget
    <3>3. ASSUME NEW r \in Records, NEW n \in Amounts, RequestPayout(p, r, n)
          PROVE  target'[RefundCron] = target[RefundCron]
      BY <2>2, <3>3, PayerSets, OthersTarget
    <3> QED
      BY <1>3, <3>1, <3>2, <3>3
  <2> QED
    BY <2>1, <2>3, RefundFrame DEF RefundInv
<1>4. CASE StartRefunds
  <2>1. /\ todo' = {s \in bank : paid[s] = NoCode} /\ UNCHANGED <<paid, target, bank>>
        /\ pc[RefundCron] = "idle"
    BY <1>4 DEF StartRefunds, dbVars, bookVars, callVars
  <2>2. target[RefundCron] = Nobody
    BY <1>1, <2>1 DEF CallOK
  <2> QED
    BY <2>1, <2>2 DEF RefundInv
<1>5. ASSUME NEW s \in Refunds, NextRefund(s) PROVE RefundInv'
  <2>1. /\ s \in todo /\ todo' = todo \ {s} /\ UNCHANGED <<paid, bank>>
        /\ target' = [target EXCEPT ![RefundCron] = s]
    BY <1>5 DEF NextRefund, dbVars, bookVars
  <2> QED
    BY <1>1, <2>1 DEF RefundInv, CallType
<1>6. CASE RecordRefund
  <2>1. /\ pc[RefundCron] = "record" /\ UNCHANGED <<todo, bank>>
        /\ paid' = [paid EXCEPT ![target[RefundCron]] = code[RefundCron]]
        /\ Sets(RefundCron, "out", "idle", Nobody, 0, NoCode)
    BY <1>6, RefundSets DEF RecordRefund, queueVars
  <2>2. target'[RefundCron] = Nobody /\ target[RefundCron] \notin todo
    BY <1>1, <2>1 DEF Sets, CallType, CallOK, RefundInv
  <2> QED
    BY <1>1, <2>1, <2>2 DEF RefundInv, CallType
<1>7. ASSUME NEW p \in Callers, TransferStep(p) \/ CallFault(p) \/ RecordFault(p) \/ Crash(p)
      PROVE  RefundInv'
  <2>1. UNCHANGED <<paid, bank>> /\ todo' \in {todo, {}}
    BY <1>7 DEF TransferStep, CallBlocked, CallStep, TransferAccepted, CallSucceeds, CallFails,
                CallFault, RecordFault, Crash, GiveUp, dbVars, bookVars, queueVars
  <2>2. \/ UNCHANGED target
        \/ \E t \in {target[p], Nobody} : target' = [target EXCEPT ![p] = t]
    BY <1>7, TransferSets DEF TransferStep, Sets
  <2>3. target'[RefundCron] \in {target[RefundCron], Nobody}
    BY <1>1, <2>2 DEF CallType
  <2> QED
    BY <2>1, <2>3, RefundFrame DEF RefundInv
<1>8. ASSUME NEW r \in Records, Earn(r) \/ AddPayee(r) \/ QueuePayout(r) PROVE RefundInv'
  BY <1>2, <1>8 DEF Earn, AddPayee, QueuePayout, dbVars, bookVars, queueVars, callVars
<1>9. ASSUME NEW s \in Refunds, AddBankDetails(s) \/ VerifyRefund(s) PROVE RefundInv'
  <2>1. UNCHANGED <<paid, todo, target>> /\ (UNCHANGED bank \/ bank' = bank \cup {s})
    BY <1>9 DEF AddBankDetails, VerifyRefund, bookVars, queueVars, callVars
  <2> QED
    BY <2>1, RefundFrame DEF RefundInv
<1>10. ASSUME NEW row \in payouts, VerifyPayout(row) PROVE RefundInv'
  BY <1>2, <1>10 DEF VerifyPayout, queueVars, callVars
<1>11. CASE Expire \/ UNCHANGED vars
  BY <1>2, <1>11 DEF Expire, vars, dbVars, bookVars, queueVars, callVars
<1>12. Workers \subseteq Payers /\ Admins \subseteq Payers
  BY DEF Payers
<1> QED
  BY <1>3, <1>4, <1>5, <1>6, <1>7, <1>8, <1>9, <1>10, <1>11, <1>12 DEF Next, RefundStep

(***************************************************************************)
(* Codes: what the ledger sees of a step.                                  *)
(***************************************************************************)
Transfer(c, t, n) == [code |-> c, to |-> t, amount |-> n]

Ordered == {t.code : t \in transfers}
BookedCodes == {row.code : row \in payouts} \cup ({paid[s] : s \in Refunds} \ {NoCode})

HandsKept(S) ==
  \A q \in Callers \ S :
    /\ code'[q] = code[q]
    /\ code[q] # NoCode => target'[q] = target[q] /\ amount'[q] = amount[q]

Still == HandsKept({}) /\ UNCHANGED <<transfers, issued, payouts, paid, confirmed, dropped>>

Orders(p) ==
  /\ code[p] = NoCode
  /\ target[p] \in Targets
  /\ issued[target[p]] + 1 \in 1..MaxTransfers
  /\ issued' = [issued EXCEPT ![target[p]] = @ + 1]
  /\ transfers' = transfers \cup {Transfer(NextCode(target[p]), target[p], amount[p])}
  /\ UNCHANGED <<payouts, paid, confirmed>>

OrdersInHand(p) ==
  /\ Orders(p)
  /\ HandsKept({p})
  /\ code'[p] = NextCode(target[p]) /\ target'[p] = target[p] /\ amount'[p] = amount[p]
  /\ UNCHANGED dropped

OrdersInVain(p) ==
  /\ Orders(p)
  /\ HandsKept({})
  /\ dropped' = dropped \cup {NextCode(target[p])}

LetsGo(p) ==
  /\ code[p] # NoCode
  /\ code'[p] = NoCode
  /\ HandsKept({p})
  /\ UNCHANGED <<transfers, issued, confirmed>>

BooksPayout(p) ==
  /\ LetsGo(p)
  /\ target[p] \in Records
  /\ payouts' = payouts \cup {[code |-> code[p], record |-> target[p], amount |-> amount[p]]}
  /\ UNCHANGED <<paid, dropped>>

BooksRefund(p) ==
  /\ LetsGo(p)
  /\ target[p] \in Refunds
  /\ amount[p] = RefundAmount[target[p]]
  /\ paid[target[p]] = NoCode
  /\ paid' = [paid EXCEPT ![target[p]] = code[p]]
  /\ UNCHANGED <<payouts, dropped>>

Drops(p) ==
  /\ LetsGo(p)
  /\ dropped' = dropped \cup {code[p]}
  /\ UNCHANGED <<payouts, paid>>

Confirms(c) ==
  /\ c \in BookedCodes
  /\ confirmed' = confirmed \cup {c}
  /\ HandsKept({})
  /\ UNCHANGED <<transfers, issued, payouts, paid, dropped>>

CodeStep ==
  \/ Still
  \/ \E p \in Callers :
       OrdersInHand(p) \/ OrdersInVain(p) \/ BooksPayout(p) \/ BooksRefund(p) \/ Drops(p)
  \/ \E c \in Codes : Confirms(c)

(* A step of a caller keeps what the others have in hand, and its own when *)
(* it had no code and gets none, or has a code and keeps all.              *)
LEMMA SetsHands ==
  ASSUME CallInv, NEW p \in Callers, NEW a, NEW s, NEW t, NEW n, NEW c, Sets(p, a, s, t, n, c)
  PROVE  /\ HandsKept({p})
         /\ code'[p] = c /\ target'[p] = t /\ amount'[p] = n
         /\ c = code[p] /\ (c = NoCode \/ (t = target[p] /\ n = amount[p])) => HandsKept({})
  BY DEF CallInv, CallType, Sets, HandsKept

LEMMA EmptyHands ==
  ASSUME CallInv, NEW p \in Callers, NEW a, NEW s, NEW t, NEW n, Sets(p, a, s, t, n, NoCode)
  PROVE  /\ HandsKept({p}) /\ code'[p] = NoCode
         /\ code[p] = NoCode => HandsKept({})
  BY DEF CallInv, CallType, Sets, HandsKept

LEMMA HandsStay == UNCHANGED <<code, target, amount>> => HandsKept({})
  BY DEF HandsKept

LEMMA PayerCodes ==
  ASSUME CallInv, NEW p \in Payers,
         \/ PayerStep(p)
         \/ \E r \in Records : TakePayout(p, r)
         \/ \E r \in Records, n \in Amounts : RequestPayout(p, r, n)
  PROVE  CodeStep
<1>1. p \in Callers /\ CallType /\ CallOK(p)
  BY CallersKnown DEF CallInv
<1>2. CASE RecordPayout(p)
  <2>1. Sets(p, "out", Rest(p), Nobody, 0, NoCode)
    BY <1>2, PayerSets
  <2>2. HandsKept({p}) /\ code'[p] = NoCode
    BY <1>1, <2>1, SetsHands
  <2>3. code[p] # NoCode /\ target[p] \in Records
    BY <1>1, <1>2 DEF RecordPayout, CallOK
  <2>4. BooksPayout(p)
    BY <1>2, <2>2, <2>3 DEF BooksPayout, LetsGo, RecordPayout, stackVars, envVars
  <2> QED
    BY <1>1, <2>4 DEF CodeStep
<1>3. CASE ~RecordPayout(p)
  <2>1. UNCHANGED <<transfers, issued, payouts, paid, confirmed, dropped>>
    BY <1>3 DEF PayerStep, RefusePayout, DecidePayout, TakePayout, RequestPayout, dbVars, bookVars,
                stackVars, envVars
  <2>2. code[p] = NoCode
    BY <1>1, <1>3 DEF PayerStep, RefusePayout, DecidePayout, TakePayout, RequestPayout, Goto,
                      CallOK
  <2>3. HandsKept({})
    <3>1. CASE RefusePayout(p)
      <4>1. Sets(p, "out", Rest(p), Nobody, 0, NoCode)
        BY <3>1, PayerSets
      <4> QED
        BY <1>1, <2>2, <4>1, EmptyHands
    <3>2. CASE DecidePayout(p)
      <4>1. Sets(p, "ask", "transfer", target[p], amount'[p], NoCode)
        BY <3>2, PayerSets
      <4> QED
        BY <1>1, <2>2, <4>1, EmptyHands
    <3>3. ASSUME NEW r \in Records, TakePayout(p, r) PROVE HandsKept({})
      <4>1. Sets(p, "out", "read", r, amount[p], NoCode)
        BY <3>3, PayerSets
      <4> QED
        BY <1>1, <2>2, <4>1, EmptyHands
    <3>4. ASSUME NEW r \in Records, NEW n \in Amounts, RequestPayout(p, r, n) PROVE HandsKept({})
      <4>1. Sets(p, "out", "read", r, n, NoCode)
        BY <3>4, PayerSets
      <4> QED
        BY <1>1, <2>2, <4>1, EmptyHands
    <3> QED
      BY <1>3, <3>1, <3>2, <3>3, <3>4 DEF PayerStep
  <2> QED
    BY <2>1, <2>3 DEF CodeStep, Still
<1> QED
  BY <1>2, <1>3

LEMMA RefundCodes ==
  ASSUME CallInv, RefundInv, RefundStep
  PROVE  CodeStep
<1>1. RefundCron \in Callers /\ CallType /\ CallOK(RefundCron)
  BY CallersKnown DEF CallInv
<1>2. CASE RecordRefund
  <2>1. HandsKept({RefundCron}) /\ code'[RefundCron] = NoCode
    BY <1>1, <1>2, RefundSets, SetsHands
  <2>2. /\ code[RefundCron] # NoCode /\ target[RefundCron] \in Refunds
        /\ amount[RefundCron] = RefundAmount[target[RefundCron]]
        /\ paid[target[RefundCron]] = NoCode
    BY <1>1, <1>2 DEF RecordRefund, CallOK, RefundInv
  <2>3. BooksRefund(RefundCron)
    BY <1>2, <2>1, <2>2 DEF BooksRefund, LetsGo, RecordRefund, stackVars, envVars
  <2> QED
    BY <1>1, <2>3 DEF CodeStep
<1>3. CASE StartRefunds
  BY <1>3, HandsStay
  DEF CodeStep, Still, StartRefunds, dbVars, bookVars, callVars, stackVars, envVars
<1>4. ASSUME NEW s \in Refunds, NextRefund(s) PROVE CodeStep
  <2>1. code[RefundCron] = NoCode
    BY <1>1, <1>4 DEF NextRefund, Goto, CallOK
  <2>2. HandsKept({})
    <3>1. Sets(RefundCron, "ask", "transfer", s, RefundAmount[s], NoCode)
      BY <1>4, RefundSets
    <3> QED
      BY <1>1, <2>1, <3>1, EmptyHands
  <2> QED
    BY <1>4, <2>2 DEF CodeStep, Still, NextRefund, dbVars, bookVars, stackVars, envVars
<1> QED
  BY <1>2, <1>3, <1>4 DEF RefundStep

LEMMA TransferCodes ==
  ASSUME CallInv, NEW p \in Callers, TransferStep(p) \/ CallFault(p) \/ RecordFault(p) \/ Crash(p)
  PROVE  CodeStep
<1>1. CallType /\ CallOK(p)
  BY DEF CallInv
<1> DEFINE Left == Sets(p, "out", Rest(p), Nobody, 0, NoCode)
<1>2. Left => HandsKept({p}) /\ code'[p] = NoCode /\ (code[p] = NoCode => HandsKept({}))
  BY EmptyHands
<1>3. CASE CallBlocked(p) \/ CallFails(p)
  <2>1. HandsKept({})
    BY <1>2, <1>3, TransferSets
  <2> QED
    BY <1>3, <2>1 DEF CodeStep, Still, CallBlocked, CallFails, dbVars, bookVars, stackVars, envVars
<1>4. CASE CallStep(p)
  BY <1>4, HandsStay DEF CodeStep, Still, CallStep, dbVars, bookVars, callVars, stackVars, envVars
<1>5. CASE TransferAccepted(p)
  <2>1. /\ pc[p] = "transfer" /\ code[p] = NoCode
        /\ Sets(p, "clear", "transfer", target[p], amount[p], NextCode(target[p]))
    BY <1>5, TransferSets
  <2>2. /\ HandsKept({p}) /\ code'[p] = NextCode(target[p])
        /\ target'[p] = target[p] /\ amount'[p] = amount[p]
    BY <2>1, SetsHands
  <2>3. OrderTransfer(p) /\ target[p] \in Targets
    BY <1>5, <2>1, TargetFacts DEF TransferAccepted
  <2>4. OrdersInHand(p)
    BY <1>5, <2>1, <2>2, <2>3, OrderFacts
    DEF OrdersInHand, Orders, Transfer, TransferAccepted, dbVars, bookVars, envVars
  <2> QED
    BY <2>4 DEF CodeStep
<1>6. CASE CallSucceeds(p)
  <2>1. HandsKept({})
    BY <1>6, TransferSets, SetsHands
  <2> QED
    BY <1>6, <2>1 DEF CodeStep, Still, CallSucceeds, dbVars, bookVars, stackVars, envVars
<1>7. CASE CallFault(p)
  <2>1. code[p] = NoCode /\ pc[p] = "transfer" /\ HandsKept({}) /\ target[p] \in Targets
    BY <1>2, <1>7, TransferSets, TargetFacts
  <2>2. UNCHANGED <<payouts, paid, confirmed>>
    BY <1>7 DEF CallFault, dbVars, bookVars
  <2>3. CASE UNCHANGED <<stackVars, dropped>>
    BY <2>1, <2>2, <2>3 DEF CodeStep, Still, stackVars
  <2>4. CASE OrderTransfer(p) /\ dropped' = dropped \cup {NextCode(target[p])}
    <3>1. OrdersInVain(p)
      BY <2>1, <2>2, <2>4, OrderFacts DEF OrdersInVain, Orders, Transfer
    <3> QED
      BY <3>1 DEF CodeStep
  <2> QED
    BY <1>7, <2>3, <2>4 DEF CallFault
<1>8. CASE RecordFault(p)
  <2>1. Drops(p)
    BY <1>2, <1>8, TransferSets
    DEF Drops, LetsGo, RecordFault, dbVars, bookVars, stackVars
  <2> QED
    BY <2>1 DEF CodeStep
<1>9. CASE Crash(p)
  <2>1. /\ UNCHANGED <<transfers, issued, payouts, paid, confirmed>>
        /\ dropped' = dropped \cup ({code[p]} \ {NoCode})
    BY <1>9 DEF Crash, dbVars, bookVars, stackVars
  <2>2. Left
    BY <1>9, TransferSets
  <2>3. CASE code[p] = NoCode
    BY <1>2, <2>1, <2>2, <2>3 DEF CodeStep, Still
  <2>4. CASE code[p] # NoCode
    <3>1. Drops(p)
      BY <1>2, <2>1, <2>2, <2>4 DEF Drops, LetsGo
    <3> QED
      BY <3>1 DEF CodeStep
  <2> QED
    BY <2>3, <2>4
<1> QED
  BY <1>3, <1>4, <1>5, <1>6, <1>7, <1>8, <1>9 DEF TransferStep

LEMMA NextMovesCodes == CallInv /\ RefundInv /\ payouts \subseteq PayoutRows /\ [Next]_vars => CodeStep
<1> SUFFICES ASSUME CallInv, RefundInv, payouts \subseteq PayoutRows, [Next]_vars PROVE CodeStep
  OBVIOUS
<1>1. UNCHANGED <<code, target, amount, transfers, issued, payouts, paid, confirmed, dropped>> => CodeStep
  BY HandsStay DEF CodeStep, Still
<1>2. ASSUME NEW r \in Records, Earn(r) \/ AddPayee(r) \/ QueuePayout(r) PROVE CodeStep
  BY <1>1, <1>2 DEF Earn, AddPayee, QueuePayout, dbVars, bookVars, callVars, stackVars, envVars
<1>3. ASSUME NEW s \in Refunds, AddBankDetails(s) PROVE CodeStep
  BY <1>1, <1>3 DEF AddBankDetails, bookVars, callVars, stackVars, envVars
<1>4. ASSUME NEW s \in Refunds, VerifyRefund(s) PROVE CodeStep
  <2>1. paid[s] \in BookedCodes /\ paid[s] \in Codes
    BY <1>4 DEF VerifyRefund, BookedCodes, RefundInv
  <2>2. Confirms(paid[s])
    BY <1>4, <2>1, HandsStay DEF Confirms, VerifyRefund, callVars, stackVars, envVars
  <2> QED
    BY <2>1, <2>2 DEF CodeStep
<1>5. ASSUME NEW row \in payouts, VerifyPayout(row) PROVE CodeStep
  <2>1. row.code \in BookedCodes /\ row.code \in Codes
    BY <1>5 DEF BookedCodes, PayoutRows
  <2>2. Confirms(row.code)
    BY <1>5, <2>1, HandsStay DEF Confirms, VerifyPayout, callVars, stackVars, envVars
  <2> QED
    BY <2>1, <2>2 DEF CodeStep
<1>6. CASE Expire \/ UNCHANGED vars
  BY <1>1, <1>6 DEF Expire, vars, dbVars, bookVars, callVars, stackVars, envVars
<1>7. Workers \subseteq Payers /\ Admins \subseteq Payers
  BY DEF Payers
<1> QED
  BY <1>2, <1>3, <1>4, <1>5, <1>6, <1>7, PayerCodes, RefundCodes, TransferCodes DEF Next

(***************************************************************************)
(* What is known of codes.                                                 *)
(***************************************************************************)
(* Paystack numbers the transfers of a target.                             *)
OrderInv ==
  /\ transfers \subseteq [code : Codes, to : Targets, amount : Int]
  /\ \A t \in transfers : \E n \in 1..issued[t.to] : t.code = <<t.to, n>>
  /\ \A t, u \in transfers : t.code = u.code => t = u

(* A code is in one hand, in the books or dropped.                         *)
HandInv ==
  /\ \A p \in Callers :
       code[p] # NoCode =>
         /\ Transfer(code[p], target[p], amount[p]) \in transfers
         /\ code[p] \notin dropped \cup BookedCodes
  /\ \A p, q \in Callers : code[p] # NoCode /\ code[p] = code[q] => p = q

BookInv ==
  /\ payouts \subseteq PayoutRows
  /\ dropped \subseteq Ordered
  /\ dropped \cap BookedCodes = {}
  /\ confirmed \subseteq BookedCodes
  /\ \A row \in payouts : Transfer(row.code, row.record, row.amount) \in transfers
  /\ \A s \in Refunds : paid[s] # NoCode => Transfer(paid[s], s, RefundAmount[s]) \in transfers

TraceInv == \A t \in transfers : Booked(t) \/ InHand(t) \/ t.code \in dropped

CodeInv == OrderInv /\ HandInv /\ BookInv /\ TraceInv

LEMMA CodeStart == Init => CodeInv
  BY DEF Init, CodeInv, OrderInv, HandInv, BookInv, TraceInv, BookedCodes, Ordered

LEMMA BookedWereOrdered ==
  ASSUME BookInv
  PROVE  BookedCodes \subseteq Ordered
<1>1. ASSUME NEW row \in payouts PROVE row.code \in Ordered
  <2>1. Transfer(row.code, row.record, row.amount).code = row.code
    BY DEF Transfer
  <2> QED
    BY <2>1 DEF BookInv, Ordered
<1>2. ASSUME NEW s \in Refunds, paid[s] # NoCode PROVE paid[s] \in Ordered
  <2>1. Transfer(paid[s], s, RefundAmount[s]).code = paid[s]
    BY DEF Transfer
  <2> QED
    BY <1>2, <2>1 DEF BookInv, Ordered
<1> QED
  BY <1>1, <1>2 DEF BookedCodes

(* A new code is new.                                                      *)
LEMMA NextCodeIsNew ==
  ASSUME CodeInv, CallInv, NEW p \in Callers, Orders(p)
  PROVE  /\ NextCode(target[p]) \notin Ordered
         /\ NextCode(target[p]) \notin dropped \cup BookedCodes
         /\ \A q \in Callers : code[q] # NextCode(target[p])
         /\ NextCode(target[p]) \in Codes
<1>1. NextCode(target[p]) \notin Ordered
  <2> SUFFICES ASSUME NEW t \in transfers, t.code = NextCode(target[p]) PROVE FALSE
    BY DEF Ordered
  <2>1. PICK n \in 1..issued[t.to] : t.code = <<t.to, n>>
    BY DEF CodeInv, OrderInv
  <2>2. t.to = target[p] /\ n = issued[target[p]] + 1
    BY <2>1 DEF NextCode
  <2>3. issued[target[p]] \in 0..MaxTransfers
    BY DEF Orders, CallInv, CallType
  <2> QED
    BY <2>1, <2>2, <2>3, BoundsAreNumbers
<1>2. dropped \cup BookedCodes \subseteq Ordered
  BY BookedWereOrdered DEF CodeInv, BookInv
<1>3. NextCode(target[p]) \in Codes
  BY DEF Orders, NextCode, Codes
<1>4. ASSUME NEW q \in Callers PROVE code[q] # NextCode(target[p])
  <2>1. CASE code[q] = NoCode
    BY <1>3, <2>1, TargetFacts
  <2>2. CASE code[q] # NoCode
    <3>1. Transfer(code[q], target[q], amount[q]).code = code[q]
      BY DEF Transfer
    <3>2. code[q] \in Ordered
      BY <2>2, <3>1 DEF CodeInv, HandInv, Ordered
    <3> QED
      BY <1>1, <3>2
  <2> QED
    BY <2>1, <2>2
<1> QED
  BY <1>1, <1>2, <1>3, <1>4

LEMMA OrdersKeep ==
  ASSUME CodeInv, CallInv, NEW p \in Callers, Orders(p)
  PROVE  /\ OrderInv'
         /\ Ordered' = Ordered \cup {NextCode(target[p])}
         /\ BookedCodes' = BookedCodes
         /\ transfers \subseteq transfers'
<1> DEFINE new == Transfer(NextCode(target[p]), target[p], amount[p])
<1>1. /\ new.code = NextCode(target[p]) /\ new.to = target[p]
      /\ transfers' = transfers \cup {new}
  BY DEF Orders, Transfer
<1>2. new \in [code : Codes, to : Targets, amount : Int]
  BY NextCodeIsNew DEF Orders, Transfer, CallInv, CallType
<1>3. Ordered' = Ordered \cup {NextCode(target[p])}
  BY <1>1 DEF Ordered
<1>4. BookedCodes' = BookedCodes
  BY DEF Orders, BookedCodes
<1>5. \A t, u \in transfers' : t.code = u.code => t = u
  BY <1>1, NextCodeIsNew DEF CodeInv, OrderInv, Ordered
<1>6. \A t \in transfers' : \E n \in 1..issued'[t.to] : t.code = <<t.to, n>>
  <2> SUFFICES ASSUME NEW t \in transfers' PROVE \E n \in 1..issued'[t.to] : t.code = <<t.to, n>>
    OBVIOUS
  <2>1. /\ \A k \in Targets : issued[k] \in Nat
        /\ issued'[target[p]] = issued[target[p]] + 1
        /\ \A k \in Targets : k # target[p] => issued'[k] = issued[k]
    BY BoundsAreNumbers DEF CallInv, CallType, Orders
  <2>2. CASE t = new
    BY <1>1, <2>1, <2>2 DEF NextCode, Orders
  <2>3. CASE t \in transfers
    <3>1. t.to \in Targets
      BY <2>3 DEF CodeInv, OrderInv
    <3>2. PICK n \in 1..issued[t.to] : t.code = <<t.to, n>>
      BY <2>3 DEF CodeInv, OrderInv
    <3>3. n \in 1..issued'[t.to]
      BY <2>1, <3>1, <3>2
    <3> QED
      BY <3>2, <3>3
  <2> QED
    BY <1>1, <2>2, <2>3
<1> QED
  BY <1>1, <1>2, <1>3, <1>4, <1>5, <1>6 DEF CodeInv, OrderInv

LEMMA InHandKeepsCodes ==
  ASSUME CodeInv, CallInv, NEW p \in Callers, OrdersInHand(p)
  PROVE  CodeInv'
<1>1. /\ Orders(p) /\ code[p] = NoCode /\ UNCHANGED <<dropped, payouts, paid, confirmed>>
      /\ code'[p] = NextCode(target[p]) /\ target'[p] = target[p] /\ amount'[p] = amount[p]
      /\ \A q \in Callers \ {p} :
           /\ code'[q] = code[q]
           /\ code[q] # NoCode => target'[q] = target[q] /\ amount'[q] = amount[q]
  BY DEF OrdersInHand, Orders, HandsKept
<1>2. /\ OrderInv' /\ BookedCodes' = BookedCodes /\ transfers \subseteq transfers'
      /\ Ordered' = Ordered \cup {NextCode(target[p])}
      /\ transfers' = transfers \cup {Transfer(NextCode(target[p]), target[p], amount[p])}
  BY <1>1, OrdersKeep DEF Orders
<1>3. HandInv'
  BY <1>1, <1>2, NextCodeIsNew DEF CodeInv, HandInv
<1>4. BookInv'
  BY <1>1, <1>2 DEF CodeInv, BookInv
<1>5. ASSUME NEW t \in transfers' PROVE Booked(t)' \/ InHand(t)' \/ t.code \in dropped'
  <2>1. CASE t = Transfer(NextCode(target[p]), target[p], amount[p])
    BY <1>1, <2>1 DEF InHand, Transfer
  <2>2. CASE t \in transfers
    <3>1. t.code # NoCode
      BY <2>2, TargetsKnown DEF CodeInv, OrderInv, NoCode, Codes
    <3>2. Booked(t) => Booked(t)'
      BY <1>1 DEF Booked
    <3>3. InHand(t) => InHand(t)'
      BY <1>1, <3>1 DEF InHand
    <3> QED
      BY <1>1, <2>2, <3>2, <3>3 DEF CodeInv, TraceInv
  <2> QED
    BY <1>2, <2>1, <2>2
<1> QED
  BY <1>2, <1>3, <1>4, <1>5 DEF CodeInv, TraceInv

LEMMA InVainKeepsCodes ==
  ASSUME CodeInv, CallInv, NEW p \in Callers, OrdersInVain(p)
  PROVE  CodeInv'
<1>1. /\ Orders(p) /\ UNCHANGED <<payouts, paid, confirmed>>
      /\ dropped' = dropped \cup {NextCode(target[p])}
      /\ \A q \in Callers :
           /\ code'[q] = code[q]
           /\ code[q] # NoCode => target'[q] = target[q] /\ amount'[q] = amount[q]
  BY DEF OrdersInVain, Orders, HandsKept
<1>2. /\ OrderInv' /\ BookedCodes' = BookedCodes /\ transfers \subseteq transfers'
      /\ Ordered' = Ordered \cup {NextCode(target[p])}
      /\ transfers' = transfers \cup {Transfer(NextCode(target[p]), target[p], amount[p])}
  BY <1>1, OrdersKeep DEF Orders
<1>3. HandInv'
  BY <1>1, <1>2, NextCodeIsNew DEF CodeInv, HandInv
<1>4. BookInv'
  BY <1>1, <1>2, NextCodeIsNew DEF CodeInv, BookInv
<1>5. ASSUME NEW t \in transfers' PROVE Booked(t)' \/ InHand(t)' \/ t.code \in dropped'
  <2>1. CASE t = Transfer(NextCode(target[p]), target[p], amount[p])
    BY <1>1, <2>1 DEF Transfer
  <2>2. CASE t \in transfers
    <3>1. t.code # NoCode
      BY <2>2, TargetsKnown DEF CodeInv, OrderInv, NoCode, Codes
    <3>2. Booked(t) => Booked(t)'
      BY <1>1 DEF Booked
    <3>3. InHand(t) => InHand(t)'
      BY <1>1, <3>1 DEF InHand
    <3> QED
      BY <1>1, <2>2, <3>2, <3>3 DEF CodeInv, TraceInv
  <2> QED
    BY <1>2, <2>1, <2>2
<1> QED
  BY <1>2, <1>3, <1>4, <1>5 DEF CodeInv, TraceInv

(* A hand that lets go of a code that is booked or dropped at once.        *)
LEMMA LettingGo ==
  ASSUME CodeInv, CallInv, NEW p \in Callers, LetsGo(p)
  PROVE  /\ Transfer(code[p], target[p], amount[p]) \in transfers
         /\ code[p] \in Ordered /\ code[p] \notin dropped \cup BookedCodes /\ code[p] \in Codes
         /\ OrderInv' /\ Ordered' = Ordered /\ UNCHANGED <<transfers, confirmed>>
         /\ \A q \in Callers :
              code'[q] # NoCode =>
                /\ q # p /\ code'[q] = code[q] /\ code'[q] # code[p]
                /\ target'[q] = target[q] /\ amount'[q] = amount[q]
         /\ \A t \in transfers : InHand(t) => InHand(t)' \/ t = Transfer(code[p], target[p], amount[p])
<1>1. /\ code[p] # NoCode /\ code'[p] = NoCode /\ UNCHANGED <<transfers, issued, confirmed>>
      /\ \A q \in Callers \ {p} :
           /\ code'[q] = code[q]
           /\ code[q] # NoCode => target'[q] = target[q] /\ amount'[q] = amount[q]
  BY DEF LetsGo, HandsKept
<1>2. /\ Transfer(code[p], target[p], amount[p]) \in transfers
      /\ code[p] \notin dropped \cup BookedCodes
  BY <1>1 DEF CodeInv, HandInv
<1>3. code[p] \in Ordered /\ code[p] \in Codes
  <2>1. Transfer(code[p], target[p], amount[p]).code = code[p]
    BY DEF Transfer
  <2> QED
    BY <1>1, <1>2, <2>1 DEF Ordered, CallInv, CallType
<1>4. OrderInv' /\ Ordered' = Ordered
  BY <1>1 DEF CodeInv, OrderInv, Ordered
<1>5. \A q \in Callers :
        code'[q] # NoCode =>
          /\ q # p /\ code'[q] = code[q] /\ code'[q] # code[p]
          /\ target'[q] = target[q] /\ amount'[q] = amount[q]
  BY <1>1 DEF CodeInv, HandInv
<1>6. ASSUME NEW t \in transfers, InHand(t)
      PROVE  InHand(t)' \/ t = Transfer(code[p], target[p], amount[p])
  <2>1. PICK q \in Callers : code[q] = t.code /\ target[q] = t.to /\ amount[q] = t.amount
    BY <1>6 DEF InHand
  <2>2. t.code # NoCode /\ t = Transfer(t.code, t.to, t.amount)
    BY TargetsKnown DEF CodeInv, OrderInv, NoCode, Codes, Transfer
  <2>3. CASE q = p
    BY <2>1, <2>2, <2>3
  <2>4. CASE q # p
    BY <1>1, <2>1, <2>2, <2>4 DEF InHand
  <2> QED
    BY <2>3, <2>4
<1> QED
  BY <1>1, <1>2, <1>3, <1>4, <1>5, <1>6

LEMMA PayoutKeepsCodes ==
  ASSUME CodeInv, CallInv, NEW p \in Callers, BooksPayout(p)
  PROVE  CodeInv' /\ BookedCodes' = BookedCodes \cup {code[p]}
<1> DEFINE new == [code |-> code[p], record |-> target[p], amount |-> amount[p]]
<1>1. LetsGo(p) /\ UNCHANGED <<paid, dropped>> /\ target[p] \in Records
  BY DEF BooksPayout
<1>2. /\ payouts' = payouts \cup {new}
      /\ new.code = code[p] /\ new.record = target[p] /\ new.amount = amount[p]
  BY DEF BooksPayout
<1>3. BookedCodes' = BookedCodes \cup {code[p]}
  BY <1>1, <1>2 DEF BookedCodes
<1>4. HandInv'
  <2>1. \A q \in Callers : code'[q] # NoCode => code'[q] \notin BookedCodes'
    BY <1>1, <1>3, LettingGo DEF CodeInv, HandInv
  <2> QED
    BY <1>1, <2>1, LettingGo DEF CodeInv, HandInv
<1>5. BookInv'
  <2>1. new \in PayoutRows
    BY <1>1, LettingGo DEF PayoutRows, CallInv, CallType
  <2> QED
    BY <1>1, <1>2, <1>3, <2>1, LettingGo DEF CodeInv, BookInv
<1>6. ASSUME NEW t \in transfers' PROVE Booked(t)' \/ InHand(t)' \/ t.code \in dropped'
  <2>1. t \in transfers
    BY <1>1, LettingGo
  <2>2. CASE t = Transfer(code[p], target[p], amount[p])
    BY <1>2, <2>2 DEF Booked, Transfer
  <2>3. CASE t # Transfer(code[p], target[p], amount[p])
    <3>1. Booked(t) => Booked(t)'
      BY <1>1, <1>2 DEF Booked
    <3>2. InHand(t) => InHand(t)'
      BY <1>1, <2>1, <2>3, LettingGo
    <3> QED
      BY <1>1, <2>1, <3>1, <3>2 DEF CodeInv, TraceInv
  <2> QED
    BY <2>2, <2>3
<1> QED
  BY <1>1, <1>3, <1>4, <1>5, <1>6, LettingGo DEF CodeInv, TraceInv

LEMMA RefundKeepsCodes ==
  ASSUME CodeInv, CallInv, RefundInv, NEW p \in Callers, BooksRefund(p)
  PROVE  CodeInv' /\ BookedCodes' = BookedCodes \cup {code[p]}
<1>1. /\ LetsGo(p) /\ UNCHANGED <<payouts, dropped>> /\ target[p] \in Refunds
      /\ amount[p] = RefundAmount[target[p]] /\ paid[target[p]] = NoCode
      /\ paid' = [paid EXCEPT ![target[p]] = code[p]]
  BY DEF BooksRefund
<1>2. /\ code[p] \in Codes /\ code[p] # NoCode
      /\ paid'[target[p]] = code[p]
      /\ \A s \in Refunds : s # target[p] => paid'[s] = paid[s]
  BY <1>1, LettingGo DEF LetsGo, RefundInv
<1>3. BookedCodes' = BookedCodes \cup {code[p]}
  <2>1. ({paid[s] : s \in Refunds} \ {NoCode})' = ({paid[s] : s \in Refunds} \ {NoCode}) \cup {code[p]}
    BY <1>1, <1>2
  <2> QED
    BY <1>1, <2>1 DEF BookedCodes
<1>4. HandInv'
  <2>1. \A q \in Callers : code'[q] # NoCode => code'[q] \notin BookedCodes'
    BY <1>1, <1>3, LettingGo DEF CodeInv, HandInv
  <2> QED
    BY <1>1, <2>1, LettingGo DEF CodeInv, HandInv
<1>5. BookInv'
  <2>1. \A s \in Refunds : paid'[s] # NoCode => Transfer(paid'[s], s, RefundAmount[s]) \in transfers
    BY <1>1, <1>2, LettingGo DEF CodeInv, BookInv
  <2> QED
    BY <1>1, <1>3, <2>1, LettingGo DEF CodeInv, BookInv
<1>6. ASSUME NEW t \in transfers' PROVE Booked(t)' \/ InHand(t)' \/ t.code \in dropped'
  <2>1. t \in transfers /\ t.code # NoCode
    BY <1>1, LettingGo, TargetsKnown DEF CodeInv, OrderInv, NoCode, Codes
  <2>2. CASE t = Transfer(code[p], target[p], amount[p])
    BY <1>1, <1>2, <2>2 DEF Booked, Transfer
  <2>3. CASE t # Transfer(code[p], target[p], amount[p])
    <3>1. Booked(t) => Booked(t)'
      BY <1>1, <1>2, <2>1 DEF Booked
    <3>2. InHand(t) => InHand(t)'
      BY <1>1, <2>1, <2>3, LettingGo
    <3> QED
      BY <1>1, <2>1, <3>1, <3>2 DEF CodeInv, TraceInv
  <2> QED
    BY <2>2, <2>3
<1> QED
  BY <1>1, <1>3, <1>4, <1>5, <1>6, LettingGo DEF CodeInv, TraceInv

LEMMA DropKeepsCodes ==
  ASSUME CodeInv, CallInv, NEW p \in Callers, Drops(p)
  PROVE  CodeInv' /\ BookedCodes' = BookedCodes
<1>1. LetsGo(p) /\ UNCHANGED <<payouts, paid>> /\ dropped' = dropped \cup {code[p]}
  BY DEF Drops
<1>2. BookedCodes' = BookedCodes
  BY <1>1 DEF BookedCodes
<1>3. HandInv'
  <2>1. \A q \in Callers : code'[q] # NoCode => code'[q] \notin dropped' \cup BookedCodes'
    BY <1>1, <1>2, LettingGo DEF CodeInv, HandInv
  <2> QED
    BY <1>1, <2>1, LettingGo DEF CodeInv, HandInv
<1>4. BookInv'
  BY <1>1, <1>2, LettingGo DEF CodeInv, BookInv
<1>5. ASSUME NEW t \in transfers' PROVE Booked(t)' \/ InHand(t)' \/ t.code \in dropped'
  <2>1. t \in transfers
    BY <1>1, LettingGo
  <2>2. CASE t = Transfer(code[p], target[p], amount[p])
    BY <1>1, <2>2 DEF Transfer
  <2>3. CASE t # Transfer(code[p], target[p], amount[p])
    <3>1. Booked(t) => Booked(t)'
      BY <1>1 DEF Booked
    <3>2. InHand(t) => InHand(t)'
      BY <1>1, <2>1, <2>3, LettingGo
    <3> QED
      BY <1>1, <2>1, <3>1, <3>2 DEF CodeInv, TraceInv
  <2> QED
    BY <2>2, <2>3
<1> QED
  BY <1>1, <1>2, <1>3, <1>4, <1>5, LettingGo DEF CodeInv, TraceInv

LEMMA StillKeepsCodes ==
  ASSUME CodeInv, HandsKept({}), UNCHANGED <<transfers, issued, payouts, paid, dropped>>,
         confirmed' = confirmed \/ \E c \in BookedCodes : confirmed' = confirmed \cup {c}
  PROVE  CodeInv' /\ BookedCodes' = BookedCodes
<1>1. BookedCodes' = BookedCodes /\ Ordered' = Ordered
  BY DEF BookedCodes, Ordered
<1>2. \A q \in Callers :
        /\ code'[q] = code[q]
        /\ code[q] # NoCode => target'[q] = target[q] /\ amount'[q] = amount[q]
  BY DEF HandsKept
<1>3. OrderInv' /\ HandInv' /\ BookInv'
  BY <1>1, <1>2 DEF CodeInv, OrderInv, HandInv, BookInv
<1>4. ASSUME NEW t \in transfers' PROVE Booked(t)' \/ InHand(t)' \/ t.code \in dropped'
  <2>1. t.code # NoCode
    BY TargetsKnown DEF CodeInv, OrderInv, NoCode, Codes
  <2>2. (Booked(t) => Booked(t)') /\ (InHand(t) => InHand(t)')
    BY <1>2, <2>1 DEF Booked, InHand
  <2> QED
    BY <2>2 DEF CodeInv, TraceInv
<1> QED
  BY <1>1, <1>3, <1>4 DEF CodeInv, TraceInv

LEMMA CodeKept == CodeInv /\ CallInv /\ RefundInv /\ CodeStep => CodeInv'
<1> SUFFICES ASSUME CodeInv, CallInv, RefundInv, CodeStep PROVE CodeInv'
  OBVIOUS
<1>1. CASE Still
  BY <1>1, StillKeepsCodes DEF Still
<1>2. ASSUME NEW c \in Codes, Confirms(c) PROVE CodeInv'
  BY <1>2, StillKeepsCodes DEF Confirms
<1> QED
  BY <1>1, <1>2, InHandKeepsCodes, InVainKeepsCodes, PayoutKeepsCodes, RefundKeepsCodes,
     DropKeepsCodes
  DEF CodeStep

(***************************************************************************)
(* What is paid out is due.                                                *)
(***************************************************************************)
(* Unless two callers have decided on an amount at a time, whoever has is  *)
(* alone, and the amount is still there.                                   *)
PaceInv(r) ==
  r \notin overlapped =>
    /\ due[r] # Null => due[r] >= 0
    /\ \A p, q \in InFlight(r) : p = q
    /\ \A p \in InFlight(r) : due[r] # Null => amount[p] <= due[r]

Flying == {"transfer", "record"}

LEMMA PaceStart == Init => \A r \in Records : PaceInv(r)
<1> SUFFICES ASSUME Init, NEW r \in Records PROVE PaceInv(r)
  OBVIOUS
<1>1. InFlight(r) = {}
  BY DEF Init, InFlight
<1>2. due[r] # Null => due[r] = 0
  BY DEF Init
<1> QED
  BY <1>1, <1>2 DEF PaceInv

LEMMA PaceFrame ==
  ASSUME NEW r \in Records, PaceInv(r), UNCHANGED due[r], overlapped \subseteq overlapped',
         InFlight(r)' \subseteq InFlight(r), \A p \in InFlight(r)' : amount'[p] = amount[p]
  PROVE  PaceInv(r)'
  BY DEF PaceInv

(* A caller that decides on nothing joins nobody.                          *)
LEMMA SetsFlight ==
  ASSUME CallInv, NEW r \in Records, NEW p \in Callers,
         NEW a, NEW s, NEW t, NEW n, NEW c, Sets(p, a, s, t, n, c)
  PROVE  /\ t = r /\ s \in Flying => InFlight(r)' = InFlight(r) \cup {p}
         /\ ~(t = r /\ s \in Flying) => InFlight(r)' = InFlight(r) \ {p}
         /\ p \in InFlight(r) <=> target[p] = r /\ pc[p] \in Flying
         /\ InFlight(r) \subseteq Callers
         /\ amount'[p] = n
         /\ \A q \in Callers : q # p => amount'[q] = amount[q]
  BY DEF CallInv, CallType, Sets, InFlight, Flying

LEMMA JoinsNobody ==
  ASSUME CallInv, NEW r \in Records, PaceInv(r), UNCHANGED due[r],
  overlapped \subseteq overlapped',
         NEW p \in Callers, NEW a, NEW s, NEW t, NEW n, NEW c, Sets(p, a, s, t, n, c),
         t = r /\ s \in Flying => target[p] = r /\ pc[p] \in Flying /\ n = amount[p]
  PROVE  PaceInv(r)'
<1>1. InFlight(r)' \subseteq InFlight(r)
  BY SetsFlight
<1>2. \A q \in InFlight(r)' : amount'[q] = amount[q]
  BY SetsFlight
<1> QED
  BY <1>1, <1>2, PaceFrame

LEMMA DecideKeepsPace ==
  ASSUME CallInv, NEW r \in Records, PaceInv(r), NEW p \in Payers, DecidePayout(p)
  PROVE  PaceInv(r)'
<1>1. /\ Sets(p, "ask", "transfer", target[p], amount'[p], NoCode)
      /\ pc[p] = "read" /\ target[p] \in Records /\ p \in Callers
  BY PayerSets, CallersKnown
<1>2. UNCHANGED due /\ overlapped \subseteq overlapped'
  BY DEF DecidePayout, dbVars
<1>3. CASE target[p] # r
  BY <1>1, <1>2, <1>3, JoinsNobody
<1>4. CASE target[p] = r
  <2>1. /\ InFlight(r)' = InFlight(r) \cup {p}
        /\ overlapped' = IF InFlight(r) = {} THEN overlapped ELSE overlapped \cup {r}
    BY <1>1, <1>4, SetsFlight DEF DecidePayout, Flying
  <2>2. due[r] # Null => amount'[p] <= due[r]
    <3>1. due[r] # Null => due[r] \in Int /\ due[r] >= due[r]
      BY DEF CallInv, CallType
    <3>2. \/ Sufficient(r, amount[p]) /\ UNCHANGED amount
          \/ amount' = [amount EXCEPT ![p] = due[r]]
      BY <1>4 DEF DecidePayout
    <3>3. amount[p] \in Int /\ amount \in [Callers -> Int]
      BY <1>1 DEF CallInv, CallType
    <3> QED
      BY <1>1, <3>1, <3>2, <3>3 DEF Sufficient
  <2> QED
    BY <1>2, <1>4, <2>1, <2>2 DEF PaceInv
<1> QED
  BY <1>3, <1>4

LEMMA RecordKeepsPace ==
  ASSUME CallInv, NEW r \in Records, PaceInv(r), NEW p \in Payers, RecordPayout(p)
  PROVE  PaceInv(r)'
<1>1. /\ Sets(p, "out", Rest(p), Nobody, 0, NoCode) /\ p \in Callers /\ Rest(p) \notin Flying
      /\ pc[p] = "record" /\ target[p] \in Records /\ amount[p] \in Int /\ UNCHANGED overlapped
  BY PayerSets, CallersKnown DEF RecordPayout, Rest, Flying, CallInv, CallType, CallOK, envVars
<1>2. due' = IF due[target[p]] = Null THEN due
             ELSE [due EXCEPT ![target[p]] = due[target[p]] - amount[p]]
  BY DEF RecordPayout
<1>3. due \in [Records -> Int \cup {Null}]
  BY DEF CallInv, CallType
<1>4. CASE target[p] # r \/ due[r] = Null
  <2>1. UNCHANGED due[r]
    BY <1>1, <1>2, <1>3, <1>4
  <2> QED
    BY <1>1, <2>1, JoinsNobody
<1>5. CASE target[p] = r /\ due[r] # Null
  <2>1. due'[r] = due[r] - amount[p] /\ due[r] \in Int
    BY <1>1, <1>2, <1>3, <1>5
  <2>2. InFlight(r)' = InFlight(r) \ {p} /\ p \in InFlight(r)
    BY <1>1, <1>5, SetsFlight DEF Flying
  <2> QED
    BY <1>1, <1>5, <2>1, <2>2 DEF PaceInv
<1> QED
  BY <1>4, <1>5

LEMMA TransferKeepsPace ==
  ASSUME CallInv, NEW r \in Records, PaceInv(r), NEW p \in Callers,
         TransferStep(p) \/ CallFault(p) \/ RecordFault(p) \/ Crash(p)
  PROVE  PaceInv(r)'
<1>1. UNCHANGED <<due, overlapped>>
  BY DEF TransferStep, CallBlocked, CallStep, TransferAccepted, CallSucceeds, CallFails, CallFault,
         RecordFault, Crash, dbVars, envVars
<1>2. CASE CallStep(p)
  <2>1. InFlight(r)' = InFlight(r) /\ UNCHANGED amount
    BY <1>2, TransferSets DEF InFlight
  <2> QED
    BY <1>1, <2>1, PaceFrame
<1>3. CASE TransferAccepted(p)
  <2>1. /\ pc[p] = "transfer"
        /\ Sets(p, "clear", "transfer", target[p], amount[p], NextCode(target[p]))
    BY <1>3, TransferSets
  <2> QED
    BY <1>1, <2>1, JoinsNobody DEF Flying
<1>4. CASE CallSucceeds(p)
  <2>1. /\ pc[p] = "transfer"
        /\ Sets(p, "out", "record", target[p], amount[p], code[p])
    BY <1>4, TransferSets
  <2> QED
    BY <1>1, <2>1, JoinsNobody DEF Flying
<1>5. CASE CallBlocked(p) \/ CallFails(p) \/ CallFault(p) \/ RecordFault(p) \/ Crash(p)
  <2>1. Sets(p, "out", Rest(p), Nobody, 0, NoCode) /\ Rest(p) \notin Flying
    BY <1>5, TransferSets DEF Rest, Flying
  <2> QED
    BY <1>1, <2>1, JoinsNobody
<1> QED
  BY <1>2, <1>3, <1>4, <1>5 DEF TransferStep

LEMMA PaceKept ==
  CallInv /\ (\A r \in Records : PaceInv(r)) /\ [Next]_vars => \A r \in Records : PaceInv(r)'
<1> SUFFICES ASSUME CallInv, NEW r \in Records, PaceInv(r), [Next]_vars PROVE PaceInv(r)'
  OBVIOUS
<1>1. ASSUME UNCHANGED <<due, overlapped, pc, target, amount>> PROVE PaceInv(r)'
  <2>1. InFlight(r)' = InFlight(r)
    BY <1>1 DEF InFlight
  <2> QED
    BY <1>1, <2>1, PaceFrame
<1>2. ASSUME NEW x \in Records, Earn(x) PROVE PaceInv(r)'
  <2>1. /\ due' = [due EXCEPT ![x] = due[x] + 1] /\ due[x] \in Int
        /\ UNCHANGED <<overlapped, pc, target, amount>>
    BY <1>2 DEF Earn, callVars, CallInv, CallType
  <2>2. InFlight(r)' = InFlight(r) /\ \A p \in InFlight(r) : amount[p] \in Int
    BY <2>1 DEF InFlight, CallInv, CallType
  <2>3. CASE x = r
    <3>1. due'[r] = due[r] + 1 /\ due[r] # Null
      BY <1>2, <2>1, <2>3 DEF CallInv, CallType, Earn
    <3> QED
      BY <2>1, <2>2, <2>3, <3>1 DEF PaceInv
  <2>4. CASE x # r
    <3>1. UNCHANGED due[r]
      BY <2>1, <2>4 DEF CallInv, CallType
    <3> QED
      BY <2>1, <2>2, <3>1, PaceFrame
  <2> QED
    BY <2>3, <2>4
<1>3. ASSUME NEW p \in Payers, RefusePayout(p) PROVE PaceInv(r)'
  <2>1. /\ Sets(p, "out", Rest(p), Nobody, 0, NoCode) /\ Rest(p) \notin Flying
        /\ UNCHANGED <<due, overlapped>> /\ p \in Callers
    BY <1>3, PayerSets, CallersKnown DEF RefusePayout, Rest, Flying, dbVars, envVars
  <2> QED
    BY <2>1, JoinsNobody
<1>4. ASSUME NEW p \in Payers, NEW x \in Records, TakePayout(p, x) PROVE PaceInv(r)'
  <2>1. Sets(p, "out", "read", x, amount[p], NoCode) /\ UNCHANGED <<due, overlapped>> /\ p \in Callers
    BY <1>4, PayerSets, CallersKnown DEF TakePayout, dbVars, envVars
  <2> QED
    BY <2>1, JoinsNobody DEF Flying
<1>5. ASSUME NEW p \in Payers, NEW x \in Records, NEW n \in Amounts, RequestPayout(p, x, n)
      PROVE  PaceInv(r)'
  <2>1. Sets(p, "out", "read", x, n, NoCode) /\ UNCHANGED <<due, overlapped>> /\ p \in Callers
    BY <1>5, PayerSets, CallersKnown DEF RequestPayout, dbVars, envVars
  <2> QED
    BY <2>1, JoinsNobody DEF Flying
<1>6. CASE RefundStep
  <2>1. UNCHANGED <<due, overlapped>> /\ RefundCron \in Callers
    BY <1>6, CallersKnown DEF RefundStep, StartRefunds, NextRefund, RecordRefund, dbVars, envVars
  <2>2. CASE StartRefunds
    BY <1>1, <2>1, <2>2 DEF StartRefunds, callVars
  <2>3. ASSUME NEW s \in Refunds, NextRefund(s) PROVE PaceInv(r)'
    <3>1. Sets(RefundCron, "ask", "transfer", s, RefundAmount[s], NoCode) /\ s # r
      BY <2>3, RefundSets, TargetsKnown
    <3> QED
      BY <2>1, <3>1, JoinsNobody
  <2>4. CASE RecordRefund
    <3>1. Sets(RefundCron, "out", "idle", Nobody, 0, NoCode)
      BY <2>4, RefundSets
    <3> QED
      BY <2>1, <3>1, JoinsNobody DEF Flying
  <2> QED
    BY <1>6, <2>2, <2>3, <2>4 DEF RefundStep
<1>7. ASSUME NEW x \in Records, AddPayee(x) \/ QueuePayout(x) PROVE PaceInv(r)'
  BY <1>1, <1>7 DEF AddPayee, QueuePayout, dbVars, callVars, envVars
<1>8. ASSUME NEW s \in Refunds, AddBankDetails(s) \/ VerifyRefund(s) PROVE PaceInv(r)'
  BY <1>1, <1>8 DEF AddBankDetails, VerifyRefund, callVars, envVars
<1>9. ASSUME NEW row \in payouts, VerifyPayout(row) PROVE PaceInv(r)'
  BY <1>1, <1>9 DEF VerifyPayout, callVars, envVars
<1>10. CASE Expire \/ UNCHANGED vars
  BY <1>1, <1>10 DEF Expire, vars, dbVars, callVars, envVars
<1>11. Workers \subseteq Payers /\ Admins \subseteq Payers
  BY DEF Payers
<1> QED
  BY <1>2, <1>3, <1>4, <1>5, <1>6, <1>7, <1>8, <1>9, <1>10, <1>11, DecideKeepsPace,
  RecordKeepsPace,
     TransferKeepsPace
  DEF Next, PayerStep

(***************************************************************************)
(* The rest of the types.                                                  *)
(***************************************************************************)
RestType ==
  /\ payee \subseteq Records
  /\ queue \in [Records -> Nat]
  /\ earned \in [Records -> Nat]
  /\ overlapped \subseteq Records
  /\ faults \in Nat

LEMMA RestKept == CallInv /\ RestType /\ [Next]_vars => RestType'
<1> SUFFICES ASSUME CallInv, RestType, [Next]_vars PROVE RestType'
  OBVIOUS
<1> USE DEF RestType
<1>1. ASSUME NEW r \in Records, Earn(r) \/ AddPayee(r) PROVE RestType'
  BY <1>1 DEF Earn, AddPayee, queueVars, envVars
<1>2. ASSUME NEW r \in Records, QueuePayout(r) PROVE RestType'
  BY <1>2 DEF QueuePayout, dbVars, envVars
<1>3. ASSUME NEW s \in Refunds, AddBankDetails(s) \/ VerifyRefund(s) PROVE RestType'
  BY <1>3 DEF AddBankDetails, VerifyRefund, queueVars, envVars
<1>4. ASSUME NEW w \in Workers, NEW r \in Records, TakePayout(w, r) PROVE RestType'
  <2>1. queue[r] > 0 /\ queue[r] \in Nat /\ queue' = [queue EXCEPT ![r] = queue[r] - 1]
    BY <1>4 DEF TakePayout
  <2>2. queue' \in [Records -> Nat]
    BY <2>1
  <2> QED
    BY <1>4, <2>2 DEF TakePayout, dbVars, envVars
<1>5. ASSUME NEW p \in Payers, RefusePayout(p) \/ RecordPayout(p) PROVE RestType'
  BY <1>5 DEF RefusePayout, RecordPayout, dbVars, queueVars, envVars
<1>6. ASSUME NEW p \in Payers, DecidePayout(p) PROVE RestType'
  BY <1>6, PayerSets DEF DecidePayout, dbVars, queueVars
<1>7. ASSUME NEW a \in Admins, NEW r \in Records, NEW n \in Amounts, RequestPayout(a, r, n)
      PROVE  RestType'
  BY <1>7 DEF RequestPayout, dbVars, queueVars, envVars
<1>8. CASE RefundStep
  BY <1>8 DEF RefundStep, StartRefunds, NextRefund, RecordRefund, dbVars, queueVars, envVars
<1>9. ASSUME NEW p \in Callers, TransferStep(p) PROVE RestType'
  BY <1>9 DEF TransferStep, CallBlocked, CallStep, TransferAccepted, CallSucceeds, CallFails,
              dbVars,
              queueVars, envVars
<1>10. ASSUME NEW p \in Callers, CallFault(p) \/ RecordFault(p) PROVE RestType'
  BY <1>10 DEF CallFault, RecordFault, Fault, dbVars, envVars
<1>11. ASSUME NEW p \in Callers, Crash(p) PROVE RestType'
  <2>1. UNCHANGED <<payee, earned, overlapped>> /\ faults' = faults + 1
    BY <1>11 DEF Crash, Fault, dbVars
  <2>2. UNCHANGED queue \/ queue' = [queue EXCEPT ![target[p]] = queue[target[p]] + 1]
    BY <1>11 DEF Crash
  <2>3. queue' \in [Records -> Nat]
    BY <2>2
  <2> QED
    BY <2>1, <2>3
<1>12. ASSUME NEW row \in payouts, VerifyPayout(row) PROVE RestType'
  BY <1>12 DEF VerifyPayout, queueVars, envVars
<1>13. CASE Expire \/ UNCHANGED vars
  BY <1>13 DEF Expire, vars, dbVars, queueVars, envVars
<1> QED
  BY <1>1, <1>2, <1>3, <1>4, <1>5, <1>6, <1>7, <1>8, <1>9, <1>10, <1>11, <1>12, <1>13
  DEF Next, PayerStep

(***************************************************************************)
(* The balance of the books.                                               *)
(***************************************************************************)
Rows(r) == {row \in payouts : row.record = r}
AmountIn(r) == [row \in Rows(r) |-> row.amount]

BalanceInv ==
  /\ IsFiniteSet(payouts)
  /\ earned \in [Records -> Nat]
  /\ BooksBalance

(* All that can happen to what is due: income, or a payout with its debit. *)
Earns(r) ==
  /\ due[r] # Null
  /\ earned' = [earned EXCEPT ![r] = @ + 1]
  /\ due' = [due EXCEPT ![r] = @ + 1]
  /\ UNCHANGED payouts

Debits(c, r, n) ==
  /\ payouts' = payouts \cup {[code |-> c, record |-> r, amount |-> n]}
  /\ due' = IF due[r] = Null THEN due ELSE [due EXCEPT ![r] = @ - n]
  /\ UNCHANGED earned

BalanceStep ==
  \/ \E r \in Records : Earns(r)
  \/ \E c \in Codes \ BookedCodes, r \in Records, n \in Int : Debits(c, r, n)
  \/ UNCHANGED <<due, earned, payouts>>

LEMMA NextMovesBalance == CallInv /\ CodeInv /\ [Next]_vars => BalanceStep
<1> SUFFICES ASSUME CallInv, CodeInv, [Next]_vars PROVE BalanceStep
  OBVIOUS
<1>1. ASSUME NEW r \in Records, Earn(r) PROVE BalanceStep
  BY <1>1 DEF Earn, bookVars, Earns, BalanceStep
<1>2. ASSUME NEW p \in Payers, RecordPayout(p) PROVE BalanceStep
  <2>1. p \in Callers /\ CallType /\ CallOK(p)
    BY CallersKnown DEF CallInv
  <2>2. code[p] # NoCode /\ target[p] \in Records /\ amount[p] \in Int /\ code[p] \in Codes
    BY <2>1, <1>2 DEF RecordPayout, CallOK, CallType
  <2>3. code[p] \notin BookedCodes
    BY <2>1, <2>2 DEF CodeInv, HandInv
  <2>4. Debits(code[p], target[p], amount[p])
    BY <1>2 DEF RecordPayout, Debits, envVars
  <2> QED
    BY <2>2, <2>3, <2>4 DEF BalanceStep
<1>3. ASSUME NEW r \in Records, AddPayee(r) \/ QueuePayout(r) PROVE BalanceStep
  BY <1>3 DEF AddPayee, QueuePayout, dbVars, bookVars, envVars, BalanceStep
<1>4. ASSUME NEW s \in Refunds, AddBankDetails(s) \/ VerifyRefund(s) PROVE BalanceStep
  BY <1>4 DEF AddBankDetails, VerifyRefund, bookVars, envVars, BalanceStep
<1>5. ASSUME NEW p \in Payers, NEW r \in Records,
             TakePayout(p, r) \/ \E n \in Amounts : RequestPayout(p, r, n)
      PROVE  BalanceStep
  BY <1>5 DEF TakePayout, RequestPayout, dbVars, bookVars, envVars, BalanceStep
<1>6. ASSUME NEW p \in Payers, RefusePayout(p) \/ DecidePayout(p) PROVE BalanceStep
  BY <1>6 DEF RefusePayout, DecidePayout, dbVars, bookVars, envVars, BalanceStep
<1>7. CASE RefundStep
  BY <1>7
  DEF RefundStep, StartRefunds, NextRefund, RecordRefund, dbVars, bookVars, envVars, BalanceStep
<1>8. ASSUME NEW p \in Callers, TransferStep(p) \/ CallFault(p) \/ RecordFault(p) \/ Crash(p)
      PROVE  BalanceStep
  BY <1>8
  DEF TransferStep, CallBlocked, CallStep, TransferAccepted, CallSucceeds, CallFails, CallFault,
      RecordFault, Crash, dbVars, bookVars, envVars, BalanceStep
<1>9. ASSUME NEW row \in payouts, VerifyPayout(row) PROVE BalanceStep
  BY <1>9 DEF VerifyPayout, envVars, BalanceStep
<1>10. CASE Expire \/ UNCHANGED vars
  BY <1>10 DEF Expire, vars, dbVars, bookVars, envVars, BalanceStep
<1>11. Workers \subseteq Payers /\ Admins \subseteq Payers
  BY DEF Payers
<1> QED
  BY <1>1, <1>2, <1>3, <1>4, <1>5, <1>6, <1>7, <1>8, <1>9, <1>10, <1>11 DEF Next, PayerStep

LEMMA BalanceStart == Init => BalanceInv
<1> SUFFICES ASSUME Init PROVE BalanceInv
  OBVIOUS
<1>1. payouts = {} /\ IsFiniteSet(payouts) /\ earned \in [Records -> Nat]
  BY FS_EmptySet DEF Init
<1>2. ASSUME NEW r \in Records, due[r] # Null PROVE due[r] = earned[r] - PaidOut(r)
  <2>1. due[r] = 0 /\ earned[r] = 0
    BY <1>2 DEF Init
  <2>2. PaidOut(r) = SumFunctionOnSet(AmountIn(r), {})
    BY <1>1 DEF PaidOut, SumFunction, AmountIn, Rows
  <2>3. PaidOut(r) = 0
    BY <2>2, SumEmpty
  <2> QED
    BY <2>1, <2>3
<1> QED
  BY <1>1, <1>2 DEF BalanceInv, BooksBalance

LEMMA PaidOutSums ==
  ASSUME NEW r, payouts \subseteq PayoutRows, IsFiniteSet(payouts)
  PROVE  /\ PaidOut(r) = SumFunctionOnSet(AmountIn(r), Rows(r))
         /\ IsFiniteSet(Rows(r))
         /\ \A row \in Rows(r) : AmountIn(r)[row] \in Int
         /\ PaidOut(r) \in Int
<1>1. PaidOut(r) = SumFunctionOnSet(AmountIn(r), Rows(r))
  BY DEF PaidOut, SumFunction, AmountIn, Rows
<1>2. IsFiniteSet(Rows(r))
  BY FS_Subset DEF Rows
<1>3. \A row \in Rows(r) : AmountIn(r)[row] \in Int
  BY DEF AmountIn, Rows, PayoutRows
<1> QED
  BY <1>1, <1>2, <1>3, SumInt

LEMMA BalanceKept == CallInv /\ BookInv /\ BalanceInv /\ BalanceStep => BalanceInv'
<1> SUFFICES ASSUME CallInv, BookInv, BalanceInv, BalanceStep PROVE BalanceInv'
  OBVIOUS
<1>1. /\ due \in [Records -> Int \cup {Null}] /\ earned \in [Records -> Nat]
      /\ IsFiniteSet(payouts) /\ payouts \subseteq PayoutRows
  BY DEF CallInv, CallType, BookInv, BalanceInv
<1>2. ASSUME NEW r \in Records, Earns(r) PROVE BalanceInv'
  <2>1. ASSUME NEW q \in Records, due'[q] # Null PROVE due'[q] = earned'[q] - PaidOut(q)'
    <3>1. PaidOut(q)' = PaidOut(q) /\ PaidOut(q) \in Int
      BY <1>1, <1>2, PaidOutSums DEF Earns, PaidOut
    <3>2. due[q] # Null => due[q] = earned[q] - PaidOut(q)
      BY DEF BalanceInv, BooksBalance
    <3> QED
      BY <1>1, <1>2, <2>1, <3>1, <3>2 DEF Earns
  <2>2. earned' \in [Records -> Nat] /\ IsFiniteSet(payouts')
    BY <1>1, <1>2 DEF Earns
  <2> QED
    BY <2>1, <2>2 DEF BalanceInv, BooksBalance
<1>3. ASSUME NEW c \in Codes \ BookedCodes, NEW r \in Records, NEW n \in Int, Debits(c, r, n)
      PROVE  BalanceInv'
  <2> DEFINE new == [code |-> c, record |-> r, amount |-> n]
  <2>1. /\ new \notin payouts /\ payouts' = payouts \cup {new} /\ UNCHANGED earned
        /\ new.record = r /\ new.amount = n
    BY <1>3 DEF Debits, BookedCodes
  <2> HIDE DEF new
  <2>2. ASSUME NEW q \in Records, due'[q] # Null PROVE due'[q] = earned'[q] - PaidOut(q)'
    <3>1. due[q] # Null => due[q] = earned[q] - PaidOut(q)
      BY DEF BalanceInv, BooksBalance
    <3>2. CASE q # r
      <4>1. Rows(q)' = Rows(q)
        BY <2>1, <3>2 DEF Rows
      <4>2. PaidOut(q)' = PaidOut(q)
        BY <4>1 DEF PaidOut, Rows
      <4>3. due'[q] = due[q]
        BY <1>1, <1>3, <3>2 DEF Debits
      <4> QED
        BY <2>1, <2>2, <3>1, <4>2, <4>3
    <3>3. CASE q = r
      <4>1. Rows(r)' = Rows(r) \cup {new} /\ new \notin Rows(r)
        BY <2>1 DEF Rows
      <4>2. PaidOut(r)' = SumFunctionOnSet(AmountIn(r)', Rows(r)')
        BY DEF PaidOut, SumFunction, AmountIn, Rows
      <4>3. /\ \A row \in Rows(r) : AmountIn(r)'[row] = AmountIn(r)[row]
            /\ AmountIn(r)'[new] = n
        BY <2>1, <4>1 DEF AmountIn
      <4>4. PaidOut(r)' = PaidOut(r) + n
        BY <1>1, <4>1, <4>2, <4>3, PaidOutSums, SumGrow
      <4>5. PaidOut(r) \in Int
        BY <1>1, PaidOutSums
      <4>6. due[r] # Null /\ due'[r] = due[r] - n
        BY <1>1, <1>3, <2>2, <3>3 DEF Debits
      <4> QED
        BY <1>1, <2>1, <3>1, <3>3, <4>4, <4>5, <4>6
    <3> QED
      BY <3>2, <3>3
  <2>3. IsFiniteSet(payouts')
    BY <1>1, <2>1, FS_AddElement
  <2> QED
    BY <1>1, <2>1, <2>2, <2>3 DEF BalanceInv, BooksBalance
<1>4. CASE UNCHANGED <<due, earned, payouts>>
  BY <1>4 DEF BalanceInv, BooksBalance, PaidOut
<1> QED
  BY <1>2, <1>3, <1>4 DEF BalanceStep

(***************************************************************************)
(* How often money can go out twice.                                       *)
(***************************************************************************)
(* A fault drops at most the one code its caller had, or was about to get. *)
DropBound == IsFiniteSet(dropped) /\ Cardinality(dropped) <= faults

DropStep ==
  \/ UNCHANGED <<dropped, faults>>
  \/ faults' = faults + 1 /\ (UNCHANGED dropped \/ \E c \in Codes : dropped' = dropped \cup {c})

LEMMA NextDropsOne == CallInv /\ [Next]_vars => DropStep
<1> SUFFICES ASSUME CallInv, [Next]_vars PROVE DropStep
  OBVIOUS
<1> USE DEF DropStep
<1>1. ASSUME NEW r \in Records, Earn(r) \/ AddPayee(r) \/ QueuePayout(r) PROVE DropStep
  BY <1>1 DEF Earn, AddPayee, QueuePayout, envVars
<1>2. ASSUME NEW s \in Refunds, AddBankDetails(s) \/ VerifyRefund(s) PROVE DropStep
  BY <1>2 DEF AddBankDetails, VerifyRefund, envVars
<1>3. ASSUME NEW w \in Workers, NEW r \in Records, TakePayout(w, r) PROVE DropStep
  BY <1>3 DEF TakePayout, envVars
<1>4. ASSUME NEW a \in Admins, NEW r \in Records, NEW n \in Amounts, RequestPayout(a, r, n)
      PROVE  DropStep
  BY <1>4 DEF RequestPayout, envVars
<1>5. ASSUME NEW p \in Payers, PayerStep(p) PROVE DropStep
  BY <1>5 DEF PayerStep, RefusePayout, DecidePayout, RecordPayout, envVars
<1>6. CASE RefundStep
  BY <1>6 DEF RefundStep, StartRefunds, NextRefund, RecordRefund, envVars
<1>7. ASSUME NEW p \in Callers, TransferStep(p) PROVE DropStep
  BY <1>7 DEF TransferStep, CallBlocked, CallStep, TransferAccepted, CallSucceeds, CallFails,
              envVars
<1>8. ASSUME NEW p \in Callers, CallFault(p) PROVE DropStep
  <2>1. faults' = faults + 1
    BY <1>8 DEF CallFault, Fault
  <2>2. UNCHANGED dropped \/ (OrderTransfer(p) /\ dropped' = dropped \cup {NextCode(target[p])})
    BY <1>8 DEF CallFault
  <2>3. target[p] \in Targets
    BY <1>8 DEF CallFault, CallInv, CallType, CallOK
  <2>4. OrderTransfer(p) => NextCode(target[p]) \in Codes
    BY <2>3, BoundsAreNumbers DEF OrderTransfer, NextCode, Codes, CallInv, CallType
  <2> QED
    BY <2>1, <2>2, <2>4
<1>9. ASSUME NEW p \in Callers, RecordFault(p) PROVE DropStep
  <2>1. faults' = faults + 1 /\ dropped' = dropped \cup {code[p]} /\ pc[p] = "record"
    BY <1>9 DEF RecordFault, Fault
  <2>2. code[p] \in Codes
    BY <2>1 DEF CallInv, CallType, CallOK
  <2> QED
    BY <2>1, <2>2
<1>10. ASSUME NEW p \in Callers, Crash(p) PROVE DropStep
  <2>1. faults' = faults + 1 /\ dropped' = dropped \cup ({code[p]} \ {NoCode})
    BY <1>10 DEF Crash, Fault
  <2>2. CASE code[p] = NoCode
    BY <2>1, <2>2
  <2>3. CASE code[p] # NoCode
    <3>1. code[p] \in Codes
      BY <2>3 DEF CallInv, CallType
    <3> QED
      BY <2>1, <2>3, <3>1
  <2> QED
    BY <2>2, <2>3
<1>11. ASSUME NEW row \in payouts, VerifyPayout(row) PROVE DropStep
  BY <1>11 DEF VerifyPayout, envVars
<1>12. CASE Expire \/ UNCHANGED vars
  BY <1>12 DEF Expire, vars, envVars
<1> QED
  BY <1>1, <1>2, <1>3, <1>4, <1>5, <1>6, <1>7, <1>8, <1>9, <1>10, <1>11, <1>12 DEF Next

LEMMA DropBoundKept == DropBound /\ RestType /\ DropStep => DropBound'
<1> SUFFICES ASSUME DropBound, RestType, DropStep PROVE DropBound'
  OBVIOUS
<1> USE DEF DropBound
<1>1. faults \in Nat /\ Cardinality(dropped) \in Nat
  BY FS_CardinalityType DEF RestType
<1>2. CASE UNCHANGED dropped
  BY <1>1, <1>2 DEF DropStep
<1>3. ASSUME NEW c \in Codes, dropped' = dropped \cup {c}, faults' = faults + 1 PROVE DropBound'
  <2>1. /\ IsFiniteSet(dropped \cup {c})
        /\ Cardinality(dropped \cup {c}) \in {Cardinality(dropped), Cardinality(dropped) + 1}
    BY FS_AddElement
  <2> QED
    BY <1>1, <1>3, <2>1
<1> QED
  BY <1>2, <1>3 DEF DropStep

(***************************************************************************)
(* The theorems.                                                           *)
(***************************************************************************)
Inv ==
  /\ BreakerInv
  /\ CallInv
  /\ RefundInv
  /\ CodeInv
  /\ \A r \in Records : PaceInv(r)
  /\ RestType

LEMMA InvStart == Init => Inv
  BY BreakerStart, CallStart, RefundStart, CodeStart, PaceStart DEF Inv, RestType, Init

LEMMA InvKept == Inv /\ [Next]_vars => Inv'
<1> SUFFICES ASSUME Inv, [Next]_vars PROVE Inv'
  OBVIOUS
<1>1. CodeStep
  BY NextMovesCodes DEF Inv, CodeInv, BookInv
<1>2. BreakerInv' /\ CallInv' /\ RefundInv' /\ CodeInv' /\ RestType'
  BY <1>1, NextMovesBreaker, BreakerKept, CallKept, RefundKept, CodeKept, RestKept DEF Inv
<1>3. \A r \in Records : PaceInv(r)'
  BY PaceKept DEF Inv
<1> QED
  BY <1>2, <1>3 DEF Inv

LEMMA AlwaysInv == Spec => []Inv
  BY InvStart, InvKept, PTL DEF Spec

(* Every variable has its type, for any number of callers, records and     *)
(* refunds.                                                                *)
THEOREM TypeCorrect == Spec => []TypeOK
<1>1. Inv => TypeOK
  <2> SUFFICES ASSUME Inv PROVE TypeOK
    OBVIOUS
  <2>1. Ordered \subseteq Codes
    BY DEF Inv, CodeInv, OrderInv, Ordered
  <2>2. dropped \subseteq Codes /\ confirmed \subseteq Codes
    BY <2>1, BookedWereOrdered DEF Inv, CodeInv, BookInv
  <2> QED
    BY <2>2 DEF Inv, BreakerInv, CallInv, CallType, RefundInv, CodeInv, OrderInv, BookInv,
                RestType,
                TypeOK
<1> QED
  BY <1>1, AlwaysInv, PTL

(* However reads, writes, deletions and expiries of the counter overlap,   *)
(* transfers are never refused before Paystack has refused as many as the  *)
(* threshold.                                                              *)
THEOREM OpenedByFailuresHolds == Spec => []OpenedByFailures
<1>1. Inv => OpenedByFailures
  BY DEF Inv, BreakerInv, CountInv, OpenedByFailures
<1> QED
  BY <1>1, AlwaysInv, PTL

(* Every transfer Paystack has accepted is in the books with its target    *)
(* and amount, in the hands of its caller, or was dropped by a fault; and  *)
(* nothing else is in the books.                                           *)
THEOREM EveryTransferAccountedHolds == Spec => []EveryTransferAccounted
<1>1. Inv => EveryTransferAccounted
  BY DEF Inv, CodeInv, BookInv, TraceInv, EveryTransferAccounted, Transfer
<1> QED
  BY <1>1, AlwaysInv, PTL

(* A transfer for a refund that no fault has dropped has the code that the *)
(* refund has, or is about to get from the run.                            *)
RefundCode(s) == IF paid[s] # NoCode THEN paid[s] ELSE code[RefundCron]

LEMMA KeptCodeOfRefund ==
  ASSUME Inv, NEW s \in Refunds, NEW t \in transfers, t.to = s, t.code \notin dropped
  PROVE  t.code = RefundCode(s)
<1>1. Booked(t) \/ InHand(t)
  BY DEF Inv, CodeInv, TraceInv
<1>2. t.code # NoCode
  BY TargetsKnown DEF Inv, CodeInv, OrderInv, NoCode, Codes
<1>3. CASE Booked(t)
  <2>1. \A row \in payouts : row.record # s
    BY TargetsKnown DEF Inv, CodeInv, BookInv, PayoutRows
  <2> QED
    BY <1>2, <1>3, <2>1 DEF Booked, RefundCode
<1>4. CASE InHand(t)
  <2>1. PICK p \in Callers : code[p] = t.code /\ target[p] = s
    BY <1>4 DEF InHand
  <2>2. s # Nobody /\ s \notin Records
    BY TargetsKnown DEF Targets
  <2>3. p = RefundCron
    BY <2>1, <2>2, CallersKnown DEF Inv, CallInv, CallOK
  <2> QED
    BY <1>2, <2>1, <2>2, <2>3 DEF Inv, RefundInv, RefundCode
<1> QED
  BY <1>1, <1>3, <1>4

(* Money is transferred for a refund a second time only when a fault       *)
(* struck between the transfer and its record.                             *)
THEOREM RefundedOnceHolds == Spec => []RefundedOnceUnlessDropped
<1>1. Inv => RefundedOnceUnlessDropped
  <2> SUFFICES ASSUME Inv, NEW s \in Refunds, NEW t \in transfers, NEW u \in transfers,
                      t.to = s, u.to = s, {t.code, u.code} \cap dropped = {}
               PROVE  t = u
    BY DEF RefundedOnceUnlessDropped
  <2>1. t.code = RefundCode(s) /\ u.code = RefundCode(s)
    BY KeptCodeOfRefund
  <2> QED
    BY <2>1 DEF Inv, CodeInv, OrderInv
<1> QED
  BY <1>1, AlwaysInv, PTL

(* Money goes out for refunds at most as often as there are refunds and    *)
(* faults: each fault costs one transfer, whichever refund it hits.        *)
TransfersFor(S) == {t \in transfers : t.to \in S}

RefundTransfersBounded ==
  \A S \in SUBSET Refunds :
    IsFiniteSet(S) => Cardinality(TransfersFor(S)) <= Cardinality(S) + faults

THEOREM RefundTransfersBoundedHolds == Spec => []RefundTransfersBounded
<1>1. Init => DropBound
  BY FS_EmptySet DEF Init, DropBound
<1>2. Inv /\ DropBound /\ [Next]_vars => DropBound'
  BY NextDropsOne, DropBoundKept DEF Inv
<1>3. Inv /\ DropBound => RefundTransfersBounded
  <2> SUFFICES ASSUME Inv, DropBound, NEW S \in SUBSET Refunds, IsFiniteSet(S)
               PROVE  Cardinality(TransfersFor(S)) <= Cardinality(S) + faults
    BY DEF RefundTransfersBounded
  <2> DEFINE kept == {RefundCode(s) : s \in S}
             T == dropped \cup kept
             f == [t \in TransfersFor(S) |-> t.code]
  <2>1. IsFiniteSet(kept) /\ Cardinality(kept) <= Cardinality(S)
    <3> DEFINE g == [s \in S |-> RefundCode(s)]
    <3>1. kept = {g[s] : s \in S}
      OBVIOUS
    <3> HIDE DEF g, kept
    <3> QED
      BY <3>1, ImageFinite
  <2>2. IsFiniteSet(dropped) /\ Cardinality(dropped) <= faults
    BY DEF DropBound
  <2>3. /\ faults \in Nat /\ Cardinality(dropped) \in Nat
        /\ Cardinality(kept) \in Nat /\ Cardinality(S) \in Nat
        /\ Cardinality(dropped \cap kept) \in Nat
    <3>1. IsFiniteSet(dropped \cap kept)
      BY <2>2, FS_Subset
    <3> QED
      BY <2>1, <2>2, <3>1, FS_CardinalityType DEF Inv, RestType
  <2>4. IsFiniteSet(T) /\ Cardinality(T) <= Cardinality(S) + faults
    <3>1. /\ IsFiniteSet(T)
          /\ Cardinality(T) = Cardinality(dropped) + Cardinality(kept) - Cardinality(dropped \cap kept)
      BY <2>1, <2>2, FS_Union
    <3> QED
      BY <2>1, <2>2, <2>3, <3>1
  <2>5. f \in Injection(TransfersFor(S), T)
    <3>1. \A t \in TransfersFor(S) : t.code \in T
      BY KeptCodeOfRefund DEF TransfersFor
    <3>2. \A t, u \in TransfersFor(S) : t.code = u.code => t = u
      BY DEF TransfersFor, Inv, CodeInv, OrderInv
    <3>3. f \in [TransfersFor(S) -> T]
      BY <3>1
    <3>4. \A t, u \in TransfersFor(S) : f[t] = f[u] => t = u
      BY <3>2
    <3> HIDE DEF f, T
    <3> QED
      BY <3>3, <3>4, Fun_IsInj
  <2>6. IsFiniteSet(TransfersFor(S)) /\ Cardinality(TransfersFor(S)) <= Cardinality(T)
    <3> HIDE DEF f, T
    <3> QED
      BY <2>4, <2>5, FS_Injection
  <2>7. Cardinality(TransfersFor(S)) \in Nat /\ Cardinality(T) \in Nat
    BY <2>4, <2>6, FS_CardinalityType
  <2> QED
    BY <2>3, <2>4, <2>6, <2>7
<1> QED
  BY <1>1, <1>2, <1>3, AlwaysInv, PTL DEF Spec

(* More than was due is paid out of a record only when two callers had     *)
(* decided on their amounts before either was debited.                     *)
THEOREM OverpaidOnlyByOverlapHolds == Spec => []OverpaidOnlyByOverlap
<1>1. Inv => OverpaidOnlyByOverlap
  BY DEF Inv, PaceInv, OverpaidOnlyByOverlap
<1> QED
  BY <1>1, AlwaysInv, PTL

(* What is due is what came in less what the payouts say, whatever         *)
(* transfers fail, repeat or overlap, and however many payouts there are.  *)
THEOREM BooksBalanceHolds == Spec => []BooksBalance
<1>1. Inv /\ BalanceInv /\ [Next]_vars => BalanceInv'
  BY NextMovesBalance, BalanceKept DEF Inv, CodeInv
<1>2. BalanceInv => BooksBalance
  BY DEF BalanceInv
<1> QED
  BY <1>1, <1>2, BalanceStart, AlwaysInv, PTL DEF Spec

(* The transfers to the organiser of r that no fault has dropped.          *)
KeptFor(r) == {t \in transfers : t.to = r /\ t.code \notin dropped}

GoneOut(r) == SumFunction([t \in KeptFor(r) |-> t.amount])

(* What has gone out of a record, transfers dropped by faults apart, is    *)
(* within what came in, unless two callers had decided at a time.          *)
MoneyOutWithinIncome ==
  \A r \in Records \ overlapped : due[r] # Null => GoneOut(r) <= earned[r]

(* Kept transfers are those of the payout rows and of whoever has a code   *)
(* in hand.                                                                *)
AsTransfer == [row \in PayoutRows |-> Transfer(row.code, row.record, row.amount)]
BookedFor(r) == {AsTransfer[row] : row \in Rows(r)}
HandsFor(r) == {p \in Callers : target[p] = r /\ code[p] # NoCode}
InHandFor(r) == {Transfer(code[p], r, amount[p]) : p \in HandsFor(r)}

LEMMA KeptSplit ==
  ASSUME Inv, NEW r \in Records
  PROVE  /\ KeptFor(r) = BookedFor(r) \cup InHandFor(r)
         /\ BookedFor(r) \cap InHandFor(r) = {}
<1> USE DEF Inv, CodeInv
<1>1. ASSUME NEW row \in Rows(r)
      PROVE  /\ AsTransfer[row] = Transfer(row.code, r, row.amount)
             /\ AsTransfer[row] \in KeptFor(r)
             /\ row.code \in BookedCodes
  <2>1. row \in payouts /\ row \in PayoutRows /\ row.record = r
    BY DEF BookInv, Rows
  <2>2. AsTransfer[row] = Transfer(row.code, r, row.amount)
    BY <2>1 DEF AsTransfer
  <2>3. AsTransfer[row] \in transfers /\ row.code \in BookedCodes /\ row.code \notin dropped
    BY <2>1, <2>2 DEF BookInv, BookedCodes
  <2> QED
    BY <2>2, <2>3 DEF KeptFor, Transfer
<1>2. ASSUME NEW p \in HandsFor(r)
      PROVE  /\ Transfer(code[p], r, amount[p]) \in KeptFor(r)
             /\ code[p] \notin BookedCodes
  BY DEF HandsFor, HandInv, KeptFor, Transfer
<1>3. ASSUME NEW t \in KeptFor(r) PROVE t \in BookedFor(r) \cup InHandFor(r)
  <2>1. /\ t \in transfers /\ t.to = r /\ t.code \notin dropped
        /\ t = Transfer(t.code, t.to, t.amount) /\ t.code # NoCode
    BY TargetsKnown DEF KeptFor, OrderInv, Transfer, NoCode, Codes
  <2>2. r \notin Refunds
    BY TargetsKnown
  <2>3. CASE Booked(t)
    <3>1. PICK row \in payouts : row.code = t.code /\ row.record = t.to /\ row.amount = t.amount
      BY <2>1, <2>2, <2>3 DEF Booked
    <3>2. row \in Rows(r) /\ AsTransfer[row] = t
      BY <2>1, <3>1, <1>1 DEF Rows
    <3> QED
      BY <3>2 DEF BookedFor
  <2>4. CASE InHand(t)
    <3>1. PICK p \in Callers : code[p] = t.code /\ target[p] = t.to /\ amount[p] = t.amount
      BY <2>4 DEF InHand
    <3>2. p \in HandsFor(r) /\ t = Transfer(code[p], r, amount[p])
      BY <2>1, <3>1 DEF HandsFor
    <3> QED
      BY <3>2 DEF InHandFor
  <2> QED
    BY <2>1, <2>3, <2>4 DEF TraceInv
<1>4. KeptFor(r) = BookedFor(r) \cup InHandFor(r)
  BY <1>1, <1>2, <1>3 DEF BookedFor, InHandFor
<1>5. BookedFor(r) \cap InHandFor(r) = {}
  <2> SUFFICES ASSUME NEW row \in Rows(r), NEW p \in HandsFor(r),
                      AsTransfer[row] = Transfer(code[p], r, amount[p])
               PROVE  FALSE
    BY DEF BookedFor, InHandFor
  <2>1. Transfer(row.code, r, row.amount) = Transfer(code[p], r, amount[p])
    BY <1>1
  <2>2. row.code = code[p]
    BY <2>1 DEF Transfer
  <2> QED
    BY <1>1, <1>2, <2>2
<1> QED
  BY <1>4, <1>5

(* What the rows say is what their transfers took.                         *)
LEMMA BookedSum ==
  ASSUME Inv, BalanceInv, NEW r \in Records, NEW f, \A t \in KeptFor(r) : f[t] = t.amount
  PROVE  /\ SumFunctionOnSet(f, BookedFor(r)) = PaidOut(r)
         /\ IsFiniteSet(BookedFor(r))
         /\ PaidOut(r) \in Int
<1>1. payouts \subseteq PayoutRows /\ IsFiniteSet(payouts)
  BY DEF Inv, CodeInv, BookInv, BalanceInv
<1>2. /\ PaidOut(r) = SumFunctionOnSet(AmountIn(r), Rows(r))
      /\ IsFiniteSet(Rows(r))
      /\ \A row \in Rows(r) : AmountIn(r)[row] \in Int
      /\ PaidOut(r) \in Int
  BY <1>1, PaidOutSums
<1>3. \A row \in Rows(r) : AsTransfer[row] = Transfer(row.code, r, row.amount) /\ row \in PayoutRows
  BY <1>1 DEF AsTransfer, Rows
<1>4. \A row \in Rows(r) : f[AsTransfer[row]] = AmountIn(r)[row]
  <2> TAKE row \in Rows(r)
  <2>1. AsTransfer[row] \in KeptFor(r)
    BY KeptSplit DEF BookedFor
  <2> QED
    BY <1>3, <2>1 DEF Transfer, AmountIn
<1>5. \A x, y \in Rows(r) : AsTransfer[x] = AsTransfer[y] => x = y
  <2> SUFFICES ASSUME NEW x \in Rows(r), NEW y \in Rows(r), AsTransfer[x] = AsTransfer[y]
               PROVE  x = y
    OBVIOUS
  <2>1. Transfer(x.code, r, x.amount) = Transfer(y.code, r, y.amount)
    BY <1>3
  <2>2. x.code = y.code /\ x.amount = y.amount
    BY <2>1 DEF Transfer
  <2>3. x.record = y.record /\ x \in PayoutRows /\ y \in PayoutRows
    BY <1>3 DEF Rows
  <2> QED
    BY <2>2, <2>3 DEF PayoutRows
<1>6. SumFunctionOnSet(f, {AsTransfer[row] : row \in Rows(r)}) = SumFunctionOnSet(AmountIn(r), Rows(r))
  BY <1>2, <1>4, <1>5, SumRename
<1> QED
  BY <1>2, <1>6, ImageFinite DEF BookedFor

(* More money goes out of a record than came in only when two callers had  *)
(* decided on their amounts at a time, or a fault kept a transfer out of   *)
(* the books: the order goes to Paystack before the debit.                 *)
THEOREM MoneyOutWithinIncomeHolds == Spec => []MoneyOutWithinIncome
<1>1. Inv /\ BalanceInv => MoneyOutWithinIncome
  <2> SUFFICES ASSUME Inv, BalanceInv, NEW r \in Records, r \notin overlapped, due[r] # Null
               PROVE  GoneOut(r) <= earned[r]
    BY DEF MoneyOutWithinIncome
  <2> DEFINE f == [t \in KeptFor(r) |-> t.amount]
  <2>1. GoneOut(r) = SumFunctionOnSet(f, KeptFor(r))
    BY DEF GoneOut, SumFunction
  <2>2. \A t \in KeptFor(r) : f[t] = t.amount /\ f[t] \in Int
    BY DEF KeptFor, Inv, CodeInv, OrderInv
  <2> HIDE DEF f
  <2>3. /\ KeptFor(r) = BookedFor(r) \cup InHandFor(r)
        /\ BookedFor(r) \cap InHandFor(r) = {}
    BY KeptSplit
  <2>4. /\ SumFunctionOnSet(f, BookedFor(r)) = PaidOut(r)
        /\ IsFiniteSet(BookedFor(r)) /\ PaidOut(r) \in Int
    BY <2>2, BookedSum
  <2>5. /\ due[r] = earned[r] - PaidOut(r)
        /\ due[r] \in Int /\ earned[r] \in Int /\ due[r] >= 0
    BY NullIsNoNumber DEF BalanceInv, BooksBalance, Inv, CallInv, CallType, RestType, PaceInv
  <2>6. HandsFor(r) \subseteq InFlight(r)
    BY DEF HandsFor, InFlight, Inv, CallInv, CallOK
  <2>7. CASE HandsFor(r) = {}
    <3>1. KeptFor(r) = BookedFor(r)
      BY <2>3, <2>7 DEF InHandFor
    <3> QED
      BY <2>1, <2>4, <2>5, <3>1
  <2>8. CASE HandsFor(r) # {}
    <3>1. PICK p \in HandsFor(r) : TRUE
      BY <2>8
    <3>2. p \in InFlight(r) /\ \A q \in HandsFor(r) : q = p
      BY <2>6, <3>1 DEF Inv, PaceInv
    <3> DEFINE t == Transfer(code[p], r, amount[p])
    <3>3. InHandFor(r) = {t}
      BY <3>1, <3>2 DEF InHandFor
    <3>4. amount[p] <= due[r] /\ amount[p] \in Int
      BY <3>1, <3>2 DEF HandsFor, Inv, PaceInv, CallInv, CallType
    <3>5. f[t] = amount[p] /\ t \notin BookedFor(r)
      BY <2>2, <2>3, <3>3 DEF Transfer
    <3> HIDE DEF t
    <3>6. \A u \in BookedFor(r) : f[u] \in Int
      BY <2>2, <2>3
    <3>7. SumFunctionOnSet(f, BookedFor(r) \cup {t}) = f[t] + SumFunctionOnSet(f, BookedFor(r))
      BY <2>4, <3>4, <3>5, <3>6, SumAdd
    <3> QED
      BY <2>1, <2>3, <2>4, <2>5, <3>3, <3>4, <3>5, <3>7
  <2> QED
    BY <2>7, <2>8
<1>2. Inv /\ BalanceInv /\ [Next]_vars => BalanceInv'
  BY NextMovesBalance, BalanceKept DEF Inv, CodeInv
<1> QED
  BY <1>1, <1>2, BalanceStart, AlwaysInv, PTL DEF Spec

(* Paying out keeps the payout ledger: a code is ordered once, and ends up *)
(* in the books or dropped, never both.                                    *)
LEMMA CodeStepsAreLedgerSteps ==
  ASSUME Inv, CodeStep
  PROVE  [Ledger!LedgerNext]_(Ledger!ledgerVars)
<1> USE DEF Ledger!LedgerNext, Ledger!ledgerVars, Ledger!Order, Ledger!Book, Ledger!Drop,
            Ledger!Confirm, Ordered, BookedCodes
<1>1. CodeInv /\ CallInv /\ RefundInv
  BY DEF Inv
<1>2. CASE Still
  <2>1. BookedCodes' = BookedCodes /\ UNCHANGED <<transfers, dropped, confirmed>>
    BY <1>1, <1>2, StillKeepsCodes DEF Still
  <2> QED
    BY <2>1
<1>3. ASSUME NEW p \in Callers, OrdersInHand(p) \/ OrdersInVain(p)
      PROVE  \E c \in Codes : Ledger!Order(c)
  <2>1. Orders(p)
    BY <1>3 DEF OrdersInHand, OrdersInVain
  <2>2. /\ NextCode(target[p]) \in Codes /\ NextCode(target[p]) \notin Ordered
        /\ Ordered' = Ordered \cup {NextCode(target[p])} /\ BookedCodes' = BookedCodes
    BY <1>1, <2>1, NextCodeIsNew, OrdersKeep
  <2>3. /\ dropped' \in {dropped, dropped \cup {NextCode(target[p])}}
        /\ UNCHANGED confirmed
    BY <1>3 DEF OrdersInHand, OrdersInVain, Orders
  <2> QED
    BY <2>2, <2>3
<1>4. ASSUME NEW p \in Callers, BooksPayout(p) \/ BooksRefund(p)
      PROVE  \E c \in Codes : Ledger!Book(c)
  <2>1. LetsGo(p) /\ UNCHANGED dropped /\ BookedCodes' = BookedCodes \cup {code[p]}
    BY <1>1, <1>4, PayoutKeepsCodes, RefundKeepsCodes DEF BooksPayout, BooksRefund
  <2>2. /\ code[p] \in Codes /\ code[p] \in Ordered \ (BookedCodes \cup dropped)
        /\ Ordered' = Ordered /\ UNCHANGED confirmed
    BY <1>1, <2>1, LettingGo
  <2> QED
    BY <2>1, <2>2
<1>5. ASSUME NEW p \in Callers, Drops(p) PROVE \E c \in Codes : Ledger!Drop(c)
  <2>1. LetsGo(p) /\ dropped' = dropped \cup {code[p]} /\ BookedCodes' = BookedCodes
    BY <1>1, <1>5, DropKeepsCodes DEF Drops
  <2>2. /\ code[p] \in Codes /\ code[p] \in Ordered \ (BookedCodes \cup dropped)
        /\ Ordered' = Ordered /\ UNCHANGED confirmed
    BY <1>1, <2>1, LettingGo
  <2> QED
    BY <2>1, <2>2
<1>6. ASSUME NEW c \in Codes, Confirms(c) PROVE Ledger!Confirm(c)
  <2>1. BookedCodes' = BookedCodes /\ UNCHANGED <<transfers, dropped>>
    BY <1>1, <1>6, StillKeepsCodes DEF Confirms
  <2> QED
    BY <1>6, <2>1 DEF Confirms
<1> QED
  BY <1>2, <1>3, <1>4, <1>5, <1>6 DEF CodeStep

THEOREM PayoutImplementsLedger == Spec => ImplementsLedger
<1>1. Init => Ledger!LedgerInit
  BY DEF Init, Ledger!LedgerInit
<1>2. Inv /\ [Next]_vars => [Ledger!LedgerNext]_(Ledger!ledgerVars)
  <2> SUFFICES ASSUME Inv, [Next]_vars PROVE [Ledger!LedgerNext]_(Ledger!ledgerVars)
    OBVIOUS
  <2>1. CodeStep
    BY NextMovesCodes DEF Inv, CodeInv, BookInv
  <2> QED
    BY <2>1, CodeStepsAreLedgerSteps
<1> QED
  BY <1>1, <1>2, AlwaysInv, PTL DEF Spec, ImplementsLedger, Ledger!LedgerSpec
=============================================================================
