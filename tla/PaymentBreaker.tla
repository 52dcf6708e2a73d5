--------------------------- MODULE PaymentBreaker ---------------------------
(***************************************************************************)
(* The circuit breaker around bank transfers: initiate_transfer of the     *)
(* payment service of smooth-be.                                           *)
(*                                                                         *)
(* Two keys of Redis, shared by all callers on all instances: a flag that  *)
(* refuses transfers while it exists, and a counter of recent failures.    *)
(* A caller reads the flag, asks Paystack, and then deletes the counter or *)
(* reads it and writes it back incremented, without a lock.  Both keys     *)
(* expire after five minutes.                                              *)
(***************************************************************************)
EXTENDS Naturals

CONSTANTS
  Callers,    \* whoever can be inside initiate_transfer
  Threshold   \* CIRCUIT_BREAKER_FAILURE_THRESHOLD

ASSUME ThresholdPositive == Threshold \in Nat \ {0}

VARIABLES
  open,      \* the open-state key of Redis exists
  failures,  \* the recent-failures key, counted up to Threshold
  at,        \* where each caller is in initiate_transfer
  seen,      \* the counter as a failed call has read it
  refusals   \* history: refusals of Paystack so far, counted up to Threshold

breakerVars == <<open, failures, at, seen, refusals>>

(* "out" is outside; the others name the next thing the call does.         *)
CallPC == {"out", "ask", "transfer", "clear", "count", "write", "open"}

(* Beyond the threshold a counter behaves as at the threshold.             *)
Capped(n) == IF n < Threshold THEN n ELSE Threshold

BreakerInit ==
  /\ open     = FALSE
  /\ failures = 0
  /\ at       = [p \in Callers |-> "out"]
  /\ seen     = [p \in Callers |-> 0]
  /\ refusals = 0

Move(p, from, to) ==
  /\ at[p] = from
  /\ at' = [at EXCEPT ![p] = to]

BeginCall(p) ==
  /\ Move(p, "out", "ask")
  /\ UNCHANGED <<open, failures, seen, refusals>>

(* "Circuit breaker is open": the call returns at once.                    *)
Blocked(p) ==
  /\ open
  /\ Move(p, "ask", "out")
  /\ UNCHANGED <<open, failures, seen, refusals>>

LetThrough(p) ==
  /\ ~open
  /\ Move(p, "ask", "transfer")
  /\ UNCHANGED <<open, failures, seen, refusals>>

Accepted(p) ==
  /\ Move(p, "transfer", "clear")
  /\ UNCHANGED <<open, failures, seen, refusals>>

Declined(p) ==
  /\ Move(p, "transfer", "count")
  /\ refusals' = Capped(refusals + 1)
  /\ UNCHANGED <<open, failures, seen>>

ClearFailures(p) ==
  /\ Move(p, "clear", "out")
  /\ failures' = 0
  /\ UNCHANGED <<open, seen, refusals>>

ReadFailures(p) ==
  /\ Move(p, "count", "write")
  /\ seen' = [seen EXCEPT ![p] = failures]
  /\ UNCHANGED <<open, failures, refusals>>

(* The counter, incremented, and the second look at the flag go down one   *)
(* connection together.                                                    *)
WriteFailures(p) ==
  /\ at[p] = "write"
  /\ failures' = Capped(seen[p] + 1)
  /\ seen' = [seen EXCEPT ![p] = 0]
  /\ UNCHANGED <<open, refusals>>

MustOpenEarly(p) ==  \* mutant: the threshold is compared with the next failure
  /\ Capped(seen[p] + 2) >= Threshold
  /\ ~open

MustOpen(p) ==
  /\ Capped(seen[p] + 1) >= Threshold
  /\ ~open

CountAndOpen(p) ==
  /\ MustOpen(p)
  /\ WriteFailures(p)
  /\ Move(p, "write", "open")

CountOnly(p) ==
  /\ ~MustOpen(p)
  /\ WriteFailures(p)
  /\ Move(p, "write", "out")

SetOpen(p) ==
  /\ Move(p, "open", "out")
  /\ open' = TRUE
  /\ UNCHANGED <<failures, seen, refusals>>

(* The call throws, or its instance dies.                                  *)
Abandon(p) ==
  /\ at[p] # "out"
  /\ at' = [at EXCEPT ![p] = "out"]
  /\ seen' = [seen EXCEPT ![p] = 0]
  /\ UNCHANGED <<open, failures, refusals>>

(* Time to live: 300 seconds for either key.                               *)
ExpireOpen ==
  /\ open
  /\ open' = FALSE
  /\ UNCHANGED <<failures, at, seen, refusals>>

ExpireFailures ==
  /\ failures > 0
  /\ failures' = 0
  /\ UNCHANGED <<open, at, seen, refusals>>

(***************************************************************************)
(* Properties.                                                             *)
(***************************************************************************)
BreakerTypeOK ==
  /\ open \in BOOLEAN
  /\ failures \in 0..Threshold
  /\ at \in [Callers -> CallPC]
  /\ seen \in [Callers -> 0..Threshold]
  /\ refusals \in 0..Threshold

(* However reads, writes, deletions and expiries of the counter overlap,   *)
(* transfers are never refused before Paystack has refused as many as the  *)
(* threshold: increments can get lost, none is counted twice.              *)
OpenedByFailures == open => refusals = Threshold
=============================================================================
