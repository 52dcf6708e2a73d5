----------------------------- MODULE RequestPool -----------------------------
(***************************************************************************)
(* What the paid services of smooth-be share: the requests and jobs one    *)
(* server process has under way, and its pool of PostgreSQL connections.   *)
(*                                                                         *)
(* A transaction keeps a connection from its opening to its end; any other *)
(* statement needs one for a moment, also when the request that makes it   *)
(* has a transaction open.  Whoever gets none for a minute fails.  A       *)
(* request that returns or throws between the opening and its try block    *)
(* leaves the transaction open, and the pool never sees the connection     *)
(* again.  Steps that nobody else can tell apart, such as a first query    *)
(* and the opening of the transaction after it, are one action.            *)
(***************************************************************************)
EXTENDS Naturals, FiniteSets

CONSTANTS
  Handlers,   \* requests and jobs that can be under way at once
  PoolSize,   \* connections of the pool
  Charges,    \* what customers pay for through Paystack
  Nothing,    \* no argument, no owner
  Faults,     \* the kinds of fault that can happen
  MaxFaults   \* bound of the model: how many faults happen in all

ASSUME HandlersFinite == IsFiniteSet(Handlers)
ASSUME PoolNumbers == PoolSize \in Nat \ {0} /\ MaxFaults \in Nat

VARIABLES
  pc,        \* the next thing each request does, "idle" when there is none
  arg,       \* what it is about
  held,      \* requests whose transaction has a connection
  leaked,    \* connections of transactions that nobody will end
  charged,   \* what has been paid at Paystack
  metadata,  \* charges whose row of PaymentMetadata exists
  raced,     \* history: what two requests have checked before either acted
  faults     \* faults so far

poolVars   == <<held, leaked>>
chargeVars == <<charged, metadata>>
requestVars == <<pc, arg, poolVars, chargeVars, raced, faults>>

PoolInit ==
  /\ pc       = [h \in Handlers |-> "idle"]
  /\ arg      = [h \in Handlers |-> Nothing]
  /\ held     = {}
  /\ leaked   = 0
  /\ charged  = {}
  /\ metadata = {}
  /\ raced    = {}
  /\ faults   = 0

Start(h, to, x) ==
  /\ pc[h] = "idle"
  /\ pc' = [pc EXCEPT ![h] = to]
  /\ arg' = [arg EXCEPT ![h] = x]

Go(h, from, to) ==
  /\ pc[h] = from
  /\ pc' = [pc EXCEPT ![h] = to]
  /\ UNCHANGED arg

Finish(h) ==
  /\ pc' = [pc EXCEPT ![h] = "idle"]
  /\ arg' = [arg EXCEPT ![h] = Nothing]

Fault(k) ==
  /\ k \in Faults
  /\ faults < MaxFaults
  /\ faults' = faults + 1

(***************************************************************************)
(* The pool.                                                               *)
(***************************************************************************)
Free == PoolSize - (Cardinality(held) + leaked)

Query == Free > 0 /\ UNCHANGED poolVars

OpenTransaction(h) ==
  /\ Free > 0
  /\ held' = held \cup {h}
  /\ UNCHANGED leaked

EndTransaction(h) ==
  /\ held' = held \ {h}
  /\ UNCHANGED leaked

LeaveOpen(h) ==
  /\ held' = held \ {h}
  /\ leaked' = leaked + 1

(* Who has checked x and not acted on it yet, by the steps in between.     *)
Between(x, steps) == {h \in Handlers : arg[h] = x /\ pc[h] \in steps}

Checked(x, steps) ==
  raced' = IF Between(x, steps) = {} THEN raced ELSE raced \cup {x}

(***************************************************************************)
(* Charges: the row of metadata is written before the customer gets the    *)
(* address of the payment page.                                            *)
(***************************************************************************)
Charge(x) ==
  /\ x \notin charged
  /\ charged' = charged \cup {x}
  /\ metadata' = metadata \cup {x}
  /\ UNCHANGED <<pc, arg, poolVars, raced, faults>>

(* The webhook's last step; without a connection it fails.                 *)
Forget(h) ==
  /\ pc[h] = "forget"
  /\ Query
  /\ metadata' = metadata \ {arg[h]}
  /\ Finish(h)
  /\ UNCHANGED <<charged, raced, faults>>

ForgetTimeout(h) ==
  /\ pc[h] = "forget"
  /\ Free = 0
  /\ Finish(h)
  /\ UNCHANGED <<poolVars, chargeVars, raced, faults>>

RequestTypeOK ==
  /\ held \subseteq Handlers
  /\ leaked \in 0..PoolSize
  /\ Cardinality(held) + leaked <= PoolSize
  /\ charged \subseteq Charges
  /\ metadata \subseteq charged
  /\ faults \in Nat
=============================================================================
