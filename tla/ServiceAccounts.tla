-------------------------- MODULE ServiceAccounts --------------------------
(***************************************************************************)
(* What the paid services promise a user, whatever requests and jobs carry *)
(* them out: nothing is credited or issued that was not paid for, a credit *)
(* or an issue is never taken back and happens at most Limit times for one *)
(* charge, the wallet changes by one unit and only with a credit or a      *)
(* plan, it owes Limit - 1 at most, and the voters allowed are changed by  *)
(* renewals only and never exceed what renewals were paid for.             *)
(***************************************************************************)
EXTENDS Integers

CONSTANTS
  Payments,  \* wallet fundings
  Tickets,   \* ticket purchases
  Limit      \* how often one charge may be credited or issued

VARIABLES
  paid,      \* what has been paid at Paystack
  balance,   \* the wallet
  credited,  \* times each payment was credited
  plans,     \* plans created, per kind
  capacity,  \* voters allowed
  issued     \* times the attendees of each purchase were created

vars == <<paid, balance, credited, plans, capacity, issued>>

Add(f, x) == [f EXCEPT ![x] = @ + 1]

Init ==
  /\ paid     = {}
  /\ balance  = 0
  /\ credited = [p \in Payments |-> 0]
  /\ plans    = [k \in {"purchase", "renewal", "free"} |-> 0]
  /\ capacity = 0
  /\ issued   = [t \in Tickets |-> 0]

Charge(x) ==
  /\ x \notin paid
  /\ paid' = paid \cup {x}
  /\ UNCHANGED <<balance, credited, plans, capacity, issued>>

Credit(p) ==
  /\ p \in paid
  /\ credited[p] < Limit
  /\ credited' = Add(credited, p)
  /\ balance' = balance + 1
  /\ UNCHANGED <<paid, plans, capacity, issued>>

PayFor(k) ==
  /\ balance + Limit > 1
  /\ balance' = balance - 1
  /\ plans' = Add(plans, k)
  /\ UNCHANGED <<paid, credited, issued>>

Buy == PayFor("purchase") /\ UNCHANGED capacity

(* What other renewals have added may be lost, but nothing is made up.     *)
Renew ==
  /\ PayFor("renewal")
  /\ capacity' \in 1..(plans["renewal"] + 1)

GiveFree ==
  /\ plans["free"] < Limit
  /\ plans' = Add(plans, "free")
  /\ UNCHANGED <<paid, balance, credited, capacity, issued>>

Issue(t) ==
  /\ t \in paid
  /\ issued[t] < Limit
  /\ issued' = Add(issued, t)
  /\ UNCHANGED <<paid, balance, credited, plans, capacity>>

Next ==
  \/ \E x \in Payments \cup Tickets : Charge(x)
  \/ \E p \in Payments : Credit(p)
  \/ Buy \/ Renew \/ GiveFree
  \/ \E t \in Tickets : Issue(t)

Spec == Init /\ [][Next]_vars
=============================================================================
