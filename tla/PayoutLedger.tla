---------------------------- MODULE PayoutLedger ----------------------------
(***************************************************************************)
(* What paying out promises, whoever carries it out: a transfer is ordered *)
(* from Paystack once under its code; from then on it is in hand until it  *)
(* is written down in the books or somebody drops it, never both; and only *)
(* what is in the books is ever confirmed.                                 *)
(***************************************************************************)
CONSTANT Codes

VARIABLES
  ordered,    \* codes Paystack has accepted
  booked,     \* those a payout or a refund row names
  dropped,    \* those nothing will ever write down
  confirmed   \* those whose row says "successful"

ledgerVars == <<ordered, booked, dropped, confirmed>>

LedgerInit ==
  /\ ordered = {}
  /\ booked = {}
  /\ dropped = {}
  /\ confirmed = {}

Order(c) ==
  /\ c \notin ordered
  /\ ordered' = ordered \cup {c}
  /\ dropped' \in {dropped, dropped \cup {c}}
  /\ UNCHANGED <<booked, confirmed>>

Book(c) ==
  /\ c \in ordered \ (booked \cup dropped)
  /\ booked' = booked \cup {c}
  /\ UNCHANGED <<ordered, dropped, confirmed>>

Drop(c) ==
  /\ c \in ordered \ (booked \cup dropped)
  /\ dropped' = dropped \cup {c}
  /\ UNCHANGED <<ordered, booked, confirmed>>

Confirm(c) ==
  /\ c \in booked
  /\ confirmed' = confirmed \cup {c}
  /\ UNCHANGED <<ordered, booked, dropped>>

LedgerNext ==
  \E c \in Codes : Order(c) \/ Book(c) \/ Drop(c) \/ Confirm(c)

LedgerSpec == LedgerInit /\ [][LedgerNext]_ledgerVars
=============================================================================
