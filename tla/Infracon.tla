------------------------------ MODULE Infracon ------------------------------
(***************************************************************************)
(* The commands of infracon on one machine.                                *)
(*                                                                         *)
(* Accounts, pulls and deployments share no database, and no file that a   *)
(* command of another part depends on: a behaviour of all is an            *)
(* interleaving of one of each, and a property of one part is a property   *)
(* of that part alone.  So a behaviour of this module has the commands of  *)
(* one part.                                                               *)
(***************************************************************************)
EXTENDS InfraconAccounts, InfraconPull, InfraconDeploy

VARIABLE part  \* the part whose commands are given

vars == <<accountVars, pullVars, deployVars, part>>

Init ==
  /\ AccountsInit
  /\ PullInit
  /\ DeployInit
  /\ part \in {"accounts", "pulls", "deployments"}

Next ==
  /\ UNCHANGED part
  /\ \/ part = "accounts" /\ AccountsNext /\ UNCHANGED <<pullVars, deployVars>>
     \/ part = "pulls" /\ PullNext /\ UNCHANGED <<accountVars, deployVars>>
     \/ part = "deployments" /\ DeployNext /\ UNCHANGED <<accountVars, pullVars>>

Spec == Init /\ [][Next]_vars
=============================================================================
