-------------------------- MODULE InfraconAccounts --------------------------
(***************************************************************************)
(* Accounts and GitHub tokens of infracon: the commands that sign up, sign *)
(* in, reset passwords and save a GitHub token, each a process of its own  *)
(* on one SQLite file.                                                     *)
(*                                                                         *)
(* A command sends one statement after the other, without a transaction.   *)
(* The set-up key it was given is the right one: with another it ends      *)
(* before it reads anything.  A hash stands for its password.              *)
(***************************************************************************)
CONSTANTS
  Commands,   \* commands given, each once
  Emails,
  Passwords,
  Users,      \* user ids tokens are saved for
  Tokens,
  None        \* no row, no choice

ASSUME NoneIsNothing == None \notin Emails \cup Passwords \cup Users \cup Tokens

VARIABLES
  users,     \* the password of each account, None without a row
  tokens,    \* github_tokens: the token of each user, None without a row
  step,      \* where each command is
  who,       \* the email or the user it is about
  what,      \* its password or token
  signedUp,  \* commands that signed up and were given a JWT
  accepted   \* history: tokens GitHub has accepted

accountVars == <<users, tokens, step, who, what, signedUp, accepted>>

AccountsInit ==
  /\ users    = [e \in Emails |-> None]
  /\ tokens   = [u \in Users |-> None]
  /\ step     = [c \in Commands |-> "new"]
  /\ who      = [c \in Commands |-> None]
  /\ what     = [c \in Commands |-> None]
  /\ signedUp = {}
  /\ accepted = {}

Begin(c, to, w, x) ==
  /\ step[c] = "new"
  /\ step' = [step EXCEPT ![c] = to]
  /\ who' = [who EXCEPT ![c] = w]
  /\ what' = [what EXCEPT ![c] = x]

Proceed(c, from, to) ==
  /\ step[c] = from
  /\ step' = [step EXCEPT ![c] = to]
  /\ UNCHANGED <<who, what>>

(***************************************************************************)
(* Accounts.                                                               *)
(***************************************************************************)
SignUp(c, e, p) ==
  /\ Begin(c, IF users[e] = None THEN "hash" ELSE "refused", e, p)
  /\ UNCHANGED <<users, tokens, signedUp, accepted>>

InsertOrReplace(c) ==  \* mutant: email is not a unique column
  /\ Proceed(c, "hash", "token")
  /\ users' = [users EXCEPT ![who[c]] = what[c]]
  /\ UNCHANGED <<tokens, signedUp, accepted>>

(* The column is unique: the insert fails when the row is there by now.    *)
InsertUser(c) ==
  /\ step[c] = "hash"
  /\ \/ /\ users[who[c]] = None
        /\ Proceed(c, "hash", "token")
        /\ users' = [users EXCEPT ![who[c]] = what[c]]
     \/ /\ users[who[c]] # None
        /\ Proceed(c, "hash", "refused")
        /\ UNCHANGED users
  /\ UNCHANGED <<tokens, signedUp, accepted>>

(* The account is there by now, whether the JWT can be signed or not.      *)
SignToken(c) ==
  /\ Proceed(c, "token", "done")
  /\ signedUp' = signedUp \cup {c}
  /\ UNCHANGED <<users, tokens, accepted>>

(* The row is read and compared; nothing changes.                          *)
SignIn(c, e, p) ==
  /\ Begin(c, IF users[e] = p THEN "done" ELSE "refused", e, p)
  /\ UNCHANGED <<users, tokens, signedUp, accepted>>

(* The update has no WHERE: it reaches every account.                      *)
ForgotPassword(c, p) ==
  LET known == {e \in Emails : users[e] # None} IN
  /\ Begin(c, IF known = {} THEN "refused" ELSE "done", None, p)
  /\ users' = [e \in Emails |-> IF e \in known THEN p ELSE None]
  /\ UNCHANGED <<tokens, signedUp, accepted>>

(***************************************************************************)
(* GitHub tokens: saveAccessToken.                                         *)
(***************************************************************************)
SaveUnchecked(c, u, t) ==  \* mutant: the status of the answer is not compared
  /\ Begin(c, "select", u, t)
  /\ UNCHANGED <<users, tokens, signedUp, accepted>>

(* GitHub accepts the token, or answers something else, which ends the     *)
(* command without an error; or the request fails.                         *)
SaveToken(c, u, t) ==
  /\ \/ Begin(c, "select", u, t) /\ accepted' = accepted \cup {t}
     \/ \E end \in {"silent", "refused"} : Begin(c, end, u, t) /\ UNCHANGED accepted
  /\ UNCHANGED <<users, tokens, signedUp>>

SelectToken(c) ==
  /\ step[c] = "select"
  /\ Proceed(c, "select", IF tokens[who[c]] = None THEN "insert" ELSE "update")
  /\ UNCHANGED <<users, tokens, signedUp, accepted>>

(* The user id is the primary key.                                         *)
InsertToken(c) ==
  /\ step[c] = "insert"
  /\ \/ /\ tokens[who[c]] = None
        /\ Proceed(c, "insert", "update")
        /\ tokens' = [tokens EXCEPT ![who[c]] = what[c]]
     \/ /\ tokens[who[c]] # None
        /\ Proceed(c, "insert", "refused")
        /\ UNCHANGED tokens
  /\ UNCHANGED <<users, signedUp, accepted>>

UpdateToken(c) ==
  /\ Proceed(c, "update", "saved")
  /\ tokens' = [tokens EXCEPT ![who[c]] = what[c]]
  /\ UNCHANGED <<users, signedUp, accepted>>

(* A statement or the signing fails, or the command is interrupted.        *)
CommandFails(c) ==
  /\ step[c] \in {"hash", "token", "select", "insert", "update"}
  /\ Proceed(c, step[c], "refused")
  /\ UNCHANGED <<users, tokens, signedUp, accepted>>

AccountsNext ==
  \E c \in Commands :
    \/ \E e \in Emails, p \in Passwords : SignUp(c, e, p) \/ SignIn(c, e, p)
    \/ \E p \in Passwords : ForgotPassword(c, p)
    \/ \E u \in Users, t \in Tokens : SaveToken(c, u, t)
    \/ InsertUser(c) \/ SignToken(c)
    \/ SelectToken(c) \/ InsertToken(c) \/ UpdateToken(c)
    \/ CommandFails(c)

(***************************************************************************)
(* Properties.                                                             *)
(***************************************************************************)
(* Two commands never both sign up one email, though each looks for the    *)
(* account before it hashes the password and inserts after.                *)
SignedUpOnce ==
  \A c, d \in signedUp : who[c] = who[d] => c = d

(* Only tokens GitHub has accepted are stored, and a save that ran to its  *)
(* end has left the user one; the save that GitHub's answer ended early    *)
(* reports no error either, and promises nothing.                          *)
TokenStands ==
  /\ \A u \in Users : tokens[u] # None => tokens[u] \in accepted
  /\ \A c \in Commands : step[c] = "saved" => tokens[who[c]] # None
=============================================================================
