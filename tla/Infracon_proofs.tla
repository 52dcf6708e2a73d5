-------------------------- MODULE Infracon_proofs --------------------------
(***************************************************************************)
(* Proofs about Infracon, for every set of commands, emails, passwords,    *)
(* tokens, folders, files, deployments and ports.                          *)
(***************************************************************************)
EXTENDS Infracon, TLAPS

(***************************************************************************)
(* Accounts and tokens.                                                    *)
(***************************************************************************)

(* Commands whose account is in the table, each the only one of its email. *)
Inserted == {c \in Commands : step[c] = "token"} \cup signedUp

Steps == {"new", "hash", "token", "done", "refused", "select", "insert", "update", "saved", "silent"}

AccountsType ==
  /\ users \in [Emails -> Passwords \cup {None}]
  /\ tokens \in [Users -> Tokens \cup {None}]
  /\ step \in [Commands -> Steps]
  /\ who \in [Commands -> Emails \cup Users \cup {None}]
  /\ what \in [Commands -> Passwords \cup Tokens \cup {None}]
  /\ signedUp \subseteq Commands
  /\ accepted \subseteq Tokens

(* What a command has been given by the time it needs it.                  *)
Given(c) ==
  /\ step[c] = "hash" => who[c] \in Emails /\ what[c] \in Passwords
  /\ step[c] = "token" => who[c] \in Emails
  /\ step[c] \in {"select", "insert", "update", "saved"} =>
       who[c] \in Users /\ what[c] \in accepted

SignUpInv ==
  /\ \A c \in signedUp : step[c] = "done" /\ who[c] \in Emails
  /\ \A c \in Inserted : users[who[c]] # None
  /\ \A c, d \in Inserted : who[c] = who[d] => c = d

TokenInv ==
  /\ \A u \in Users : tokens[u] # None => tokens[u] \in accepted
  /\ \A c \in Commands : step[c] \in {"update", "saved"} => tokens[who[c]] # None

AccountsInv ==
  /\ AccountsType
  /\ \A c \in Commands : Given(c)
  /\ SignUpInv
  /\ TokenInv

LEMMA AccountsStart == AccountsInit => AccountsInv
<1> SUFFICES ASSUME AccountsInit PROVE AccountsInv
  OBVIOUS
<1>1. AccountsType
  BY DEF AccountsInit, AccountsType, Steps
<1>2. \A c \in Commands : Given(c)
  BY DEF AccountsInit, Given
<1>3. SignUpInv
  BY DEF AccountsInit, SignUpInv, Inserted
<1>4. TokenInv
  BY DEF AccountsInit, TokenInv
<1> QED
  BY <1>1, <1>2, <1>3, <1>4 DEF AccountsInv

LEMMA SignUpKeeps ==
  ASSUME AccountsInv, NEW c \in Commands, NEW e \in Emails, NEW p \in Passwords,
         SignUp(c, e, p) \/ SignIn(c, e, p)
  PROVE  AccountsInv'
<1>1. PICK to \in {"hash", "refused", "done"} : Begin(c, to, e, p)
  BY DEF SignUp, SignIn
<1>2. UNCHANGED <<users, tokens, signedUp, accepted>>
  BY DEF SignUp, SignIn
<1>3. c \notin Inserted
  BY <1>1 DEF AccountsInv, SignUpInv, Inserted, Begin
<1>4. Inserted' = Inserted
  BY <1>1, <1>2, <1>3 DEF AccountsInv, AccountsType, Inserted, Begin
<1>5. AccountsType'
  BY <1>1, <1>2 DEF AccountsInv, AccountsType, Begin, Steps
<1>6. \A d \in Commands : Given(d)'
  BY <1>1, <1>2 DEF AccountsInv, AccountsType, Given, Begin
<1>7. SignUpInv'
  BY <1>1, <1>2, <1>3, <1>4 DEF AccountsInv, AccountsType, SignUpInv, Begin, Inserted
<1>8. TokenInv'
  BY <1>1, <1>2 DEF AccountsInv, AccountsType, TokenInv, Begin
<1> QED
  BY <1>5, <1>6, <1>7, <1>8 DEF AccountsInv

LEMMA InsertUserKeeps ==
  ASSUME AccountsInv, NEW c \in Commands, InsertUser(c)
  PROVE  AccountsInv'
<1>1. CASE users[who[c]] # None /\ Proceed(c, "hash", "refused") /\ UNCHANGED users
  <2>1. Inserted' = Inserted
    BY <1>1 DEF AccountsInv, AccountsType, SignUpInv, Inserted, InsertUser, Proceed
  <2>2. AccountsType' /\ \A d \in Commands : Given(d)'
    BY <1>1 DEF AccountsInv, AccountsType, Given, InsertUser, Proceed, Steps
  <2>3. SignUpInv'
    BY <1>1, <2>1 DEF AccountsInv, AccountsType, SignUpInv, InsertUser, Proceed
  <2>4. TokenInv'
    BY <1>1 DEF AccountsInv, AccountsType, TokenInv, InsertUser, Proceed
  <2> QED
    BY <2>2, <2>3, <2>4 DEF AccountsInv
<1>2. CASE /\ users[who[c]] = None
           /\ Proceed(c, "hash", "token")
           /\ users' = [users EXCEPT ![who[c]] = what[c]]
  <2>1. who[c] \in Emails /\ what[c] \in Passwords /\ what[c] # None
    BY <1>2, NoneIsNothing DEF AccountsInv, Given, Proceed
  <2>2. Inserted' = Inserted \cup {c}
    BY <1>2 DEF AccountsInv, AccountsType, Inserted, InsertUser, Proceed
  <2>3. \A d \in Inserted : who[d] # who[c]
    BY <1>2 DEF AccountsInv, SignUpInv
  <2>4. users' \in [Emails -> Passwords \cup {None}] /\ \A e \in Emails : users[e] # None => users'[e] # None
    BY <1>2, <2>1 DEF AccountsInv, AccountsType
  <2>5. users'[who[c]] # None
    BY <1>2, <2>1 DEF AccountsInv, AccountsType
  <2>6. \A d \in Inserted : who[d] \in Emails
    BY DEF AccountsInv, Given, SignUpInv, Inserted
  <2>7. AccountsType' /\ \A d \in Commands : Given(d)'
    BY <1>2, <2>1, <2>4 DEF AccountsInv, AccountsType, Given, InsertUser, Proceed, Steps
  <2>8. SignUpInv'
    BY <1>2, <2>1, <2>2, <2>3, <2>4, <2>5, <2>6
    DEF AccountsInv, AccountsType, SignUpInv, InsertUser, Proceed
  <2>9. TokenInv'
    BY <1>2 DEF AccountsInv, AccountsType, TokenInv, InsertUser, Proceed
  <2> QED
    BY <2>7, <2>8, <2>9 DEF AccountsInv
<1> QED
  BY <1>1, <1>2 DEF InsertUser

LEMMA SignTokenKeeps ==
  ASSUME AccountsInv, NEW c \in Commands, SignToken(c)
  PROVE  AccountsInv'
<1>1. c \in Inserted /\ Inserted' = Inserted
  BY DEF AccountsInv, AccountsType, Inserted, SignToken, Proceed
<1>2. AccountsType' /\ \A d \in Commands : Given(d)'
  BY DEF AccountsInv, AccountsType, Given, SignToken, Proceed, Steps
<1>3. SignUpInv'
  BY <1>1 DEF AccountsInv, AccountsType, Given, SignUpInv, SignToken, Proceed
<1>4. TokenInv'
  BY DEF AccountsInv, AccountsType, TokenInv, SignToken, Proceed
<1> QED
  BY <1>2, <1>3, <1>4 DEF AccountsInv

LEMMA ForgotPasswordKeeps ==
  ASSUME AccountsInv, NEW c \in Commands, NEW p \in Passwords, ForgotPassword(c, p)
  PROVE  AccountsInv'
<1>1. PICK to \in {"refused", "done"} : Begin(c, to, None, p)
  BY DEF ForgotPassword
<1>2. Inserted' = Inserted /\ c \notin Inserted
  BY <1>1 DEF AccountsInv, AccountsType, SignUpInv, Inserted, ForgotPassword, Begin
<1>3. \A d \in Inserted : who[d] \in Emails
  BY DEF AccountsInv, Given, SignUpInv, Inserted
<1>4. users' \in [Emails -> Passwords \cup {None}] /\ \A e \in Emails : users[e] # None => users'[e] # None
  BY NoneIsNothing DEF AccountsInv, AccountsType, ForgotPassword
<1>5. AccountsType' /\ \A d \in Commands : Given(d)'
  BY <1>1, <1>4 DEF AccountsInv, AccountsType, Given, ForgotPassword, Begin, Steps
<1>6. SignUpInv'
  BY <1>1, <1>2, <1>3, <1>4
  DEF AccountsInv, AccountsType, SignUpInv, ForgotPassword, Begin, Inserted
<1>7. TokenInv'
  BY <1>1 DEF AccountsInv, AccountsType, TokenInv, ForgotPassword, Begin
<1> QED
  BY <1>5, <1>6, <1>7 DEF AccountsInv

LEMMA SaveTokenKeeps ==
  ASSUME AccountsInv, NEW c \in Commands, NEW u \in Users, NEW t \in Tokens, SaveToken(c, u, t)
  PROVE  AccountsInv'
<1>1. PICK to \in {"select", "silent", "refused"} :
        Begin(c, to, u, t) /\ accepted' = IF to = "select" THEN accepted \cup {t} ELSE accepted
  BY DEF SaveToken
<1>2. Inserted' = Inserted /\ c \notin Inserted
  BY <1>1 DEF AccountsInv, AccountsType, SignUpInv, Inserted, SaveToken, Begin
<1>3. AccountsType' /\ \A d \in Commands : Given(d)'
  BY <1>1 DEF AccountsInv, AccountsType, Given, SaveToken, Begin, Steps
<1>4. SignUpInv'
  BY <1>1, <1>2 DEF AccountsInv, AccountsType, SignUpInv, SaveToken, Begin, Inserted
<1>5. TokenInv'
  BY <1>1 DEF AccountsInv, AccountsType, TokenInv, SaveToken, Begin
<1> QED
  BY <1>3, <1>4, <1>5 DEF AccountsInv

LEMMA StoreTokenKeeps ==
  ASSUME AccountsInv, NEW c \in Commands,
         SelectToken(c) \/ InsertToken(c) \/ UpdateToken(c) \/ CommandFails(c)
  PROVE  AccountsInv'
<1>1. Inserted' \subseteq Inserted /\ UNCHANGED <<users, who, what, signedUp, accepted>>
  BY DEF AccountsInv, AccountsType, SignUpInv, Inserted, SelectToken, InsertToken, UpdateToken,
         CommandFails, Proceed
<1>2. c \notin signedUp
  BY DEF AccountsInv, SignUpInv, SelectToken, InsertToken, UpdateToken, CommandFails, Proceed
<1>3. AccountsType' /\ SignUpInv' /\ \A d \in Commands \ {c} : Given(d)'
  BY <1>1, <1>2
  DEF AccountsInv, AccountsType, Given, SignUpInv, SelectToken, InsertToken, UpdateToken,
      CommandFails, Proceed, Steps
<1>4. Given(c)' /\ TokenInv'
  BY <1>1, NoneIsNothing
  DEF AccountsInv, AccountsType, Given, TokenInv, SelectToken, InsertToken, UpdateToken,
      CommandFails, Proceed
<1> QED
  BY <1>3, <1>4 DEF AccountsInv

LEMMA AccountsKeep == AccountsInv /\ AccountsNext => AccountsInv'
  BY SignUpKeeps, InsertUserKeeps, SignTokenKeeps, ForgotPasswordKeeps, SaveTokenKeeps,
     StoreTokenKeeps
  DEF AccountsNext

LEMMA AccountsFrame == AccountsInv /\ UNCHANGED accountVars => AccountsInv'
  BY DEF AccountsInv, AccountsType, Given, SignUpInv, TokenInv, Inserted, accountVars

(***************************************************************************)
(* Pulls.                                                                  *)
(***************************************************************************)
PullStates == {"new", "unpack", "pulled", "failed"}

PullRecords == [at : PullStates \cup Files, folder : Folders \cup {Nowhere}, todo : SUBSET Files]

PullType ==
  /\ disk \in [Folders -> [Files -> {"absent", "cut", "whole"}]]
  /\ pull \in [Pulls -> PullRecords]
  /\ last \in [Folders -> [Files -> Pulls \cup {Nobody}]]
  /\ unwritten \in [Pulls -> SUBSET Files]

(* A command has a folder from the answer of GitHub to its end, and has    *)
(* truncated there what it is at and what it has done with.                *)
Touched(p, x) ==
  /\ pull[p].folder \in Folders
  /\ last[pull[p].folder][x] # Nobody

PlaceInv ==
  \A p \in Pulls :
    /\ pull[p].at = "new" => pull[p].folder = Nowhere
    /\ pull[p].at \notin {"new", "failed"} =>
         /\ pull[p].folder \in Folders
         /\ \A x \in Files : x \notin pull[p].todo \/ x = pull[p].at => Touched(p, x)
    /\ pull[p].at = "pulled" => pull[p].todo = {}

(* A file that somebody truncated is there, and cut only if the last one   *)
(* to do so has not written all of it.                                     *)
FileInv ==
  \A f \in Folders, x \in Files :
    /\ last[f][x] # Nobody => disk[f][x] # "absent" /\ pull[last[f][x]].folder = f
    /\ disk[f][x] = "cut" => last[f][x] # Nobody /\ x \in unwritten[last[f][x]]

PullInv ==
  /\ PullType
  /\ PlaceInv
  /\ FileInv

LEMMA PullStart == PullInit => PullInv
  BY FilesAreNoStates, NowhereIsNoFolder
  DEF PullInit, PullInv, PullType, PullRecords, PullStates, PlaceInv, FileInv

LEMMA PullAdvances ==
  ASSUME NEW r \in PullRecords, NEW a \in PullStates \cup Files, NEW S \in SUBSET Files
  PROVE  [r EXCEPT !.at = a] \in PullRecords /\ [r EXCEPT !.at = a, !.todo = S] \in PullRecords
  BY DEF PullRecords

LEMMA PullAnswered ==
  ASSUME PullInv, NEW p \in Pulls, NEW f \in Folders, Pull(p, f)
  PROVE  PullInv'
<1>1. /\ pull[p].at = "new" /\ pull[p].folder = Nowhere
      /\ UNCHANGED <<disk, last, unwritten>>
  BY DEF PullInv, PlaceInv, Pull
<1>2. \A q \in Pulls \ {p} : pull'[q] = pull[q]
  BY DEF PullInv, PullType, Pull
<1>3. \/ pull'[p] = [at |-> "unpack", folder |-> f, todo |-> Files]
      \/ pull'[p].at = "failed"
  BY DEF PullInv, PullType, PullRecords, Pull
<1>4. PullType'
  <2>1. CASE pull' = [pull EXCEPT ![p] = [at |-> "unpack", folder |-> f, todo |-> Files]]
    BY <1>1, <2>1 DEF PullInv, PullType, PullRecords, PullStates
  <2>2. CASE pull' = [pull EXCEPT ![p].at = "failed"]
    BY <1>1, <2>2, PullAdvances DEF PullInv, PullType, PullStates
  <2> QED
    BY <2>1, <2>2 DEF Pull
<1>5. PlaceInv'
  BY <1>1, <1>2, <1>3, FilesAreNoStates DEF PullInv, PlaceInv, Touched
<1>6. \A g \in Folders, x \in Files : last[g][x] # p
  BY <1>1, NowhereIsNoFolder, NobodyPulls DEF PullInv, FileInv
<1>7. FileInv'
  BY <1>1, <1>2, <1>6 DEF PullInv, PullType, FileInv
<1> QED
  BY <1>4, <1>5, <1>7 DEF PullInv

LEMMA PullTruncates ==
  ASSUME PullInv, NEW p \in Pulls, NEW x \in Files, Truncate(p, x)
  PROVE  PullInv'
<1> DEFINE f == pull[p].folder
<1>1. /\ pull[p].at = "unpack" /\ f \in Folders
      /\ pull' = [pull EXCEPT ![p].at = x]
      /\ disk' = [disk EXCEPT ![f][x] = "cut"]
      /\ last' = [last EXCEPT ![f][x] = p]
      /\ unwritten' = [unwritten EXCEPT ![p] = @ \cup {x}]
  BY DEF PullInv, PlaceInv, Truncate
<1>2. /\ \A q \in Pulls : pull'[q].folder = pull[q].folder /\ pull'[q].todo = pull[q].todo
      /\ \A q \in Pulls \ {p} : pull'[q].at = pull[q].at
      /\ pull'[p].at = x
  BY <1>1 DEF PullInv, PullType
<1>3. /\ disk'[f][x] = "cut" /\ last'[f][x] = p
      /\ \A g \in Folders, y \in Files : ~(g = f /\ y = x) =>
           disk'[g][y] = disk[g][y] /\ last'[g][y] = last[g][y]
  BY <1>1 DEF PullInv, PullType
<1>4. /\ x \in unwritten'[p]
      /\ \A q \in Pulls : unwritten[q] \subseteq unwritten'[q]
  BY <1>1 DEF PullInv, PullType
<1>5. PullType'
  <2>1. disk' \in [Folders -> [Files -> {"absent", "cut", "whole"}]]
    BY <1>1 DEF PullInv, PullType
  <2>2. last' \in [Folders -> [Files -> Pulls \cup {Nobody}]]
    BY <1>1 DEF PullInv, PullType
  <2>3. pull' \in [Pulls -> PullRecords]
    BY <1>1, PullAdvances DEF PullInv, PullType
  <2>4. unwritten' \in [Pulls -> SUBSET Files]
    BY <1>1 DEF PullInv, PullType
  <2> QED
    BY <2>1, <2>2, <2>3, <2>4 DEF PullType
<1>6. PlaceInv'
  BY <1>1, <1>2, <1>3, FilesAreNoStates, NobodyPulls DEF PullInv, PlaceInv, Touched
<1>7. FileInv'
  BY <1>1, <1>2, <1>3, <1>4, NobodyPulls DEF PullInv, PullType, FileInv
<1> QED
  BY <1>5, <1>6, <1>7 DEF PullInv

LEMMA PullCopies ==
  ASSUME PullInv, NEW p \in Pulls, NEW x \in Files, Copy(p, x) \/ CloseFails(p, x)
  PROVE  PullInv'
<1> DEFINE f == pull[p].folder
<1>1. /\ pull[p].at = x /\ f \in Folders /\ last[f][x] # Nobody
      /\ pull' = [pull EXCEPT ![p].at = "unpack", ![p].todo = @ \ {x}]
      /\ UNCHANGED last
  BY FilesAreNoStates DEF PullInv, PlaceInv, Touched, Copy, CloseFails
<1>2. /\ \A q \in Pulls : pull'[q].folder = pull[q].folder
      /\ \A q \in Pulls \ {p} : pull'[q] = pull[q]
      /\ pull'[p].at = "unpack" /\ pull'[p].todo = pull[p].todo \ {x}
  BY <1>1 DEF PullInv, PullType
<1>3. pull' \in [Pulls -> PullRecords]
  <2>1. pull[p] \in PullRecords /\ pull[p].todo \ {x} \in SUBSET Files
    BY DEF PullInv, PullType, PullRecords
  <2>2. [pull[p] EXCEPT !.at = "unpack", !.todo = @ \ {x}] \in PullRecords
    BY <2>1, PullAdvances DEF PullStates
  <2>3. pull' = [pull EXCEPT ![p] = [pull[p] EXCEPT !.at = "unpack", !.todo = @ \ {x}]]
    BY <1>1 DEF PullInv, PullType
  <2> QED
    BY <2>2, <2>3 DEF PullInv, PullType
<1>4. PlaceInv'
  <2>1. x \notin {"new", "failed"} /\ "unpack" \notin Files
    BY FilesAreNoStates
  <2>2. \A y \in Files : y \notin pull[p].todo \ {x} => Touched(p, y)
    BY <1>1, <2>1 DEF PullInv, PlaceInv
  <2>3. \A q \in Pulls, y \in Files : Touched(q, y) => Touched(q, y)'
    BY <1>1, <1>2 DEF Touched
  <2>4. /\ pull'[p].at = "unpack" /\ pull'[p].folder \in Folders
        /\ \A y \in Files : y \notin pull'[p].todo \/ y = pull'[p].at => Touched(p, y)'
    BY <1>1, <1>2, <2>1, <2>2, <2>3
  <2> QED
    BY <1>2, <2>3, <2>4 DEF PullInv, PlaceInv
<1>5. CASE Copy(p, x)
  <2>1. /\ unwritten' = [unwritten EXCEPT ![p] = @ \ {x}]
        /\ \/ disk' = [disk EXCEPT ![f][x] = "whole"]
           \/ last[f][x] # p /\ disk' = disk
    BY <1>5 DEF Copy
  <2>2. disk' \in [Folders -> [Files -> {"absent", "cut", "whole"}]]
    <3>1. CASE disk' = [disk EXCEPT ![f][x] = "whole"]
      BY <1>1, <3>1 DEF PullInv, PullType
    <3>2. CASE disk' = disk
      BY <3>2 DEF PullInv, PullType
    <3> QED
      BY <2>1, <3>1, <3>2
  <2>3. PullType'
    BY <1>1, <1>3, <2>1, <2>2 DEF PullInv, PullType
  <2>4. \A g \in Folders, y \in Files :
          /\ disk'[g][y] = disk[g][y] \/ disk'[g][y] = "whole"
          /\ g = f /\ y = x /\ last[g][y] = p => disk'[g][y] = "whole"
    BY <1>1, <2>1 DEF PullInv, PullType
  <2>5. ASSUME NEW g \in Folders, NEW y \in Files, disk'[g][y] = "cut"
        PROVE  last[g][y] # Nobody /\ y \in unwritten'[last[g][y]]
    <3>1. /\ last[g][y] # Nobody /\ last[g][y] \in Pulls
          /\ y \in unwritten[last[g][y]] /\ pull[last[g][y]].folder = g
      BY <2>4, <2>5 DEF PullInv, PullType, FileInv
    <3>2. ~(last[g][y] = p /\ y = x)
      BY <2>4, <2>5, <3>1
    <3> QED
      BY <2>1, <3>1, <3>2 DEF PullInv, PullType
  <2>6. ASSUME NEW g \in Folders, NEW y \in Files, last[g][y] # Nobody
        PROVE  disk'[g][y] # "absent" /\ pull'[last[g][y]].folder = g
    <3>1. /\ last[g][y] \in Pulls /\ disk[g][y] # "absent"
          /\ pull[last[g][y]].folder = g
      BY <2>6 DEF PullInv, PullType, FileInv
    <3> QED
      BY <1>2, <2>4, <3>1
  <2>7. ASSUME NEW g \in Folders, NEW y \in Files
        PROVE  /\ last'[g][y] # Nobody =>
                    disk'[g][y] # "absent" /\ pull'[last'[g][y]].folder = g
               /\ disk'[g][y] = "cut" =>
                    last'[g][y] # Nobody /\ y \in unwritten'[last'[g][y]]
    <3>1. last'[g][y] = last[g][y]
      BY <1>1
    <3> QED
      BY <2>5, <2>6, <3>1
  <2>8. FileInv'
    BY <2>7 DEF FileInv
  <2> QED
    BY <1>4, <2>3, <2>8 DEF PullInv
<1>6. CASE CloseFails(p, x)
  <2>1. PullType' /\ FileInv'
    BY <1>1, <1>2, <1>3, <1>6 DEF PullInv, PullType, FileInv, CloseFails
  <2> QED
    BY <1>4, <2>1 DEF PullInv
<1> QED
  BY <1>5, <1>6

LEMMA PullEnds ==
  ASSUME PullInv, NEW p \in Pulls, FinishPull(p) \/ PullFails(p)
  PROVE  PullInv'
<1>1. /\ \A q \in Pulls : pull'[q].folder = pull[q].folder /\ pull'[q].todo = pull[q].todo
      /\ \A q \in Pulls \ {p} : pull'[q].at = pull[q].at
      /\ \/ pull'[p].at = "failed"
         \/ pull[p].at = "unpack" /\ pull[p].todo = {} /\ pull'[p].at = "pulled"
      /\ UNCHANGED <<disk, last, unwritten>>
  BY DEF PullInv, PullType, PullRecords, FinishPull, PullFails
<1>2. PullType'
  <2>1. PICK a \in PullStates : pull' = [pull EXCEPT ![p].at = a]
    BY DEF FinishPull, PullFails, PullStates
  <2> QED
    BY <1>1, <2>1 DEF PullInv, PullType, PullRecords
<1>3. PlaceInv'
  BY <1>1, FilesAreNoStates DEF PullInv, PlaceInv, Touched
<1>4. FileInv'
  BY <1>1 DEF PullInv, PullType, FileInv
<1> QED
  BY <1>2, <1>3, <1>4 DEF PullInv

LEMMA PullKeeps ==
  ASSUME PullInv, PullNext
  PROVE  PullInv'
  BY PullAnswered, PullTruncates, PullCopies, PullEnds DEF PullNext, PullStep

LEMMA PullFrame == PullInv /\ UNCHANGED pullVars => PullInv'
  BY DEF PullInv, PullType, PlaceInv, FileInv, Touched, pullVars

LEMMA PullInvEnough == PullInv => PulledWhole
  BY FilesAreNoStates DEF PullInv, PlaceInv, FileInv, Touched, PulledWhole

(***************************************************************************)
(* Deployments.                                                            *)
(***************************************************************************)
Stages == {"new", "flush", "context", "build", "create", "start", "up", "failed"}

DeployType ==
  /\ now \in 1..MaxTime
  /\ recipe \in [Paths -> Recipes \cup {Nothing}]
  /\ deploy \in [Deploys -> Stages]
  /\ place \in [Deploys -> Paths \cup {Nothing}]
  /\ context \in [Deploys -> Recipes \cup {Nothing}]
  /\ tag \in [Deploys -> 0..MaxTime]
  /\ images \in [1..MaxTime -> Recipes \cup {Nothing}]
  /\ \A c \in containers : c.by \in Deploys /\ c.of \in Recipes

(* Deployments have a folder while they count on its Dockerfile.ic, and an *)
(* image name once they have read the context; only those without a        *)
(* Dockerfile have one to flush.                                           *)
StageInv ==
  \A d \in Deploys :
    /\ deploy[d] = "flush" => d \in Generated
    /\ deploy[d] \in {"flush", "context"} => place[d] \in Paths
    /\ deploy[d] \in {"new", "flush", "context"} => tag[d] = 0
    /\ deploy[d] \in {"build", "create", "start", "up"} => tag[d] # 0

Counts(d, f) == d \in CountingOn(f)

(* Those that count on one Dockerfile.ic have met, and what each of them   *)
(* finds in it is its own or of one it met; so is the context of each.     *)
(* Nobody has a recipe there before it is flushed.                         *)
RecipeInv ==
  /\ \A f \in Paths : \A d, e \in Generated :
       d # e /\ Counts(d, f) /\ Counts(e, f) => <<d, e>> \in met
  /\ \A f \in Paths : \A d \in Generated :
       Counts(d, f) /\ recipe[f] # Nothing => Own(d, recipe[f])
  /\ \A f \in Paths : recipe[f] # Nothing =>
       Unspoilt(recipe[f]) /\ deploy[recipe[f].by] \notin {"new", "flush"}
  /\ \A d \in Deploys :
       tag[d] # 0 /\ context[d] # Nothing => Own(d, context[d]) /\ Unspoilt(context[d])

(* An image has a recipe that one of those who took its name can run.      *)
Built(t, r) ==
  /\ \E d \in Deploys : tag[d] = t /\ Own(d, r)
  /\ Unspoilt(r)

ImageInv ==
  /\ \A t \in 1..MaxTime : images[t] # Nothing => Built(t, images[t])
  /\ \A c \in containers : tag[c.by] # 0 /\ Built(tag[c.by], c.of)

DeployInv ==
  /\ DeployType
  /\ StageInv
  /\ RecipeInv
  /\ ImageInv

LEMMA DeployStart == DeployInit => DeployInv
  BY CommandsKnown
  DEF DeployInit, DeployInv, DeployType, StageInv, RecipeInv, ImageInv, Stages, Counts, CountingOn

(* What was a deployment's own or excused stays so.                        *)
LEMMA HistoryGrows ==
  ASSUME met \subseteq met', short \subseteq short', NEW r
  PROVE  /\ \A d \in Deploys : Own(d, r) => Own(d, r)'
         /\ Unspoilt(r) => Unspoilt(r)'
  BY DEF Own, Unspoilt

LEMMA GenerateKeeps ==
  ASSUME DeployInv, NEW d \in Deploys, NEW f \in Paths, Generate(d, f)
  PROVE  DeployInv'
<1>1. /\ d \in Generated /\ Generated \subseteq Deploys
      /\ deploy[d] = "new"
      /\ deploy' = [deploy EXCEPT ![d] = "flush"]
      /\ place' = [place EXCEPT ![d] = f]
      /\ recipe' = [recipe EXCEPT ![f] = Nothing]
      /\ met' = met \cup ({d} \X CountingOn(f)) \cup (CountingOn(f) \X {d})
      /\ UNCHANGED <<now, context, tag, images, containers, short>>
  BY CommandsKnown DEF Generate, At, dockerVars
<1>2. /\ met \subseteq met' /\ short \subseteq short'
      /\ \A e \in CountingOn(f) : <<d, e>> \in met' /\ <<e, d>> \in met'
  BY <1>1
<1>3. /\ \A r : \A e \in Deploys : Own(e, r) => Own(e, r)'
      /\ \A r : Unspoilt(r) => Unspoilt(r)'
  BY <1>2, HistoryGrows
<1>4. DeployType' /\ StageInv'
  BY <1>1 DEF DeployInv, DeployType, StageInv, Stages
<1>5. /\ \A e \in Generated \ {d}, g \in Paths : Counts(e, g)' <=> Counts(e, g)
      /\ \A g \in Paths : Counts(d, g)' => g = f
  BY <1>1 DEF DeployInv, DeployType, Counts, CountingOn
<1>6. RecipeInv'
  <2>1. ASSUME NEW g \in Paths, NEW a \in Generated, NEW e \in Generated,
               a # e, Counts(a, g)', Counts(e, g)'
        PROVE  <<a, e>> \in met'
    BY <1>2, <1>5, <2>1 DEF DeployInv, RecipeInv, Counts
  <2>2. \A g \in Paths : recipe'[g] # Nothing => recipe'[g] = recipe[g] /\ g # f
    BY <1>1 DEF DeployInv, DeployType
  <2>3. \A g \in Paths : \A a \in Generated :
          Counts(a, g)' /\ recipe'[g] # Nothing => Own(a, recipe[g])'
    BY <1>1, <1>3, <1>5, <2>2 DEF DeployInv, RecipeInv
  <2>4. \A g \in Paths : recipe'[g] # Nothing =>
          Unspoilt(recipe[g])' /\ deploy'[recipe'[g].by] \notin {"new", "flush"}
    BY <1>1, <1>3, <2>2 DEF DeployInv, DeployType, Recipes, RecipeInv
  <2> QED
    BY <1>1, <1>3, <2>1, <2>2, <2>3, <2>4 DEF DeployInv, RecipeInv, Own, Unspoilt
<1>7. ImageInv'
  BY <1>1, <1>2 DEF DeployInv, ImageInv, Built, Own, Unspoilt
<1> QED
  BY <1>4, <1>6, <1>7 DEF DeployInv

LEMMA FlushKeeps ==
  ASSUME DeployInv, NEW d \in Deploys, Flush(d) \/ FlushFails(d)
  PROVE  DeployInv'
<1> DEFINE f == place[d]
<1>1. /\ d \in Generated /\ Generated \subseteq Deploys
      /\ deploy[d] = "flush" /\ f \in Paths
      /\ deploy' = [deploy EXCEPT ![d] = "context"]
      /\ met' = met /\ short \subseteq short'
      /\ UNCHANGED <<now, place, context, tag, images, containers>>
  BY CommandsKnown DEF DeployInv, StageInv, Flush, FlushFails, At, dockerVars, metVars
<1>2. \/ recipe' = recipe
      \/ recipe' = [recipe EXCEPT ![f] = Whole(d)]
      \/ recipe' = [recipe EXCEPT ![f] = Spoilt(d)] /\ (recipe[f] # Nothing \/ d \in short')
  BY <1>1 DEF Flush, FlushFails
<1>3. /\ Whole(d) \in Recipes /\ Whole(d).by = d /\ Whole(d).whole
      /\ Spoilt(d) \in Recipes /\ Spoilt(d).by = d
  BY DEF Recipes, Whole, Spoilt
<1>4. DeployType' /\ StageInv'
  BY <1>1, <1>2, <1>3 DEF DeployInv, DeployType, StageInv, Stages
<1>5. \A e \in Generated, g \in Paths : Counts(e, g)' <=> Counts(e, g)
  BY <1>1 DEF DeployInv, DeployType, Counts, CountingOn
<1>6. \A g \in Paths : recipe'[g] # Nothing =>
        \/ recipe'[g] = recipe[g]
        \/ g = f /\ recipe'[g].by = d /\ Unspoilt(recipe[g])'
  <2>1. CASE recipe' = recipe
    BY <2>1
  <2>2. CASE recipe' = [recipe EXCEPT ![f] = Whole(d)]
    BY <1>1, <1>3, <2>2 DEF DeployInv, DeployType, Unspoilt
  <2>3. CASE recipe' = [recipe EXCEPT ![f] = Spoilt(d)] /\ (recipe[f] # Nothing \/ d \in short')
    <3>1. CASE d \in short'
      BY <1>1, <1>3, <2>3, <3>1 DEF DeployInv, DeployType, Unspoilt
    <3>2. CASE recipe[f] # Nothing
      <4>1. Own(d, recipe[f]) /\ recipe[f].by # d /\ recipe[f] \in Recipes
        BY <1>1, <3>2 DEF DeployInv, DeployType, RecipeInv, Counts, CountingOn
      <4> QED
        BY <1>1, <1>3, <2>3, <4>1 DEF DeployInv, DeployType, Recipes, Own, Unspoilt
    <3> QED
      BY <2>3, <3>1, <3>2
  <2> QED
    BY <1>2, <2>1, <2>2, <2>3
<1>7. RecipeInv'
  <2>1. ASSUME NEW g \in Paths, NEW a \in Generated, Counts(a, g)', recipe'[g] # Nothing
        PROVE  Own(a, recipe[g])'
    <3>1. CASE recipe'[g] = recipe[g]
      BY <1>1, <1>5, <2>1, <3>1 DEF DeployInv, RecipeInv, Own
    <3>2. CASE g = f /\ recipe'[g].by = d
      <4>1. a = d \/ <<a, d>> \in met
        BY <1>1, <1>5, <2>1, <3>2 DEF DeployInv, RecipeInv, Counts, CountingOn
      <4> QED
        BY <1>1, <3>2, <4>1 DEF Own
    <3> QED
      BY <1>6, <2>1, <3>1, <3>2
  <2>2. ASSUME NEW g \in Paths, recipe'[g] # Nothing
        PROVE  Unspoilt(recipe[g])' /\ deploy'[recipe'[g].by] \notin {"new", "flush"}
    <3>1. CASE recipe'[g] = recipe[g]
      <4>1. Unspoilt(recipe[g])'
        BY <1>1, <2>2, <3>1 DEF DeployInv, RecipeInv, Unspoilt
      <4> QED
        BY <1>1, <2>2, <3>1, <4>1 DEF DeployInv, DeployType, Recipes, RecipeInv
    <3>2. CASE recipe'[g].by = d /\ Unspoilt(recipe[g])'
      BY <1>1, <3>2 DEF DeployInv, DeployType
    <3> QED
      BY <1>6, <2>2, <3>1, <3>2
  <2> QED
    BY <1>1, <1>5, <2>1, <2>2 DEF DeployInv, RecipeInv, Own, Unspoilt
<1>8. ImageInv'
  BY <1>1 DEF DeployInv, ImageInv, Built, Own, Unspoilt
<1> QED
  BY <1>4, <1>7, <1>8 DEF DeployInv

LEMMA DeployKeeps ==
  ASSUME DeployInv, NEW d \in Deploys, NEW f \in Paths, NEW n \in Ports, Deploy(d, f, n)
  PROVE  DeployInv'
<1>1. PICK to \in {"context", "failed"} :
        /\ deploy[d] = "new"
        /\ deploy' = [deploy EXCEPT ![d] = to]
  BY DEF Deploy, At
<1>2. /\ d \notin Generated /\ Generated \subseteq Deploys
      /\ place' = [place EXCEPT ![d] = f]
      /\ UNCHANGED <<now, recipe, context, tag, images, containers, met, short>>
  BY CommandsKnown DEF Deploy, hostVars, dockerVars, metVars
<1>3. DeployType' /\ StageInv'
  BY <1>1, <1>2 DEF DeployInv, DeployType, StageInv, Stages
<1>4. \A e \in Generated, g \in Paths : Counts(e, g)' <=> Counts(e, g)
  BY <1>1, <1>2 DEF DeployInv, DeployType, Counts, CountingOn
<1>5. RecipeInv'
  BY <1>1, <1>2, <1>4 DEF DeployInv, DeployType, Recipes, RecipeInv, Own, Unspoilt
<1>6. ImageInv'
  BY <1>2 DEF DeployInv, ImageInv, Built, Own, Unspoilt
<1> QED
  BY <1>3, <1>5, <1>6 DEF DeployInv

LEMMA ReadContextKeeps ==
  ASSUME DeployInv, NEW d \in Deploys, ReadContext(d)
  PROVE  DeployInv'
<1> DEFINE read == IF d \in Generated THEN recipe[place[d]] ELSE Whole(d)
<1>1. /\ Generated \subseteq Deploys
      /\ deploy[d] = "context"
      /\ deploy' = [deploy EXCEPT ![d] = "build"]
      /\ context' = [context EXCEPT ![d] = read]
      /\ tag' = [tag EXCEPT ![d] = now]
      /\ UNCHANGED <<now, recipe, place, images, containers, met, short>>
  BY CommandsKnown DEF ReadContext, At, hostVars, dockerVars, metVars
<1>2. tag[d] = 0 /\ place[d] \in Paths /\ now \in 1..MaxTime
  BY <1>1 DEF DeployInv, DeployType, StageInv
<1>3. read \in Recipes \cup {Nothing}
  BY <1>2 DEF DeployInv, DeployType, Recipes, Whole
<1>4. read # Nothing => Own(d, read) /\ Unspoilt(read)
  <2>1. CASE d \in Generated
    BY <1>1, <1>2, <2>1 DEF DeployInv, RecipeInv, Counts, CountingOn
  <2>2. CASE d \notin Generated
    BY <2>2 DEF Whole, Own, Unspoilt
  <2> QED
    BY <2>1, <2>2
<1> HIDE DEF read
<1>5. DeployType' /\ StageInv'
  BY <1>1, <1>2, <1>3, CommandsKnown DEF DeployInv, DeployType, StageInv, Stages
<1>6. \A e \in Generated, g \in Paths : Counts(e, g)' => Counts(e, g)
  BY <1>1 DEF DeployInv, DeployType, Counts, CountingOn
<1>7. RecipeInv'
  BY <1>1, <1>4, <1>6 DEF DeployInv, DeployType, Recipes, RecipeInv, Own, Unspoilt
<1>8. \A e \in Deploys : tag[e] # 0 => tag'[e] = tag[e]
  BY <1>1, <1>2 DEF DeployInv, DeployType
<1>9. \A c \in containers : tag'[c.by] = tag[c.by] /\ tag[c.by] \in Nat \ {0}
  BY <1>8 DEF DeployInv, DeployType, ImageInv
<1>10. ImageInv'
  <2>1. ASSUME NEW t \in 1..MaxTime, images[t] # Nothing PROVE Built(t, images[t])'
    <3>1. t \in Nat \ {0} /\ Built(t, images[t])
      BY <2>1, CommandsKnown DEF DeployInv, ImageInv
    <3> QED
      BY <1>1, <1>8, <3>1 DEF Built, Own, Unspoilt
  <2>2. ASSUME NEW c \in containers PROVE tag'[c.by] # 0 /\ Built(tag[c.by], c.of)'
    BY <1>1, <1>8, <1>9, <2>2 DEF DeployInv, ImageInv, Built, Own, Unspoilt
  <2> QED
    BY <1>1, <2>1, <2>2 DEF ImageInv
<1> QED
  BY <1>5, <1>7, <1>10 DEF DeployInv

LEMMA BuildKeeps ==
  ASSUME DeployInv, NEW d \in Deploys, Build(d)
  PROVE  DeployInv'
<1>1. /\ Generated \subseteq Deploys
      /\ deploy[d] = "build"
      /\ deploy' = [deploy EXCEPT ![d] = "create"]
      /\ \/ images' = images
         \/ context[d] # Nothing /\ images' = [images EXCEPT ![tag[d]] = context[d]]
      /\ UNCHANGED <<now, recipe, place, context, tag, containers, met, short>>
  BY CommandsKnown DEF Build, At, hostVars, metVars
<1>2. tag[d] \in 1..MaxTime
  BY <1>1 DEF DeployInv, DeployType, StageInv
<1>3. DeployType' /\ StageInv'
  BY <1>1, <1>2 DEF DeployInv, DeployType, StageInv, Stages
<1>4. \A e \in Generated, g \in Paths : Counts(e, g)' => Counts(e, g)
  BY <1>1 DEF DeployInv, DeployType, Counts, CountingOn
<1>5. RecipeInv'
  BY <1>1, <1>4 DEF DeployInv, DeployType, Recipes, RecipeInv, Own, Unspoilt
<1>6. context[d] # Nothing => Built(tag[d], context[d])
  BY <1>2 DEF DeployInv, RecipeInv, Built
<1>7. \A t \in 1..MaxTime : images'[t] # Nothing => Built(t, images'[t])
  BY <1>1, <1>2, <1>6 DEF DeployInv, DeployType, ImageInv
<1>8. ImageInv'
  BY <1>1, <1>7 DEF DeployInv, ImageInv, Built, Own, Unspoilt
<1> QED
  BY <1>3, <1>5, <1>8 DEF DeployInv

LEMMA CreateKeeps ==
  ASSUME DeployInv, NEW d \in Deploys, Create(d)
  PROVE  DeployInv'
<1> DEFINE made == [name |-> now, by |-> d, of |-> images[tag[d]], port |-> port[d]]
<1>1. PICK to \in {"start", "failed"} :
        /\ deploy[d] = "create"
        /\ deploy' = [deploy EXCEPT ![d] = to]
  BY DEF Create, At
<1>2. /\ Generated \subseteq Deploys
      /\ UNCHANGED <<now, recipe, place, context, tag, images, met, short>>
      /\ \/ containers' = containers
         \/ images[tag[d]] # Nothing /\ containers' = containers \cup {made}
  BY CommandsKnown DEF Create, hostVars, metVars
<1>3. made.by = d /\ made.of = images[tag[d]]
  OBVIOUS
<1> HIDE DEF made
<1>4. tag[d] \in 1..MaxTime
  BY <1>1 DEF DeployInv, DeployType, StageInv
<1>5. DeployType' /\ StageInv'
  BY <1>1, <1>2, <1>3, <1>4 DEF DeployInv, DeployType, StageInv, Stages
<1>6. \A e \in Generated, g \in Paths : Counts(e, g)' => Counts(e, g)
  BY <1>1, <1>2 DEF DeployInv, DeployType, Counts, CountingOn
<1>7. RecipeInv'
  BY <1>1, <1>2, <1>6 DEF DeployInv, DeployType, Recipes, RecipeInv, Own, Unspoilt
<1>8. \A t, r : Built(t, r) => Built(t, r)'
  BY <1>2 DEF Built, Own, Unspoilt
<1>9. ImageInv'
  BY <1>2, <1>3, <1>4, <1>8 DEF DeployInv, ImageInv
<1> QED
  BY <1>5, <1>7, <1>9 DEF DeployInv

LEMMA OtherDeployKeeps ==
  ASSUME DeployInv, NEW d \in Deploys, Start(d) \/ DeployFails(d)
  PROVE  DeployInv'
<1>1. /\ Generated \subseteq Deploys
      /\ UNCHANGED <<now, recipe, place, context, tag, images, containers, met, short>>
  BY CommandsKnown DEF Start, DeployFails, hostVars, dockerVars, metVars
<1>2. PICK to \in {"up", "failed"} :
        /\ deploy[d] \notin {"new", "up", "failed"}
        /\ deploy[d] # "start" => to = "failed"
        /\ deploy' = [deploy EXCEPT ![d] = to]
  BY DEF Start, DeployFails, At
<1>3. DeployType' /\ StageInv'
  BY <1>1, <1>2 DEF DeployInv, DeployType, StageInv, Stages
<1>4. \A e \in Generated, g \in Paths : Counts(e, g)' => Counts(e, g)
  BY <1>1, <1>2 DEF DeployInv, DeployType, Counts, CountingOn
<1>5. RecipeInv'
  BY <1>1, <1>2, <1>4 DEF DeployInv, DeployType, Recipes, RecipeInv, Own, Unspoilt
<1>6. ImageInv'
  BY <1>1 DEF DeployInv, ImageInv, Built, Own, Unspoilt
<1> QED
  BY <1>3, <1>5, <1>6 DEF DeployInv

LEMMA TickKeeps == DeployInv /\ Tick => DeployInv'
<1> SUFFICES ASSUME DeployInv, Tick PROVE DeployInv'
  OBVIOUS
<1>1. UNCHANGED <<recipe, deploy, place, context, tag, images, containers, met, short>>
  BY DEF Tick, dockerVars, callVars, metVars
<1>2. DeployType'
  BY <1>1, CommandsKnown DEF DeployInv, DeployType, Tick
<1>3. StageInv' /\ RecipeInv' /\ ImageInv'
  BY <1>1 DEF DeployInv, StageInv, RecipeInv, ImageInv, Built, Own, Unspoilt, Counts, CountingOn
<1> QED
  BY <1>2, <1>3 DEF DeployInv

LEMMA DeploymentsKeep == DeployInv /\ DeployNext => DeployInv'
  BY GenerateKeeps, FlushKeeps, DeployKeeps, ReadContextKeeps, BuildKeeps, CreateKeeps,
     OtherDeployKeeps, TickKeeps
  DEF DeployNext, DeployStep

LEMMA DeployFrame == DeployInv /\ UNCHANGED deployVars => DeployInv'
<1> SUFFICES ASSUME DeployInv, UNCHANGED deployVars PROVE DeployInv'
  OBVIOUS
<1>1. UNCHANGED <<now, recipe, deploy, place, context, tag, images, containers, met, short>>
  BY DEF deployVars, hostVars, dockerVars, callVars, metVars
<1> QED
  BY <1>1 DEF DeployInv, DeployType, StageInv, RecipeInv, ImageInv, Built, Own, Unspoilt, Counts,
              CountingOn

(***************************************************************************)
(* All of it.                                                              *)
(***************************************************************************)
Inv == AccountsInv /\ PullInv /\ DeployInv

LEMMA InvInductive == Inv /\ [Next]_vars => Inv'
<1> SUFFICES ASSUME Inv, [Next]_vars PROVE Inv'
  OBVIOUS
<1>1. AccountsInv' \/ AccountsNext
  BY AccountsFrame DEF Inv, Next, vars
<1>2. PullInv' \/ PullNext
  BY PullFrame DEF Inv, Next, vars
<1>3. DeployInv' \/ DeployNext
  BY DeployFrame DEF Inv, Next, vars
<1> QED
  BY <1>1, <1>2, <1>3, AccountsKeep, PullKeeps, DeploymentsKeep DEF Inv, PullNext

LEMMA AlwaysInv == Spec => []Inv
<1>1. Init => Inv
  BY AccountsStart, PullStart, DeployStart DEF Init, Inv
<1> QED
  BY <1>1, InvInductive, PTL DEF Spec

(* No two commands that ran to their end have signed up one email, though  *)
(* each looks for the account before it hashes the password and inserts    *)
(* after: the unique column decides.                                       *)
THEOREM SignedUpOnceHolds == Spec => []SignedUpOnce
<1>1. Inv => SignedUpOnce
  BY DEF Inv, AccountsInv, SignUpInv, Inserted, SignedUpOnce
<1> QED
  BY <1>1, AlwaysInv, PTL

(* Only tokens GitHub has accepted are stored, and a save that ran to its  *)
(* end has left its user one, whatever other saves did in between.         *)
THEOREM TokenStandsHolds == Spec => []TokenStands
<1>1. Inv => TokenStands
  BY DEF Inv, AccountsInv, TokenInv, TokenStands
<1> QED
  BY <1>1, AlwaysInv, PTL

(* Where a pull has ended well every file is there, and one that is not    *)
(* whole was truncated last by a command that has not written all of it.   *)
THEOREM PulledWholeHolds == Spec => []PulledWhole
<1>1. Inv => PulledWhole
  BY PullInvEnough DEF Inv
<1> QED
  BY <1>1, AlwaysInv, PTL

(* A deployment that reports success runs its own recipe or, if it met     *)
(* another one in its folder or in its image name, the recipe of that one; *)
(* and all of it, unless it was not written in full or was met.            *)
THEOREM DeployedAsAskedHolds == Spec => []DeployedAsAsked
<1>1. Inv => DeployedAsAsked
  BY DEF Inv, DeployInv, ImageInv, Built, DeployedAsAsked
<1> QED
  BY <1>1, AlwaysInv, PTL
=============================================================================
