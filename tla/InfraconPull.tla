---------------------------- MODULE InfraconPull ----------------------------
(***************************************************************************)
(* pullFromGithub of infracon: commands that unpack a commit from GitHub.  *)
(*                                                                         *)
(* A command reads the archive into memory and writes it file by file into *)
(* a folder named by the commit, truncating each file first.  Commands     *)
(* that pull one commit share the folder.                                  *)
(***************************************************************************)
CONSTANTS
  Pulls,    \* commands that pull, each given once
  Folders,  \* folders of commits
  Files,    \* files of a commit
  Nowhere,  \* no folder
  Nobody    \* no command

ASSUME NowhereIsNoFolder == Nowhere \notin Folders
ASSUME NobodyPulls == Nobody \notin Pulls
ASSUME FilesAreNoStates == Files \cap {"new", "unpack", "pulled", "failed"} = {}

VARIABLES
  disk,       \* each file of each folder: absent, cut (not all there) or whole
  pull,       \* each command: its state, its folder and the files to come
  last,       \* history: who truncated each file of each folder last
  unwritten   \* history: files each command truncated and did not write in full

pullVars == <<disk, pull, last, unwritten>>

PullInit ==
  /\ disk = [f \in Folders |-> [x \in Files |-> "absent"]]
  /\ pull = [p \in Pulls |-> [at |-> "new", folder |-> Nowhere, todo |-> {}]]
  /\ last = [f \in Folders |-> [x \in Files |-> Nobody]]
  /\ unwritten = [p \in Pulls |-> {}]

(* GitHub answers with the archive of the commit, or the command ends: on  *)
(* an error, or on an answer other than 200, which it reports as success   *)
(* with an empty hash.                                                     *)
Pull(p, f) ==
  /\ pull[p].at = "new"
  /\ \/ pull' = [pull EXCEPT ![p] = [at |-> "unpack", folder |-> f, todo |-> Files]]
     \/ pull' = [pull EXCEPT ![p].at = "failed"]
  /\ UNCHANGED <<disk, last, unwritten>>

Truncate(p, x) ==
  /\ pull[p].at = "unpack"
  /\ x \in pull[p].todo
  /\ disk' = [disk EXCEPT ![pull[p].folder][x] = "cut"]
  /\ pull' = [pull EXCEPT ![p].at = x]
  /\ last' = [last EXCEPT ![pull[p].folder][x] = p]
  /\ unwritten' = [unwritten EXCEPT ![p] = @ \cup {x}]

CopyAnyway(p, x) ==  \* mutant: an error of the copy is not looked at
  /\ pull[p].at = x
  /\ disk' \in {disk, [disk EXCEPT ![pull[p].folder][x] = "whole"]}
  /\ pull' = [pull EXCEPT ![p].at = "unpack", ![p].todo = @ \ {x}]
  /\ unwritten' = [unwritten EXCEPT ![p] = @ \ {x}]
  /\ UNCHANGED last

(* What another command truncated meanwhile can miss what was written      *)
(* before that.                                                            *)
Copy(p, x) ==
  LET f == pull[p].folder IN
  /\ pull[p].at = x
  /\ \/ disk' = [disk EXCEPT ![f][x] = "whole"]
     \/ last[f][x] # p /\ UNCHANGED disk
  /\ pull' = [pull EXCEPT ![p].at = "unpack", ![p].todo = @ \ {x}]
  /\ unwritten' = [unwritten EXCEPT ![p] = @ \ {x}]
  /\ UNCHANGED last

(* The copy succeeds, but closing the file fails, so that not all of it    *)
(* gets to the disk; nobody looks at that error.                           *)
CloseFails(p, x) ==
  /\ pull[p].at = x
  /\ pull' = [pull EXCEPT ![p].at = "unpack", ![p].todo = @ \ {x}]
  /\ UNCHANGED <<disk, last, unwritten>>

(* The command prints the hash of the commit.                              *)
FinishPull(p) ==
  /\ pull[p].at = "unpack"
  /\ pull[p].todo = {}
  /\ pull' = [pull EXCEPT ![p].at = "pulled"]
  /\ UNCHANGED <<disk, last, unwritten>>

(* Any other call fails, or the command is interrupted.                    *)
PullFails(p) ==
  /\ pull[p].at \notin {"new", "pulled", "failed"}
  /\ pull' = [pull EXCEPT ![p].at = "failed"]
  /\ UNCHANGED <<disk, last, unwritten>>

PullStep(p) ==
  \/ \E f \in Folders : Pull(p, f)
  \/ \E x \in Files : Truncate(p, x) \/ Copy(p, x) \/ CloseFails(p, x)
  \/ FinishPull(p) \/ PullFails(p)

PullNext == \E p \in Pulls : PullStep(p)

(***************************************************************************)
(* Properties.                                                             *)
(***************************************************************************)
(* Where a pull has ended well every file is there, and one that is not    *)
(* whole was truncated last by a command that has not written all of it:   *)
(* one that is still at it, failed there, or lost some when closing it.    *)
(* So a pull that nobody overtook and whose files were closed in full left *)
(* whole files, whatever pulls had failed before it.                       *)
PulledWhole ==
  \A p \in Pulls : pull[p].at = "pulled" =>
    \A x \in Files :
      LET f == pull[p].folder IN
      /\ disk[f][x] # "absent"
      /\ disk[f][x] = "cut" => x \in unwritten[last[f][x]]
=============================================================================
