--------------------------- MODULE InfraconDeploy ---------------------------
(***************************************************************************)
(* Deployments of infracon: the commands that deploy a folder through      *)
(* Docker, with its Dockerfile or with a generated one.                    *)
(*                                                                         *)
(* A generated Dockerfile.ic is written into the folder; images and        *)
(* containers are named by the millisecond.  An error of the build itself  *)
(* comes in the stream that the command copies to its output, and the      *)
(* command goes on.  Docker is modelled by what the commands ask of it.    *)
(* The folder and its Dockerfile are there or not; the rest of the folder  *)
(* is not looked at.                                                       *)
(***************************************************************************)
EXTENDS Naturals

CONSTANTS
  Deploys,      \* commands that deploy, each given once
  Generated,    \* those of them without a Dockerfile
  Paths,        \* folders to deploy
  Ports,        \* host ports a command may name
  DefaultPort,  \* the host port without a Dockerfile: 8000
  Nothing,      \* no recipe, no folder, no port
  MaxTime       \* bound of the model: milliseconds

ASSUME CommandsKnown == Generated \subseteq Deploys /\ MaxTime \in Nat \ {0}

VARIABLES
  now,         \* the time in milliseconds
  recipe,      \* the recipe in the Dockerfile.ic of each folder
  deploy,      \* where each deployment is
  place,       \* its folder
  port,        \* its host port
  context,     \* the recipe in the build context it has read
  tag,         \* the millisecond in the name of its image
  images,      \* Docker: the recipe each image was built from, by millisecond
  containers,  \* Docker: containers [name, by, of, port]
  running,     \* Docker: names of those that run
  met,         \* history: pairs that counted on one Dockerfile.ic at a time
  short        \* history: deployments whose Dockerfile.ic was not written in full

hostVars   == <<now, recipe>>
dockerVars == <<images, containers, running>>
callVars   == <<deploy, place, port, context, tag>>
metVars    == <<met, short>>
deployVars == <<hostVars, dockerVars, callVars, metVars>>

(* A recipe is a deployment's own, all of it, or else cut off or with      *)
(* remains of another one at its end.                                      *)
Recipes  == [by : Deploys, whole : BOOLEAN]
Whole(d) == [by |-> d, whole |-> TRUE]
Spoilt(d) == [by |-> d, whole |-> FALSE]

DeployInit ==
  /\ now        = 1
  /\ recipe     = [f \in Paths |-> Nothing]
  /\ deploy     = [d \in Deploys |-> "new"]
  /\ place      = [d \in Deploys |-> Nothing]
  /\ port       = [d \in Deploys |-> Nothing]
  /\ context    = [d \in Deploys |-> Nothing]
  /\ tag        = [d \in Deploys |-> 0]
  /\ images     = [t \in 1..MaxTime |-> Nothing]
  /\ containers = {}
  /\ running    = {}
  /\ met        = {}
  /\ short      = {}

Tick ==
  /\ now < MaxTime
  /\ now' = now + 1
  /\ UNCHANGED <<recipe, dockerVars, callVars, metVars>>

(***************************************************************************)
(* DeployApplicationWithoutDockerfile: generateDockerFile.                 *)
(***************************************************************************)
At(d, from, to) ==
  /\ deploy[d] = from
  /\ deploy' = [deploy EXCEPT ![d] = to]

(* Deployments that count on the Dockerfile.ic of the folder.              *)
CountingOn(f) == {d \in Generated : place[d] = f /\ deploy[d] \in {"flush", "context"}}

(* The file is created empty, or cannot be, and written when the buffer is *)
(* flushed.                                                                *)
Generate(d, f) ==
  /\ d \in Generated
  /\ At(d, "new", "flush")
  /\ place' = [place EXCEPT ![d] = f]
  /\ port' = [port EXCEPT ![d] = DefaultPort]
  /\ recipe' = [recipe EXCEPT ![f] = Nothing]
  /\ met' = met \cup ({d} \X CountingOn(f)) \cup (CountingOn(f) \X {d})
  /\ UNCHANGED <<now, dockerVars, context, tag, short>>

(* It is written over what another one wrote after the file was created.   *)
Flush(d) ==
  /\ At(d, "flush", "context")
  /\ \/ recipe' = [recipe EXCEPT ![place[d]] = Whole(d)]
     \/ /\ recipe[place[d]] # Nothing
        /\ recipe' = [recipe EXCEPT ![place[d]] = Spoilt(d)]
  /\ UNCHANGED <<now, dockerVars, place, port, context, tag, metVars>>

(* Nothing or not all of it can be written.  Nobody looks at the error,    *)
(* and the deployment goes on.                                             *)
FlushFails(d) ==
  /\ At(d, "flush", "context")
  /\ recipe' \in {recipe, [recipe EXCEPT ![place[d]] = Spoilt(d)]}
  /\ short' = short \cup {d}
  /\ UNCHANGED <<now, dockerVars, place, port, context, tag, met>>

(***************************************************************************)
(* DeployApplicationWithDockerfile.                                        *)
(***************************************************************************)
(* The folder is there with its Dockerfile, or the command ends.           *)
Deploy(d, f, n) ==
  /\ d \notin Generated
  /\ At(d, "new", "context") \/ At(d, "new", "failed")
  /\ place' = [place EXCEPT ![d] = f]
  /\ port' = [port EXCEPT ![d] = n]
  /\ UNCHANGED <<hostVars, dockerVars, context, tag, metVars>>

(* The folder is read into memory, and the image named by the time.        *)
ReadContext(d) ==
  /\ At(d, "context", "build")
  /\ context' = [context EXCEPT ![d] = IF d \in Generated THEN recipe[place[d]] ELSE Whole(d)]
  /\ tag' = [tag EXCEPT ![d] = now]
  /\ UNCHANGED <<hostVars, dockerVars, place, port, metVars>>

(* The image is built and tagged, or the stream tells of an error, as it   *)
(* does of an empty Dockerfile.                                            *)
Build(d) ==
  /\ At(d, "build", "create")
  /\ \/ context[d] # Nothing /\ images' = [images EXCEPT ![tag[d]] = context[d]]
     \/ UNCHANGED images
  /\ UNCHANGED <<hostVars, containers, running, place, port, context, tag, metVars>>

CreateNamedAgain(d) ==  \* mutant: the image is named by the time once more
  LET made == [name |-> now, by |-> d, of |-> images[now], port |-> port[d]] IN
  /\ At(d, "create", "start")
  /\ images[now] # Nothing
  /\ \A c \in containers : c.name # now
  /\ containers' = containers \cup {made}
  /\ UNCHANGED <<hostVars, images, running, place, port, context, tag, metVars>>

(* Docker refuses an image it does not know and a name that is taken.      *)
Create(d) ==
  LET made == [name |-> now, by |-> d, of |-> images[tag[d]], port |-> port[d]] IN
  /\ deploy[d] = "create"
  /\ \/ /\ images[tag[d]] # Nothing
        /\ \A c \in containers : c.name # now
        /\ At(d, "create", "start")
        /\ containers' = containers \cup {made}
     \/ /\ images[tag[d]] = Nothing \/ \E c \in containers : c.name = now
        /\ At(d, "create", "failed")
        /\ UNCHANGED containers
  /\ UNCHANGED <<hostVars, images, running, place, port, context, tag, metVars>>

(* A container whose port is taken does not start, and stays.              *)
Start(d) ==
  \E c \in containers :
    LET free == ~\E b \in containers : b.name \in running /\ b.port = c.port IN
    /\ c.by = d
    /\ At(d, "start", IF free THEN "up" ELSE "failed")
    /\ running' = IF free THEN running \cup {c.name} ELSE running
    /\ UNCHANGED <<hostVars, images, containers, place, port, context, tag, metVars>>

(* A call fails or the command is interrupted.                             *)
DeployFails(d) ==
  /\ deploy[d] \in {"flush", "context", "build", "create", "start"}
  /\ At(d, deploy[d], "failed")
  /\ UNCHANGED <<hostVars, dockerVars, place, port, context, tag, metVars>>

DeployStep(d) ==
  \/ \E f \in Paths : Generate(d, f) \/ \E n \in Ports : Deploy(d, f, n)
  \/ Flush(d) \/ FlushFails(d)
  \/ ReadContext(d) \/ Build(d) \/ Create(d) \/ Start(d) \/ DeployFails(d)

DeployNext ==
  \/ Tick
  \/ \E d \in Deploys : DeployStep(d)

(***************************************************************************)
(* Properties.                                                             *)
(***************************************************************************)
(* A deployment that reports success runs its own recipe, whatever failed  *)
(* in its build; or, if another one's Dockerfile.ic was in its folder at   *)
(* the same time or another one took its image name in the same            *)
(* millisecond, the recipe of that one.  It runs all of the recipe, unless *)
(* the file could not be written in full or was written by two.            *)
Own(d, r) == r.by = d \/ <<d, r.by>> \in met

Unspoilt(r) == r.whole \/ r.by \in short \/ \E e \in Deploys : <<r.by, e>> \in met

DeployedAsAsked ==
  \A c \in containers : deploy[c.by] = "up" =>
    /\ \E d \in Deploys : tag[d] = tag[c.by] /\ Own(d, c.of)
    /\ Unspoilt(c.of)
=============================================================================
