----------------------------- MODULE BinaryRunner ------------------------------
(***************************************************************************)
(* BinaryRunner: the functions directory, the lookups that scan it for the *)
(* function of an event, and the deployments that overwrite it meanwhile.  *)
(*                                                                         *)
(* Function n is a binary and a manifest n.json; functions are numbered in *)
(* the order in which ReadDir lists the manifests.  There is no lock:      *)
(* Lookup reads one manifest at a time, and Deploy truncates and writes    *)
(* first the binary, then the manifest.  A truncated or half-written file  *)
(* is "torn": such a manifest does not parse, such a binary still exists.  *)
(*                                                                         *)
(* The file system is external.  A payload is the set of "key":"value"     *)
(* literals it contains, as payloadMatches looks for them.                 *)
(***************************************************************************)
EXTENDS Naturals, FiniteSets

CONSTANTS N,          \* the number of function names
          Trigger,    \* the event topics
          Literal,    \* the "key":"value" literals a manifest can ask for
          Seed,       \* the functions the directory may come with
          Lookups,    \* the goroutines in Lookup
          Deployer,   \* the gRPC clients in DeployFunction
          MaxDeploys, \* bound on the number of deployments
          NoTrigger   \* no event topic

Name == 1..N
NoName == 0
Payload == SUBSET Literal
State == {"absent", "torn", "whole"}
Manifest == [state : State, trigger : Trigger, match : SUBSET Literal]
Function == [manifest : Manifest, binary : State]

AnyTrigger == CHOOSE t \in Trigger : TRUE
Unreadable(state) == [state |-> state, trigger |-> AnyTrigger, match |-> {}]
Asking(trigger, match) == [state |-> "whole", trigger |-> trigger, match |-> match]

ASSUME RunnerAssumption == /\ N \in Nat \ {0}
                           /\ Trigger # {}
                           /\ Seed \subseteq [Name -> Function]
                           /\ MaxDeploys \in Nat
                           /\ NoTrigger \notin Trigger

VARIABLES dir,      \* dir[n]: the files of function n
          lookup,   \* lookup[l]: the local variables of Lookup in l
          deploy,   \* deploy[d]: the local variables of Deploy in d
          deploys,  \* the number of deployments begun
          history   \* what has become of the deployments, see History

vars == <<dir, lookup, deploy, deploys, history>>
-----------------------------------------------------------------------------
\* Lookup in one goroutine: entries are the manifests listed and not yet read, name
\* is the one at hand.  steady looks back: the functions that have matched without
\* interruption since the listing.
Lookup == [at : {"idle", "scan", "stat", "found", "missed"}, trigger : Trigger,
           payload : Payload, entries : SUBSET Name, name : Name \cup {NoName},
           steady : SUBSET Name]

\* Deploy in one goroutine: the file it opens or writes next.
Deploy == [at : {"idle", "open binary", "write binary", "open manifest", "write manifest"},
           name : Name \cup {NoName}, trigger : Trigger]

\* done[n] is the trigger of the last deployment of n that returned without an
\* error; spoilt are the names of which a deployment has failed, or overlapped
\* with another one.
History == [done : [Name -> Trigger \cup {NoTrigger}], spoilt : SUBSET Name]

NoLookup == [at |-> "idle", trigger |-> AnyTrigger, payload |-> {}, entries |-> {},
             name |-> NoName, steady |-> {}]
NoDeploy == [at |-> "idle", name |-> NoName, trigger |-> AnyTrigger]

Init ==
    /\ dir \in Seed
    /\ lookup = [l \in Lookups |-> NoLookup]
    /\ deploy = [d \in Deployer |-> NoDeploy]
    /\ deploys = 0
    /\ history = [done |-> [n \in Name |-> NoTrigger], spoilt |-> {}]

Least(S) == CHOOSE n \in S : \A m \in S : n <= m
-----------------------------------------------------------------------------
(* Lookup *)

payloadMatches(payload, required) == required \subseteq payload

\* The manifest parses, is triggered by the event, and its qualifiers hold.
Qualifies(manifest, trigger, payload) ==
    /\ manifest.state = "whole"
    /\ manifest.trigger = trigger
    /\ payloadMatches(payload, manifest.match)

\* Function n can be run for the event.
Matches(n, files, trigger, payload) ==
    Qualifies(files[n].manifest, trigger, payload) /\ files[n].binary # "absent"

ReadDir(l, trigger, payload) ==
    /\ lookup[l].at = "idle"
    /\ lookup' = [lookup EXCEPT ![l] =
          [at |-> "scan", trigger |-> trigger, payload |-> payload,
           entries |-> {n \in Name : dir[n].manifest.state # "absent"}, name |-> NoName,
           steady |-> {n \in Name : Matches(n, dir, trigger, payload)}]]
    /\ UNCHANGED <<dir, deploy, deploys, history>>

Entry(l) == Least(lookup[l].entries)
Reading(l) == lookup[l].at = "scan" /\ lookup[l].entries # {}
Accepts(l) == Qualifies(dir[Entry(l)].manifest, lookup[l].trigger, lookup[l].payload)

\* A manifest that does not parse ends the scan.
SkipEntryGivingUp(l) ==
    /\ Reading(l)
    /\ ~Accepts(l)
    /\ lookup' = [lookup EXCEPT ![l].entries =
                     IF dir[Entry(l)].manifest.state = "torn" THEN {} ELSE @ \ {Entry(l)}]
    /\ UNCHANGED <<dir, deploy, deploys, history>>

SkipEntry(l) ==
    /\ Reading(l)
    /\ ~Accepts(l)
    /\ lookup' = [lookup EXCEPT ![l].entries = @ \ {Entry(l)}]
    /\ UNCHANGED <<dir, deploy, deploys, history>>

AcceptEntry(l) ==
    /\ Reading(l)
    /\ Accepts(l)
    /\ lookup' = [lookup EXCEPT ![l].at = "stat", ![l].name = Entry(l),
                                ![l].entries = @ \ {Entry(l)}]
    /\ UNCHANGED <<dir, deploy, deploys, history>>

\* The binary is there, complete or not.
StatBinary(l) ==
    /\ lookup[l].at = "stat"
    /\ lookup' = [lookup EXCEPT ![l].at =
                     IF dir[lookup[l].name].binary # "absent" THEN "found" ELSE "scan"]
    /\ UNCHANGED <<dir, deploy, deploys, history>>

Miss(l) ==
    /\ lookup[l].at = "scan"
    /\ lookup[l].entries = {}
    /\ lookup' = [lookup EXCEPT ![l].at = "missed"]
    /\ UNCHANGED <<dir, deploy, deploys, history>>

\* Dispatch takes the answer, and the goroutine ends.
Answer(l) ==
    /\ lookup[l].at \in {"found", "missed"}
    /\ lookup' = [lookup EXCEPT ![l] = NoLookup]
    /\ UNCHANGED <<dir, deploy, deploys, history>>
-----------------------------------------------------------------------------
(* Deploy *)

Deploying(n) == {d \in Deployer : deploy[d].name = n}

BeginDeploy(d, n, trigger) ==
    /\ deploys < MaxDeploys
    /\ deploys' = deploys + 1
    /\ deploy[d].at = "idle"
    /\ deploy' = [deploy EXCEPT ![d] = [at |-> "open binary", name |-> n, trigger |-> trigger]]
    /\ history' = IF Deploying(n) = {} THEN history
                  ELSE [history EXCEPT !.spoilt = @ \cup {n}]
    /\ UNCHANGED <<dir, lookup>>

\* The files change to files, and with them which functions match.
Overwrite(files) ==
    /\ dir' = files
    /\ lookup' = [l \in Lookups |->
          [lookup[l] EXCEPT !.steady =
             {n \in @ : Matches(n, files, lookup[l].trigger, lookup[l].payload)}]]
    /\ UNCHANGED deploys

DeployGoto(d, at) == deploy' = [deploy EXCEPT ![d].at = at] /\ UNCHANGED history

OpenBinary(d) ==
    /\ deploy[d].at = "open binary"
    /\ Overwrite([dir EXCEPT ![deploy[d].name].binary = "torn"])
    /\ DeployGoto(d, "write binary")

\* What was written is a state of its own.
WriteBinaryPartially(d) ==
    /\ deploy[d].at = "write binary"
    /\ Overwrite([dir EXCEPT ![deploy[d].name].binary = "partial"])
    /\ DeployGoto(d, "open manifest")

\* Who writes a file that another deployment has written since it was opened may
\* leave the end of the other's content behind.
WriteBinary(d) ==
    /\ deploy[d].at = "write binary"
    /\ LET n == deploy[d].name
       IN  \E b \in {"whole"} \cup (IF dir[n].binary # "torn" THEN {"torn"} ELSE {}) :
              Overwrite([dir EXCEPT ![n].binary = b])
    /\ DeployGoto(d, "open manifest")

OpenManifest(d) ==
    /\ deploy[d].at = "open manifest"
    /\ Overwrite([dir EXCEPT ![deploy[d].name].manifest = Unreadable("torn")])
    /\ DeployGoto(d, "write manifest")

Deployed(d) ==
    /\ deploy' = [deploy EXCEPT ![d] = NoDeploy]
    /\ history' = [history EXCEPT !.done[deploy[d].name] = deploy[d].trigger]

\* The trigger of the deployment is ignored.
WriteManifestForAnyTrigger(d) ==
    /\ deploy[d].at = "write manifest"
    /\ LET n == deploy[d].name
       IN  Overwrite([dir EXCEPT ![n].manifest = Asking(AnyTrigger, {})])
    /\ Deployed(d)

\* The manifest has no payload_match: a deployment cannot ask for one.
WriteManifest(d) ==
    /\ deploy[d].at = "write manifest"
    /\ LET n == deploy[d].name
       IN  \E m \in {Asking(deploy[d].trigger, {})} \cup
                     (IF dir[n].manifest.state # "torn" THEN {Unreadable("torn")} ELSE {}) :
              Overwrite([dir EXCEPT ![n].manifest = m])
    /\ Deployed(d)

\* A binary that could not be written is not noticed.
DeployFailsUnnoticed(d) ==
    /\ deploy[d].at = "write binary"
    /\ DeployGoto(d, "open manifest")
    /\ UNCHANGED <<dir, lookup, deploys>>

\* The file system fails the deployment, which leaves the files as they are.
DeployFails(d) ==
    /\ deploy[d].at # "idle"
    /\ deploy' = [deploy EXCEPT ![d] = NoDeploy]
    /\ history' = [history EXCEPT !.spoilt = @ \cup {deploy[d].name}]
    /\ UNCHANGED <<dir, lookup, deploys>>

LookupStep(l) ==
    \/ \E t \in Trigger, p \in Payload : ReadDir(l, t, p)
    \/ SkipEntry(l) \/ AcceptEntry(l) \/ StatBinary(l) \/ Miss(l) \/ Answer(l)

DeployStep(d) ==
    \/ \E n \in Name, t \in Trigger : BeginDeploy(d, n, t)
    \/ OpenBinary(d) \/ WriteBinary(d) \/ OpenManifest(d) \/ WriteManifest(d)
    \/ DeployFails(d)

Next == (\E l \in Lookups : LookupStep(l)) \/ (\E d \in Deployer : DeployStep(d))

Spec == Init /\ [][Next]_vars
-----------------------------------------------------------------------------
TypeOK ==
    /\ dir \in [Name -> Function]
    /\ lookup \in [Lookups -> Lookup]
    /\ deploy \in [Deployer -> Deploy]
    /\ deploys \in 0..MaxDeploys
    /\ history \in History

(***************************************************************************)
(* Lookup "Returns the first match", also while other functions are being  *)
(* deployed: a function that could be run all through the scan is found,   *)
(* unless one that is listed before it is.  A scan of a directory nobody   *)
(* writes to thus returns the first match exactly.                         *)
(***************************************************************************)
SteadyFunctionIsFound ==
    \A l \in Lookups :
        lookup[l].at \in {"found", "missed"} /\ lookup[l].steady # {} =>
            /\ lookup[l].at = "found"
            /\ lookup[l].name <= Least(lookup[l].steady)

(***************************************************************************)
(* A deployment that returned without an error has taken effect: as long   *)
(* as nobody else deploys the name the function is complete and triggered  *)
(* by the events it was deployed for.  Deployments of one name that        *)
(* overlap, or that fail, can leave it torn.                               *)
(***************************************************************************)
DeploymentTakesEffect ==
    \A n \in Name :
        history.done[n] # NoTrigger /\ n \notin history.spoilt /\ Deploying(n) = {} =>
            dir[n] = [manifest |-> Asking(history.done[n], {}), binary |-> "whole"]

-----------------------------------------------------------------------------
(***************************************************************************)
(* The guard of emit-event "ensures this helper only activates when        *)
(* explicitly invoked": an event for which a function is run contains the  *)
(* literals its manifest asked for as shipped.                             *)
(***************************************************************************)
QualifierHolds ==
    \A l \in Lookups : \A shipped \in Seed :
        lookup[l].at = "found" /\ shipped[lookup[l].name].manifest.state = "whole" =>
            payloadMatches(lookup[l].payload, shipped[lookup[l].name].manifest.match)
===============================================================================
