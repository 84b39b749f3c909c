--------------------------- MODULE FunctionRun_proofs --------------------------
(***************************************************************************)
(* Lookup and Deploy on the functions directory for any functions, lookups *)
(* and deployments, and the runs of Dispatch amid deployments.             *)
(***************************************************************************)
EXTENDS FunctionRun, WellFoundedInduction, TLAPS

-----------------------------------------------------------------------------
(* The directory *)

LEMMA StepCases ==
  ASSUME Next
  PROVE  \/ \E l \in Lookups :
               \/ \E t \in Trigger, p \in Payload : ReadDir(l, t, p)
               \/ SkipEntry(l) \/ AcceptEntry(l) \/ StatBinary(l) \/ Miss(l) \/ Answer(l)
         \/ \E d \in Deployer :
               \/ \E n \in Name, t \in Trigger : BeginDeploy(d, n, t)
               \/ OpenBinary(d) \/ WriteBinary(d) \/ OpenManifest(d) \/ WriteManifest(d)
               \/ DeployFails(d)
  BY DEF Next, LookupStep, DeployStep

(* Least is the first of a set of names. *)
LEMMA LeastName ==
  ASSUME NEW S \in SUBSET Name, S # {}
  PROVE  Least(S) \in S /\ \A n \in S : Least(S) <= n
<1>1. S \subseteq Nat
  BY RunnerAssumption DEF Name
<1>2. IsWellFoundedOn(OpToRel(<, Nat), Nat)
  BY NatLessThanWellFounded
<1>3. PICK n \in S : \A m \in S : ~(<<m, n>> \in OpToRel(<, Nat))
  <2> HIDE DEF Name
  <2>1. QED
    BY <1>1, <1>2, WFMin
<1>4. ASSUME NEW m \in S
      PROVE  n <= m
  <2>1. n \in Nat /\ m \in Nat /\ ~(m < n)
    BY <1>1, <1>3 DEF OpToRel
  <2>2. QED
    BY <2>1
<1>5. QED
  BY <1>4 DEF Least

LEMMA SomeTrigger == AnyTrigger \in Trigger
  BY RunnerAssumption DEF AnyTrigger

LEMMA NoNameIsNone == NoName \notin Name
  BY RunnerAssumption DEF Name, NoName

-----------------------------------------------------------------------------
(* Types *)

(* A deployment is at work on a name, or idle. *)
Named ==
    \A d \in Deployer :
        /\ deploy[d].at # "idle" => deploy[d].name \in Name
        /\ deploy[d].at = "idle" => deploy[d].name = NoName
RunnerType == TypeOK /\ Named

LEMMA ManifestTypes ==
  /\ \A s \in State : Unreadable(s) \in Manifest
  /\ \A t \in Trigger, m \in SUBSET Literal : Asking(t, m) \in Manifest
  BY SomeTrigger DEF Manifest, Unreadable, Asking, State

LEMMA OverwriteType ==
  ASSUME RunnerType, NEW files \in [Name -> Function], Overwrite(files)
  PROVE  dir' \in [Name -> Function] /\ lookup' \in [Lookups -> Lookup] /\ deploys' \in 0..MaxDeploys
<1>1. ASSUME NEW l \in Lookups
      PROVE  [lookup[l] EXCEPT !.steady =
                 {n \in @ : Matches(n, files, lookup[l].trigger, lookup[l].payload)}] \in Lookup
  BY DEF RunnerType, TypeOK, Lookup
<1>2. QED
  BY <1>1 DEF RunnerType, TypeOK, Overwrite

LEMMA LookupStepType ==
  ASSUME RunnerType, NEW l \in Lookups,
         \/ \E t \in Trigger, p \in Payload : ReadDir(l, t, p)
         \/ SkipEntry(l) \/ AcceptEntry(l) \/ StatBinary(l) \/ Miss(l) \/ Answer(l)
  PROVE  RunnerType'
<1>1. lookup[l] \in Lookup
  BY DEF RunnerType, TypeOK
<1>2. UNCHANGED <<dir, deploy, deploys, history>>
  BY DEF ReadDir, SkipEntry, AcceptEntry, StatBinary, Miss, Answer
<1>3. SUFFICES lookup' \in [Lookups -> Lookup]
  BY <1>2 DEF RunnerType, TypeOK, Named
<1>4. ASSUME NEW t \in Trigger, NEW p \in Payload, ReadDir(l, t, p)
      PROVE  lookup' \in [Lookups -> Lookup]
  BY <1>4 DEF ReadDir, RunnerType, TypeOK, Lookup
<1>5. CASE SkipEntry(l)
  BY <1>1, <1>5 DEF SkipEntry, RunnerType, TypeOK, Lookup
<1>6. CASE AcceptEntry(l)
  <2>1. Entry(l) \in Name
    BY <1>1, <1>6, LeastName DEF AcceptEntry, Reading, Entry, Lookup
  <2>2. QED
    BY <1>1, <1>6, <2>1 DEF AcceptEntry, RunnerType, TypeOK, Lookup
<1>7. CASE StatBinary(l)
  BY <1>1, <1>7 DEF StatBinary, RunnerType, TypeOK, Lookup
<1>8. CASE Miss(l)
  BY <1>1, <1>8 DEF Miss, RunnerType, TypeOK, Lookup
<1>9. CASE Answer(l)
  BY <1>1, <1>9, SomeTrigger DEF Answer, NoLookup, RunnerType, TypeOK, Lookup, Payload
<1>10. QED
  BY <1>4, <1>5, <1>6, <1>7, <1>8, <1>9

LEMMA DeployStepType ==
  ASSUME RunnerType, NEW d \in Deployer,
         \/ \E n \in Name, t \in Trigger : BeginDeploy(d, n, t)
         \/ OpenBinary(d) \/ WriteBinary(d) \/ OpenManifest(d) \/ WriteManifest(d)
         \/ DeployFails(d)
  PROVE  RunnerType'
<1>1. /\ deploy \in [Deployer -> Deploy] /\ deploy[d] \in Deploy
      /\ history \in History /\ dir \in [Name -> Function]
      /\ lookup \in [Lookups -> Lookup] /\ deploys \in 0..MaxDeploys
  BY DEF RunnerType, TypeOK
<1>2. ASSUME NEW n \in Name, NEW t \in Trigger, BeginDeploy(d, n, t)
      PROVE  RunnerType'
  <2>1. deploys' \in 0..MaxDeploys
    <3>1. deploys < MaxDeploys /\ deploys' = deploys + 1
      BY <1>2 DEF BeginDeploy
    <3>2. QED
      BY <1>1, <3>1, RunnerAssumption
  <2>2. deploy' \in [Deployer -> Deploy]
    BY <1>1, <1>2 DEF BeginDeploy, Deploy
  <2>3. history' \in History
    BY <1>1, <1>2 DEF BeginDeploy, History
  <2>4. Named'
    BY <1>1, <1>2 DEF BeginDeploy, RunnerType, Named
  <2>5. QED
    BY <1>1, <1>2, <2>1, <2>2, <2>3, <2>4 DEF BeginDeploy, RunnerType, TypeOK
<1>3. CASE OpenBinary(d)
  <2>1. [dir EXCEPT ![deploy[d].name].binary = "torn"] \in [Name -> Function]
    BY <1>1 DEF Function, State
  <2>2. dir' \in [Name -> Function] /\ lookup' \in [Lookups -> Lookup] /\ deploys' \in 0..MaxDeploys
    BY <1>3, <2>1, OverwriteType DEF OpenBinary
  <2>3. deploy' \in [Deployer -> Deploy] /\ history' = history /\ Named'
    BY <1>1, <1>3 DEF OpenBinary, DeployGoto, Deploy, RunnerType, Named
  <2>4. QED
    BY <1>1, <2>2, <2>3 DEF RunnerType, TypeOK
<1>4. CASE WriteBinary(d)
  <2>1. PICK b \in State : Overwrite([dir EXCEPT ![deploy[d].name].binary = b])
    BY <1>4 DEF WriteBinary, State
  <2>2. [dir EXCEPT ![deploy[d].name].binary = b] \in [Name -> Function]
    BY <1>1 DEF Function
  <2>3. dir' \in [Name -> Function] /\ lookup' \in [Lookups -> Lookup] /\ deploys' \in 0..MaxDeploys
    BY <2>1, <2>2, OverwriteType
  <2>4. deploy' \in [Deployer -> Deploy] /\ history' = history /\ Named'
    BY <1>1, <1>4 DEF WriteBinary, DeployGoto, Deploy, RunnerType, Named
  <2>5. QED
    BY <1>1, <2>3, <2>4 DEF RunnerType, TypeOK
<1>5. CASE OpenManifest(d)
  <2>1. [dir EXCEPT ![deploy[d].name].manifest = Unreadable("torn")] \in [Name -> Function]
    BY <1>1, ManifestTypes DEF Function, State
  <2>2. dir' \in [Name -> Function] /\ lookup' \in [Lookups -> Lookup] /\ deploys' \in 0..MaxDeploys
    BY <1>5, <2>1, OverwriteType DEF OpenManifest
  <2>3. deploy' \in [Deployer -> Deploy] /\ history' = history /\ Named'
    BY <1>1, <1>5 DEF OpenManifest, DeployGoto, Deploy, RunnerType, Named
  <2>4. QED
    BY <1>1, <2>2, <2>3 DEF RunnerType, TypeOK
<1>6. CASE WriteManifest(d)
  <2>1. PICK m \in Manifest : Overwrite([dir EXCEPT ![deploy[d].name].manifest = m])
    <3>1. Asking(deploy[d].trigger, {}) \in Manifest /\ Unreadable("torn") \in Manifest
      BY <1>1, ManifestTypes DEF Deploy, State
    <3>2. QED
      BY <1>6, <3>1 DEF WriteManifest
  <2>2. [dir EXCEPT ![deploy[d].name].manifest = m] \in [Name -> Function]
    BY <1>1 DEF Function
  <2>3. dir' \in [Name -> Function] /\ lookup' \in [Lookups -> Lookup] /\ deploys' \in 0..MaxDeploys
    BY <2>1, <2>2, OverwriteType
  <2>4. deploy' \in [Deployer -> Deploy] /\ history' \in History /\ Named'
    BY <1>1, <1>6, SomeTrigger
    DEF WriteManifest, Deployed, NoDeploy, Deploy, History, RunnerType, Named
  <2>5. QED
    BY <1>1, <2>3, <2>4 DEF RunnerType, TypeOK
<1>7. CASE DeployFails(d)
  <2>1. deploy[d].name \in Name
    BY <1>7 DEF DeployFails, RunnerType, Named
  <2>2. deploy' \in [Deployer -> Deploy] /\ history' \in History /\ Named'
    BY <1>1, <1>7, <2>1, SomeTrigger
    DEF DeployFails, NoDeploy, Deploy, History, RunnerType, Named
  <2>3. QED
    BY <1>1, <1>7, <2>2 DEF DeployFails, RunnerType, TypeOK
<1>8. QED
  BY <1>2, <1>3, <1>4, <1>5, <1>6, <1>7

LEMMA RunnerTypeInit == Init => RunnerType
<1> SUFFICES ASSUME Init
             PROVE  RunnerType
  OBVIOUS
<1>1. NoLookup \in Lookup /\ NoDeploy \in Deploy
  BY SomeTrigger DEF NoLookup, Lookup, NoDeploy, Deploy, Payload
<1>2. QED
  BY <1>1, RunnerAssumption DEF Init, History, NoDeploy, RunnerType, TypeOK, Named

LEMMA RunnerTypeStep == RunnerType /\ [Next]_vars => RunnerType'
<1>1. CASE UNCHANGED vars
  BY <1>1 DEF vars, RunnerType, TypeOK, Named
<1>2. QED
  BY <1>1, StepCases, LookupStepType, DeployStepType

(***************************************************************************)
(* Every reachable state of the directory, of the lookups and of the       *)
(* deployments of runner.go has its type.                                  *)
(***************************************************************************)
THEOREM TypeCorrect == Spec => []TypeOK
<1>1. RunnerType => TypeOK
  BY DEF RunnerType
<1>2. QED
  BY <1>1, RunnerTypeInit, RunnerTypeStep, PTL DEF Spec
-----------------------------------------------------------------------------
(* Lookups *)

(* Where the functions are that have matched all through lookup k: still to be *)
(* read, or accepted, or behind the one accepted.                              *)
Sighted(k, files) ==
    /\ \A n \in k.steady : Matches(n, files, k.trigger, k.payload)
    /\ k.at = "scan" => k.steady \subseteq k.entries
    /\ k.at = "stat" => /\ k.name \in Name
                        /\ k.steady \subseteq k.entries \cup {k.name}
                        /\ \A n \in k.entries : k.name <= n
    /\ k.at = "found" => k.name \in Name /\ \A n \in k.steady : k.name <= n
    /\ k.at = "missed" => k.steady = {}

AllSighted == \A l \in Lookups : Sighted(lookup[l], dir)

LEMMA OverwriteSighted ==
  ASSUME RunnerType, AllSighted, NEW files, Overwrite(files)
  PROVE  AllSighted'
<1> SUFFICES ASSUME NEW l \in Lookups
             PROVE  Sighted(lookup'[l], files)
  BY DEF AllSighted, Overwrite
<1>1. lookup[l] \in Lookup /\ Sighted(lookup[l], dir)
  BY DEF RunnerType, TypeOK, AllSighted
<1>2. lookup'[l] = [lookup[l] EXCEPT !.steady =
          {n \in lookup[l].steady : Matches(n, files, lookup[l].trigger, lookup[l].payload)}]
  BY DEF Overwrite
<1>3. QED
  BY <1>1, <1>2 DEF Sighted, Lookup

LEMMA DeploySighted ==
  ASSUME RunnerType, AllSighted, NEW d \in Deployer,
         \/ \E n \in Name, t \in Trigger : BeginDeploy(d, n, t)
         \/ OpenBinary(d) \/ WriteBinary(d) \/ OpenManifest(d) \/ WriteManifest(d)
         \/ DeployFails(d)
  PROVE  AllSighted'
<1>1. \/ UNCHANGED <<dir, lookup>>
      \/ \E files : Overwrite(files)
  BY DEF BeginDeploy, OpenBinary, WriteBinary, OpenManifest, WriteManifest, DeployFails
<1>2. CASE UNCHANGED <<dir, lookup>>
  BY <1>2 DEF AllSighted
<1>3. QED
  BY <1>1, <1>2, OverwriteSighted

LEMMA LookupSighted ==
  ASSUME RunnerType, AllSighted, NEW l \in Lookups,
         \/ \E t \in Trigger, p \in Payload : ReadDir(l, t, p)
         \/ SkipEntry(l) \/ AcceptEntry(l) \/ StatBinary(l) \/ Miss(l) \/ Answer(l)
  PROVE  AllSighted'
<1>1. lookup[l] \in Lookup /\ Sighted(lookup[l], dir) /\ lookup \in [Lookups -> Lookup]
  BY DEF RunnerType, TypeOK, AllSighted
<1>2. /\ dir' = dir
      /\ \A m \in Lookups \ {l} : lookup'[m] = lookup[m]
  BY <1>1 DEF ReadDir, SkipEntry, AcceptEntry, StatBinary, Miss, Answer
<1>3. SUFFICES Sighted(lookup'[l], dir)
  BY <1>2 DEF AllSighted
<1>4. ASSUME NEW t \in Trigger, NEW p \in Payload, ReadDir(l, t, p)
      PROVE  Sighted(lookup'[l], dir)
  <2>1. lookup'[l] =
          [at |-> "scan", trigger |-> t, payload |-> p,
           entries |-> {n \in Name : dir[n].manifest.state # "absent"}, name |-> NoName,
           steady |-> {n \in Name : Matches(n, dir, t, p)}]
    BY <1>1, <1>4 DEF ReadDir
  <2>2. QED
    BY <2>1 DEF Sighted, Matches, Qualifies
<1>5. CASE SkipEntry(l)
  <2>1. Entry(l) \notin lookup[l].steady
    BY <1>1, <1>5 DEF SkipEntry, Accepts, Sighted, Matches
  <2>2. lookup[l].at = "scan" /\ lookup'[l] = [lookup[l] EXCEPT !.entries = @ \ {Entry(l)}]
    BY <1>1, <1>5 DEF SkipEntry, Reading
  <2>3. QED
    BY <1>1, <2>1, <2>2 DEF Sighted, Lookup
<1>6. CASE AcceptEntry(l)
  <2>1. Entry(l) \in lookup[l].entries /\ \A n \in lookup[l].entries : Entry(l) <= n
    BY <1>1, <1>6, LeastName DEF AcceptEntry, Reading, Entry, Lookup
  <2>2. Entry(l) \in Name
    BY <1>1, <2>1 DEF Lookup
  <2>3. lookup[l].at = "scan" /\ lookup'[l] =
          [lookup[l] EXCEPT !.at = "stat", !.name = Entry(l), !.entries = @ \ {Entry(l)}]
    BY <1>1, <1>6 DEF AcceptEntry, Reading
  <2>4. QED
    BY <1>1, <2>1, <2>2, <2>3 DEF Sighted, Lookup
<1>7. CASE StatBinary(l)
  <2>1. lookup[l].at = "stat" /\ lookup'[l] =
          [lookup[l] EXCEPT !.at = IF dir[lookup[l].name].binary # "absent" THEN "found" ELSE "scan"]
    BY <1>1, <1>7 DEF StatBinary
  <2>2. CASE dir[lookup[l].name].binary # "absent"
    <3>1. \A n \in lookup[l].steady : lookup[l].name <= n
      BY <1>1, <2>1, RunnerAssumption DEF Sighted, Name
    <3>2. lookup'[l] = [lookup[l] EXCEPT !.at = "found"]
      BY <2>1, <2>2
    <3>3. QED
      BY <1>1, <2>1, <3>1, <3>2 DEF Sighted, Lookup
  <2>3. CASE dir[lookup[l].name].binary = "absent"
    <3>1. lookup[l].name \notin lookup[l].steady
      BY <1>1, <2>3 DEF Sighted, Matches
    <3>2. lookup'[l] = [lookup[l] EXCEPT !.at = "scan"]
      BY <2>1, <2>3
    <3>3. QED
      BY <1>1, <2>1, <3>1, <3>2 DEF Sighted, Lookup
  <2>4. QED
    BY <2>2, <2>3
<1>8. CASE Miss(l)
  <2>1. lookup[l].steady = {} /\ lookup'[l] = [lookup[l] EXCEPT !.at = "missed"]
    BY <1>1, <1>8 DEF Miss, Sighted
  <2>2. QED
    BY <1>1, <2>1 DEF Sighted, Lookup
<1>9. CASE Answer(l)
  <2>1. lookup'[l] = NoLookup
    BY <1>1, <1>9 DEF Answer
  <2>2. QED
    BY <2>1 DEF NoLookup, Sighted
<1>10. QED
  BY <1>4, <1>5, <1>6, <1>7, <1>8, <1>9

(* Initially nothing is looked up. *)
LEMMA SightedInit == Init => AllSighted
  BY DEF Init, NoLookup, AllSighted, Sighted

LEMMA SightedStep == RunnerType /\ AllSighted /\ [Next]_vars => AllSighted'
<1>1. CASE UNCHANGED vars
  BY <1>1 DEF vars, AllSighted
<1>2. QED
  BY <1>1, StepCases, LookupSighted, DeploySighted

LEMMA SightedFinds == RunnerType /\ AllSighted => SteadyFunctionIsFound
<1> SUFFICES ASSUME RunnerType, AllSighted, NEW l \in Lookups,
                    lookup[l].at \in {"found", "missed"}, lookup[l].steady # {}
             PROVE  lookup[l].at = "found" /\ lookup[l].name <= Least(lookup[l].steady)
  BY DEF SteadyFunctionIsFound
<1>1. lookup[l] \in Lookup /\ Sighted(lookup[l], dir)
  BY DEF RunnerType, TypeOK, AllSighted
<1>2. Least(lookup[l].steady) \in lookup[l].steady
  BY <1>1, LeastName DEF Lookup
<1>3. QED
  BY <1>1, <1>2 DEF Sighted

(***************************************************************************)
(* Lookup "Returns the first match" (runner.go) also amid deployments, for *)
(* any number of functions, lookups and deployments: a function that could *)
(* be run all through the scan is found, unless one listed before it is.   *)
(***************************************************************************)
THEOREM SteadyFound == Spec => []SteadyFunctionIsFound
  BY RunnerTypeInit, RunnerTypeStep, SightedInit, SightedStep, SightedFinds, PTL DEF Spec

-----------------------------------------------------------------------------
(* Deployments *)

(* While one deployment at most works on n and none has failed, the files of n *)
(* are as far as the deployment is.                                            *)
Orderly(n) ==
    n \notin history.spoilt =>
        /\ \A d, e \in Deploying(n) : d = e
        /\ \A d \in Deploying(n) :
              /\ deploy[d].at = "write binary" => dir[n].binary = "torn"
              /\ deploy[d].at \in {"open manifest", "write manifest"} => dir[n].binary = "whole"
              /\ deploy[d].at = "write manifest" => dir[n].manifest.state = "torn"
        /\ Deploying(n) = {} /\ history.done[n] # NoTrigger =>
              dir[n] = [manifest |-> Asking(history.done[n], {}), binary |-> "whole"]

AllOrderly == \A n \in Name : Orderly(n)

(* A step that is not about n. *)
LEMMA OrderlyElsewhere ==
  ASSUME NEW n \in Name, Orderly(n), dir'[n] = dir[n],
         \A e \in Deployer : deploy'[e] = deploy[e] \/ (deploy[e].name # n /\ deploy'[e].name # n),
         n \notin history'.spoilt => n \notin history.spoilt, history'.done[n] = history.done[n]
  PROVE  Orderly(n)'
<1>1. Deploying(n)' = Deploying(n) /\ \A d \in Deploying(n) : deploy'[d] = deploy[d]
  BY DEF Deploying
<1>2. QED
  BY <1>1 DEF Orderly

LEMMA BeginOrderly ==
  ASSUME RunnerType, AllOrderly, NEW d \in Deployer, NEW m \in Name, NEW t \in Trigger,
         BeginDeploy(d, m, t), NEW n \in Name
  PROVE  Orderly(n)'
<1>1. /\ deploy \in [Deployer -> Deploy] /\ history \in History /\ Orderly(n)
      /\ dir' = dir /\ history'.done = history.done
      /\ n \notin history'.spoilt => n \notin history.spoilt
      /\ deploy' = [deploy EXCEPT ![d] = [at |-> "open binary", name |-> m, trigger |-> t]]
  BY DEF BeginDeploy, RunnerType, TypeOK, AllOrderly, History
<1>2. CASE n = m
  <2>1. CASE Deploying(n) = {}
    <3>1. Deploying(n)' = {d} /\ deploy'[d].at = "open binary"
      BY <1>1, <1>2, <2>1 DEF Deploying
    <3>2. QED
      BY <3>1 DEF Orderly
  <2>2. CASE Deploying(n) # {}
    BY <1>1, <1>2, <2>2 DEF BeginDeploy, Orderly, History
  <2>3. QED
    BY <2>1, <2>2
<1>3. CASE n # m
  <2>1. deploy[d].name # n
    BY NoNameIsNone DEF BeginDeploy, RunnerType, Named
  <2>2. deploy'[d].name # n /\ \A e \in Deployer : e # d => deploy'[e] = deploy[e]
    BY <1>1, <1>3
  <2>3. \A e \in Deployer : deploy'[e] = deploy[e] \/ (deploy[e].name # n /\ deploy'[e].name # n)
    BY <2>1, <2>2
  <2>4. QED
    BY <1>1, <2>3, OrderlyElsewhere
<1>4. QED
  BY <1>2, <1>3

(* The steps of a deployment that has begun. *)
LEMMA WriteOrderly ==
  ASSUME RunnerType, AllOrderly, NEW d \in Deployer, NEW n \in Name,
         OpenBinary(d) \/ WriteBinary(d) \/ OpenManifest(d)
  PROVE  Orderly(n)'
<1>1. /\ deploy \in [Deployer -> Deploy] /\ dir \in [Name -> Function] /\ Orderly(n)
      /\ deploy[d] \in Deploy /\ history' = history
  BY DEF OpenBinary, WriteBinary, OpenManifest, DeployGoto, RunnerType, TypeOK, AllOrderly
<1>2. PICK at : deploy' = [deploy EXCEPT ![d].at = at]
  BY DEF OpenBinary, WriteBinary, OpenManifest, DeployGoto
<1>3. /\ \A e \in Deployer : deploy'[e].name = deploy[e].name
      /\ \A e \in Deployer : e # d => deploy'[e] = deploy[e]
  BY <1>1, <1>2 DEF Deploy
<1>4. Deploying(n)' = Deploying(n)
  BY <1>3 DEF Deploying
<1>5. CASE deploy[d].name # n
  <2>1. dir'[n] = dir[n]
    BY <1>1, <1>5 DEF OpenBinary, WriteBinary, OpenManifest, Overwrite
  <2>2. \A e \in Deployer : deploy'[e] = deploy[e] \/ (deploy[e].name # n /\ deploy'[e].name # n)
    BY <1>3, <1>5
  <2>3. QED
    BY <1>1, <2>1, <2>2, OrderlyElsewhere
<1>6. CASE deploy[d].name = n /\ n \notin history.spoilt
  <2>1. Deploying(n) = {d} /\ Deploying(n)' = {d}
    BY <1>1, <1>4, <1>6 DEF Deploying, Orderly
  <2>2. dir[n] \in Function
    BY <1>1
  <2>3. CASE OpenBinary(d)
    <3>1. dir' = [dir EXCEPT ![n].binary = "torn"]
      BY <1>6, <2>3 DEF OpenBinary, Overwrite
    <3>2. dir'[n].binary = "torn"
      BY <1>1, <2>2, <3>1 DEF Function
    <3>3. deploy'[d].at = "write binary"
      BY <1>1, <2>3 DEF OpenBinary, DeployGoto, Deploy
    <3>4. QED
      BY <2>1, <3>2, <3>3 DEF Orderly
  <2>4. CASE WriteBinary(d)
    <3>1. dir[n].binary = "torn"
      BY <1>1, <1>6, <2>1, <2>4 DEF WriteBinary, Orderly
    <3>2. dir' = [dir EXCEPT ![n].binary = "whole"]
      BY <1>6, <2>4, <3>1 DEF WriteBinary, Overwrite
    <3>3. dir'[n].binary = "whole"
      BY <1>1, <2>2, <3>2 DEF Function
    <3>4. deploy'[d].at = "open manifest"
      BY <1>1, <2>4 DEF WriteBinary, DeployGoto, Deploy
    <3>5. QED
      BY <2>1, <3>3, <3>4 DEF Orderly
  <2>5. CASE OpenManifest(d)
    <3>1. dir[n].binary = "whole"
      BY <1>1, <1>6, <2>1, <2>5 DEF OpenManifest, Orderly
    <3>2. dir' = [dir EXCEPT ![n].manifest = Unreadable("torn")]
      BY <1>6, <2>5 DEF OpenManifest, Overwrite
    <3>3. dir'[n].binary = "whole" /\ dir'[n].manifest.state = "torn"
      BY <1>1, <2>2, <3>1, <3>2 DEF Function, Unreadable
    <3>4. deploy'[d].at = "write manifest"
      BY <1>1, <2>5 DEF OpenManifest, DeployGoto, Deploy
    <3>5. QED
      BY <2>1, <3>3, <3>4 DEF Orderly
  <2>6. QED
    BY <2>3, <2>4, <2>5
<1>7. CASE n \in history.spoilt
  BY <1>1, <1>7 DEF Orderly
<1>8. QED
  BY <1>5, <1>6, <1>7

LEMMA WriteManifestOrderly ==
  ASSUME RunnerType, AllOrderly, NEW d \in Deployer, NEW n \in Name, WriteManifest(d)
  PROVE  Orderly(n)'
<1>1. /\ deploy \in [Deployer -> Deploy] /\ dir \in [Name -> Function] /\ Orderly(n)
      /\ history \in History /\ deploy[d].name \in Name /\ deploy[d].at = "write manifest"
      /\ deploy' = [deploy EXCEPT ![d] = NoDeploy]
      /\ history' = [history EXCEPT !.done[deploy[d].name] = deploy[d].trigger]
  BY DEF WriteManifest, Deployed, RunnerType, TypeOK, Named, AllOrderly
<1>2. history'.spoilt = history.spoilt
  BY <1>1 DEF History
<1>3. PICK m : dir' = [dir EXCEPT ![deploy[d].name].manifest = m]
  BY DEF WriteManifest, Overwrite
<1>4. CASE deploy[d].name # n
  <2>1. dir'[n] = dir[n] /\ history'.done[n] = history.done[n]
    BY <1>1, <1>3, <1>4 DEF History
  <2>2. deploy'[d].name # n /\ \A e \in Deployer : e # d => deploy'[e] = deploy[e]
    BY <1>1, NoNameIsNone DEF NoDeploy
  <2>3. \A e \in Deployer : deploy'[e] = deploy[e] \/ (deploy[e].name # n /\ deploy'[e].name # n)
    BY <1>4, <2>2
  <2>4. QED
    BY <1>1, <1>2, <2>1, <2>3, OrderlyElsewhere
<1>5. CASE deploy[d].name = n /\ n \notin history.spoilt
  <2>1. Deploying(n) = {d}
    BY <1>1, <1>5 DEF Deploying, Orderly
  <2>2. dir[n].binary = "whole" /\ dir[n].manifest.state = "torn"
    BY <1>1, <1>5, <2>1 DEF Orderly
  <2>3. Deploying(n)' = {}
    BY <1>1, <2>1, NoNameIsNone DEF Deploying, NoDeploy
  <2>4. dir'[n] = [manifest |-> Asking(deploy[d].trigger, {}), binary |-> "whole"]
    BY <1>1, <1>5, <2>2 DEF WriteManifest, Overwrite, Function
  <2>5. history'.done[n] = deploy[d].trigger
    BY <1>1, <1>5 DEF History
  <2>6. QED
    BY <2>3, <2>4, <2>5 DEF Orderly
<1>6. CASE n \in history.spoilt
  BY <1>2, <1>6 DEF Orderly
<1>7. QED
  BY <1>4, <1>5, <1>6

LEMMA FailOrderly ==
  ASSUME RunnerType, AllOrderly, NEW d \in Deployer, NEW n \in Name, DeployFails(d)
  PROVE  Orderly(n)'
<1>1. /\ deploy \in [Deployer -> Deploy] /\ Orderly(n) /\ history \in History /\ dir' = dir
      /\ deploy' = [deploy EXCEPT ![d] = NoDeploy]
      /\ history' = [history EXCEPT !.spoilt = @ \cup {deploy[d].name}]
  BY DEF DeployFails, RunnerType, TypeOK, AllOrderly
<1>2. /\ history'.spoilt = history.spoilt \cup {deploy[d].name}
      /\ history'.done = history.done
  BY <1>1 DEF History
<1>3. CASE deploy[d].name = n
  BY <1>2, <1>3 DEF Orderly
<1>4. CASE deploy[d].name # n
  <2>1. deploy'[d].name # n /\ \A e \in Deployer : e # d => deploy'[e] = deploy[e]
    BY <1>1, NoNameIsNone DEF NoDeploy
  <2>2. \A e \in Deployer : deploy'[e] = deploy[e] \/ (deploy[e].name # n /\ deploy'[e].name # n)
    BY <1>4, <2>1
  <2>3. n \notin history'.spoilt => n \notin history.spoilt
    BY <1>2
  <2>4. QED
    BY <1>1, <1>2, <2>2, <2>3, OrderlyElsewhere
<1>5. QED
  BY <1>3, <1>4

LEMMA OrderlyInit == Init => AllOrderly
<1> SUFFICES ASSUME Init, NEW n \in Name
             PROVE  Orderly(n)
  BY DEF AllOrderly
<1>1. Deploying(n) = {} /\ history.done[n] = NoTrigger
  BY NoNameIsNone DEF Init, NoDeploy, Deploying
<1>2. QED
  BY <1>1 DEF Orderly

LEMMA OrderlyStep == RunnerType /\ AllOrderly /\ [Next]_vars => AllOrderly'
<1> SUFFICES ASSUME RunnerType, AllOrderly, [Next]_vars, NEW n \in Name
             PROVE  Orderly(n)'
  BY DEF AllOrderly
<1>1. CASE UNCHANGED <<dir, deploy, history>>
  BY <1>1 DEF AllOrderly, Orderly, Deploying
<1>2. ASSUME NEW l \in Lookups,
             \/ \E t \in Trigger, p \in Payload : ReadDir(l, t, p)
             \/ SkipEntry(l) \/ AcceptEntry(l) \/ StatBinary(l) \/ Miss(l) \/ Answer(l)
      PROVE  Orderly(n)'
  BY <1>1, <1>2 DEF ReadDir, SkipEntry, AcceptEntry, StatBinary, Miss, Answer
<1>3. ASSUME NEW d \in Deployer,
             \/ \E m \in Name, t \in Trigger : BeginDeploy(d, m, t)
             \/ OpenBinary(d) \/ WriteBinary(d) \/ OpenManifest(d) \/ WriteManifest(d)
             \/ DeployFails(d)
      PROVE  Orderly(n)'
  BY <1>3, BeginOrderly, WriteOrderly, WriteManifestOrderly, FailOrderly
<1>4. QED
  BY <1>1, <1>2, <1>3, StepCases DEF vars

LEMMA OrderlyEffect == AllOrderly => DeploymentTakesEffect
  BY DEF AllOrderly, Orderly, DeploymentTakesEffect

(***************************************************************************)
(* A deployment (runner.go) that returned without an error has taken       *)
(* effect, for any number of names and of deployments at once, unless one  *)
(* of the name failed or overlapped with another.                          *)
(***************************************************************************)
THEOREM DeploymentEffective == Spec => []DeploymentTakesEffect
  BY RunnerTypeInit, RunnerTypeStep, OrderlyInit, OrderlyStep, OrderlyEffect, PTL DEF Spec

-----------------------------------------------------------------------------
(* Dispatches *)

(* A dispatch is a lookup to the directory, and what follows it is none of its *)
(* business.                                                                   *)
LEMMA DispatchLooksUp ==
  ASSUME NEW l \in Lookups, DispatchStep(l)
  PROVE  [Next]_vars
<1>1. CASE Scan(l)
  BY <1>1 DEF Scan, Next, LookupStep
<1>2. CASE Match(l)
  BY <1>2 DEF Match, Next, LookupStep
<1>3. CASE DispatchReturns(l)
  BY <1>3 DEF DispatchReturns, Next, LookupStep
<1>4. QED
  BY <1>1, <1>2, <1>3 DEF DispatchStep, Start, ReadScript, DoesNotStart, Exit

LEMMA RunDeploys ==
  ASSUME NEW d \in Deployer, RunDeployStep(d)
  PROVE  \/ \E n \in Name, t \in Trigger : DeployFunction(d, n, t)
         \/ OpenIdleBinary(d) \/ ReplaceBinary(d)
         \/ (OpenManifest(d) \/ WriteManifest(d) \/ DeployFails(d)) /\ UNCHANGED runVars
  BY DEF RunDeployStep, DeployFunction

LEMMA DeployingDeploys ==
  ASSUME NEW d \in Deployer, RunDeployStep(d)
  PROVE  Next
<1>1. DeployStep(d)
  BY RunDeploys DEF DeployStep, DeployFunction, OpenIdleBinary, ReplaceBinary
<1>2. QED
  BY <1>1 DEF Next

LEMMA RunStepsOnDirectory == [RunNext]_<<vars, runVars>> => [Next]_vars
  BY DispatchLooksUp, DeployingDeploys DEF RunNext

(***************************************************************************)
(* What Dispatch adds to Lookup and Deploy (runner.go) leaves them as they *)
(* are: the runs on the directory implement the directory by itself.       *)
(***************************************************************************)
THEOREM RunImplementsDirectory == RunSpec => Spec
<1>1. RunInit => Init
  BY DEF RunInit
<1>2. QED
  BY <1>1, RunStepsOnDirectory, PTL DEF RunSpec, Spec

(***************************************************************************)
(* Lookup returns the first match also when what it has matched is run     *)
(* amid deployments (runner.go, dispatcher.go).                            *)
(***************************************************************************)
THEOREM RunSteadyFound == RunSpec => []SteadyFunctionIsFound
  BY RunImplementsDirectory, SteadyFound, PTL

(***************************************************************************)
(* A deployment that returned without an error has taken effect also when  *)
(* binaries are executed meanwhile (runner.go).                            *)
(***************************************************************************)
THEOREM RunDeploymentEffective == RunSpec => []DeploymentTakesEffect
  BY RunImplementsDirectory, DeploymentEffective, PTL

-----------------------------------------------------------------------------
(* Types *)

RunType == /\ version \in [Name -> Trigger]
           /\ run \in [Lookups -> RunRecord]
           /\ overtaken \subseteq Lookups

LEMMA RunTypeInit == RunInit => RunType
<1> SUFFICES ASSUME RunInit
             PROVE  RunType
  OBVIOUS
<1>1. dir \in [Name -> Function]
  BY RunnerAssumption DEF RunInit, Init
<1>2. \A n \in Name : dir[n].manifest.trigger \in Trigger
  BY <1>1 DEF Function, Manifest
<1>3. NoRun \in RunRecord
  BY DEF NoRun, RunRecord, State
<1>4. QED
  BY <1>2, <1>3 DEF RunInit, RunType

-----------------------------------------------------------------------------
(* Deployments *)

(* While one deployment at most works on n and none has failed, the manifest of *)
(* n asks for what its binary was written for, but between the two writes.      *)
Kept(n) ==
    n \notin history.spoilt =>
        /\ dir[n].manifest.state = "whole" =>
              \/ version[n] = dir[n].manifest.trigger
              \/ \E d \in Deploying(n) : deploy[d].at = "open manifest"
        /\ \A d \in Deploying(n) :
              deploy[d].at \in {"open manifest", "write manifest"} => version[n] = deploy[d].trigger
        /\ dir[n].binary = "torn" => Writing(n)

AllKept == \A n \in Name : Kept(n)

(* A step that is not about n. *)
LEMMA KeptElsewhere ==
  ASSUME NEW n \in Name, Kept(n), dir'[n] = dir[n], version'[n] = version[n],
         \A e \in Deployer : deploy'[e] = deploy[e] \/ (deploy[e].name # n /\ deploy'[e].name # n),
         n \notin history'.spoilt => n \notin history.spoilt
  PROVE  Kept(n)'
<1>1. Deploying(n)' = Deploying(n) /\ \A d \in Deploying(n) : deploy'[d] = deploy[d]
  BY DEF Deploying
<1>2. QED
  BY <1>1 DEF Kept, Writing

LEMMA BeginKept ==
  ASSUME RunnerType, AllKept, NEW d \in Deployer, NEW m \in Name, NEW t \in Trigger,
         DeployFunction(d, m, t), NEW n \in Name
  PROVE  Kept(n)'
<1>1. /\ deploy \in [Deployer -> Deploy] /\ history \in History /\ Kept(n)
      /\ dir' = dir /\ version' = version
      /\ n \notin history'.spoilt => n \notin history.spoilt
      /\ deploy' = [deploy EXCEPT ![d] = [at |-> "open binary", name |-> m, trigger |-> t]]
  BY DEF DeployFunction, BeginDeploy, RunnerType, TypeOK, AllKept, History
<1>2. CASE n = m
  <2>1. CASE Deploying(n) = {}
    <3>1. Deploying(n)' = {d} /\ deploy'[d].at = "open binary"
      BY <1>1, <1>2, <2>1 DEF Deploying
    <3>2. QED
      BY <1>1, <2>1, <3>1 DEF Kept, Writing
  <2>2. CASE Deploying(n) # {}
    BY <1>1, <1>2, <2>2 DEF DeployFunction, BeginDeploy, Kept, History
  <2>3. QED
    BY <2>1, <2>2
<1>3. CASE n # m
  <2>1. deploy[d].name # n
    BY NoNameIsNone DEF DeployFunction, BeginDeploy, RunnerType, Named
  <2>2. deploy'[d].name # n /\ \A e \in Deployer : e # d => deploy'[e] = deploy[e]
    BY <1>1, <1>3
  <2>3. \A e \in Deployer : deploy'[e] = deploy[e] \/ (deploy[e].name # n /\ deploy'[e].name # n)
    BY <2>1, <2>2
  <2>4. QED
    BY <1>1, <2>3, KeptElsewhere
<1>4. QED
  BY <1>2, <1>3

(* The steps of a deployment that has begun. *)
LEMMA WriteKept ==
  ASSUME RunnerType, RunType, AllOrderly, AllKept, NEW d \in Deployer, NEW n \in Name,
         OpenIdleBinary(d) \/ ReplaceBinary(d) \/ (OpenManifest(d) /\ UNCHANGED runVars)
  PROVE  Kept(n)'
<1>1. /\ deploy \in [Deployer -> Deploy] /\ dir \in [Name -> Function] /\ Kept(n) /\ Orderly(n)
      /\ deploy[d] \in Deploy /\ version \in [Name -> Trigger]
  BY DEF RunnerType, TypeOK, RunType, AllKept, AllOrderly
<1>2. PICK at : deploy' = [deploy EXCEPT ![d].at = at] /\ history' = history
  BY DEF OpenIdleBinary, ReplaceBinary, OpenBinary, WriteBinary, OpenManifest, DeployGoto
<1>3. /\ \A e \in Deployer : deploy'[e].name = deploy[e].name
      /\ \A e \in Deployer : e # d => deploy'[e] = deploy[e]
      /\ deploy'[d].at = at /\ deploy'[d].trigger = deploy[d].trigger
  BY <1>1, <1>2 DEF Deploy
<1>4. Deploying(n)' = Deploying(n)
  BY <1>3 DEF Deploying
<1>5. CASE deploy[d].name # n
  <2>1. dir'[n] = dir[n]
    BY <1>1, <1>5
    DEF OpenIdleBinary, ReplaceBinary, OpenBinary, WriteBinary, OpenManifest, Overwrite
  <2>2. \A e \in Deployer : deploy'[e] = deploy[e] \/ (deploy[e].name # n /\ deploy'[e].name # n)
    BY <1>3, <1>5
  <2>3. version'[n] = version[n]
    BY <1>1, <1>5 DEF OpenIdleBinary, ReplaceBinary, runVars
  <2>4. QED
    BY <1>1, <1>2, <2>1, <2>2, <2>3, KeptElsewhere
<1>6. CASE deploy[d].name = n /\ n \notin history.spoilt
  <2>1. Deploying(n) = {d} /\ Deploying(n)' = {d}
    BY <1>1, <1>4, <1>6 DEF Deploying, Orderly
  <2>2. dir[n] \in Function
    BY <1>1
  <2>3. CASE OpenIdleBinary(d)
    <3>1. dir' = [dir EXCEPT ![n].binary = "torn"] /\ version' = version /\ deploy[d].at = "open binary"
      BY <1>6, <2>3 DEF OpenIdleBinary, OpenBinary, Overwrite, runVars
    <3>2. dir'[n].manifest = dir[n].manifest
      BY <1>1, <2>2, <3>1 DEF Function
    <3>3. deploy'[d].at = "write binary"
      BY <1>1, <2>3 DEF OpenIdleBinary, OpenBinary, DeployGoto, Deploy
    <3>4. QED
      BY <1>1, <1>6, <2>1, <3>1, <3>2, <3>3 DEF Kept, Writing
  <2>4. CASE ReplaceBinary(d)
    <3>1. dir[n].binary = "torn"
      BY <1>1, <1>6, <2>1, <2>4 DEF ReplaceBinary, WriteBinary, Orderly
    <3>2. dir' = [dir EXCEPT ![n].binary = "whole"]
      BY <1>6, <2>4, <3>1 DEF ReplaceBinary, WriteBinary, Overwrite
    <3>3. dir'[n].binary = "whole"
      BY <1>1, <2>2, <3>2 DEF Function
    <3>4. deploy'[d].at = "open manifest"
      BY <1>1, <2>4 DEF ReplaceBinary, WriteBinary, DeployGoto, Deploy
    <3>5. version'[n] = deploy'[d].trigger
      BY <1>1, <1>3, <1>6, <2>4 DEF ReplaceBinary
    <3>6. QED
      BY <2>1, <3>3, <3>4, <3>5 DEF Kept
  <2>5. CASE OpenManifest(d) /\ UNCHANGED runVars
    <3>1. dir[n].binary = "whole" /\ version' = version /\ version[n] = deploy[d].trigger
      BY <1>1, <1>6, <2>1, <2>5 DEF OpenManifest, Orderly, Kept, runVars
    <3>2. dir' = [dir EXCEPT ![n].manifest = Unreadable("torn")]
      BY <1>6, <2>5 DEF OpenManifest, Overwrite
    <3>3. dir'[n].binary = "whole" /\ dir'[n].manifest.state = "torn"
      BY <1>1, <2>2, <3>1, <3>2 DEF Function, Unreadable
    <3>4. QED
      BY <1>3, <2>1, <3>1, <3>3 DEF Kept
  <2>6. QED
    BY <2>3, <2>4, <2>5
<1>7. CASE n \in history.spoilt
  BY <1>2, <1>7 DEF Kept
<1>8. QED
  BY <1>5, <1>6, <1>7

LEMMA EndKept ==
  ASSUME RunnerType, AllOrderly, AllKept, NEW d \in Deployer, NEW n \in Name,
         WriteManifest(d) \/ DeployFails(d), version' = version
  PROVE  Kept(n)'
<1>1. /\ deploy \in [Deployer -> Deploy] /\ dir \in [Name -> Function] /\ Kept(n) /\ Orderly(n)
      /\ history \in History /\ deploy[d].name \in Name
      /\ deploy' = [deploy EXCEPT ![d] = NoDeploy]
  BY DEF WriteManifest, DeployFails, Deployed, RunnerType, TypeOK, Named, AllKept, AllOrderly
<1>2. n \notin history'.spoilt => n \notin history.spoilt
  BY <1>1 DEF WriteManifest, DeployFails, Deployed, History
<1>3. CASE deploy[d].name # n
  <2>1. dir'[n] = dir[n]
    BY <1>1, <1>3 DEF WriteManifest, DeployFails, Overwrite
  <2>2. deploy'[d].name # n /\ \A e \in Deployer : e # d => deploy'[e] = deploy[e]
    BY <1>1, NoNameIsNone DEF NoDeploy
  <2>3. \A e \in Deployer : deploy'[e] = deploy[e] \/ (deploy[e].name # n /\ deploy'[e].name # n)
    BY <1>3, <2>2
  <2>4. QED
    BY <1>1, <1>2, <2>1, <2>3, KeptElsewhere
<1>4. CASE deploy[d].name = n /\ WriteManifest(d) /\ n \notin history.spoilt
  <2>1. Deploying(n) = {d}
    BY <1>1, <1>4 DEF Deploying, Orderly
  <2>2. /\ dir[n].binary = "whole" /\ dir[n].manifest.state = "torn"
        /\ version[n] = deploy[d].trigger
    BY <1>1, <1>4, <2>1 DEF WriteManifest, Orderly, Kept
  <2>3. Deploying(n)' = {}
    BY <1>1, <2>1, NoNameIsNone DEF Deploying, NoDeploy
  <2>4. dir'[n] = [manifest |-> Asking(deploy[d].trigger, {}), binary |-> "whole"]
    BY <1>1, <1>4, <2>2 DEF WriteManifest, Overwrite, Function
  <2>5. QED
    BY <2>2, <2>3, <2>4 DEF Kept, Asking
<1>5. CASE deploy[d].name = n /\ DeployFails(d)
  BY <1>1, <1>5 DEF DeployFails, History, Kept
<1>6. CASE n \in history.spoilt
  BY <1>2, <1>6 DEF Kept
<1>7. QED
  BY <1>3, <1>4, <1>5, <1>6

LEMMA KeptInit == RunInit => AllKept
<1> SUFFICES ASSUME RunInit, NEW n \in Name
             PROVE  Kept(n)
  BY DEF AllKept
<1>1. dir[n].binary # "torn" /\ version[n] = dir[n].manifest.trigger
  BY RunAssumption DEF RunInit, Init
<1>2. Deploying(n) = {}
  BY NoNameIsNone DEF RunInit, Init, NoDeploy, Deploying
<1>3. QED
  BY <1>1, <1>2 DEF Kept

LEMMA KeptStep ==
  RunnerType /\ RunType /\ AllOrderly /\ AllKept /\ [RunNext]_<<vars, runVars>> => AllKept'
<1> SUFFICES ASSUME RunnerType, RunType, AllOrderly, AllKept, [RunNext]_<<vars, runVars>>,
                    NEW n \in Name
             PROVE  Kept(n)'
  BY DEF AllKept
<1>1. CASE UNCHANGED <<dir, deploy, history, version>>
  <2>1. Deploying(n)' = Deploying(n)
    BY <1>1 DEF Deploying
  <2>2. Writing(n)' = Writing(n)
    BY <1>1, <2>1 DEF Writing
  <2>3. Kept(n)
    BY DEF AllKept
  <2>4. QED
    BY <1>1, <2>1, <2>2, <2>3 DEF Kept
<1>2. ASSUME NEW l \in Lookups, DispatchStep(l)
      PROVE  Kept(n)'
  BY <1>1, <1>2
  DEF DispatchStep, Scan, Match, Start, ReadScript, DoesNotStart, Exit, DispatchReturns, ReadDir, SkipEntry,
      AcceptEntry, StatBinary, Miss, Answer, vars, runVars
<1>3. ASSUME NEW d \in Deployer, RunDeployStep(d)
      PROVE  Kept(n)'
  BY <1>3, RunDeploys, BeginKept, WriteKept, EndKept DEF runVars
<1>4. QED
  BY <1>1, <1>2, <1>3 DEF RunNext, vars, runVars

-----------------------------------------------------------------------------
(* Runs *)

(* The binary of n is written, and will be, for the events of t only. *)
Meant(n, t) == version[n] = t /\ \A d \in Deploying(n) : deploy[d].trigger = t

(* Until its run, the function that dispatch l has found stays the one it has *)
(* matched, whatever becomes of a deployment that is under way; and a script  *)
(* that has been started stays as it is until it is read.                     *)
Aimed(l) ==
    /\ lookup[l].at \in {"stat", "found"} => lookup[l].name \in Name
    /\ lookup[l].at = "found" => dir[lookup[l].name].binary # "absent"
    /\ lookup[l].at \in {"stat", "found"} /\ run[l].at = "none" =>
          \/ l \in overtaken
          \/ lookup[l].name \in history.spoilt
          \/ Meant(lookup[l].name, lookup[l].trigger)
    /\ run[l].at = "started" =>
          \/ l \in overtaken
          \/ lookup[l].name \in history.spoilt
          \/ /\ dir[lookup[l].name].binary = "whole"
             /\ version[lookup[l].name] = lookup[l].trigger

Recorded(l) ==
    /\ run[l].at # "none" => lookup[l].at = "found"
    /\ run[l].at \in {"none", "started"} => run[l].version = NoTrigger
    /\ run[l].at = "running" => run[l].version # NoTrigger
    /\ run[l].at # "ended" => run[l].job # "completed"
    /\ run[l].job = "completed" => run[l].version # NoTrigger
    /\ run[l].version # NoTrigger =>
          \/ l \in overtaken
          \/ lookup[l].name \in history.spoilt
          \/ run[l].binary = "whole" /\ run[l].version = lookup[l].trigger

AllTraced == \A l \in Lookups : Aimed(l) /\ Recorded(l)

RunInv == RunnerType /\ RunType /\ AllSighted /\ AllOrderly /\ AllKept /\ AllTraced

(* A step of another dispatch. *)
LEMMA TracedElsewhere ==
  ASSUME NEW l \in Lookups, Aimed(l), Recorded(l), UNCHANGED <<dir, deploy, history, version>>,
         lookup'[l] = lookup[l], run'[l] = run[l], l \in overtaken => l \in overtaken'
  PROVE  Aimed(l)' /\ Recorded(l)'
  BY DEF Aimed, Meant, Deploying, Recorded

LEMMA DispatchTraced ==
  ASSUME RunInv, NEW l \in Lookups, DispatchStep(l), NEW m \in Lookups
  PROVE  Aimed(m)' /\ Recorded(m)'
<1>1. /\ lookup \in [Lookups -> Lookup] /\ run \in [Lookups -> RunRecord]
      /\ lookup[l] \in Lookup /\ run[l] \in RunRecord
      /\ dir \in [Name -> Function] /\ deploy \in [Deployer -> Deploy]
      /\ version \in [Name -> Trigger]
      /\ Aimed(m) /\ Recorded(m) /\ Aimed(l) /\ Recorded(l) /\ Sighted(lookup[l], dir)
  BY DEF RunInv, RunnerType, TypeOK, RunType, AllTraced, AllSighted
<1>2. UNCHANGED <<dir, deploy, history, version>>
  BY DEF DispatchStep, Scan, Match, Start, ReadScript, DoesNotStart, Exit, DispatchReturns, ReadDir, SkipEntry,
         AcceptEntry, StatBinary, Miss, Answer, vars, runVars
<1>3. CASE m # l
  <2>1. lookup'[m] = lookup[m] /\ run'[m] = run[m]
    BY <1>1, <1>3
    DEF DispatchStep, Scan, Match, Start, ReadScript, DoesNotStart, Exit, DispatchReturns, ReadDir, SkipEntry,
        AcceptEntry, StatBinary, Miss, Answer, vars, runVars
  <2>2. m \in overtaken => m \in overtaken'
    BY <1>3 DEF DispatchStep, Scan, Match, Start, ReadScript, DoesNotStart, Exit, DispatchReturns, runVars
  <2>3. QED
    BY <1>1, <1>2, <2>1, <2>2, TracedElsewhere
<1>4. SUFFICES Aimed(l)' /\ Recorded(l)'
  BY <1>3
<1>5. CASE Scan(l)
  <2>1. run' = run /\ overtaken' = overtaken
    BY <1>5 DEF Scan, runVars
  <2>2. lookup[l].at # "found" /\ (lookup'[l].at = "found" => lookup[l].at = "stat")
    BY <1>1, <1>5 DEF Scan, ReadDir, SkipEntry, StatBinary, Reading, Miss, Lookup
  <2>3. lookup'[l].at # "stat"
    BY <1>1, <1>5 DEF Scan, ReadDir, SkipEntry, StatBinary, Reading, Miss, Lookup
  <2>4. lookup'[l].at = "found" =>
           /\ lookup'[l].name = lookup[l].name /\ lookup'[l].trigger = lookup[l].trigger
           /\ dir[lookup[l].name].binary # "absent"
    BY <1>1, <1>5 DEF Scan, ReadDir, SkipEntry, StatBinary, Reading, Miss, Lookup
  <2>5. run[l].at = "none"
    BY <1>1, <2>2 DEF Recorded, RunRecord
  <2>6. Recorded(l)'
    BY <1>1, <2>1, <2>5 DEF Recorded
  <2>7. Aimed(l)'
    BY <1>1, <1>2, <2>1, <2>2, <2>3, <2>4, <2>5 DEF Aimed, Meant, Deploying
  <2>8. QED
    BY <2>6, <2>7
<1>6. CASE Match(l)
  <2>1. Entry(l) \in Name
    BY <1>1, <1>6, LeastName DEF Match, AcceptEntry, Reading, Entry, Lookup
  <2>2. /\ run' = run /\ lookup[l].at = "scan"
        /\ lookup'[l] = [lookup[l] EXCEPT !.at = "stat", !.name = Entry(l), !.entries = @ \ {Entry(l)}]
    BY <1>1, <1>6 DEF Match, AcceptEntry, Reading
  <2>3. run[l].at = "none"
    BY <1>1, <2>2 DEF Recorded, RunRecord
  <2>4. Recorded(l)'
    BY <1>1, <2>2, <2>3 DEF Recorded
  <2>5. lookup'[l].at = "stat" /\ lookup'[l].name = Entry(l) /\ lookup'[l].trigger = lookup[l].trigger
    BY <1>1, <2>2 DEF Lookup
  <2>6. CASE l \notin overtaken' /\ Entry(l) \notin history.spoilt
    <3>1. \A d \in Deploying(Entry(l)) : deploy[d].trigger = lookup[l].trigger
      BY <1>6, <2>6 DEF Match
    <3>2. dir[Entry(l)].manifest.state = "whole" /\ dir[Entry(l)].manifest.trigger = lookup[l].trigger
      BY <1>6 DEF Match, AcceptEntry, Accepts, Qualifies
    <3>3. Kept(Entry(l))
      BY <2>1 DEF RunInv, AllKept
    <3>4. version[Entry(l)] = lookup[l].trigger
      BY <2>6, <3>1, <3>2, <3>3 DEF Kept
    <3>5. QED
      BY <1>2, <2>1, <2>2, <2>3, <2>4, <2>5, <3>1, <3>4 DEF Aimed, Meant, Deploying
  <2>7. QED
    BY <1>2, <2>1, <2>2, <2>3, <2>4, <2>5, <2>6 DEF Aimed
<1>7. CASE Start(l)
  <2>1. /\ lookup' = lookup /\ overtaken' = overtaken
        /\ lookup[l].at = "found" /\ run[l].at = "none" /\ lookup[l].name \in Name
        /\ ~Writing(lookup[l].name)
        /\ \/ run'[l] = Loaded(lookup[l].name)
           \/ run'[l] = [run[l] EXCEPT !.at = "started"]
    BY <1>1, <1>7 DEF Start, Ready, vars, Aimed
  <2>2. \/ /\ run'[l].at = "running" /\ run'[l].binary = dir[lookup[l].name].binary
           /\ run'[l].version = version[lookup[l].name] /\ run'[l].version # NoTrigger
           /\ run'[l].job = "none"
        \/ /\ run'[l].at = "started" /\ run'[l].version = NoTrigger
           /\ run'[l].job = run[l].job
    BY <1>1, <2>1, RunnerAssumption DEF Loaded, RunRecord, Recorded
  <2>3. CASE l \notin overtaken /\ lookup[l].name \notin history.spoilt
    <3>1. Kept(lookup[l].name) /\ dir[lookup[l].name] \in Function
      BY <1>1, <2>1 DEF RunInv, AllKept
    <3>2. dir[lookup[l].name].binary = "whole"
      BY <1>1, <2>1, <2>3, <3>1 DEF Kept, Aimed, Function, State
    <3>3. version[lookup[l].name] = lookup[l].trigger
      BY <1>1, <2>1, <2>3 DEF Aimed, Meant
    <3>4. QED
      BY <1>1, <1>2, <2>1, <2>2, <3>2, <3>3 DEF Aimed, Meant, Deploying, Recorded
  <2>4. QED
    BY <1>1, <1>2, <2>1, <2>2, <2>3 DEF Aimed, Meant, Deploying, Recorded
<1>8. CASE DoesNotStart(l)
  <2>1. /\ lookup' = lookup /\ overtaken' = overtaken
        /\ lookup[l].at = "found" /\ run[l].at \in {"none", "started"}
        /\ run'[l] = [run[l] EXCEPT !.at = "ended", !.job = "failed"]
    BY <1>1, <1>8 DEF DoesNotStart, Ready, Recorded, vars
  <2>2. run'[l].at = "ended" /\ run'[l].job = "failed" /\ run'[l].version = NoTrigger
    BY <1>1, <2>1 DEF RunRecord, Recorded
  <2>3. QED
    BY <1>1, <1>2, <2>1, <2>2 DEF Aimed, Meant, Deploying, Recorded
<1>9. CASE Exit(l)
  <2>1. lookup' = lookup /\ overtaken' = overtaken /\ run[l].at = "running"
    BY <1>9 DEF Exit, vars
  <2>2. PICK job : run'[l] = [run[l] EXCEPT !.at = "ended", !.job = job]
    BY <1>1, <1>9 DEF Exit
  <2>3. run'[l].at = "ended" /\ run'[l].version = run[l].version /\ run'[l].binary = run[l].binary
    BY <1>1, <2>2 DEF RunRecord
  <2>4. QED
    BY <1>1, <1>2, <2>1, <2>3 DEF Aimed, Meant, Deploying, Recorded
<1>10. CASE DispatchReturns(l)
  <2>1. lookup'[l] = NoLookup /\ run'[l] = NoRun
    BY <1>1, <1>10 DEF DispatchReturns, Answer
  <2>2. QED
    BY <2>1 DEF NoLookup, NoRun, Aimed, Recorded
<1>11. CASE ReadScript(l)
  <2>1. /\ lookup' = lookup /\ overtaken' = overtaken
        /\ lookup[l].at = "found" /\ lookup[l].name \in Name /\ run[l].at = "started"
        /\ run'[l] = Loaded(lookup[l].name)
    BY <1>1, <1>11 DEF ReadScript, vars, Aimed, Recorded
  <2>2. /\ run'[l].at = "running" /\ run'[l].binary = dir[lookup[l].name].binary
        /\ run'[l].version = version[lookup[l].name] /\ run'[l].version # NoTrigger
        /\ run'[l].job = "none"
    BY <1>1, <2>1, RunnerAssumption DEF Loaded
  <2>3. Aimed(l)'
    BY <1>1, <1>2, <2>1, <2>2 DEF Aimed
  <2>4. Recorded(l)'
    BY <1>1, <1>2, <2>1, <2>2 DEF Aimed, Recorded
  <2>5. QED
    BY <2>3, <2>4
<1>12. QED
  BY <1>5, <1>6, <1>7, <1>8, <1>9, <1>10, <1>11 DEF DispatchStep

(* Deployments leave what a lookup has found, and never remove a binary. *)
LEMMA DeployLeaves ==
  ASSUME RunInv, NEW d \in Deployer, RunDeployStep(d), NEW l \in Lookups
  PROVE  /\ lookup'[l].at = lookup[l].at /\ lookup'[l].name = lookup[l].name
         /\ lookup'[l].trigger = lookup[l].trigger /\ run'[l] = run[l]
         /\ \A n \in Name : dir[n].binary # "absent" => dir'[n].binary # "absent"
         /\ history.spoilt \subseteq history'.spoilt /\ overtaken \subseteq overtaken'
<1>1. /\ lookup[l] \in Lookup /\ dir \in [Name -> Function] /\ history \in History
      /\ \A n \in Name : dir[n] \in Function
  BY DEF RunInv, RunnerType, TypeOK
<1>2. UNCHANGED lookup \/ \E files : Overwrite(files)
  BY RunDeploys
  DEF DeployFunction, OpenIdleBinary, ReplaceBinary, BeginDeploy, OpenBinary, WriteBinary,
      OpenManifest, WriteManifest, DeployFails
<1>3. /\ lookup'[l].at = lookup[l].at /\ lookup'[l].name = lookup[l].name
      /\ lookup'[l].trigger = lookup[l].trigger
  BY <1>1, <1>2 DEF Overwrite, Lookup
<1>4. run' = run /\ overtaken \subseteq overtaken'
  BY RunDeploys DEF DeployFunction, OpenIdleBinary, ReplaceBinary, runVars
<1>5. history.spoilt \subseteq history'.spoilt
  <2>1. \/ history' = history
        \/ \E names : history' = [history EXCEPT !.spoilt = @ \cup names]
        \/ \E done : history' = [history EXCEPT !.done[deploy[d].name] = done]
    BY RunDeploys
    DEF DeployFunction, OpenIdleBinary, ReplaceBinary, BeginDeploy, OpenBinary, WriteBinary,
        OpenManifest, WriteManifest, DeployFails, DeployGoto, Deployed
  <2>2. QED
    BY <1>1, <2>1 DEF History
<1>6. ASSUME NEW n \in Name, dir[n].binary # "absent"
      PROVE  dir'[n].binary # "absent"
  <2>1. \/ dir' = dir
        \/ \E b \in {"torn", "whole"} : dir' = [dir EXCEPT ![deploy[d].name].binary = b]
        \/ \E manifest : dir' = [dir EXCEPT ![deploy[d].name].manifest = manifest]
    BY RunDeploys
    DEF DeployFunction, OpenIdleBinary, ReplaceBinary, BeginDeploy, OpenBinary, WriteBinary,
        OpenManifest, WriteManifest, DeployFails, Overwrite
  <2>2. CASE \E b \in {"torn", "whole"} : dir' = [dir EXCEPT ![deploy[d].name].binary = b]
    <3>1. PICK b \in {"torn", "whole"} : dir' = [dir EXCEPT ![deploy[d].name].binary = b]
      BY <2>2
    <3>2. dir'[n].binary = dir[n].binary \/ dir'[n].binary = b
      BY <1>1, <3>1 DEF Function
    <3>3. QED
      BY <1>6, <3>2
  <2>3. CASE \E manifest : dir' = [dir EXCEPT ![deploy[d].name].manifest = manifest]
    BY <1>1, <1>6, <2>3 DEF Function
  <2>4. QED
    BY <1>6, <2>1, <2>2, <2>3
<1>7. QED
  BY <1>3, <1>4, <1>5, <1>6

(* Only a deployment for other events changes what n is meant for. *)
LEMMA MeantStays ==
  ASSUME RunnerType, RunType, NEW d \in Deployer, RunDeployStep(d), NEW n \in Name, NEW t \in Trigger,
         Meant(n, t), \A u \in Trigger : DeployFunction(d, n, u) => u = t
  PROVE  Meant(n, t)'
<1>1. /\ deploy \in [Deployer -> Deploy] /\ deploy[d] \in Deploy
      /\ version \in [Name -> Trigger]
  BY DEF RunnerType, TypeOK, RunType
<1>2. ASSUME NEW m \in Name, NEW u \in Trigger, DeployFunction(d, m, u)
      PROVE  Meant(n, t)'
  <2>1. /\ version' = version
        /\ deploy' = [deploy EXCEPT ![d] = [at |-> "open binary", name |-> m, trigger |-> u]]
    BY <1>2 DEF DeployFunction, BeginDeploy
  <2>2. m = n => u = t
    BY <1>2
  <2>3. QED
    BY <1>1, <2>1, <2>2 DEF Meant, Deploying
<1>3. CASE OpenIdleBinary(d) \/ ReplaceBinary(d) \/ (OpenManifest(d) /\ UNCHANGED runVars)
  <2>1. PICK at : deploy' = [deploy EXCEPT ![d].at = at]
    BY <1>3 DEF OpenIdleBinary, ReplaceBinary, OpenBinary, WriteBinary, OpenManifest, DeployGoto
  <2>2. \A e \in Deployer : deploy'[e].name = deploy[e].name /\ deploy'[e].trigger = deploy[e].trigger
    BY <1>1, <2>1 DEF Deploy
  <2>3. \A e \in Deploying(n)' : deploy'[e].trigger = t
    BY <2>2 DEF Deploying, Meant
  <2>4. version'[n] = version[n] \/ (deploy[d].name = n /\ version'[n] = deploy[d].trigger)
    BY <1>1, <1>3 DEF OpenIdleBinary, ReplaceBinary, runVars
  <2>5. QED
    BY <2>3, <2>4 DEF Meant, Deploying
<1>4. CASE (WriteManifest(d) \/ DeployFails(d)) /\ UNCHANGED runVars
  <2>1. deploy' = [deploy EXCEPT ![d] = NoDeploy] /\ version' = version
    BY <1>4 DEF WriteManifest, Deployed, DeployFails, runVars
  <2>2. deploy'[d].name # n /\ \A e \in Deployer : e # d => deploy'[e] = deploy[e]
    BY <1>1, <2>1, NoNameIsNone DEF NoDeploy
  <2>3. \A e \in Deploying(n)' : e \in Deploying(n) /\ deploy'[e] = deploy[e]
    BY <2>2 DEF Deploying
  <2>4. QED
    BY <2>1, <2>3 DEF Meant
<1>5. QED
  BY <1>2, <1>3, <1>4, RunDeploys

(* A complete binary changes only after it has been opened for writing. *)
LEMMA WholeStays ==
  ASSUME RunInv, NEW d \in Deployer, RunDeployStep(d), NEW n \in Name,
         dir[n].binary = "whole", n \notin history.spoilt, ~(OpenIdleBinary(d) /\ deploy[d].name = n)
  PROVE  dir'[n].binary = "whole" /\ version'[n] = version[n]
<1>1. /\ dir \in [Name -> Function] /\ dir[n] \in Function /\ version \in [Name -> Trigger]
      /\ Orderly(n)
  BY DEF RunInv, RunnerType, TypeOK, RunType, AllOrderly
<1>2. CASE OpenIdleBinary(d) \/ ReplaceBinary(d)
  <2>1. deploy[d].name # n
    <3>1. ASSUME ReplaceBinary(d), deploy[d].name = n
          PROVE  dir[n].binary = "torn"
      BY <1>1, <3>1 DEF ReplaceBinary, WriteBinary, Orderly, Deploying
    <3>2. QED
      BY <1>2, <3>1
  <2>2. QED
    BY <1>1, <1>2, <2>1
    DEF OpenIdleBinary, OpenBinary, ReplaceBinary, WriteBinary, Overwrite
<1>3. CASE (OpenManifest(d) \/ WriteManifest(d)) /\ UNCHANGED runVars
  <2>1. PICK manifest : dir' = [dir EXCEPT ![deploy[d].name].manifest = manifest]
    BY <1>3 DEF OpenManifest, WriteManifest, Overwrite
  <2>2. QED
    BY <1>1, <1>3, <2>1 DEF Function, runVars
<1>4. QED
  BY <1>2, <1>3, RunDeploys DEF DeployFunction, BeginDeploy, DeployFails, runVars

LEMMA DeployTraced ==
  ASSUME RunInv, NEW d \in Deployer, RunDeployStep(d), NEW l \in Lookups
  PROVE  Aimed(l)' /\ Recorded(l)'
<1>1. lookup[l] \in Lookup /\ Aimed(l) /\ Recorded(l)
  BY DEF RunInv, RunnerType, TypeOK, RunType, AllTraced
<1>2. Recorded(l)'
  BY <1>1, DeployLeaves DEF Recorded
<1>3. CASE /\ lookup[l].at \in {"stat", "found"} /\ run[l].at = "none"
           /\ l \notin overtaken' /\ lookup[l].name \notin history'.spoilt
  <2>1. PICK n \in Name, t \in Trigger : n = lookup[l].name /\ t = lookup[l].trigger
    BY <1>1, <1>3 DEF Aimed, Lookup
  <2>2. Meant(n, t)
    BY <1>1, <1>3, <2>1, DeployLeaves DEF Aimed
  <2>3. \A u \in Trigger : DeployFunction(d, n, u) => u = t
    BY <1>3, <2>1 DEF DeployFunction, HasFound
  <2>4. Meant(n, t)'
    BY <2>2, <2>3, MeantStays DEF RunInv
  <2>5. QED
    BY <1>1, <1>2, <1>3, <2>1, <2>4, DeployLeaves DEF Aimed, Meant
<1>4. CASE /\ run[l].at = "started"
           /\ l \notin overtaken' /\ lookup[l].name \notin history'.spoilt
  <2>1. PICK n \in Name : n = lookup[l].name
    BY <1>1, <1>4 DEF Aimed, Recorded
  <2>2. dir[n].binary = "whole" /\ version[n] = lookup[l].trigger
    BY <1>1, <1>4, <2>1, DeployLeaves DEF Aimed
  <2>3. ~(OpenIdleBinary(d) /\ deploy[d].name = n)
    BY <1>4, <2>1 DEF OpenIdleBinary
  <2>4. dir'[n].binary = "whole" /\ version'[n] = version[n]
    BY <1>4, <2>1, <2>2, <2>3, DeployLeaves, WholeStays
  <2>5. QED
    BY <1>1, <1>2, <1>4, <2>1, <2>2, <2>4, DeployLeaves DEF Aimed
<1>5. QED
  BY <1>1, <1>2, <1>3, <1>4, DeployLeaves DEF Aimed

LEMMA RunTypeStep == RunInv /\ [RunNext]_<<vars, runVars>> => RunType'
<1> SUFFICES ASSUME RunnerType, RunType, AllSighted, AllTraced, [RunNext]_<<vars, runVars>>
             PROVE  RunType'
  BY DEF RunInv
<1>1. CASE UNCHANGED runVars
  BY <1>1 DEF runVars, RunType
<1>2. ASSUME NEW l \in Lookups, DispatchStep(l)
      PROVE  RunType'
  <2>1. run[l] \in RunRecord /\ lookup[l] \in Lookup
    BY DEF RunType, RunnerType, TypeOK
  <2>2. CASE Start(l) \/ ReadScript(l)
    <3>1. lookup[l].name \in Name
      BY <2>2 DEF Start, ReadScript, Ready, AllSighted, Sighted, AllTraced, Aimed, Recorded
    <3>2. dir[lookup[l].name].binary \in State /\ version[lookup[l].name] \in Trigger
      BY <3>1 DEF RunnerType, TypeOK, RunType, Function
    <3>3. Loaded(lookup[l].name) \in RunRecord /\ [run[l] EXCEPT !.at = "started"] \in RunRecord
      BY <2>1, <3>2 DEF Loaded, RunRecord
    <3>4. QED
      BY <2>2, <3>3 DEF Start, ReadScript, RunType
  <2>3. QED
    BY <1>1, <1>2, <2>1, <2>2
    DEF DispatchStep, Scan, Match, DoesNotStart, Exit, DispatchReturns, NoRun, RunType, RunRecord,
        runVars, State
<1>3. ASSUME NEW d \in Deployer, RunDeployStep(d)
      PROVE  RunType'
  <2>1. deploy[d].trigger \in Trigger
    BY DEF RunnerType, TypeOK, Deploy
  <2>2. QED
    BY <1>1, <1>3, <2>1, RunDeploys
    DEF DeployFunction, OpenIdleBinary, ReplaceBinary, RunType, runVars
<1>4. QED
  BY <1>1, <1>2, <1>3 DEF RunNext

LEMMA RunInvInit == RunInit => RunInv
<1>1. RunInit => AllTraced
  BY DEF RunInit, Init, NoLookup, NoRun, AllTraced, Aimed, Recorded
<1>2. QED
  BY <1>1, RunnerTypeInit, RunTypeInit, SightedInit, OrderlyInit, KeptInit DEF RunInit, RunInv

LEMMA RunInvStep == RunInv /\ [RunNext]_<<vars, runVars>> => RunInv'
<1> SUFFICES ASSUME RunInv, [RunNext]_<<vars, runVars>>
             PROVE  RunInv'
  OBVIOUS
<1>1. RunnerType' /\ AllSighted' /\ AllOrderly'
  BY RunStepsOnDirectory, RunnerTypeStep, SightedStep, OrderlyStep DEF RunInv
<1>2. RunType' /\ AllKept'
  BY RunTypeStep, KeptStep DEF RunInv
<1>3. ASSUME UNCHANGED <<vars, runVars>>, NEW l \in Lookups
      PROVE  Aimed(l)' /\ Recorded(l)'
  <2>1. Aimed(l) /\ Recorded(l)
    BY DEF RunInv, AllTraced
  <2>2. QED
    BY <1>3, <2>1, TracedElsewhere DEF vars, runVars
<1>4. ASSUME NEW l \in Lookups
      PROVE  Aimed(l)' /\ Recorded(l)'
  BY <1>3, DispatchTraced, DeployTraced DEF RunNext
<1>5. QED
  BY <1>1, <1>2, <1>4 DEF RunInv, AllTraced

LEMMA RunInvTyped == RunInv => RunTypeOK
  BY DEF RunInv, RunnerType, RunType, RunTypeOK

(***************************************************************************)
(* Every reachable state of the directory, of the dispatches and of their  *)
(* runs (runner.go, dispatcher.go) has its type.                           *)
(***************************************************************************)
THEOREM RunTypeCorrect == RunSpec => []RunTypeOK
  BY RunInvInit, RunInvStep, RunInvTyped, PTL DEF RunSpec

LEMMA RunInvMatched == RunInv => RunsWhatItMatched
  BY DEF RunInv, AllTraced, Recorded, RunsWhatItMatched

(***************************************************************************)
(* The binary that Dispatch runs (dispatcher.go, runner.go) is complete    *)
(* and deployed for the event, for any number of dispatches and of         *)
(* deployments at once, with the exceptions of RunsWhatItMatched; and only *)
(* such a run completes a Job.                                             *)
(***************************************************************************)
THEOREM MatchedIsRun == RunSpec => []RunsWhatItMatched
  BY RunInvInit, RunInvStep, RunInvMatched, PTL DEF RunSpec
===============================================================================
