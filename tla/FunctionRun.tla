------------------------------ MODULE FunctionRun ------------------------------
(***************************************************************************)
(* The run of the function that a lookup has found, on the directory of    *)
(* BinaryRunner: between the lookup and the run Dispatch makes a Job, and  *)
(* deployments go on meanwhile.  Run takes the path of the binary, not its *)
(* content.                                                                *)
(*                                                                         *)
(* The binary and the operating system are external: a file is not         *)
(* executed while it is open for writing, and a compiled one not opened    *)
(* for writing while it is executed.  A script is protected only while     *)
(* exec looks for its interpreter, which then reads the file like anybody  *)
(* else; the functions shipped are scripts.  What the binary makes of its  *)
(* input is its own affair, and so is when it ends: Run sets it no limit.  *)
(***************************************************************************)
EXTENDS BinaryRunner

CONSTANT Script  \* the functions whose binaries are scripts

\* The binaries the directory comes with are complete.
ASSUME RunAssumption == /\ \A s \in Seed, n \in Name : s[n].binary # "torn"
                        /\ Script \subseteq Name

VARIABLES version,   \* version[n]: the trigger the binary of n was last written for
          run,       \* run[l]: the run of the function l has found
          overtaken  \* the dispatches whose function is deployed for another event,
                     \* or whose script is being replaced as it is started

runVars == <<version, run, overtaken>>

\* binary and version are those of the file as it was executed, or read by the
\* interpreter that had been started; job is what Dispatch does with the Job then.
RunRecord == [at : {"none", "started", "running", "ended"}, binary : State,
              version : Trigger \cup {NoTrigger}, job : {"none", "failed", "completed"}]
NoRun == [at |-> "none", binary |-> "absent", version |-> NoTrigger, job |-> "none"]

\* What Run can make of stdout: the status of the Output, if it parses at all.
Output == {"unparseable", "ok", "issues-found", "error", "other"}

RunInit ==
    /\ Init
    /\ version = [n \in Name |-> dir[n].manifest.trigger]
    /\ run = [l \in Lookups |-> NoRun]
    /\ overtaken = {}

HasFound(l, n) == lookup[l].at \in {"stat", "found"} /\ lookup[l].name = n
Writing(n) == \E d \in Deploying(n) : deploy[d].at = "write binary"
Executing(n) == n \notin Script /\ \E l \in Lookups : run[l].at = "running" /\ lookup[l].name = n
-----------------------------------------------------------------------------
(* Dispatch *)

Scan(l) ==
    /\ \/ \E t \in Trigger, p \in Payload : ReadDir(l, t, p)
       \/ SkipEntry(l) \/ StatBinary(l) \/ Miss(l)
    /\ UNCHANGED runVars

\* A deployment of the function may be half done, with the manifest still the old one.
Match(l) ==
    /\ AcceptEntry(l)
    /\ overtaken' = IF \A d \in Deploying(Entry(l)) : deploy[d].trigger = lookup[l].trigger
                    THEN overtaken \ {l} ELSE overtaken \cup {l}
    /\ UNCHANGED <<version, run>>

Ready(l) == lookup[l].at = "found" /\ run[l].at = "none"

Loaded(n) == [at |-> "running", binary |-> dir[n].binary, version |-> version[n], job |-> "none"]

Start(l) ==
    LET n == lookup[l].name
    IN  /\ Ready(l)
        /\ ~Writing(n)
        /\ run' = [run EXCEPT ![l] = IF n \in Script THEN [@ EXCEPT !.at = "started"] ELSE Loaded(n)]
        /\ UNCHANGED <<vars, version, overtaken>>

\* The interpreter reads the script as it is by now.
ReadScript(l) ==
    /\ run[l].at = "started"
    /\ run' = [run EXCEPT ![l] = Loaded(lookup[l].name)]
    /\ UNCHANGED <<vars, version, overtaken>>

\* The binary is busy, or is no executable, or its interpreter fails.  Nothing is on
\* stdout, so that Run returns an error, and Dispatch fails the Job.
DoesNotStart(l) ==
    /\ Ready(l) \/ run[l].at = "started"
    /\ run' = [run EXCEPT ![l].at = "ended", ![l].job = "failed"]
    /\ UNCHANGED <<vars, version, overtaken>>

\* The binary ends, with whatever exit code: a status other than "error" completes
\* the Job.
Exit(l) ==
    /\ run[l].at = "running"
    /\ \E stdout \in Output :
          run' = [run EXCEPT ![l].at = "ended",
                             ![l].job = IF stdout \in {"unparseable", "error"}
                                        THEN "failed" ELSE "completed"]
    /\ UNCHANGED <<vars, version, overtaken>>

\* Dispatch is over: nothing was found, no Job could be made, or the run has ended.
DispatchReturns(l) ==
    /\ run[l].at \in {"none", "ended"}
    /\ Answer(l)
    /\ run' = [run EXCEPT ![l] = NoRun]
    /\ overtaken' = overtaken \ {l}
    /\ UNCHANGED version

DispatchStep(l) ==
    \/ Scan(l) \/ Match(l)
    \/ Start(l) \/ ReadScript(l) \/ DoesNotStart(l) \/ Exit(l)
    \/ DispatchReturns(l)
-----------------------------------------------------------------------------
(* DeployFunction *)

\* Requests without a name or a trigger are refused; so are those without a binary,
\* which are left out.
DeployFunction(d, n, trigger) ==
    /\ n # NoName /\ trigger # NoTrigger
    /\ BeginDeploy(d, n, trigger)
    /\ overtaken' = overtaken \cup
          {l \in Lookups : HasFound(l, n) /\ run[l].at = "none" /\ lookup[l].trigger # trigger}
    /\ UNCHANGED <<version, run>>

\* A script is truncated also between its start and the moment it is read.
OpenIdleBinary(d) ==
    /\ ~Executing(deploy[d].name)
    /\ OpenBinary(d)
    /\ overtaken' = overtaken \cup
          {l \in Lookups : run[l].at = "started" /\ lookup[l].name = deploy[d].name}
    /\ UNCHANGED <<version, run>>

ReplaceBinary(d) ==
    /\ WriteBinary(d)
    /\ version' = [version EXCEPT ![deploy[d].name] = deploy[d].trigger]
    /\ UNCHANGED <<run, overtaken>>

RunDeployStep(d) ==
    \/ \E n \in Name \cup {NoName}, t \in Trigger \cup {NoTrigger} : DeployFunction(d, n, t)
    \/ OpenIdleBinary(d) \/ ReplaceBinary(d)
    \/ (OpenManifest(d) \/ WriteManifest(d) \/ DeployFails(d)) /\ UNCHANGED runVars

RunNext == (\E l \in Lookups : DispatchStep(l)) \/ (\E d \in Deployer : RunDeployStep(d))

RunSpec == RunInit /\ [][RunNext]_<<vars, runVars>>
-----------------------------------------------------------------------------
RunTypeOK ==
    /\ TypeOK
    /\ version \in [Name -> Trigger]
    /\ run \in [Lookups -> RunRecord]
    /\ overtaken \subseteq Lookups

(***************************************************************************)
(* A Job is completed only by a binary that was executed, and what is      *)
(* executed is complete and was deployed for the event, although Lookup,   *)
(* the Job and the run are steps of their own and the binary is replaced   *)
(* before its manifest.  The exceptions are a deployment for another event *)
(* that is under way or begins before the run, one that opens a script     *)
(* after it was started and before its interpreter has read it, and a name *)
(* one deployment of which failed or met with another.  A script that was  *)
(* already being written when the run began is not executed.               *)
(***************************************************************************)
RunsWhatItMatched ==
    \A l \in Lookups :
        /\ run[l].job = "completed" => run[l].version # NoTrigger
        /\ run[l].version # NoTrigger =>
              \/ l \in overtaken
              \/ lookup[l].name \in history.spoilt
              \/ run[l].binary = "whole" /\ run[l].version = lookup[l].trigger
===============================================================================
