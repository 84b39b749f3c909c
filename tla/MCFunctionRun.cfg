\* One dispatch against two deployments at once.  The functions shipped
\* are scripts, the third one, if it is deployed, is compiled.
CONSTANTS
    pipelineRequested = pipelineRequested
    branchCreate = branchCreate
    functionCode = functionCode
    N = 3
    Trigger = {pipelineRequested, branchCreate}
    NoTrigger = noTrigger
    Literal = {functionCode}
    Seed <- ShippedOrEmpty
    Script = {1, 2}
    Lookups = {l1}
    Deployer = {d1, d2}
    MaxDeploys = 2
SPECIFICATION RunSpec
INVARIANTS
    RunTypeOK
    SteadyFunctionIsFound
    DeploymentTakesEffect
    RunsWhatItMatched
