\* One lookup and one deployment in the directory as shipped.
CONSTANTS
    pipelineRequested = pipelineRequested
    branchCreate = branchCreate
    functionCode = functionCode
    N = 3
    Trigger = {pipelineRequested, branchCreate}
    NoTrigger = noTrigger
    Literal = {functionCode}
    Seed <- ShippedOnly
    Lookups = {l1}
    Deployer = {d1}
    MaxDeploys = 1
SPECIFICATION Spec
INVARIANTS
    QualifierHolds
