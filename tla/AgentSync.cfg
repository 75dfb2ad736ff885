SPECIFICATION FairSpec
CONSTANTS
    Sessions = {1, 2}
    RangeLists <- MCRangeLists
    MaxSize = 2
    Retries = 1
    MaxSyncs = 2
INVARIANTS
    AgentTypeOK
    FlagsAreFresh
    SuccessMeansSent

PROPERTIES
    Returns
