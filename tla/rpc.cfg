SPECIFICATION RpcSpec
CONSTANTS
    First = First
    Second = Second
    Calls = {First, Second}
    Offers <- MCOffers
    Later <- MCLater
    Nil = Nil
    Malformed = Malformed
    AgentToken = "abc"
    ClusterID = "ab"
    LeaderAddr = "a"
    Text <- MCText
    Length <- MCLength
    WithNul = {"nul"}
    SafeID <- MCSafeID
    ImageRef <- MCImageRef
    Limits <- MCLimits
INVARIANTS
    RpcTypeOK
    CodeTellsWhy
    EachGetsItsOwn
    CountedUnderOwnName
    DiesOnlyOfMissingResources
