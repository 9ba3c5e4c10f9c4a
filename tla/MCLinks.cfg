SPECIFICATION Spec
CONSTANTS
    Text <- MCText
    LinkSet <- MCLinkSet
    DedupLinks <- MCDedupLinks
    Flags <- MCFlags
    ChainLinks <- MCChainLinks
    DedupLen = 2
    MaxBuilds = 3
    AllowInsecure = FALSE
INVARIANTS
    RebuildStable
    DedupFaithful
    CoresAgree
    ListenerLink
