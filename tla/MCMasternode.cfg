CONSTANTS
    Thread = {w1}
    Name = {site, other, NoName}
    NoName = NoName
    NoHost = NoHost
    Message <- MCMessage
    Config <- MCConfig
    site = site
    other = other
    w1 = w1
SPECIFICATION FairMasternodeSpec
INVARIANTS
    MasternodeTypeOK
    OneResponse
    RedirectsLeadToContent
    ContentOnlyWhereConfigured
    RequestsFindTheirParts
    PollerFindsItsParts
PROPERTIES
    EndsForAReason
    StopsUnlessGatewaySilent
CHECK_DEADLOCK FALSE
