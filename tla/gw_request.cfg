\* One request of any kind through every kind of plugin and answer.
CONSTANTS
    c1 = c1
    c2 = c2
    p1 = p1
    Clients = {c1, c2}
    Proxies = {p1}
    Trusted <- MCTrusted
    Configs <- MCConfigs
    Methods <- MCMethods
    Slashed <- MCSlashed
    infoPath = "/"
    Requests <- MCRequests
    Answers <- MCAnswers
    Names <- MCNames
    Values <- MCValues
    maxBodyBytes = 5
    MaxInfo = 1
SPECIFICATION Spec
INVARIANTS
    TypeOK ClientIdentified PolicyApplied MetricIsAnswer OneRequestId OriginShielded RoutedByHost
    PreflightAnswered CorsConsistent
