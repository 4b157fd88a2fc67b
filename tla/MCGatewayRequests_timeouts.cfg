SPECIFICATION FairSpec
CONSTANTS
    Requests = {r1, r2}
    GatewayTimeout = 2
    ClientTimeout = 3
    MidpointTimeout = 6
INVARIANTS MetricsExact LoginsAreTold FallbackIsLate
PROPERTIES RequestsEnd
