SPECIFICATION FairSpec
CONSTANTS
  NULL = NULL
  r1 = r1
  r2 = r2
  k1 = k1
  k2 = k2
  Requests = {r1, r2}
  Tokens = {k1, k2}
  Tenants = {tenant1, tenant2}
  Claims <- TwoClaims
  Asks <- TwoAsks
INVARIANTS TypeOK AllOrNothing
PROPERTIES ImplementsRequests ServicesStop
