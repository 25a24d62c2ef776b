SPECIFICATION FairSpec
CONSTANTS
  NULL = NULL
  d1 = d1
  d2 = d2
  t1 = t1
  t2 = t2
  x1 = x1
  x2 = x2
  Docs = {d1, d2}
  Tenants = {t1, t2}
  Texts = {x1, x2}
  Models = {m1}
  EmbedModel = m1
  Uploads <- OneSharedId
  Workers = {w1}
  Searchers = {s1, s2}
  Queries = {q1}
  Limits = {0, 3}
  DefaultLimit = 1
  MaxLimit = 2
  MaxChanges = 3
INVARIANTS TypeOK TenantIsolation OnceRight
PROPERTIES EventuallyFresh
