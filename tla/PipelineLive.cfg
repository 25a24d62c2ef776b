SPECIFICATION FairSpec
CONSTANTS
  NULL = NULL
  d1 = d1
  d2 = d2
  s1 = s1
  s2 = s2
  s3 = s3
  t1 = t1
  t2 = t2
  text1 = text1
  text2 = text2
  text3 = text3
  Docs = {d1, d2}
  Tenants = {t1, t2}
  Texts = {text1, text2, text3}
  Models = {model}
  Uploads <- OneSharedId
  Handlers = {h1}
  Slots = {s1, s2, s3}
  Pods = {pod1, pod2}
  PodOf <- TwoPods
  BatchMax = 1
  EmbedModel = model
  Unembeddable = {text1}
  RespectDedup = FALSE
  MaxRequests = 2
  MaxFaults = 1
INVARIANTS OnePodPerTenant NoSilentLoss
PROPERTIES EventuallyCurrent ImplementsWritePath
CHECK_DEADLOCK FALSE
