SPECIFICATION FairSpec
CONSTANTS
  NULL = NULL
  d1 = d1
  d2 = d2
  s1 = s1
  s2 = s2
  s3 = s3
  t1 = t1
  t2 = t2
  text1 = text1
  text2 = text2
  text3 = text3
  Docs = {d1}
  Tenants = {t1}
  Texts = {text1, text2}
  Models = {model}
  Uploads <- AnyUpload
  Handlers = {h1}
  Slots = {s1, s2}
  Pods = {pod}
  PodOf <- OnePod
  BatchMax = 2
  EmbedModel = model
  Unembeddable = {}
  RespectDedup = FALSE
  MaxRequests = 2
  MaxFaults = 0
INVARIANTS RepostingIsSafe
CHECK_DEADLOCK FALSE
