SPECIFICATION FairSpec
CONSTANTS
  NULL = NULL
  Error = Error
  x1 = x1
  x2 = x2
  Texts = {x1, x2}
  Calls = {c1, c2}
  Cancellable = {c2}
  Batches <- TwoTexts
  Burst = 1
  MaxAttempts = 3
  BaseDelay = 5
  MaxJitter = 1
  HttpTimeout = 150
INVARIANTS TypeOK RateBound DurationBound
PROPERTIES ImplementsEmbedCalls
