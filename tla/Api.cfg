\* Mode A: two requests at once, reads from a cache that lags.
SPECIFICATION Safety
CONSTANTS
  Requests = {t1, t2}
  PipelineSpecs <- MixedBodies
  AuthEnabled = FALSE
  MaxVersion = 3
INVARIANT TypeOK
PROPERTY ReplacesWhatItRead
CHECK_DEADLOCK FALSE
