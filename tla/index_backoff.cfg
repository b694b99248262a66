SPECIFICATION ScanSpec
CONSTANTS
  a = a
  b = b
  Items = {a, b}
  Contexts <- MCContexts
  Shallow = {b}
  MaxFails = 3
  MaxBatch = 1
  FeedbackCap = 1
  MaxEvidence <- MCMaxEvidence
PROPERTY
  BackoffHolds
