SPECIFICATION HistorySpec
CONSTANTS
  a = a
  b = b
  Items = {a, b}
  Contexts <- MCContexts
  Shallow = {b}
  MaxFails = 2
  MaxBatch = 1
  FeedbackCap = 1
  MaxEvidence <- MCMaxEvidence
PROPERTY
  OnlyDeletesAreHandedOver
