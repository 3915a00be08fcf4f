\* A new model whose productId the catalog does not know.
SPECIFICATION Spec
CONSTANTS
  a = a
  b = b
  n1 = n1
  n2 = n2
  n3 = n3
  n2s = n2s
  p = p
  Requests = {r1}
  Ids = {a}
  Names <- MCNames
  Simplified <- MCSimplified
  Dates = {1, 2, 3}
  Resolutions = {1, 2, 3}
  Products = {p}
  InitialCatalogs <- OneRecord
  Calls <- ProductCalls
  Lockable = {}
  ExtractableEnabled = TRUE
  Turns = "one"
  Faulty = FALSE
  Late = FALSE
  NoRecord = NoRecord
  NoCall = NoCall
  Undefined = Undefined
PROPERTIES
  UnknownProductIsRefused
