CONSTANTS
  c1 = c1
  Clients = {c1}
  Requests <- MetadataRequests
  MaxHeight = 2
  StoreMayFail = TRUE
SPECIFICATION Spec
INVARIANT AllMetadataNotStale
CHECK_DEADLOCK FALSE
