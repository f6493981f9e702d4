CONSTANTS
  c1 = c1
  Clients = {c1}
  Requests <- ServiceRequests
  MaxHeight = 2
  StoreMayFail = FALSE
SPECIFICATION ServiceSpec
INVARIANT AllMetadataDAWithinSubmitted
INVARIANT AllMetadataNotStale
INVARIANT LatestBlockIsCurrent
INVARIANT RestKeysListsCatalog
INVARIANT RestAllListsCatalog
CHECK_DEADLOCK FALSE
