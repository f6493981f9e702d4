--------------------------- MODULE MCStoreServer ---------------------------
(* Model-checking instance of StoreServer for the metadata handlers: one  *)
(* client asking for the key list or for every key's value.               *)
EXTENDS StoreServer

CONSTANTS c1

MetadataRequests == {[op |-> "GetAllMetadata"], [op |-> "ListMetadataKeys"]}
=============================================================================
