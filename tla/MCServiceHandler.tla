------------------------- MODULE MCServiceHandler --------------------------
(* Model-checking instance of ServiceHandler: every request the mux       *)
(* routes, the plain HTTP ones sent with GET or with another method.      *)
EXTENDS ServiceHandler

CONSTANTS c1

Methods == {"GET", "POST"}

ServiceRequests ==
  {[op |-> "GetBlock", height |-> h] : h \in 0..MaxHeight}
  \cup {[op |-> "GetBlockByHash", height |-> h] : h \in 1..MaxHeight}
  \cup {[op |-> "GetMetadata", key |-> k] : k \in KnownKeys}
  \cup {[op |-> o] : o \in {"GetBlockNoId", "GetAllMetadata", "ListMetadataKeys", "GetState",
                            "Livez", "GetPeerInfo", "GetNetInfo"}}
  \cup {[op |-> o, method |-> m] : o \in {"RestHealth", "RestKeys", "RestAll"},
                                   m \in Methods}
=============================================================================
