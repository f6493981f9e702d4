--------------------------- MODULE ServiceHandler ---------------------------
(***************************************************************************)
(* The HTTP handler of NewServiceHandler (src/types/metadata.go, lines    *)
(* 598-645): one mux serving the StoreService of StoreServer, the         *)
(* P2PService (522-576), the HealthService (579-595) and the plain HTTP   *)
(* endpoints of RegisterCustomHTTPEndpoints (649-723), to the same        *)
(* clients while the store is written.                                    *)
(*                                                                         *)
(* The REST endpoints build their JSON by string concatenation.  JSON     *)
(* text is a sequence of tokens: punctuation, field names and values,    *)
(* one token each; the constant texts stand for themselves.              *)
(***************************************************************************)
EXTENDS StoreServer

(* fmt.Sprintf(`{"key":"%s","description":"%s"}`, key, description)      *)
KeyObject(k) == <<"{", "key", ":", k, ",", "description", ":", Desc(k), "}">>

(* Mutation: first is never cleared, so no comma separates the objects.   *)
BuildKeysJsonNoComma(order) ==
  LET step(acc, k) == [text |-> acc.text \o (IF acc.first THEN << >> ELSE <<",">>)
                                         \o KeyObject(k),
                       first |-> acc.first]
  IN FoldLeft(step, [text |-> <<"{", "keys", ":", "[">>, first |-> TRUE], order).text
       \o <<"]", "}">>

(* handleListMetadataKeys (680-690): a comma before every object but the  *)
(* first, in the order the range over the key map visits the keys.        *)
BuildKeysJson(order) ==
  LET step(acc, k) == [text |-> acc.text \o (IF acc.first THEN << >> ELSE <<",">>)
                                         \o KeyObject(k),
                       first |-> FALSE]
  IN FoldLeft(step, [text |-> <<"{", "keys", ":", "[">>, first |-> TRUE], order).text
       \o <<"]", "}">>

(* Mutation: the loop tests i >= 0, a comma before the first key too.     *)
BuildAllJsonLeadingComma(keys) ==
  <<"{", "message", ":", "USE_RPC", ",", "available_keys", ":", "[">>
    \o FlattenSeq([i \in 1..Len(keys) |-> <<",">> \o <<keys[i]>>])
    \o <<"]", ",", "rpc_method", ":", "rollkit.v1.StoreService/GetAllMetadata", "}">>

(* handleGetAllMetadata (709-719): the key list as a JSON array of        *)
(* strings, a comma before every key at index i > 0.                      *)
BuildAllJson(keys) ==
  <<"{", "message", ":", "USE_RPC", ",", "available_keys", ":", "[">>
    \o FlattenSeq([i \in 1..Len(keys) |-> (IF i > 1 THEN <<",">> ELSE << >>) \o <<keys[i]>>])
    \o <<"]", ",", "rpc_method", ":", "rollkit.v1.StoreService/GetAllMetadata", "}">>

(* The plain HTTP answers: a status and a body.                           *)
Http(c, status, body) == Respond(c, [status |-> status, body |-> body])

(* http.Error(w, "Method not allowed", http.StatusMethodNotAllowed)       *)
MethodNotAllowed(c) == Http(c, 405, <<"Method not allowed">>)

clientsButResp == <<store, req, fetch, idx, start>>

-----------------------------------------------------------------------------
(* HealthService.Livez: always PASS.                                      *)
Livez(c) ==
  /\ pc[c] = "Livez"
  /\ Code(c, "OK", 0)
  /\ UNCHANGED clientsButResp

(* P2PService.GetPeerInfo and GetNetInfo: the peer manager's answer, or   *)
(* CodeInternal when it fails.                                            *)
GetPeerInfo(c) ==
  /\ pc[c] \in {"GetPeerInfo", "GetNetInfo"}
  /\ \/ Code(c, "OK", 0)
     \/ Code(c, "Internal", 0)
  /\ UNCHANGED clientsButResp

(* GET /health/live: 200 "OK" whatever the method.                        *)
RestHealth(c) ==
  /\ pc[c] = "RestHealth"
  /\ Http(c, 200, <<"OK">>)
  /\ UNCHANGED clientsButResp

(* GET /api/v1/metadata/keys (669-696).                                   *)
RestKeys(c) ==
  /\ pc[c] = "RestKeys"
  /\ IF req[c].method # "GET"
       THEN MethodNotAllowed(c)
       ELSE \E order \in MapOrders : Http(c, 200, BuildKeysJson(order))
  /\ UNCHANGED clientsButResp

(* GET /api/v1/metadata (699-723): the key list, no values.               *)
RestAll(c) ==
  /\ pc[c] = "RestAll"
  /\ IF req[c].method # "GET"
       THEN MethodNotAllowed(c)
       ELSE Http(c, 200, BuildAllJson(KnownKeysList))
  /\ UNCHANGED clientsButResp

(* The mux routes each request to the handler registered for its path.    *)
ServiceNext ==
  \/ Next
  \/ \E c \in Clients :
       Livez(c) \/ GetPeerInfo(c) \/ RestHealth(c) \/ RestKeys(c) \/ RestAll(c)

ServiceSpec == Init /\ [][ServiceNext]_vars

-----------------------------------------------------------------------------
(* A JSON reader for the arrays the endpoints write: from position i,     *)
(* after a "[", elements of w tokens separated by commas up to the "]".   *)
Fail(i) == [ok |-> FALSE, elems |-> << >>, next |-> i]

RECURSIVE ParseArray(_, _, _, _)
ParseArray(s, i, w, first) ==
  CASE i > Len(s) -> Fail(i)
    [] s[i] = "]" -> [ok |-> TRUE, elems |-> << >>, next |-> i + 1]
    [] OTHER ->
         LET j == IF first THEN i ELSE i + 1
         IN IF (first \/ s[i] = ",") /\ j + w - 1 <= Len(s)
              THEN LET r == ParseArray(s, j + w, w, FALSE)
                   IN [r EXCEPT !.elems = <<SubSeq(s, j, j + w - 1)>> \o @]
              ELSE Fail(i)

(* The array of a body that starts with head, holds elements of w tokens *)
(* and ends with tail after the "]"; Fail(0) for any other body.         *)
ReadArray(body, head, w, tail) ==
  LET r == ParseArray(body, Len(head) + 1, w, TRUE)
  IN IF Len(body) >= Len(head) /\ SubSeq(body, 1, Len(head)) = head /\ r.ok
          /\ SubSeq(body, r.next, Len(body)) = tail
       THEN r ELSE Fail(0)

Served2xx(c, op) == Served(c, op) /\ resp[c].status = 200

(* The body of GET /api/v1/metadata/keys is well-formed JSON listing      *)
(* every known key exactly once, each with its own description, whatever  *)
(* order the range over the key map takes.                                *)
RestKeysListsCatalog ==
  \A c \in Clients : Served2xx(c, "RestKeys") =>
    LET r == ReadArray(resp[c].body, <<"{", "keys", ":", "[">>, 9, <<"}">>)
    IN /\ r.ok
       /\ \A e \in ToSet(r.elems) : e = KeyObject(e[4])
       /\ [i \in DOMAIN r.elems |-> r.elems[i][4]] \in MapOrders

(* The body of GET /api/v1/metadata is well-formed JSON whose             *)
(* available_keys array is the catalog in GetKnownMetadataKeysList order. *)
RestAllListsCatalog ==
  \A c \in Clients : Served2xx(c, "RestAll") =>
    LET r == ReadArray(resp[c].body,
                       <<"{", "message", ":", "USE_RPC", ",", "available_keys", ":", "[">>,
                       1,
                       <<",", "rpc_method", ":", "rollkit.v1.StoreService/GetAllMetadata", "}">>)
    IN r.ok /\ [i \in DOMAIN r.elems |-> r.elems[i][1]] = KnownKeysList

=============================================================================
