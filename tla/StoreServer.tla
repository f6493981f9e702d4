---------------------------- MODULE StoreServer ----------------------------
(***************************************************************************)
(* The StoreService RPC handlers of src/types/metadata.go (StoreServer,   *)
(* lines 360-519) and the metadata key catalog (lines 5-41), serving      *)
(* concurrent clients while the node writes the store.                    *)
(*                                                                         *)
(* Each handler call of the store (Height, GetBlockData, GetBlockByHash,  *)
(* GetMetadata, GetState) is atomic; a handler that makes several calls   *)
(* takes one step per call, so the block manager and the DA pipeline can  *)
(* write between them.  The writers are the store's external users,       *)
(* modelled from spec.md: blocks are appended, headers and data are       *)
(* submitted to DA up to the store height, and a height is DA-included    *)
(* only once both its header and its data were submitted.                 *)
(***************************************************************************)
EXTENDS Integers, Sequences, SequencesExt, FiniteSets

CONSTANTS
  Clients,        \* concurrent RPC clients, one request each
  Requests,       \* the requests a client may send
  MaxHeight,      \* bound on the store height
  StoreMayFail    \* TRUE: a store read may fail with a transient error

ASSUME MaxHeight \in Nat /\ StoreMayFail \in BOOLEAN

(* The metadata keys (lines 5-21) and GetKnownMetadataKeysList (34-41).   *)
DAIncludedHeightKey == "d"
LastBatchDataKey == "l"
LastSubmittedHeaderHeightKey == "last-submitted-header-height"
LastSubmittedDataHeightKey == "last-submitted-data-height"

(* Mutation: the DA-included height key listed last.                     *)
KnownKeysListDLast ==
  <<LastBatchDataKey, LastSubmittedHeaderHeightKey,
    LastSubmittedDataHeightKey, DAIncludedHeightKey>>

KnownKeysList ==
  <<DAIncludedHeightKey, LastBatchDataKey,
    LastSubmittedHeaderHeightKey, LastSubmittedDataHeightKey>>

(* GetKnownMetadataKeys (24-31): a Go map, so iterating it yields the     *)
(* keys in an order that varies from one range loop to the next.          *)
KnownKeys == ToSet(KnownKeysList)

(* The description GetKnownMetadataKeys gives a key (lines 26-29).        *)
Desc(k) == "description of " \o k

(* The orders in which a range loop over that map can visit the keys.     *)
MapOrders == {s \in [1..Cardinality(KnownKeys) -> KnownKeys] : ToSet(s) = KnownKeys}

VARIABLES
  height,     \* the store height
  meta,       \* meta[k]: the value under key k (a height or a batch number)
  written,    \* the keys that hold a value
  pc,         \* per client: "idle", the handler step it is at, or "done"
  req,        \* per client: the request being served
  fetch,      \* per client: fetchHeight of GetBlock
  idx,        \* per client: GetAllMetadata's position in the key list
  resp,       \* per client: the response, or the entries gathered so far
  start       \* per client: the store as the request found it (history)

store == <<height, meta, written>>
clients == <<pc, req, fetch, idx, resp, start>>
vars == <<store, clients>>

-----------------------------------------------------------------------------
(* What one atomic store call returns.                                    *)
Failure == IF StoreMayFail THEN {[ok |-> FALSE, v |-> 0]} ELSE {}

GetMetadataResults(k) ==
  (IF k \in written THEN {[ok |-> TRUE, v |-> meta[k]]}
                    ELSE {[ok |-> FALSE, v |-> 0]}) \cup Failure

HeightResults == {[ok |-> TRUE, v |-> height]} \cup Failure

(* GetBlockData(h) and GetBlockByHash(hash of h) find only stored blocks. *)
GetBlockResults(h) ==
  (IF 1 <= h /\ h <= height THEN {[ok |-> TRUE, v |-> h]}
                            ELSE {[ok |-> FALSE, v |-> 0]}) \cup Failure

Respond(c, r) ==
  /\ pc' = [pc EXCEPT ![c] = "done"]
  /\ resp' = [resp EXCEPT ![c] = r]

Code(c, code, v) == Respond(c, [code |-> code, v |-> v])

-----------------------------------------------------------------------------
Init ==
  /\ height = 0
  /\ meta = [k \in KnownKeys |-> 0]
  /\ written = {}
  /\ pc = [c \in Clients |-> "idle"]
  /\ req = [c \in Clients |-> [op |-> "none"]]
  /\ fetch = [c \in Clients |-> 0]
  /\ idx = [c \in Clients |-> 1]
  /\ resp = [c \in Clients |-> << >>]
  /\ start = [c \in Clients |-> [height |-> 0, meta |-> meta, written |-> {}]]

(* The writers of the store.                                              *)
SetMetadata(k, v) ==
  /\ meta' = [meta EXCEPT ![k] = v]
  /\ written' = written \cup {k}
  /\ UNCHANGED <<height, clients>>

AppendBlock ==
  /\ height < MaxHeight
  /\ height' = height + 1
  /\ UNCHANGED <<meta, written, clients>>

Submitted(k) == IF k \in written THEN meta[k] ELSE 0

SubmitHeaders(h) ==
  /\ Submitted(LastSubmittedHeaderHeightKey) < h /\ h <= height
  /\ SetMetadata(LastSubmittedHeaderHeightKey, h)

SubmitData(h) ==
  /\ Submitted(LastSubmittedDataHeightKey) < h /\ h <= height
  /\ SetMetadata(LastSubmittedDataHeightKey, h)

SubmitBatch ==
  /\ Submitted(LastBatchDataKey) < MaxHeight
  /\ SetMetadata(LastBatchDataKey, Submitted(LastBatchDataKey) + 1)

IncludeDA(h) ==
  /\ Submitted(DAIncludedHeightKey) < h
  /\ h <= Submitted(LastSubmittedHeaderHeightKey)
  /\ h <= Submitted(LastSubmittedDataHeightKey)
  /\ SetMetadata(DAIncludedHeightKey, h)

-----------------------------------------------------------------------------
(* A client's request reaches its handler.                                *)
Start(c, r) ==
  /\ pc[c] = "idle"
  /\ req' = [req EXCEPT ![c] = r]
  /\ start' = [start EXCEPT ![c] = [height |-> height, meta |-> meta,
                                     written |-> written]]
  /\ pc' = [pc EXCEPT ![c] =
              IF r.op = "GetBlock" /\ r.height # 0 THEN "GetBlockData" ELSE r.op]
  /\ fetch' = [fetch EXCEPT ![c] = IF r.op \in {"GetBlock", "GetBlockByHash"}
                                     THEN r.height ELSE 0]
  /\ UNCHANGED <<store, idx, resp>>

(* Mutation: the latest block taken to be the one below the store height. *)
GetBlockPrevious(c) ==
  /\ pc[c] = "GetBlock"
  /\ \E r \in HeightResults :
       CASE ~r.ok   -> Code(c, "Internal", 0) /\ UNCHANGED fetch
         [] r.v = 0 -> Code(c, "NotFound", 0) /\ UNCHANGED fetch
         [] OTHER   -> /\ fetch' = [fetch EXCEPT ![c] = r.v - 1]
                       /\ pc' = [pc EXCEPT ![c] = "GetBlockData"]
                       /\ UNCHANGED resp
  /\ UNCHANGED <<store, req, idx, start>>

(* GetBlock by height (372-424): height 0 means the latest block, found  *)
(* by asking the store for its height first.                              *)
GetBlock(c) ==
  /\ pc[c] = "GetBlock"
  /\ \E r \in HeightResults :
       CASE ~r.ok   -> Code(c, "Internal", 0) /\ UNCHANGED fetch
         [] r.v = 0 -> Code(c, "NotFound", 0) /\ UNCHANGED fetch
         [] OTHER   -> /\ fetch' = [fetch EXCEPT ![c] = r.v]
                       /\ pc' = [pc EXCEPT ![c] = "GetBlockData"]
                       /\ UNCHANGED resp
  /\ UNCHANGED <<store, req, idx, start>>

(* A request with no identifier: CodeInvalidArgument (lines 399-401).     *)
GetBlockNoId(c) ==
  /\ pc[c] = "GetBlockNoId"
  /\ Code(c, "InvalidArgument", 0)
  /\ UNCHANGED <<store, req, fetch, idx, start>>

(* s.store.GetBlockData(ctx, fetchHeight), or GetBlockByHash, and the     *)
(* response: any store error is CodeInternal.                             *)
GetBlockData(c) ==
  /\ pc[c] \in {"GetBlockData", "GetBlockByHash"}
  /\ \E r \in GetBlockResults(fetch[c]) :
       IF r.ok THEN Code(c, "OK", r.v) ELSE Code(c, "Internal", 0)
  /\ UNCHANGED <<store, req, fetch, idx, start>>

(* GetMetadata (457-469): any store error is CodeNotFound.                *)
GetMetadata(c) ==
  /\ pc[c] = "GetMetadata"
  /\ \E r \in GetMetadataResults(req[c].key) :
       IF r.ok THEN Code(c, "OK", r.v) ELSE Code(c, "NotFound", 0)
  /\ UNCHANGED <<store, req, fetch, idx, start>>

(* GetState (427-454): one read of the state; an error is CodeNotFound.   *)
GetState(c) ==
  /\ pc[c] = "GetState"
  /\ \E r \in HeightResults :
       IF r.ok THEN Code(c, "OK", r.v) ELSE Code(c, "NotFound", 0)
  /\ UNCHANGED <<store, req, fetch, idx, start>>

(* The pb.MetadataKey entries of one range over the key map.               *)
MetadataKeys(order) == [i \in DOMAIN order |-> [key |-> order[i], description |-> Desc(order[i])]]

(* ListMetadataKeys (472-490): the catalog with its descriptions, in map  *)
(* iteration order; the store is not read.                                *)
ListMetadataKeys(c) ==
  /\ pc[c] = "ListMetadataKeys"
  /\ \E order \in MapOrders : Respond(c, MetadataKeys(order))
  /\ UNCHANGED <<store, req, fetch, idx, start>>

(* Mutation: the loop stops at the first key whose read fails.           *)
GetAllMetadataBreak(c) ==
  /\ pc[c] = "GetAllMetadata"
  /\ LET k == KnownKeysList[idx[c]] IN
       \E r \in GetMetadataResults(k) :
         /\ resp' = [resp EXCEPT ![c] =
                       IF r.ok THEN Append(@, <<k, r.v>>) ELSE @]
         /\ idx' = [idx EXCEPT ![c] = @ + 1]
         /\ pc' = [pc EXCEPT ![c] =
                     IF idx[c] = Len(KnownKeysList) \/ ~r.ok THEN "done" ELSE @]
  /\ UNCHANGED <<store, req, fetch, start>>

(* One iteration of GetAllMetadata's loop (493-519): read the next known  *)
(* key; a key whose read fails is skipped.                                *)
GetAllMetadata(c) ==
  /\ pc[c] = "GetAllMetadata"
  /\ LET k == KnownKeysList[idx[c]] IN
       \E r \in GetMetadataResults(k) :
         /\ resp' = [resp EXCEPT ![c] =
                       IF r.ok THEN Append(@, <<k, r.v>>) ELSE @]
         /\ idx' = [idx EXCEPT ![c] = @ + 1]
         /\ pc' = [pc EXCEPT ![c] =
                     IF idx[c] = Len(KnownKeysList) THEN "done" ELSE @]
  /\ UNCHANGED <<store, req, fetch, start>>

Next ==
  \/ AppendBlock \/ SubmitBatch
  \/ \E h \in 1..MaxHeight : SubmitHeaders(h) \/ SubmitData(h) \/ IncludeDA(h)
  \/ \E c \in Clients :
       \/ \E r \in Requests : Start(c, r)
       \/ GetBlock(c) \/ GetBlockNoId(c) \/ GetBlockData(c) \/ GetMetadata(c) \/ GetState(c)
       \/ ListMetadataKeys(c) \/ GetAllMetadata(c)

Spec == Init /\ [][Next]_vars

-----------------------------------------------------------------------------
Served(c, op) == pc[c] = "done" /\ req[c].op = op

(* The value a GetAllMetadata response gives for key k, if any.           *)
Entries(c, k) == {e[2] : e \in ToSet(resp[c]) \cap ({k} \X Nat)}

(* A GetAllMetadata response never shows a DA-included height above the  *)
(* last submitted header or data height it shows next to it, although    *)
(* the DA pipeline writes all three between the handler's reads: it      *)
(* holds because "d" is read first and every height only grows.           *)
AllMetadataDAWithinSubmitted ==
  \A c \in Clients : Served(c, "GetAllMetadata") =>
    \A d \in Entries(c, DAIncludedHeightKey) :
      \A s \in Entries(c, LastSubmittedHeaderHeightKey)
                \cup Entries(c, LastSubmittedDataHeightKey) : d <= s

(* GetAllMetadata reports every key that held a value when the request    *)
(* arrived, with that value or a newer one: a key is omitted only when it *)
(* has never been written (spec: absence of a key means never written).  *)
AllMetadataNotStale ==
  \A c \in Clients : Served(c, "GetAllMetadata") =>
    \A k \in start[c].written :
      \E v \in Entries(c, k) : v >= start[c].meta[k]

(* GetBlock for the latest block returns a block at least as high as the  *)
(* store was when the request arrived, and NotFound only if the store was *)
(* empty then, although blocks are appended between its two store reads.  *)
LatestBlockIsCurrent ==
  \A c \in Clients :
    Served(c, "GetBlock") /\ req[c].height = 0 =>
      /\ resp[c].code = "OK" => start[c].height <= resp[c].v /\ resp[c].v <= height
      /\ resp[c].code = "NotFound" => start[c].height = 0

=============================================================================
