----------------------------- MODULE RetryWait -----------------------------
(***************************************************************************)
(* The bounded retry runner and the height waits built on it              *)
(* (src/unnamed/part_000): Retry (lines 133-142), waitForAtLeastNBlocks   *)
(* (95-106), waitForAtLeastNDAIncludedHeight (109-120), the wrappers      *)
(* waitForFirstBlock / waitForFirstBlockToBeDAIncluded (39-45) and the    *)
(* height resolver getNodeHeight (47-83).                                 *)
(*                                                                         *)
(* Several callers (test goroutines) each run one wait against one node,  *)
(* while the node's header sync, data sync, block store and DA inclusion *)
(* advance on their own.  Time is abstracted to the number of sleeps.     *)
(***************************************************************************)
EXTENDS Integers

CONSTANTS
  Waiters,    \* the callers, each running one wait
  Waits,      \* Waits[w]: [kind |-> "blocks" or "da", source, n]
  Role,       \* "full" or "light": the node type the waits are given
  Tries,      \* the tries argument of Retry (300 in the code)
  MaxHeight   \* bound on every height the node reaches

Sources == {"Header", "Data", "Store"}

ASSUME Role \in {"full", "light"}
ASSUME Tries \in Int /\ MaxHeight \in Nat
ASSUME \A w \in Waiters :
         /\ Waits[w].kind \in {"blocks", "da"}
         /\ Waits[w].source \in Sources
         /\ Waits[w].n \in Nat

(* What one call of the retried function can come to.  "below" is the     *)
(* fmt.Errorf of a height not yet reached (or a DA height still 0),       *)
(* "unsupported" the errors.New of a source the node type lacks,          *)
(* "store_err" an error of GetStoreHeight, "panic" a failed type          *)
(* assertion of the node to a full node.                                             *)
Outcomes == {"ok", "below", "unsupported", "store_err", "panic"}

VARIABLES
  hdrHeight,    \* hSyncService.Store().Height()
  dataHeight,   \* dSyncService.Store().Height()
  storeHeight,  \* blockManager.GetStoreHeight
  daHeight,     \* blockManager.GetDAIncludedHeight
  pc,           \* per caller: "call", "sleep" or "done"
  i,            \* per caller: the loop variable of Retry
  calls,        \* per caller: calls of the retried function so far
  sleeps,       \* per caller: sleeps so far (elapsed time / interval)
  result        \* per caller: what Retry returned, "none" before

heights == <<hdrHeight, dataHeight, storeHeight, daHeight>>
waiters == <<pc, i, calls, sleeps, result>>
vars == <<heights, waiters>>

-----------------------------------------------------------------------------
(* getNodeHeight: the (height, error) pairs a source can return.  A light *)
(* node has only the header sync service.                                 *)
NodeHeight(source) ==
  CASE source = "Header" -> {[h |-> hdrHeight, err |-> "nil"]}
    [] Role = "light"    -> {[h |-> 0, err |-> "unsupported"]}
    [] source = "Data"   -> {[h |-> dataHeight, err |-> "nil"]}
    [] source = "Store"  -> {[h |-> storeHeight, err |-> "nil"],
                             [h |-> 0, err |-> "store_err"]}

(* The function waitForAtLeastNBlocks retries.                             *)
BlocksCheck(n, source) ==
  {CASE r.err # "nil" -> r.err
     [] r.h >= n      -> "ok"
     [] OTHER         -> "below" : r \in NodeHeight(source)}

(* Mutation: the nHeight == 0 check left out.                            *)
DACheckNoZeroCheck(n) ==
  CASE Role = "light"  -> {"panic"}
    [] daHeight >= n   -> {"ok"}
    [] OTHER           -> {"below"}

(* The function waitForAtLeastNDAIncludedHeight retries: a DA-included    *)
(* height of 0 means nothing is included yet and always fails.            *)
DACheck(n) ==
  CASE Role = "light"  -> {"panic"}
    [] daHeight = 0    -> {"below"}
    [] daHeight >= n   -> {"ok"}
    [] OTHER           -> {"below"}

CheckOutcomes(w) ==
  IF Waits[w].kind = "blocks"
    THEN BlocksCheck(Waits[w].n, Waits[w].source)
    ELSE DACheck(Waits[w].n)

-----------------------------------------------------------------------------
Init ==
  /\ hdrHeight = 0 /\ dataHeight = 0 /\ storeHeight = 0 /\ daHeight = 0
  /\ pc = [w \in Waiters |-> "call"]
  /\ i = [w \in Waiters |-> 1]
  /\ calls = [w \in Waiters |-> 0]
  /\ sleeps = [w \in Waiters |-> 0]
  /\ result = [w \in Waiters |-> "none"]

(* The node's services make progress independently; a block is DA-       *)
(* included only once it is in the store.                                 *)
AdvanceHeader ==
  /\ hdrHeight < MaxHeight
  /\ hdrHeight' = hdrHeight + 1
  /\ UNCHANGED <<dataHeight, storeHeight, daHeight, waiters>>

AdvanceData ==
  /\ Role = "full" /\ dataHeight < MaxHeight
  /\ dataHeight' = dataHeight + 1
  /\ UNCHANGED <<hdrHeight, storeHeight, daHeight, waiters>>

AdvanceStore ==
  /\ Role = "full" /\ storeHeight < MaxHeight
  /\ storeHeight' = storeHeight + 1
  /\ UNCHANGED <<hdrHeight, dataHeight, daHeight, waiters>>

AdvanceDA ==
  /\ Role = "full" /\ daHeight < storeHeight
  /\ daHeight' = daHeight + 1
  /\ UNCHANGED <<hdrHeight, dataHeight, storeHeight, waiters>>

(* Mutation: the loop runs to i <= tries before the final call.          *)
CallLoopOffByOne(w) ==
  /\ pc[w] = "call"
  /\ \E o \in CheckOutcomes(w) :
       /\ calls' = [calls EXCEPT ![w] = @ + 1]
       /\ IF o = "panic" \/ i[w] > Tries \/ o = "ok"
            THEN /\ pc' = [pc EXCEPT ![w] = "done"]
                 /\ result' = [result EXCEPT ![w] = o]
            ELSE /\ pc' = [pc EXCEPT ![w] = "sleep"]
                 /\ UNCHANGED result
  /\ UNCHANGED <<heights, i, sleeps>>

(* One call of the retried function.  Inside the loop (i <= tries-1) a    *)
(* success returns nil and an error leads to the sleep; the call after    *)
(* the loop returns its own result.  A panic unwinds Retry.               *)
Finish(w, o) ==
  /\ pc' = [pc EXCEPT ![w] = "done"]
  /\ result' = [result EXCEPT ![w] = o]

Call(w) ==
  /\ pc[w] = "call"
  /\ \E o \in CheckOutcomes(w) :
       /\ calls' = [calls EXCEPT ![w] = @ + 1]
       /\ IF o = "panic" \/ i[w] > Tries - 1 \/ o = "ok"
            THEN Finish(w, o)
            ELSE /\ pc' = [pc EXCEPT ![w] = "sleep"]
                 /\ UNCHANGED result
  /\ UNCHANGED <<heights, i, sleeps>>

(* time.Sleep(durationBetweenAttempts), then i++.                         *)
Sleep(w) ==
  /\ pc[w] = "sleep"
  /\ pc' = [pc EXCEPT ![w] = "call"]
  /\ sleeps' = [sleeps EXCEPT ![w] = @ + 1]
  /\ i' = [i EXCEPT ![w] = @ + 1]
  /\ UNCHANGED <<heights, calls, result>>

Next ==
  \/ AdvanceHeader \/ AdvanceData \/ AdvanceStore \/ AdvanceDA
  \/ \E w \in Waiters : Call(w) \/ Sleep(w)

(* Each caller is a goroutine the Go scheduler keeps running.             *)
Spec == Init /\ [][Next]_vars /\ \A w \in Waiters : WF_vars(Call(w) \/ Sleep(w))

-----------------------------------------------------------------------------
(* The condition caller w waits for.                                      *)
Reached(w) ==
  IF Waits[w].kind = "blocks"
    THEN \E r \in NodeHeight(Waits[w].source) : r.err = "nil" /\ r.h >= Waits[w].n
    ELSE daHeight > 0 /\ daHeight >= Waits[w].n

(* A wait that returned nil waited for something true: the node has at   *)
(* least n blocks from that source, or at least max(n, 1) DA-included    *)
(* blocks, now and at every later state, however the sync services      *)
(* advanced between the calls Retry made.                                 *)
SuccessIsReal ==
  \A w \in Waiters : result[w] = "ok" => Reached(w)

(* A wait that gave up spent its whole budget and returned the last      *)
(* call's error: Retry called the function exactly tries times and slept *)
(* tries-1 times between them (spec: elapsed time at least (n-1)*d).     *)
ExhaustedRetryAccounting ==
  \A w \in Waiters :
    pc[w] = "done" /\ result[w] \notin {"ok", "panic"} =>
      /\ calls[w] = Tries
      /\ sleeps[w] = Tries - 1

(* The node type offers the capability caller w waits on: a light node   *)
(* has only the header sync service.                                      *)
Capable(w) ==
  Role = "full" \/ (Waits[w].kind = "blocks" /\ Waits[w].source = "Header")

(* A wait for a capability the node type lacks returns UnsupportedSource  *)
(* after one call: it is a configuration error, returned and not retried, *)
(* never a crash of the caller (spec: Height Resolver, error handling).   *)
UnsupportedReturnedAtOnce ==
  \A w \in Waiters :
    pc[w] = "done" /\ ~Capable(w) => result[w] = "unsupported" /\ calls[w] = 1

=============================================================================
