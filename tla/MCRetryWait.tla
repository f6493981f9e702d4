---------------------------- MODULE MCRetryWait ----------------------------
(* Model-checking instance of RetryWait: three callers waiting at once on *)
(* different sources, three tries, heights up to 2.                       *)
EXTENDS RetryWait

CONSTANTS w1, w2, w3

(* waitForAtLeastNBlocks(node, 2, Store), waitForFirstBlock(node, Data)  *)
(* and waitForAtLeastNDAIncludedHeight(node, 0) at the same time.        *)
FullNodeWaits ==
  [w \in {w1, w2, w3} |->
     CASE w = w1 -> [kind |-> "blocks", source |-> "Store", n |-> 2]
       [] w = w2 -> [kind |-> "blocks", source |-> "Data", n |-> 1]
       [] w = w3 -> [kind |-> "da", source |-> "Store", n |-> 0]]

(* A light node asked for its header height, its store height and for   *)
(* the DA-included height (waitForFirstBlockToBeDAIncluded).              *)
LightNodeWaits ==
  [w \in {w1, w2, w3} |->
     CASE w = w1 -> [kind |-> "blocks", source |-> "Header", n |-> 1]
       [] w = w2 -> [kind |-> "blocks", source |-> "Store", n |-> 1]
       [] w = w3 -> [kind |-> "da", source |-> "Store", n |-> 1]]
=============================================================================
