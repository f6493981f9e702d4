--------------------------- MODULE AbstractChain ---------------------------
(***************************************************************************)
(* What block verification promises a node, stated without hashes,        *)
(* signatures or gossip: the chain is a sequence of blocks that only the  *)
(* chain's producer extends, and the node's local chain is always a       *)
(* prefix of it that grows one block at a time, the next block of the     *)
(* chain and nothing else, until it has caught up.                        *)
(***************************************************************************)
EXTENDS Naturals, Sequences, SequencesExt

CONSTANTS
  BlockSet,   \* the blocks that may appear in the chain
  Genesis,    \* the block every chain starts with
  MaxLen      \* bound on the chain's length

VARIABLES
  chain,      \* the blocks produced so far, genesis first
  local       \* the blocks the node has accepted, genesis first

avars == <<chain, local>>

Init ==
  /\ chain = <<Genesis>>
  /\ local = <<Genesis>>

Produce ==
  /\ Len(chain) < MaxLen
  /\ \E b \in BlockSet : chain' = Append(chain, b)
  /\ UNCHANGED local

Sync ==
  /\ Len(local) < Len(chain)
  /\ local' = Append(local, chain[Len(local) + 1])
  /\ UNCHANGED chain

Next == Produce \/ Sync

(* The node never stops short of the chain it could sync to.               *)
Spec == Init /\ [][Next]_avars /\ WF_avars(Sync)

(* The local chain is a prefix of the produced chain.                     *)
LocalIsPrefix == IsPrefix(local, chain)
=============================================================================
