--------------------------- MODULE BlockVerifier ---------------------------
(***************************************************************************)
(* Block validity and verification against the accepted head, as the      *)
(* pseudo-code of src/specs/src/specs/block-validity.md states it:        *)
(* Block.ValidateBasic (lines 21-52) and Block.Verify (lines 56-72),      *)
(* driven by the caller spec.md describes: a candidate that is valid but  *)
(* ahead of the head (SoftFail) is held and verified again later, one     *)
(* that conflicts with the head (HardFail) or is malformed is dropped.    *)
(*                                                                         *)
(* Blocks arrive by gossip, so they are lost to nobody but may arrive in  *)
(* any order, more than once (Replay), or be forged by a peer (Inject).   *)
(*                                                                         *)
(* A block id is the sequence of producers from genesis to the block.     *)
(* It stands for Header.Hash(): ids of different headers differ, and the  *)
(* parent's hash a header carries (LastHeaderHash) is Front(id).          *)
(***************************************************************************)
EXTENDS Naturals, Sequences, SequencesExt, FiniteSets

CONSTANTS
  Producers,      \* who can sign and publish blocks
  Sequencer,      \* the single sequencer named in the genesis validator set
  Forger,         \* a peer's key: it signs the headers the peer makes up
  Mode,           \* "single": single-sequencer chain; "based": based rollup
  Attacks,        \* the defects a peer may put into a block it relays
  MaxHeight,      \* bound on block heights (genesis has height 1)
  MaxInjections   \* bound on forged or replayed blocks a peer sends

ASSUME Sequencer \in Producers /\ Forger \in Producers /\ Forger # Sequencer
ASSUME Mode \in {"single", "based"}
ASSUME Attacks \subseteq {"bad_data", "no_sig", "no_proposer", "bad_validator",
                          "claim_seq", "strip_vals", "bad_commit"}
ASSUME MaxHeight \in Nat \ {0} /\ MaxInjections \in Nat

VARIABLES
  produced,   \* ids of the blocks honest producers have published
  inflight,   \* blocks gossiped to the node and not yet handled
  head,       \* the accepted head (the chain head state of spec.md)
  pending,    \* candidates that soft-failed, held for a later retry
  injected,   \* forged or replayed blocks sent so far
  accepted    \* history: the blocks accepted, genesis first

vars == <<produced, inflight, head, pending, injected, accepted>>

-----------------------------------------------------------------------------
(* Blocks and the header fields verification reads.                       *)

Ids == UNION {[1..n -> Producers] : n \in 0..(MaxHeight - 1)}

Block == [id : Ids, attack : Attacks \cup {"none"}]

GenesisBlock == [id |-> << >>, attack |-> "none"]

Height(b) == Len(b.id) + 1

Producer(b) == IF b.id = << >> THEN Sequencer ELSE Last(b.id)

HeaderHash(b) == b.id

LastHeaderHash(b) == IF b.id = << >> THEN << >> ELSE Front(b.id)

(* Signature.GetCommitHash of a header's signature; a peer can corrupt the *)
(* LastCommitHash a forged header carries.                                 *)
CommitHash(b) == <<"commit", b.id>>

LastCommitHash(b) ==
  IF b.attack = "bad_commit" THEN <<"forged-commit">>
  ELSE <<"commit", LastHeaderHash(b)>>

ProposerAddressSet(b) == b.attack # "no_proposer"

NumSignatures(b) == IF b.attack = "no_sig" THEN 0 ELSE 1

(* The validator set attached to the signed header: empty in a based      *)
(* rollup or when a peer strips it, otherwise the producer's own key, the *)
(* sequencer's when a forger claims it, or a validator with a nil key.    *)
Validators(b) ==
  CASE Mode = "based" \/ b.attack = "strip_vals" -> "empty"
    [] b.attack = "bad_validator"                -> "malformed"
    [] b.attack = "claim_seq"                    -> Sequencer
    [] OTHER                                     -> Producer(b)

(* The AggregatorsHash in the header: whose set the header names.         *)
AggregatorsHash(b) ==
  CASE Mode = "based"                          -> "empty"
    [] b.attack \in {"claim_seq", "strip_vals"} -> Sequencer
    [] OTHER                                   -> Producer(b)

(* The producer signs; the signature verifies against the set's proposer. *)
SignatureVerifies(b) == Validators(b) = Producer(b)

DataHashMatches(b) == b.attack # "bad_data"

-----------------------------------------------------------------------------
(* Mutation: the Data.Hash() == DataHash check left out.                 *)
ValidateBasicNoDataHash(b) ==
  /\ ProposerAddressSet(b)
  /\ NumSignatures(b) # 0
  /\ Validators(b) # "empty" =>
       /\ Validators(b) # "malformed"
       /\ Validators(b) = AggregatorsHash(b)
       /\ SignatureVerifies(b)

(* Block.ValidateBasic: SignedHeader, then Data.  A nil or empty          *)
(* validator set is taken for a based rollup and skips every validator,   *)
(* aggregator-hash and signature check.                                   *)
ValidateBasic(b) ==
  /\ ProposerAddressSet(b)
  /\ NumSignatures(b) # 0
  /\ Validators(b) # "empty" =>
       /\ Validators(b) # "malformed"
       /\ Validators(b) = AggregatorsHash(b)
       /\ SignatureVerifies(b)
  /\ DataHashMatches(b)

(* Mutation: the LastCommitHash check left out.                          *)
AdjacentNoCommitCheck(h, u) ==
  /\ Height(u) = Height(h) + 1 => AggregatorsHash(u) = AggregatorsHash(h)
  /\ LastHeaderHash(u) = HeaderHash(h)

(* Header.Verify of candidate u against the trusted head h: the adjacent  *)
(* block must name the same aggregators and link to h's header and       *)
(* commit; a block further ahead is a soft failure; anything else fails.  *)
Adjacent(h, u) ==
  /\ Height(u) = Height(h) + 1 => AggregatorsHash(u) = AggregatorsHash(h)
  /\ LastHeaderHash(u) = HeaderHash(h)
  /\ LastCommitHash(u) = CommitHash(h)

Verify(h, u) ==
  CASE Height(u) > Height(h) + 1 -> "soft"
    [] Adjacent(h, u)            -> "accept"
    [] OTHER                     -> "hard"

(* Mutation: a soft failure handled like a hard one, the block dropped.  *)
ApplyDropSoft(verdict, b) ==
  IF verdict = "accept"
    THEN /\ head' = b
         /\ accepted' = Append(accepted, b)
         /\ pending' = pending \ {b}
    ELSE /\ pending' = pending \ {b}
         /\ UNCHANGED <<head, accepted>>

(* The caller's handling of a verdict on block b.                         *)
Apply(verdict, b) ==
  CASE verdict = "accept" ->
         /\ head' = b
         /\ accepted' = Append(accepted, b)
         /\ pending' = pending \ {b}
    [] verdict = "soft" ->
         /\ pending' = pending \cup {b}
         /\ UNCHANGED <<head, accepted>>
    [] OTHER ->
         /\ pending' = pending \ {b}
         /\ UNCHANGED <<head, accepted>>

-----------------------------------------------------------------------------
Init ==
  /\ produced = {}
  /\ inflight = {}
  /\ head = GenesisBlock
  /\ pending = {}
  /\ injected = 0
  /\ accepted = <<GenesisBlock>>

Known == produced \cup {<< >>}

(* The sequencer extends its own chain; in a based rollup any producer    *)
(* may publish a block on any block it knows of.                          *)
Produce(p, parent) ==
  /\ p # Forger
  /\ parent \in Known
  /\ Len(parent) < MaxHeight - 1
  /\ Append(parent, p) \notin produced
  /\ Mode = "single" =>
       /\ p = Sequencer
       /\ \A q \in produced : Len(q) <= Len(parent)
  /\ produced' = produced \cup {Append(parent, p)}
  /\ inflight' = inflight \cup {[id |-> Append(parent, p), attack |-> "none"]}
  /\ UNCHANGED <<head, pending, injected, accepted>>

(* Defects that leave the header, and so its hash, as it was: the peer    *)
(* swaps the data, drops the signatures or replaces the validator set.    *)
EnvelopeAttacks == {"bad_data", "no_sig", "strip_vals", "bad_validator"}

(* A block a peer sends: a published header in a defective envelope, or a *)
(* header of its own, signed with its own key, with any defect.           *)
Forged ==
  {b \in Block :
     /\ b.id # << >>
     /\ LastHeaderHash(b) \in Known
     /\ IF Producer(b) = Forger
          THEN TRUE
          ELSE b.id \in produced /\ b.attack \in EnvelopeAttacks}

Inject(b) ==
  /\ injected < MaxInjections
  /\ b \in Forged
  /\ inflight' = inflight \cup {b}
  /\ injected' = injected + 1
  /\ UNCHANGED <<produced, head, pending, accepted>>

(* Gossip hands the node a published block once more.                    *)
Replay(id) ==
  /\ injected < MaxInjections
  /\ id \in produced
  /\ inflight' = inflight \cup {[id |-> id, attack |-> "none"]}
  /\ injected' = injected + 1
  /\ UNCHANGED <<produced, head, pending, accepted>>

(* The node handles a gossiped block: basic validation, then verification *)
(* against the head.                                                       *)
Receive(b) ==
  /\ b \in inflight
  /\ inflight' = inflight \ {b}
  /\ IF ValidateBasic(b)
       THEN Apply(Verify(head, b), b)
       ELSE UNCHANGED <<head, pending, accepted>>
  /\ UNCHANGED <<produced, injected>>

(* Mutation: a held block is retried only once it would be accepted, so a *)
(* block whose fork lost is never let go.                                 *)
RetryPendingAcceptOnly(b) ==
  /\ b \in pending
  /\ Verify(head, b) = "accept"
  /\ Apply(Verify(head, b), b)
  /\ UNCHANGED <<produced, inflight, injected>>

(* A held block is verified again against the current head.               *)
RetryPending(b) ==
  /\ b \in pending
  /\ Verify(head, b) # "soft"
  /\ Apply(Verify(head, b), b)
  /\ UNCHANGED <<produced, inflight, injected>>

Next ==
  \/ \E p \in Producers, parent \in Ids : Produce(p, parent)
  \/ \E b \in Block : Inject(b) \/ Receive(b) \/ RetryPending(b)
  \/ \E id \in Ids : Replay(id)

(* Gossip keeps delivering the blocks it holds, the caller keeps retrying *)
(* held blocks and producers keep publishing.  Each of these happens only *)
(* finitely often (heights and injections are bounded), so fairness on    *)
(* the action of any block makes every one of them happen.                *)
Fairness ==
  /\ WF_vars(\E p \in Producers, parent \in Ids : Produce(p, parent))
  /\ WF_vars(\E b \in Block : Receive(b))
  /\ WF_vars(\E b \in Block : RetryPending(b))

Spec == Init /\ [][Next]_vars /\ Fairness

-----------------------------------------------------------------------------
(* Refinement.  On a single-sequencer chain the sequencer's blocks form   *)
(* the abstract chain and the node's accepted blocks its local chain; a   *)
(* block is seen by its id and by whether its data matches its header.    *)

SeqTip == CHOOSE t \in Known : \A q \in Known : Len(q) <= Len(t)

Content(b) == [id |-> b.id, dataOk |-> DataHashMatches(b)]

Chain == INSTANCE AbstractChain WITH
  BlockSet <- [id : Ids, dataOk : BOOLEAN],
  Genesis  <- Content(GenesisBlock),
  MaxLen   <- MaxHeight,
  chain    <- [i \in 1..Len(SeqTip) + 1 |->
                 [id |-> SubSeq(SeqTip, 1, i - 1), dataOk |-> TRUE]],
  local    <- [i \in 1..Len(accepted) |-> Content(accepted[i])]

(* The node's accepted chain is always a prefix of the sequencer's chain, *)
(* extended one block at a time, and it eventually catches up, whatever   *)
(* forged, replayed or reordered blocks peers gossip to Receive.           *)
ImplementsAbstractChain == Chain!Spec

(* A block that verification deferred is never lost: the node ends up   *)
(* on a head no published block extends, so every published child of     *)
(* the head was accepted (or a sibling of it was), even one that arrived  *)
(* before its parent and soft-failed in Verify.  Collapsing SoftFail into *)
(* HardFail in the caller breaks this.                                     *)
DeferredBlocksNotLost ==
  <>[](\A id \in produced : Front(id) # HeaderHash(head))

(* No block stays held after a soft failure: each one is retried once the *)
(* head has caught up with it and is then accepted or dropped, also when  *)
(* the head went on along another fork.  Held blocks are only ever       *)
(* released by RetryPending, so a caller that retried only to accept      *)
(* would keep every block of a losing fork.                                *)
HeldBlocksReleased == <>[](pending = {})

(* Every block the node accepted links to the block it accepted before:   *)
(* its LastHeaderHash is that block's header hash and its LastCommitHash  *)
(* that block's commit hash, through any order of Receive and             *)
(* RetryPending steps.                                                     *)
AcceptedChainLinked ==
  /\ Last(accepted) = head
  /\ \A i \in 1..(Len(accepted) - 1) :
       /\ LastHeaderHash(accepted[i + 1]) = HeaderHash(accepted[i])
       /\ LastCommitHash(accepted[i + 1]) = CommitHash(accepted[i])

(* On a single-sequencer chain only blocks the sequencer produced are     *)
(* accepted (block-validity.md: the proposer must be the single sequencer *)
(* of the genesis block).                                                  *)
OnlySequencerBlocksAccepted ==
  \A i \in 1..Len(accepted) : Producer(accepted[i]) = Sequencer

=============================================================================
