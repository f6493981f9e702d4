# TLA+ models of the rollup node's validity core, store RPC and test waits

This directory holds TLA+ models of the code under `src/`, with the TLC
configurations that check them. `PROJECT.json` lists every component, every
run, the mutants that show each checked property can fail, the source lines
each definition models, the findings and the hazards.

## The system and how its parts interact

| Part | Source | State it owns or reads | Operations |
|---|---|---|---|
| Structural Validator | `src/specs/src/specs/block-validity.md` 21-52 | none (pure predicate over a block) | `Block.ValidateBasic` |
| Chain Verifier and its caller | block-validity.md 56-72, spec.md 4.2/7 | the accepted head, blocks held after a soft failure | `Block.Verify` (accept / soft / hard), the caller's handling of each verdict |
| Metadata key catalog | `src/types/metadata.go` 5-41 | constants | `GetKnownMetadataKeys` (a map), `GetKnownMetadataKeysList` (a slice) |
| StoreServer RPC | metadata.go 360-519 | reads the durable store | `GetBlock`, `GetState`, `GetMetadata`, `ListMetadataKeys`, `GetAllMetadata` |
| P2P and Health servers, service wiring | metadata.go 522-645 | none | pass-through of the peer manager, constant health answer |
| REST metadata endpoints | metadata.go 649-723 | none | JSON text built from the catalog |
| Height Resolver and Retry Runner | `src/unnamed/part_000` 11-142 | reads the sync services' heights | `getNodeHeight`, `Retry`, `waitForAtLeastNBlocks`, `waitForAtLeastNDAIncludedHeight` |
| e2e helpers | `src/test/e2e/evm_test_common.go` | external processes, captured output | `waitForRethContainerAt`, `extractP2PID`, setup and query helpers |

How the parts interact:

- A block arrives from gossip or from local production.
  - ValidateBasic runs first, then Verify against the head.
  - On accept, the block becomes the head.
  - On a soft failure (the block is ahead of the head), the caller holds it and verifies it again later.
- The DA pipeline writes the metadata keys. It does this independently of block production.
- RPC clients read the store through StoreServer while the store is being written.
- Tests poll progress through getNodeHeight and Retry. They also poll external processes (Reth, the sequencer's log output) until those are ready.

The hard behaviours come from this concurrency and unreliability:

- gossip reorders, duplicates and forges blocks;
- the store is written between two reads of one handler;
- heights advance between the polls of a wait;
- endpoints answer late, wrongly or not at all;
- log lines are wrapped, and other processes' output is interleaved with them.

## Modules

Each module's header comment names the source lines it models. Each action's
comment names the code it stands for. `PROJECT.json` "map" gives the exact
lines for every definition.

- **AbstractChain** is what block verification promises.
  - The chain only grows.
  - The node's local chain stays a prefix of it and grows one block at a time.
- **BlockVerifier** models blocks and verification.
  - A block's id is its path of producers from genesis, so `HeaderHash(b) = b.id` and `LastHeaderHash(b) = Front(b.id)`.
  - `attack` records the defect a peer put into the block.
  - `ValidateBasic` and `Verify` translate the pseudo-code line by line. Line 32 is the based-rollup short circuit. Lines 63-66 are the aggregator check for an adjacent block and the soft failure.
  - The actions:
    - `Produce`: honest producers publish blocks.
    - `Inject`: a peer sends forged blocks, bounded by `MaxInjections`.
    - `Replay`: gossip redelivers a block.
    - `Receive`: the node runs ValidateBasic, then Verify, then applies the verdict.
    - `RetryPending`: the caller verifies a held block again.
  - The forger may write any header signed with its own key. Other producers' headers can only be re-enveloped (bad data, no signature, stripped or broken validator set), because a header cannot be changed without changing its hash.
  - `Chain == INSTANCE AbstractChain WITH ...` maps the implementation onto the abstract chain:
    - `chain` is the sequencer's chain;
    - `local` is the accepted blocks' ids, each with a flag saying whether its data hash matched.
- **RetryWait** models Retry and the waits built on it.
  - Each caller runs one wait as a state machine: `Call`, then `Sleep`, and finally `Finish`.
  - `NodeHeight` is `getNodeHeight`. A light node has only the header source. A store read may fail.
  - `DACheck` includes the unchecked type assertion: on a light node it panics.
  - Heights advance by four independent actions. DA inclusion only reaches heights already in the store.
- **StoreServer** models the handlers.
  - Each store call of a handler is one atomic step: `GetBlock` reads the latest height, `GetBlockData` reads the block, and `GetAllMetadata` reads one key per step.
  - The writers (`AppendBlock`, `SubmitHeaders`, `SubmitData`, `SubmitBatch`, `IncludeDA`) interleave with these steps. `IncludeDA` only reaches heights whose header and data were both submitted. This is an assumption of the project, not a statement of spec.md: the glossary (spec.md, "DA-included height") calls a height DA-included when it is confirmed available on the DA layer, which needs its header and data submitted there, and the DA-submission code is not under `src/`. `AllMetadataDAWithinSubmitted` holds only under it.
  - `ListMetadataKeys` answers the catalog's keys, each with its description (`MetadataKeys`), in any permutation, because the code ranges over a Go map.
  - `GetBlockNoId` is the `default` case of the identifier switch: CodeInvalidArgument.
  - `start` is a history variable: the store as the request found it.
- **ServiceHandler** extends StoreServer with the rest of the mux that `NewServiceHandler` builds.
  - `Livez` always answers PASS. `GetPeerInfo` (which also stands for `GetNetInfo`) answers OK, or CodeInternal when the peer manager fails.
  - `RestHealth`, `RestKeys` and `RestAll` are the plain HTTP endpoints. A method other than GET gets 405 from the two REST handlers.
  - JSON text is a sequence of tokens. `BuildKeysJson` is the `first`-flag loop of `handleListMetadataKeys`, run over any iteration order of the key map. `BuildAllJson` is the `i > 0` loop of `handleGetAllMetadata`.
  - `ParseArray` is a recursive reference reader of JSON arrays. The properties read the bodies back with it.
- **RethWait** models `waitForRethContainerAt`.
  - The container's two endpoints come up on their own schedule.
  - An HTTP call may fail (the 100ms client timeout) or answer non-200.
  - The timer may fire at any moment, and has fired once `MaxPolls` sleeps have passed.
  - `open` counts the response bodies left unclosed.
- **P2PIdExtract** models `extractP2PID` inside `require.Eventually`.
  - Log text is abstracted to tokens: the address start `P1`, its `/p2p/` end `P2`, the ID characters `i1 i2`, trailing text `T`. Another process's line is `o X` when it starts with a letter or digit (a timestamp, a log level) and `X` otherwise.
  - `MaxWraps` bounds how many times the address line is wrapped.
  - The two regexes are recursive operators (`IdRun`, `Leftmost`), applied per line and then to the joined lines, exactly as lines 194-229 apply them.
  - `Timeout` ends in `failed`: require calls `t.FailNow`.
- The **MC modules** (`MCBlockVerifier`, `MCRetryWait`, `MCStoreServer`, `MCServiceHandler`, `MCRethWait`, `MCP2PIdExtract`) give the constants small concrete values.

## Runs

| Run | Expect | What it checks and shows |
|---|---|---|
| BlockVerifierSingle | pass | Single-sequencer chain with sequencer `s` and forger `a`, heights up to 4, two forged or replayed blocks, every attack except `strip_vals`. `ImplementsAbstractChain`: the accepted chain refines AbstractChain. |
| BlockVerifierBased | pass | Based rollup with producers `p1`, `p2` forking and forger `a`, heights up to 3, one injection. `AcceptedChainLinked`: every accepted block links by header hash and commit hash to the one before it, and the last one is the head. `DeferredBlocksNotLost`: eventually no published block that extends the head is left unaccepted (soft failures are retried). `HeldBlocksReleased`: eventually no block is held, so blocks of a losing fork are dropped once the head reaches their height. |
| BlockVerifierStripVals | violation | `OnlySequencerBlocksAccepted`: a forger's header that names the sequencer and carries no validator set is accepted. |
| RetryWaitFull | pass | Full node, 3 tries, heights up to 2. Three callers wait at once: n=2 on the store, n=1 on data, and a DA wait with n=0. `SuccessIsReal`: a wait that returned nil waited for a condition that holds. `ExhaustedRetryAccounting`: a wait that gave up made exactly `tries` calls and `tries-1` sleeps. |
| RetryWaitLight | violation | `UnsupportedReturnedAtOnce`: on a light node, the DA wait panics and the store wait retries its unsupported-source error. |
| StoreServerConcurrent | pass | Runs the ServiceHandler composition: one client sends each request the mux routes (RPC, or plain HTTP with GET or POST), heights up to 2, no store failures. `AllMetadataDAWithinSubmitted`, `AllMetadataNotStale`, `LatestBlockIsCurrent`. `RestKeysListsCatalog`: the keys body is well-formed JSON listing every key once, with its description, for every map order. `RestAllListsCatalog`: the metadata body lists the catalog in list order. |
| StoreServerTransientErrors | violation | `AllMetadataNotStale` with failing reads: a written key is left out. |
| RethWaitValid | pass | `ReadyMeansBothUp`, `WaitTerminates`, with a timeout of 3 polls. |
| RethWaitLeak | violation | `NoBodyLeaked`: a 503 body is never closed. |
| P2PIdCutOutsideId | pass | The address line is whole, or wrapped once, before `/p2p/` or after the ID. It is written to either stream, with two lines of other output. `ExtractedIsSequencerId`, `FoundOnceLogged`. |
| P2PIdWrapped | violation | `ExtractedIsSequencerId` with up to two wraps anywhere: a cut inside the ID returns a truncated ID. |
| P2PIdSplitBeforeId | violation | `FoundOnceLogged` with one wrap just before the ID: a foreign line captured between the halves hides the ID from both regexes, and the test times out. |

Every property of a passing run has a mutant in `PROJECT.json`. A mutant is a
plausible bug in the modelled code, written as an operator just above the
definition it replaces, and TLC finds the property violated under the run's
own configuration. Examples:

- the data-hash check left out;
- the commit-hash check left out;
- soft failures dropped;
- held blocks retried only when they would be accepted;
- Retry's loop running one time too many;
- the DA zero check left out;
- the metadata key list reordered so that `d` is read last;
- the loop of GetAllMetadata stopping at the first error;
- the latest block off by one;
- the timer select left out;
- a client without a timeout;
- a capture group without `+`;
- only stdout collected;
- the `first` flag of the keys loop never cleared;
- a comma before the first key of the metadata list.

Type invariants are checked only where a bug in the modelled code could
break them: `RethWait` (a body left open past the loop's end) and
`P2PIdExtract` (a capture that is not made of ID characters). In
BlockVerifier, RetryWait and StoreServer every variable keeps its type
whatever the handlers compute, so no type invariant is checked there.

## Bounds, and why they are enough

- **BlockVerifier.**
  - Height 4 in single mode lets a block arrive two ahead of the head, be held, and be released when its parent arrives.
  - Two injections let a forged block and a replay meet.
  - Height 3 with two producers gives forks at every height.
  - More injections in based mode grow the state space past 600,000 states without new verdict combinations.
- **RetryWait.**
  - Three tries give a first call, a middle call and a last call.
  - Heights up to 2 let a wait for n=2 fail once and then succeed.
  - The 300 tries of the code only lengthen the same loop.
- **StoreServer.**
  - Heights up to 2 let every metadata key change during a GetAllMetadata and let GetBlock see an append between its two reads.
  - Clients share nothing but the store, so one client with every request type covers what a second client could do to the store.
- **RethWait.** Three polls before the deadline give fail, retry, succeed and time out in all orders.
- **P2PIdExtract.**
  - A two-character ID is the smallest in which a cut can fall inside it.
  - Two foreign lines can sit between both halves of a wrapped line and around them.
  - The passing run allows one wrap. With two wraps, before `/p2p/` and right after the ID, TLC finds a further wrong ID: the joined lines glue the next captured line onto the ID when that line starts with a letter or digit (run `P2PIdCutOutsideId.cfg` with `MaxWraps = 2`). `ExtractedIsSequencerId` catches it. `PROJECT.json` lists it as a hazard at line 220 (the `strings.Join`).
  - Three ticks let the message arrive before, between and after polls.

## Fairness

- **BlockVerifier:** weak fairness on delivering some gossiped block, on retrying some held block, and on producing. A node keeps handling its gossip queue, and the caller re-verifies held blocks (spec.md 4.2). Every action is bounded, so fairness on the existential form delivers every block.
- **RetryWait:** weak fairness on each caller, because each is a goroutine. Nothing is assumed of the sync services.
- **RethWait and P2PIdExtract:** weak fairness on the polling goroutine and on the timer (the Go runtime delivers both). Nothing is assumed of the container or of the sequencer's logging.
- **StoreServer and ServiceHandler:** check only safety, so they assume no fairness.

## What is not modelled

- The gRPC reflection handlers and the h2c transport options of NewServiceHandler. They configure transport and hold no state the handlers share.
- The content of peer and network info. It is passed through from the peer manager.
- The cause of a CodeInternal answer of GetBlock. A ToProto conversion error (lines 410-414) answers the same code as a failed store read, which the model offers under `StoreMayFail`.
- The EVM setup and chain query helpers. They drive docker and the node binaries sequentially.
- `safeClose`, which is unused.
- The unit tests: `setupTestServer` and the `TestClient*` tests of `metadata.go` (lines 42-357), and the handler tests. Each runs one handler once against a mock with fixed answers, so there is nothing for a model checker to explore. Their assertions are what the StoreServer and ServiceHandler models assume of the store and check of the handlers.
- GetMetadata and GetState answering CodeNotFound for any store error (lines 431 and 461). A failed read is modelled, and answers NotFound as in the code. No run checks it: it is the same error-to-absence mapping that the StoreServerTransientErrors finding shows for GetAllMetadata.
- GetBlock answering CodeInternal for a block the store lacks (line 405). spec.md 7 says absence in block lookups is NotFound. This is a single error mapping read off the code, so no run is spent on it. The model answers Internal, as the code does.
- Cryptography, hashing and encodings. They are modelled by what they tell apart: ids for header hashes, and a flag for a data hash that does not match.

## Findings

Each finding has a violation run, listed in `PROJECT.json`.

- A peer can get a header accepted in a single-sequencer chain by stripping the validator set. This gap is in the pseudo-code at line 32 and in spec.md 4.1.
- On a light node:
  - the DA wait panics;
  - the store and data waits retry the unsupported-source error 300 times.
- GetAllMetadata treats a transient error as absence.
- A foreign line between the halves of an address line wrapped before the ID makes extractP2PID time out.
- waitForRethContainerAt leaks the bodies of non-200 answers.
- extractP2PID returns a truncated ID when the address line wraps inside the ID.

## Plan for further work

1. Add a reader/writer model of the chain head (spec.md 5), if the code that owns the head ever appears under `src/`.
