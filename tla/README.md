# TLA+ model of the InSo validator

This directory holds a TLA+ model of the validator in `src/` (Go): modules that
follow its engines statement by statement where goroutines can interleave, TLC
configurations that check them on small instances, and TLAPS proofs of the
properties that matter most, for every value of the constants.

    tlc -workers 2 -config SyncSafety.cfg MCSyncEngine     # one run
    tlapm SyncEngineProofs.tla                             # one proof module

`PROJECT.json` lists every run, what it checks, and the source lines behind each
definition.

## 1. Inventory

The validator is one process. `cmd/validator/main.go` builds the parts, wires
them with a callback and starts their goroutines.

| part | state | operations | goroutines that enter it |
|---|---|---|---|
| sync engine (`internal/sync`) | `blocks`, `latestBlock` under a mutex | `processBlock`, `IsSynced`, `Stop` | listener, RPC loop, HTTP handlers |
| verification engine (`internal/verification/engine.go`) | `stateRoot`, **no lock** | `VerifyBlock` | listener and RPC loop (through the callback), HTTP handlers |
| feature checks (`features.go`) | none | lane, receipt and adaptive checks | callback (adaptive, logged only), HTTP handlers |
| consensus engine (`internal/consensus`) | `validators`, `attestations` under a mutex | `RegisterValidator`, `AttestBlock`, `IsFinalized`, `VerifyAttestation`, message handlers that only log | callback, message loop, HTTP handlers |
| reputation manager (`internal/reputation`) | XP, uptime, score per validator, under a mutex | `Register`, `Record...`, `ComputeSovereignty`, `ApplyDecay` | consensus engine, HTTP handlers |
| staking manager (`internal/staking`) | stakes, delegations, under a mutex | `Register`, `Delegate`, `Slash`, `TotalStaked` | main, HTTP handlers |
| P2P network (`internal/p2p`) | `peers` under a mutex, one channel `msgCh` of 4096 | dial, accept, `readLoop`, `Broadcast`, liveness check, `Stop` | one `readLoop` per peer, accept, dial and liveness loops, broadcasting callback, main |
| RPC server (`internal/rpc`) | none of its own | JSON-RPC methods, `/health`, `/ready` | one handler goroutine per request |
| metrics (`internal/metrics`) | atomic counters and gauges | text rendering | every part |
| configuration (`internal/config`) | none after start | reading the file | main |

How they interact: peers' messages go through `readLoop` into `msgCh`, which
**two** readers share, the sync listener and `consensus.processMessages`. The
listener and the RPC loop call `processBlock`, which stores the block under the
mutex and, after the unlock, writes the gauges and runs the callback of `main`:
`VerifyBlock`, then `AttestBlock`, which credits XP and broadcasts the
signature while it holds the consensus mutex; `Broadcast` writes to one peer
after another while it holds the read lock of `n.mu`. The HTTP method
`inso_verifyBlock` calls the same `VerifyBlock`; `/health`, `/ready` and the
status methods call `IsSynced`, which asks the sequencer.

What is hard here: two goroutines race from the unlock to the signature; the
catch-up loop works with a height it read before; `stateRoot` is a data race;
the sequencer fails, times out or answers null; a full channel drops messages;
peers stall, break and reconnect while frames are written to them in two parts;
a restart forgets every signature; counters, caps and floating-point amounts
meet their limits. `PROJECT.json` lists these hazards at their lines, with the
properties that would catch each one.

What makes each part correct:

- sync: no hole in the stored chain, a height that is its top, exactly one
  callback per stored block, every block synced in the end;
- verification: a claimed root is accepted only if it follows from a root the
  engine has reached, despite the race;
- consensus: recorded, credited and broadcast attestations agree;
- reputation: XP, uptime and score never exceed what was earned;
- staking: stake is conserved and active validators are funded, unless something
  negative was delegated to them;
- the node: each height signed at most once, for the stored and verified block;
- signatures and receipts: one signature, or one receipt hash, stands for one
  attestation or receipt, although numbers are packed into bytes by hand;
- P2P: who is counted is served, who is connected stays counted, broadcasts do
  not mix their frames, and, as long as no write loses its deadline to another
  writer, broadcasts end and `Stop` leaves nothing running;
- RPC: no answer is better than the node.

## 2. Modules

| module | models | state and actions |
|---|---|---|
| `SyncEngine` | `sync/engine.go`, the channel of `p2p/network.go` | one program counter per goroutine; the critical section of `processBlock` is one action (`Skip`, `Accept`), everything after the unlock one action per statement that other goroutines can see; `Deliver` is the non-blocking send of `readLoop`, `ConsensusReceive` the competing reader |
| `VerificationEngine` | `verification/engine.go` | `stateRoot` as two 16-byte halves, copied one at a time by each caller, so reads and writes of concurrent callers tear |
| `ReputationManager` | `reputation/manager.go` | one action per operation (each holds the mutex); the score in ten-thousandths |
| `ConsensusEngine` | `consensus/engine.go` | extends `ReputationManager`, which it calls; one action per operation; power in twenty-thousandths, so that it stays an integer |
| `AttestationSigning` | digest, signing and `VerifyAttestation` of `consensus/engine.go` | operators over `ConsensusEngine`, with hashes and addresses as arrays of bytes |
| `Bytes` | `big.Int` to bytes | pure operators; the base of a byte is a constant |
| `FeatureChecks` | `verification/features.go` | pure operators: lanes, receipt hash, adaptive bounds |
| `StakingManager` | `staking/manager.go` | one action per operation; amounts and percentages of any sign, as nothing checks them; a cut is the exact product truncated, give or take the constant `Rounding` for the floating-point arithmetic |
| `ValidatorNode` | `cmd/validator/main.go`, `inso_verifyBlock` | the three engines together, the callback, HTTP callers, crash and restart |
| `RpcServer` | `rpc/server.go` | extends `ValidatorNode` and `FeatureChecks`; one control point per handler; the probe of the sequencer, the comparison and the read of the height are steps of their own |
| `P2PNetwork` | `p2p/network.go`: connections and `Broadcast` | one control point per connection (accept or dial, register, announce, read, clean-up) and per broadcasting caller; an announce and a broadcast each set the deadline, write the length, write the data and clear the deadline in steps of their own; the deadline belongs to the connection, so the writers share it; the framing of each stream, `n.peers`, `Stop` in two steps |
| `AttestedChain` | what the node promises to the network | abstract: one chain that only grows, each height signed at most once |
| `MCSyncEngine`, `MCVerificationEngine`, `MCValidatorNode`, `MCAttestationSigning`, `MCStakingManager`, `MCRpcServer`, `MCP2PNetwork` | values of the constants for TLC | |
| `SyncEngineProofs`, `VerificationProofs`, `StakingProofs`, `ConsensusProofs`, `P2PProofs`, `NodeProofs`, `RpcProofs` | theorems about the module each is named after (`ConsensusProofs`: the reputation manager too) | |
| `DataTheorems` | lemmas about sums over finite sets and numbers packed into bytes that the proofs share | |

The P2P network appears in two modules, cut at the channel: `SyncEngine` has
what peers send (`Deliver`, the two readers), `P2PNetwork` what the node sends
and how connections come and go.

Data is abstracted to what the properties tell apart. A block is a number, a
body (timestamp and gas used), a hash and a claimed state root, or none.
`computeExpectedStateRoot` is a function `NextRoot[root][block]`; in the instances
a root is the sequence of what was hashed into it, any number with any root, as in
the code; roots that lead to no claim, such as a value put together from two
halves, are all `Torn`. `common.HexToHash` is the constant function `HexToHash`, which sends
every malformed hash to the zero hash. A digest stands for the data it is taken
of (no collisions), and a signature is a signer and a digest: recovering the
signer for another digest gives nobody's key. `crypto.Sign` may fail and leaves a
nil signature. Logging and timestamps are left
out. In `P2PNetwork` a frame is the caller that writes it and a stream is at a
frame boundary, inside a frame, or torn; the send buffer of a connection has room
or is full, and a peer that stops reading may leave it full at any time, before
the announce too, which allows more than the buffers of the system do. Definitions
marked "mutation" are faulty variants of the definition that follows them; no
specification uses them.

Histories, which the code does not keep: `delivered` (calls of the callback),
`verified` (blocks found valid, each with the root it gave), `broadcasts` (attestations handed to
`Broadcast`), `past` (the same before the last crash), `granted`, `burned` and
the registered amount `own`.

## 3. Runs

Passing:

| run | checks | bounds |
|---|---|---|
| `SyncSafety` | `TypeOK`, `Contiguous`, `LatestIsHighest`, `NotifiedExactlyOnce`, `CatchUpNeverDefers` | 2 blocks; announcements: a repeat, a fork, one ahead of the sequencer, one without a number; null replies; a channel of 1 |
| `SyncLiveness` | `NextInSequence`, `GapsAreFilled`, `StopTerminates` | as above, no block numbered 0 and no null reply |
| `VerificationRace` | `VTypeOK`, `ValidClaimsExtendReached` | 3 callers (symmetric); blocks 1 and 2 of a chain, a block 2 made on the genesis root, a block 2 that claims no root and a block 3 on top of it, a block 0 |
| `Consensus` | `RepTypeOK`, `UptimeNeverOverstated`, `XPWithinGrants`, `ConTypeOK`, `SignatureBindsAttestation` | 2 validators, 2 heights, attested again and again within 3 events, signing that succeeds or fails, a cap of 3 XP that is reached; bytes with 2 values, hashes of 2 bytes |
| `Staking` | `STypeOK`, `ActiveMeansFunded`, `StakeIsConserved`, `InactiveIsFinal` | 2 validators, 2 delegations and 2 slashes each; stakes at and below the minimum, a negative delegation, slashes of 10, 50, 100 and 150 per cent, each cut off by up to 1 |
| `NodeSafety` | `NodeTypeOK`, `NoEquivocation`, `AttestsVerifiedBlocks`, `RefinesAttestedChain` | 2 blocks; peers that announce a block 1 without a claimed root and with a malformed hash and a block 2 made on the genesis root; one HTTP request |
| `NodeHttp` | `AttestsEachNewBlock`, `SyncedAnswerIsSound`, `ReceiptVerdictBinds`, `EventuallyAttested` | 3 blocks, no peers, one handler that serves request after request, replies at and around each limit |
| `P2P` | `P2PTypeOK`, `ActiveMeansServed`, `BroadcastsStayWhole`, `ConnectedStaysActive`, `BroadcastEnds`, `StopEndsNetwork` | 2 connections with one id, 2 dial attempts, 2 callers that broadcast again and again, any number of liveness checks, peers that stop and resume reading at any time |

Two heights are enough for the sync engine's races because its decisions look at
one number and its neighbour; the proofs below remove the bound, and prove of the node
with announcements of block 0 what `NodeSafety` checks without them (`SyncSafety` has
them). A channel of 1
makes the full-channel branch and both readers happen. Three callers are one
more than the two a torn value needs. Two connections with one id are what the
clean-up of an old connection against a newer one needs; connections with
different ids share only the lock and the loop of `Broadcast`, which the two
callers exercise. They are dialled, because a dialled connection takes every
step of an accepted one and the attempts besides. With bytes of two values and
hashes of two bytes the number of a block has more, as many and fewer bytes than
the field behind it, which is where packing without padding can go wrong. Bounds on counters (`MaxHead`, `ChanCap`,
`MaxEvents`, `MaxGranted`, `MaxDelegations`, `MaxSlashes`, `MaxFinalized`,
`MaxRequests`, `MaxRestarts`, `DialAttempts`) are constants that appear in
guards; `Rounding` bounds the error of a cut in its smallest units, which the proofs leave
open. Only `P2P` turns deadlock checking off: a network that was stopped, or
whose only peers are lost, has nothing left to do.

Each of the following runs checks what a comment, a help text or the project's
README says, and TLC finds a behaviour of the code that contradicts it:

| run | property | the text | the behaviour |
|---|---|---|---|
| `SyncNullReply` | `GapsAreFilled` | `sync/engine.go:215` | after a null reply stored as block 0, block 1 is a duplicate and block 2 a gap for ever |
| `SyncSharedChannel` | `AnnouncementsReachListener` | `sync/engine.go:117` | the consensus loop takes announcements off the shared channel and only logs them |
| `NodeReordered` | `AttestsEachNewBlock` | `cmd/validator/main.go:116` | the two goroutines verify in the wrong order and a good block is never attested |
| `NodeDoubleSign` | `NoDoubleSigning` | `README.md:33` | after a crash a fork is signed at a height signed before |

The passing and the failing runs of one property differ in one assumption, which
is what the pair shows: `GapsAreFilled` holds when the sequencer never answers
null, and `AttestsEachNewBlock` when a single goroutine calls `VerifyBlock`, as
in `NodeHttp`, where clients may read the node but call no `inso_verifyBlock`.

## 4. Fairness

`SyncEngine!Fairness` and `ValidatorNode!Fairness` assume:

- weak fairness of every goroutine's own steps: Go's scheduler runs runnable
  goroutines, the HTTP client has a timeout of 10 s, the callback is
  straight-line code;
- weak fairness of the ticker;
- strong fairness of a successful fetch of each block number: a failed fetch
  ends the round, so the request is enabled again and again, and a sequencer
  that answers infinitely many requests for a block answers one of them in full;
- strong fairness of `Exit`: `select` chooses among ready branches at random, so
  a context that stays cancelled is noticed even while messages keep coming.

`RpcServer` adds nothing: a handler that reports a status waits for the consensus
mutex and for `n.mu`, and a broadcast may hold both for long, or for good in the
exception of `BroadcastEnds`. `P2PNetwork!P2PFairness` assumes:

- strong fairness of a connection's goroutine and of `Stop`'s second half: they
  need `n.mu` for writing, and Go's `RWMutex` lets no new reader in while a writer
  waits. A dial returns by its timeout and a read by its deadline; a read is
  assumed to fail only once the connection is no longer open, since a live peer
  may keep it going for ever;
- strong fairness of a `Broadcast` that has begun: a blocked `Write` uses whatever
  room there comes to be, and returns when the connection breaks or when its
  deadline passes. A `Write` that has lost its deadline to a peer that reads nothing
  more does not return; `BroadcastEnds` and `StopEndsNetwork` name this as their
  exception, and TLC reaches it.

Nothing is assumed of peers, of HTTP clients, of calls of `Stop` or `Broadcast`
or of the sequencer's progress.

## 5. Proofs

Each theorem holds for every value of the constants that satisfies the `ASSUME`
of the modules it is about; TLC evaluates these on its instances. They say that
blocks are well formed and the chain is numbered from 1 (`SyncAssumption`,
`VerificationAssumption`), that amounts and percentages are integers, of any sign
and size (`StakingAssumption`), that rewards, bounds and limits are natural numbers
(`ReputationAssumption`, `ConsensusAssumption`), that the sequencer's receipts have
the fields the code hashes (`RpcAssumption`), that hashes, addresses and words have the widths the code
converts them to (`SigningAssumption`, `WidthAssumption`), that a byte has at least
two values (`ByteAssumption`), that goroutines have different names
(`NodeAssumption`), and that a connection is accepted or dialled, has an id, and is
dialled at least once (`P2PAssumption`). Where a theorem needs more, its hypothesis is part of the
statement:

| hypothesis | used by | why |
|---|---|---|
| `NoBlockZero`: no null reply, no announcement of block 0 | `StoresInSequence`, `StatusSound` | the code stores a block 0 on top of anything and the height falls back to 0; `SyncNullReply` shows one consequence |
| `NoClaimOnTorn`: no block claims the root that follows from a root put together from two halves | `ClaimsSurviveRace`, `SignsVerified` | the engine can hold such a root for a moment, and SHA-256 makes it one that nobody derived; nothing is assumed about which numbers are hashed with which roots |
| `SensibleInputs`: no negative amounts, percentages from 0 to 100 | `StakesStayPositive` | `Delegate` and `Slash` check neither |
| `OneFeeder`: no announcements, no `inso_verifyBlock`, no null replies, and a sequencer whose roots follow from each other | `LoneLoopAttests` | with a second goroutine the property is false: `NodeReordered` |

`SyncLiveness`, `VerificationRace`, `NodeSafety` and `NodeHttp` run instances on which
the first, second and fourth are true; `Staking` runs without the third.

**`SyncEngineProofs`**

- `TypeCorrect`: `TypeOK` is inductive; one step per action.
- `ChainContiguous`, `LatestBlockHighest`: `Contiguous` is not inductive, since
  it does not say that the block below the one being stored is there. `ChainInv`
  adds that a positive `latestBlock` is stored. `OnlyAcceptStores` reduces the
  argument to the critical section.
- `NotifiedOnce`: `NotifyInv` adds what the goroutines between the unlock and
  the callback hold: the stored block, never the same one twice. `StepKinds`
  splits the steps into storing, calling back, and quiet ones.
- `CatchUpSound`: `LoopInv` ties the loop variable to `latestBlock`; it needs
  `AcceptMonotone`, which follows from `ChainInv` before and after the step.
- `StoresInSequence`: an action property. `ZeroFree` says that no goroutine and
  no message in the channel carries a block 0.

**`VerificationProofs`**

- `VTypeCorrect`: types, and no root is ever derived for block 0.
- `ClaimsSurviveRace`: a reached root is the genesis root or one that a valid block
  gave. `OrderInv` rests on one observation: the *second* half of `stateRoot` is
  written by a caller that has just found its block valid, so it always belongs to a
  reached root; a read with equal halves is therefore a reached root, and any other
  read is torn.

**`DataTheorems`** The stakes and the voting power are sums over finite sets, and
the library's induction theorems are out of the provers' reach. `AddsUp` states
the recursion equation a sum satisfies. What is true of every sum (it is
a natural number, it depends only on the summands in the set, one more element
adds one summand) is proved by the minimal
counterexample: among the sets that would refute it there is one of least
cardinality, and taking one element out of it gives a smaller one. In the same
way the powers of the base of a byte exist as a recursive function (from tables of
its first values), are positive and grow; `DigitStep` and `DigitsDetermine` go down
from the top digit to show that two numbers with equal digits are equal, which
makes `BigBytes` injective, and `PaddedDigits` says the same of padded words. Two
arrays put together come apart again when the width of one is known (`JoinSplits`).

**`StakingProofs`**

- `StakesTyped`: `StakesInv` adds the shape of the records; delegations and cuts
  belong to registered validators only.
- `StakesStayPositive`, under `SensibleInputs`: a cut stays between 0 and the stake
  whichever way the product is rounded.
- `ActiveFunded`: `Delegate` may take an active validator below the minimum only
  with a negative amount, which then stays on record (`BackingStays`).
- `InactiveFinal`: an action property; `Delegate` refuses the inactive.
- `StakesConserved`: a registration, a delegation and a slash each change one
  summand; the sum over the active validators agrees with `TotalStaked` term by
  term.

**`ConsensusProofs`**

- `ReputationTyped`, `UptimeSound`, `XPSound`: `RepOK` is what holds of one
  record; each operation of the reputation manager is shown to turn one good
  record into another, so the steps of the consensus engine that call two of them
  in a row need no argument of their own. The uptime proof compares quotients.
- `AttestationsAccounted`: `AttestedInv` and `CountersInv` relate recorded
  attestations, what was handed to `Broadcast` and the local validator's record,
  however often a height is attested and whether or not signing succeeds.
- `SignaturesBind`: `DigestDetermines` splits the signed data from the right, where
  the two fields of fixed width are, so that the unpadded number is what is left.

**`P2PProofs`** One inductive invariant, `P2PInv`, gives all five theorems
(`NetworkTyped`, `CountedAreServed`, `FramesWhole`, `BroadcastGuarded`,
`ConnectedCounted`).
`BroadcastsStayWhole` is not inductive: it needs that one broadcast runs at a
time although `Broadcast` takes only a read lock (the consensus mutex around it is what
excludes the second one), that it visits connections that were made, and what each
stream carries while a caller stands between the two writes of a frame.
`ConnectedCounted` needs that a connection is closed before its clean-up takes the
mark (`ClosedFirst`), so that no goroutine takes the mark of its own open connection.
`BroadcastGuarded` is the safety half of `BroadcastEnds`: while a broadcast writes, the
liveness check, which clears deadlines, is kept out by `n.mu`, so only the end of an
announce can clear the deadline of the write.

**`NodeProofs`** puts the engines together and takes their lemmas through
`INSTANCE`, so `NotifyInv` and `OrderInv` are proved once. `EngineSteps` and the
lemmas it rests on show that a step of the node is a step of one engine or leaves
that engine alone.

- `NodeTyped`, `SignsOnce`: for `RestartSpec`, in which the process may crash at
  any step; `NoCrash` gives the same for `Spec`. `NodeInv` follows a block from
  the unlock to the signature: a goroutine in the callback holds a stored block
  that no other goroutine holds and that is not signed yet.
- `SignsVerified`: `SignedInv` says that a signed block is stored and was found
  valid, `OrderInv` that its claim follows from a reached root, and
  `ReachedIsStored` that reached roots belong to stored blocks.
- `NodeImplementsChain`: the refinement of `AttestedChain`: the initial states
  map to its initial state and every step to a step of it or to a stutter.
- `LoneLoopAttests`: `LoneInv` says where `stateRoot` stands at each control
  point of the one goroutine: the root of the last block before the first write,
  of the new one after the second.

**`RpcProofs`** extends `NodeProofs`. `StatusSound`: between the probe, the
comparison and the read of the height the node goes on, so `StatusInv` keeps the
reported head below the height, which needs `HeightGrows`. `ReceiptsBind`:
`VerdictInv` says what a positive verdict was computed from, for any reply of the
sequencer, and the hashed data determines a receipt, field by field from the right.

Only model-checked is liveness (`GapsAreFilled`, `StopTerminates`,
`EventuallyAttested`, `BroadcastEnds`, `StopEndsNetwork`), which needs fairness and ENABLED. Every other property of a passing run is a
theorem.

## 6. Not modelled, and the plan

Not modelled:

- configuration and keys: read once before anything starts; their values are
  constants;
- the text of the metrics, and fields of them that no engine writes;
- JSON encodings: a message is a block announcement or `Other`, a reply is a
  record, or none; the parsing of request parameters;
- RPC methods that return one snapshot of a manager (validators, peers, stakes);
- `SendTo`, which nothing calls. `VerifyAttestation` has no caller in the node
  either, but states what a signature is worth and is modelled.

Where the text and the code part, or where a property one might expect is false
of the code, without a run of its own (each follows from the lines named):

- sync: a block numbered 0 is stored on top of any chain although
  `sync/engine.go:213` asks for the next number; the `SyncedBlock` gauge is
  written after the unlock and can fall back (`metrics.go:122`); a null head reads
  as 0, so `IsSynced` answers true (`sync/engine.go:264`);
- verification: a block above an invalid one can be found valid and attested, when it
  claims no root (`verification/engine.go:67`) or a root made directly on the genesis
  root, since any number is hashed with any root (`verification/engine.go:90`);
- reputation: the decay of small XP truncates to 0 (`reputation/manager.go:226`);
  the project's README describes a score of five factors, the code has four with
  weights of 40, 30, 20 and 10;
- consensus: an attestation whose signing fails is recorded, credited and broadcast
  with a nil signature (`consensus/engine.go:164`, `consensus/engine.go:265`), and one
  whose broadcast fails stays recorded and credited (`consensus/engine.go:176`);
  `IsFinalized` counts every positive answer as a finalized block
  (`consensus/engine.go:223`) and a validator that attests twice twice
  (`consensus/engine.go:211`), so an answer does not stand for a supermajority; voting power keeps the score of the registration
  (`consensus/engine.go:128`); attestation and slash messages of peers are only
  logged, so other validators' votes are never counted;
- staking: `Slash` and `Delegate` check no range and no sign, so a stake can become
  negative (`staking/manager.go:112`) and a negative delegation can leave an active
  validator below the minimum (`staking/manager.go:84`); `TotalStaked` leaves out deactivated stakes (`staking/manager.go:160`),
  and a slash does not reach the consensus engine's validator set;
- feature checks: lanes with a total of 0, or an error or null reply, are valid; a
  gas limit of 0 keeps the adaptive check from looking at the gas used;
  the project's README speaks of a minimum of 1K transactions, but `MinMaxTx` is
  never compared; the hash of a receipt is not compared with the one asked for;
  `inso_getAdaptiveVerification` uses the default bounds and the callback the
  configured ones (`rpc/server.go:195`);
- RPC: `inso_verifyBlock` moves the root under a waiting callback
  (`rpc/server.go:169`), which ends like `NodeReordered`; `/ready` does not look at
  the number of peers (`rpc/server.go:260`);
- P2P: a lost bootnode is not dialled again (`p2p/network.go:439`); an announce
  that overlaps a broadcast, or a write that its deadline cuts short, destroys the
  framing of a connection that stays active (`p2p/network.go:161`); the clean-up of
  an old connection can take the mark of a newer one with its id
  (`p2p/network.go:343`), which `ConnectedStaysActive` states as its one exception;
  entries of `n.peers` are never removed; the end of an announce clears the deadline
  of a broadcast to the same connection, and a liveness check or a broadcast that of
  an announce (`p2p/network.go:425`), so a write to a peer that reads nothing more can
  wait for good, with the consensus mutex, `n.mu` and the status requests behind it.

Left, in this order:

1. Safety facts that the liveness properties rest on and that need no fairness
   (what a gap in the chain leaves enabled), as `BroadcastGuarded` does for
   `BroadcastEnds`.
2. Staking and consensus in one module, if a path from a slash to the validator
   set is ever written.
