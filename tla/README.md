# TLA+ models of Mixin Safe

This directory holds TLA+ models of Mixin Safe (the sources under `src/`, described in `spec.md`) and the TLC configurations that check them. Mixin Safe is a 2-of-3 vault, with Holder, Signer and Observer keys, for Bitcoin-family and Ethereum-family chains. Three services cooperate over MTG (Mixin Trusted Group) transactions:

- The **keeper** (`src/keeper`, `src/unnamed/part_003`) is a replicated state machine. Every keeper replica applies the same ordered log of requests with deterministic handlers. A handler that panics kills the process, which restarts and replays the same request.
- The **observer** (`src/unnamed/part_001`, `part_002`, `src/observer`) runs these parts:
  - a snapshot loop that reads Mixin snapshots and dispatches keeper responses;
  - the Bitcoin and Ethereum spend loops, which broadcast fully signed approvals, paying Bitcoin fees from an accountant wallet;
  - the signature combiners for recovery.

  It also pushes chain network info (fee rate, height, block hash) to the keeper.
- The **signer** (`src/signer/node.go`) is a group of MPC nodes that all apply the same MTG log, in the same way the keeper replicas do. The keeper asks it for keygen and sign sessions. Members send PREPARE messages, then the prepared members run the MPC protocol, and finally each node reports its result. When more than `threshold` results agree, every node builds the keeper's output transaction.

## Inventory

| Part | Source | State | Operations | Hard behaviour |
|---|---|---|---|---|
| Keeper network info | part_003 `writeNetworkInfo`, `verify*NetworkInfo` | latest NetworkInfo per chain; request state | observer push; per-replica handling against its own RPC node | lagging RPC nodes; reorgs; panic, restart and replay |
| Keeper operation params | part_003 `writeOperationParams` | OperationParams per chain | one handler | none beyond validation |
| Asset meta | part_003/keeper/network.go/observer/bond.go `fetchAssetMeta` | asset cache | read-through fetch | infinite retry on timeouts |
| Keeper request store | keeper/store/request.go | requests table | write-if-not-exist, finish, read pending | at-most-once, redelivery |
| Keeper network info, older revision | keeper/network.go `writeNetworkInfo`, `writeAccountPlan`, `verifyBitcoinNetworkInfo` | latest info and account plan per chain | the handlers of the request queue | `panic(0)` on Ethereum; a lagging RPC node; errors that never clear |
| Keeper safe store, signer requests | keeper/store/safe.go | proposals, safes | write proposal/safe; send keygen/sign requests | dedup by operation id |
| Observer fee spend | part_001 spend loop and fee input | approvals; bitcoin_outputs; node mempool | retrieve fee input, split, broadcast, confirm | RPC failure after acceptance; crash; retry with a new fee |
| Observer signature combine | part_001 `keeperCombine…`, `keeperVerify…` | approvals, recovery state | two store updates | crash between the updates |
| Observer snapshots | part_002 `snapshotsLoop`, `handleSnapshot` | checkpoint offset | handle a batch, then write the checkpoint | replay after a crash |
| Signer sessions | signer/node.go | per node: session state, signer rows, operations map | keeper input, PREPARE, RESULT, startSign, result loop | local vs replicated state; MPC failure; faulty member; restart |
| Gnosis safe adapter | apps/ethereum/account.go | the safe proposal; deployed proxies and their guard on the chain; the RPC node's view | `BuildGnosisSafe`, `GetOrDeploySafeAccount` (check, deploy, enable guard) | owner/key pairing; in-place sort of the caller's slice; failed transactions that were mined; lagging RPC node |

## Modules

### KeeperNetworkInfo (`KeeperNetworkInfo.tla`, `MC_KeeperNetworkInfo.tla`)

This module models `writeNetworkInfo` (part_003 30-88), together with `verifyBitcoinNetworkInfo` (133-158) and `verifyEthereumNetworkInfo` (160-179).

State:
- The chains: `tip`, `main`, `produced` and `reorgs`.
- Each keeper's RPC node: `view`, which may lag.
- The ordered request `log`, written by the observer.
- For each keeper replica: its position `cursor`, its stored `latest` info, `decided` (done or failed per request) and `panicked`.

Actions:
- `writeNetworkInfo(k)` is one step of replica `k`. It has four outcomes:
  - a stale request fails;
  - a verification error panics;
  - an out-of-range fee fails;
  - otherwise the info is stored.
- `Restart(k)` is the process restart that replays the request.
- The environment has these actions: `MineBlock`, `Reorg` (a one-block tip reorg), `SyncNode` (an RPC node catches up) and `ObserverPush` (a request for a block that is on the main chain when pushed).

A block hash is abstracted as `<<height, variant>>`. `failRequest` and `WriteNetworkInfoFromRequest` are not in `src/` and are modelled from the spec.

### ObserverFeeSpend (`ObserverFeeSpend.tla`, `MC_ObserverFeeSpend.tla`)

This module models the Bitcoin spend loop of part_001. It covers:
- `bitcoinTransactionSpendLoop`;
- `bitcoinSpendFullySignedTransaction`;
- `bitcoinRetrieveFeeInputsForTransaction`, with `AssignBitcoinUTXOByRangeForTransaction`, `ReadBitcoinUTXOs` and `WriteBitcoinFeeOutput`;
- `bitcoinBroadcastTransactionAndWriteDeposit` and `bitcoinBroadcastTransaction`.

The `bitcoin_outputs` table is a sequence of rows in insertion order. The range query uses `LIMIT 1` without `ORDER BY`, and SQLite returns the first matching row in rowid order.

The node keeps the set of transactions it accepted. It takes a transaction whose inputs exist and do not conflict. An RPC failure can come before or after the node accepted the transaction. A transaction id stands for its content: its inputs and its fee. A crash of the observer loses the loop's local state but keeps the table.

### SignerSession (`SignerSession.tla`, `MC_SignerSession.tla`)

This module models one sign session over all signer nodes. Each node has its own copy of the replicated session rows (`rows`, `preparedAt`), built by `ProcessOutput` from the shared MTG `log`. Each node also has local state that depends on its own progress:
- `state` and `extra` (the session State and the signature in Extra);
- `queued`, the in-memory operations map.

Actions:
- `ProcessOutput` covers the handlers `ProcessKeeperInput` (WriteSessionIfNotExist), `ProcessSignerPrepare` and `ProcessSignerResult`. The last one includes `verifySessionSignerResults`, the adoption of an agreed signature by an Initial, prepared node, and `verifySessionSignature`.
- `StartSign` is loopInitialSessions, queueOperation and startSign. A non-participant exits. A participant gets the signature or fails the session.
- `SendSignerResult` and `MarkSessionDone` are the two steps of loopPendingSessions. A result is deduplicated by its per-node trace id.
- `Crash` loses the operations map.
- `ForgeResult` is a faulty member's forged result.
- `SendPrepare` is a member announcing readiness. The sender of PREPARE is not in `src/`.

Assumptions about store code that is not in `src/`:
- startSign's `members` are the members that have PREPARE rows.
- `UpdateSessionSigner` only updates an existing row.

### ObserverCombine (`ObserverCombine.tla`, `MC_ObserverCombine.tla`)

This module models the observer's handlers for a keeper signature response: `keeperCombineBitcoinTransactionSignatures` (part_001 149-254) and `keeperVerifyEthereumTransactionSignatures` (256-296).

An approval is abstracted to its one required input:
- the script path (`normal` or `recovery`, from `in.Sequence`);
- the keys of the partial signatures in the holder's stored PSBT, or of the Safe transaction's signatures. The keys are `H` (holder), `S` (signer), `O` (observer) and `X` (any other key).

State per approval:
- `state`: the approval's State;
- `recovery`: the State of the recovery row;
- `combined`: the keys whose signatures `FinishTransactionSignatures` stored;
- `keeperSigned`: whether the observer's replica of the keeper store holds the signer signature yet;
- `pending`: whether the response is still redelivered.

Actions:
- The two handlers. `CombineInput` is the input loop's checks. `Commit` is `UpdateRecoveryState` followed by `FinishTransactionSignatures`, possibly with a crash between them.
- `HandlerFails` is a panic or an error, after which the same response is handled again.
- `HandleDone` is the `tx.State >= Done` early return.
- `SyncKeeperReplica` is the keeper replica catching up.

The Ethereum shapes are every pair of owners on either path, and one owner alone. `DoneIsSatisfied` holds a Bitcoin approval to its script path and an Ethereum approval to the Safe's two-of-three threshold. Finding 5 is about which two owners may sign.

### ObserverSnapshots (`ObserverSnapshots.tla`, `MC_ObserverSnapshots.tla`)

This module models the older observer revision's snapshot loop: `snapshotsLoop`, `handleSnapshot`, `handleBondAsset` and `handleKeeperResponse` (part_002). It includes the handlers that loop dispatches to:
- `bitcoinAccountantSignTransaction` with `bitcoinBroadcastTransaction` (part_001 21-124);
- the bond path of `src/observer/bond.go`: `fetchAssetMeta`, `deployBitcoinSafeBond` and `checkOrDeployKeeperBond`.

The Mixin snapshot list is a fixed `Stream` followed by one last snapshot of kind `last`, and `arrived` of them exist so far (`Snapshot(i)`). A snapshot is abstracted to its kind:
- an outgoing snapshot;
- a transfer of a holder's bond asset;
- an MVM asset that the factory did not make;
- a keeper approval of one transaction;
- a keeper approval of a holder's account;
- any other keeper response, or a memo that is no Mixin extra;
- last, an asset of a chain `fetchAssetMeta` does not know, or a keeper response whose operation does not decode.

Bond state:
- `cache` is the observer's asset-meta table.
- `indexed` holds the bond assets the Messenger API lists. A bond is listed some time after its deployment.
- `deployed` holds the holders whose bond the MVM factory holds. A bond transfer can only arrive after the bond is deployed.
- `keeperSafe` holds the safes the observer's keeper replica has applied.
- `mvmView` holds the bonds the observer's MVM node shows deployed; `SyncMvmNode` brings it up to `deployed`.

The loop's place is `phase`, the fetched page is `batchEnd` and the next snapshot is `pos`. The stored `checkpoint` is a snapshot index.

Actions:
- `FetchSnapshots` and `WriteSnapshotsCheckpoint` are the top and bottom of the loop.
- Every positive snapshot first goes through `handleBondAsset`, whose outcome is `BondAssetOutcome`:
  - If `fetchAssetMeta` returns nil because the API does not list the asset yet, `meta.Chain` panics (`HandleBondAssetPanic`). `fetchAssetMeta` also panics on an asset of an unknown chain.
  - An asset that is not on MVM, or that `CheckFactoryAssetDeployed` on the observer's MVM node (`mvmView`) does not show deployed, passes.
  - A deployed bond is forwarded (`handleBondAsset`).
- `HandleIgnored` covers outgoing snapshots and assets that pass but are not the keeper's.
- `HandleKeeperResponseError` is a keeper response whose `DecodeOperation` fails. Its error panics the loop.
- `deployBitcoinSafeBond` handles an account approval:
  - It panics while the keeper replica lacks the safe.
  - Otherwise it fetches the Bitcoin asset and the bond. It deploys the bond with `GetOrDeployFactoryAsset` unless the API lists it, and that RPC may fail.
- `bitcoinAccountantSignTransaction` stops at `FinishTransactionSignatures`.
- `bitcoinBroadcastTransaction` sends the transaction. It may fail before or after the node accepts it, and a resend of an accepted transaction is an error.
- Every error panics the process. `Restart` starts again from the checkpoint.
- `Crash` kills the observer at any point.

### SignerKeygen (`SignerKeygen.tla`, `MC_SignerKeygen.tla`)

This module follows one keygen batch from the keeper's request to the keygen outputs of the signer group.

Keeper side (`keeper/store/safe.go` `sendSignerKeygenRequest`):
- `KeeperBuildSignerTransaction` is one iteration of the batch loop, with `buildSignerTransaction`. The operation id depends only on the request id and the index, so MTG keeps one transaction per session (`AppendOnce`).
- `KeeperFinishRequest` is `FinishRequest` after the loop.
- `KeeperCrash` is a crash or a `buildSignerTransaction` error inside the loop. The request is still Initial and is handled again from the first session.

Signer side (`signer/node.go`). Every node applies the shared `log`, and `cursor[n]` counts the entries node `n` has applied:
- `ProcessKeygenInput` is `processAction`'s `WriteSessionIfNotExist`.
- `ProcessKeygenResult` is the keygen branch of `processSignerResult`. It stores the member's reported key, then checks `verifySessionSignerResults` (`VerifyKeygenResults`). That check needs every Genesis member to report the key this node holds itself.
- `BuildKeeperTransaction` either builds the output or finds the keeper asset short. A shortage hands the action back to MTG, so the cursor does not move.
- `StartKeygen` is `loopInitialSessions`, and `QueueOperation` is `queueOperation`. A session already in the operations map (`queued`) is skipped. Otherwise the handler starts (`run[n][s] = 1`) and sends its first-round messages to every peer.
- `AcceptIncomingMessages` is `acceptIncomingMessages`. The message goes into the session's channel `chan[n][s]` (`getSession`). A first-round message then reads the session (`OnFirstRound`):
  - none: it is skipped;
  - Initial: it is queued;
  - any other state: the sender gets back a message whose SSID is the session id (`Expired`).
- `HandlerLoop` is `handlerLoop` with the result handling of `startKeygen`, one disjunct per `select` case:
  - an expired message ends the run with an error, and `KeygenFailed` calls `FailSession`;
  - with every peer's message of the current round, the handler sends the next round, or ends with the key. `sendKeygenBackup` may then fail the session. Otherwise `WriteKeyIfNotExists` makes it Pending;
  - `HandlerTimeout` is `time.After` while the round cannot complete.
- `SendSignerResult` and `MarkSessionDone` are `loopPendingSessions`.
- `Crash` restarts a node. It loses the operations map, the sessions map with its channels, and the running handlers. Messages already on the network survive.

The network `net` is a set of messages. Each message carries the restart count at which it was made, so a restarted node's messages are new ones and the old ones can still arrive. The protocol itself is abstracted to `Rounds` rounds of one message per peer. A run that ends yields the public key `"P"`.

### KeygenSessionLifecycle (`KeygenSessionLifecycle.tla`)

This is the abstract specification of what a signer node's session store promises for keygen sessions, with the message layer hidden. Its actions:
- `Open`: `processAction` writes the keeper's input as an Initial session.
- `Queue`: `queueOperation` puts an Initial session in the operations map, at most once per process lifetime.
- `Decide`: `startKeygen` ends the queued Initial session. `Finish` makes it Pending with its key, and `Fail` makes it Failed.
- `Report`: `loopPendingSessions` marks a Pending session Done.
- `Restart`: `Boot` after a crash empties the operations map.

Its weak fairness says every node eventually opens, queues, decides and reports every session. `SignerKeygen` defines `Lifecycle == INSTANCE KeygenSessionLifecycle WITH ...`, which maps the constants `Members` and `Sids` and the variables `sstate`, `spub` and `queued` to themselves. The signer_keygen run checks `LifecycleSpec == Lifecycle!Spec` as a PROPERTY. Both halves are checked:
- every step of the detailed model is an abstract step or stutters. A session is never decided unless it was queued from Initial, and never queued twice.
- the liveness holds. It depends on the handler timeout: a handler whose round can never complete (a peer restarted, or its messages were answered as expired) ends in `FailSession` instead of waiting forever.

### GnosisSafeAccount (`GnosisSafeAccount.tla`, `MC_GnosisSafeAccount.tla`)

This models the Ethereum safe adapter in `src/apps/ethereum/account.go`.
- **Data:**
  - `Keys` are the holder, signer and observer public keys;
  - `addr` is `ParseEthereumCompressedPublicKey`, an injective map from keys to the addresses `1..3`, ordered as `common.Address.Cmp` orders them;
  - a safe address is the pair of owners and threshold that `getInitializer` encodes. CREATE2 hashes that pair, so two equal pairs give one address and two different pairs give two addresses.
- **Pure operators:**
  - `SortedOwners` and `SortedPubs` are `GetSortedSafeOwners`: `sort.Slice`, then `addressMap` keeping the last index of each address, then a fold that writes each key into the slot of its address;
  - `SafeAccountAddress` is `GetSafeAccountAddress`. `SortInPlace` is its `sort.Slice`, which reorders the caller's slice before the later `DeploySafeAccount` encodes it.
- **Actions:**
  - `BuildGnosisSafe` builds the proposal: the owners, the pubs, the address and the enable-guard transaction for that address. It can also reject the time lock;
  - `CallGetOrDeploy` is a caller that passes the owners in any order. `arg` is the slice after the in-place sort;
  - `CheckSafeAccountDeployed` reads the guard slot from the RPC node's `view`. `GuardOf` and `DeployedCheck` give its three outcomes: no contract code, the empty guard, or a guard;
  - `DeploySafeAccount` sends `CreateProxyWithNonce` for `arg`. `ExecGuardTransaction` is `tx.ExecTransaction`, which is outside `src` and is modelled from the spec;
  - each transaction can fail before it is sent, or be mined while `WaitMined` reports an error. Both return the error to the caller, who can call again;
  - `SyncNode` brings the RPC node's view up to the chain.

### KeeperRequests (`KeeperRequests.tla`, `MC_KeeperRequests.tla`)

This models the keeper's request queue of `src/keeper/store/request.go` together with the handlers of the older `src/keeper/network.go`.
- **Environment:** `tip` is the Bitcoin chain height and `view` the height the keeper's RPC node has synced (`MineBlock`, `SyncNode`). `ObserverPush` appends an observer request to the MTG `log`: a `Shape` (action, extra well formed, short or with a bad hash, chain, fee, and whether the hash names a block at another height) and the reported height.
- **Queue:** `DeliverOutput` is the MTG consumer writing output `delivered + 1` with `WriteRequestIfNotExist`, which leaves an existing row alone. `ReadPendingRequest` picks the Initial request with the least `created_at`, which in the log is the least id. `FinishRequest` moves Initial to Done and nothing else.
- **Handlers:** `NetworkInfoOutcome` is `writeNetworkInfo`: short extra, a stale request (`StaleRequest`: same request id, or a lower height than the stored row) and an unknown chain finish; Bitcoin goes through `VerifyBitcoinNetworkInfo`, whose RPC error and height mismatch are errors and whose bad hash and bad fee are invalid (finish); Ethereum is `panic(0)`. `AccountPlanOutcome` is `writeAccountPlan`. `HandlePending` applies the outcome: finish, write the info (`InfoOf`) or plan and finish in one transaction, an error, or a panic. `applied` counts how often a request's row is written.
- **Faults:** an error waits for `Retry`; a panic or a `Crash` (bounded by `MaxCrashes`) stops the process until `Restart`, after which MTG redelivers from a checkpoint at or before `delivered`.
- `Quiescent` is the idle polling once every bound is reached and every request is Done.

## Runs

| Run | Config | Expect | What it shows |
|---|---|---|---|
| network_info_safety | KeeperNetworkInfo.cfg | pass | Two replicas with lagging nodes and one reorg agree on the stored info. The stored height never decreases. A newly stored Bitcoin block is never an orphan. About 1.16M states. |
| network_info_reorg_stall | KeeperNetworkInfoReorgStall.cfg | violation | A request for a block that is orphaned before it is checked panics every replica forever. |
| fee_spend_safety | ObserverFeeSpend.cfg | pass | Across RPC failures after acceptance and crashes, a spent accountant output is never offered again. Every confirmed approval records an accepted spend whose fee input is marked Done and spent by it. |
| fee_spend_double_fee | ObserverFeeSpendDoubleFee.cfg | violation | A retry with a changed fee assigns a second fee output to one approval. |
| signer_session_safety | SignerSession.cfg | pass | With a faulty first member, one failed MPC run and one restart, honest nodes build identical keeper outputs and never adopt a forged signature. About 2.16M states. |
| signer_session_liveness | SignerSessionLiveness.cfg | pass | Without failures, every node eventually builds the sign output. |
| combine_safety | ObserverCombine.cfg | pass | With malformed PSBTs, a lagging keeper replica and two crashes, every Done approval carries signatures that satisfy its script path, and its recovery row is Done too. Every well-formed response is eventually combined. |
| snapshots | ObserverSnapshots.cfg | pass | The run covers a failed broadcast or bond deployment, two crashes, a lagging keeper replica, an MVM node that lags the bond factory and a bond asset that the Messenger API does not list yet. The checkpoint never passes a keeper response whose approval is not Done, or whose account bond is not deployed (`CheckpointCoversResponses`). Every snapshot is eventually behind the checkpoint unless the page after it holds the last snapshot, another chain's asset or an undecodable keeper response, on which the loop panics forever (`SnapshotsDrainOrStuck`). About 47k states. |
| snapshots_bond_lag | ObserverSnapshotsBondLag.cfg | violation | When the observer's MVM node has not synced the factory's deployment of a bond, the bond transfer is ignored and the checkpoint passes it, so the bond is never forwarded (`BondTransfersForwarded`). |
| signer_keygen | SignerKeygen.cfg | pass | The run covers a two-round MPC message exchange, with a keeper crash inside the batch loop, two signer restarts that lose the session channels, expired replies, timeouts, a failed backup and a keeper-asset shortage. Under all of these, four properties hold. Signers at the same log position have built the same outputs. A session that is output is failed on no signer. Every session is eventually output by all signers, or failed on one. Every node's session store implements the abstract lifecycle `KeygenSessionLifecycle` (`LifecycleSpec`), so every signer eventually settles every session. About 400k states in about 2 minutes. |
| gnosis_safe | GnosisSafeAccount.cfg | pass | This run covers every key assignment, every order in which the caller passes the owners, a lagging RPC node, and up to two failed or mined-but-failed transactions. Each non-empty `pubs` slot holds the key of its owner, and for distinct keys `pubs` is exactly the keys. Only the proposed safe is ever deployed: this holds because of the in-place sort. A safe that `GetOrDeploySafeAccount` returns is deployed and guarded. Each mutant breaks one property. If the empty guard is treated as a guard, the call returns an unguarded safe. About 12.6k states. |
| keeper_requests | KeeperRequests.cfg | pass | With MTG redelivery after a crash, handler errors, the Ethereum panic, a lagging RPC node and reports out of height order, no request's row is written twice (`AppliedOnce`), the stored height of a chain never drops (`HeightNeverDecreases`), and every logged request is eventually Done unless the oldest pending request is one its handler can never finish (`DrainsOrStuck`). Reading the newest pending request first breaks the last: a later request can then starve behind the retries. About 37k states in 7 seconds. |

Every property of a passing run has a mutant in `PROJECT.json`. The mutant is a plausible bug in the mapped code that TLC catches under the run's configuration.

## Findings

1. **Keeper stall on an orphaned Bitcoin block** (part_003:150 and 66-67). The observer can push a block that a reorg then orphans, before the keepers check it. Every replica then panics on that request on every replay, and the keeper log never advances.
2. **Ethereum network info can be an orphan** (part_003:168). There is no confirmation or canonical-chain check, but spec §4.4 asks for one. This is stated as `InfoCanonical` in KeeperNetworkInfo. TLC found it violated by a run that was later retired to make room for `snapshots_bond_lag`, so it is now read from the code.
3. **Double fee assignment** (part_001:555). The query is `(Initial AND in range) OR spent_by = tx LIMIT 1` without ORDER BY. After a failed broadcast, a retry with a different fee estimate matches a fresh Initial output before the one already assigned. One accountant output leaks.
4. **Spend-loop stall, which follows from finding 3** (part_001:310). This is read from the code and not checked by a run. The node already holds the first spend, so the spend with the second fee input is a double spend and is rejected every round. The loop breaks on that approval forever, which also blocks every approval after it.
5. **Ethereum recovery without the observer** (part_001:283). This is not kept as a run. `keeperVerifyEthereumTransactionSignatures` only checks that two of the three keys signed. Spec §4.2 requires the observer on every recovery, and §9 lists this as an open question. The checked shapes include the holder-and-signer recovery, which the handler marks Done. `DoneIsSatisfied` therefore asks only for the Safe's threshold on Ethereum.
6. **Lost broadcast in the older observer** (part_001:107). `bitcoinAccountantSignTransaction` marks the approval Done before `bitcoinBroadcastTransaction`. If the broadcast fails, or the observer dies between the two steps, the replayed response returns at the `tx.State == Done` check, so the transaction is never sent. The newer revision moves broadcasting to a spend loop over Done approvals, which module ObserverFeeSpend models. TLC found it violated by a run that has since been retired, because the revision is superseded and the run slot went to `keeper_requests`, so it is now read from the code.

7. **Snapshot loop halts on an asset of another chain or an undecodable response** (observer/bond.go:106, part_002:178). `handleSnapshot` runs `handleBondAsset` on every incoming snapshot, and `fetchAssetMeta` panics on any chain other than Bitcoin, Ethereum and MVM. `handleKeeperResponse` returns the error of `DecodeOperation`, and `snapshotsLoop` panics on it. Either snapshot therefore panics the loop on every replay, and no later snapshot is ever handled. `snapshots` ends its stream with one of them. `SnapshotsDrainOrStuck` checks that they are the only ways the loop stops.

8. **The older keeper's queue stops at an Ethereum network info or a mislabelled Bitcoin hash** (keeper/network.go:62 and 104). `writeNetworkInfo` panics on every Ethereum request that is not stale, and a Bitcoin hash that names a block at another height is an error that never clears. `ReadPendingRequest` always returns the oldest Initial request, so every later request stays Initial. `keeper_requests` checks that these are the only ways the queue stops (`DrainsOrStuck` with `HeadFails`).


9. **A lagging MVM node drops bond transfers** (part_002:225). `handleBondAsset` asks the observer's own MVM node whether the factory deployed the bond, and a 0 answer means "not a bond". Mixin lists the transfer once the bond exists, but a node that has not synced the deployment block answers 0. The transfer then falls through to `handleKeeperResponse`, which ignores it, and the checkpoint moves past it. The bond is never forwarded to the keeper. `snapshots_bond_lag` shows this.

## Bounds and why they suffice

- **KeeperNetworkInfo:**
  - 2 keepers, so two replicas can disagree.
  - A Bitcoin and an Ethereum chain.
  - Height at most 2 and 1 reorg, so a block can be pushed and then orphaned.
  - 2 requests, so a stale request or a re-affirmation can follow a stored one.
  - Fees on both sides of the min and max fee rate.
  - Keepers are symmetric.
- **ObserverFeeSpend:**
  - 3 approvals and 4 accountant outputs, whose sizes are chosen so that one output is in range for one fee rate and not the other, and a split is needed sometimes.
  - 2 fee rates, so a retry can change the fee.
  - Up to 3 failures or crashes.
- **SignerSession:**
  - 3 members with threshold 1, so two members prepare and one member adopts the result without signing.
  - A faulty first member, the position the signature selection favours.
  - 1 MPC failure and 1 restart.

- **ObserverCombine:**
  - two Bitcoin approvals and one Ethereum approval;
  - every well-formed shape, and one malformed shape per panic branch of the input loop;
  - 2 crashes, so a crash can hit both Bitcoin approvals.

- **ObserverSnapshots:**
  - nine snapshots in pages of two, so a restart replays a partly handled page. The last one is another chain's asset or an undecodable keeper response, both chosen in the initial state;
  - two approvals, one of which is approved by two keeper responses;
  - one holder. Its account approval comes right before the transfer of its bond, so the transfer can arrive while the API does not list the bond yet;
  - 1 broadcast or deployment failure and 2 crashes.

- **GnosisSafeAccount:**
  - 3 keys, with every injective assignment of addresses, so all 6 owner orders occur;
  - the input keys range over all 27 triples, so repeated keys are covered too;
  - every permutation of the caller's owner slice;
  - `MaxFailures = 2`, so a deploy and then a guard transaction can both fail after being mined.
- **KeeperRequests:**
  - 2 requests, so a later request can wait behind an older one and a stale report can follow a stored one;
  - 10 shapes: a Bitcoin info with a fee in range, above the range, a bad hash, short extra and a hash of another height; an Ethereum info; an MVM info; Bitcoin and MVM plans and a short plan;
  - height at most 2, so the RPC node can lag and reports can go down in height;
  - 1 crash, followed by a redelivery from any earlier checkpoint.
- **SignerKeygen:**
  - 2 members. `NewNode` requires the threshold to equal the member count, so one member that is missing stops the session, and one member can have finished while the other restarts. The message exchange makes 3 members run for more than 15 minutes;
  - 2 rounds, so a peer can wait in a later round while a restarted node sends its first round again;
  - a batch of 1 session, since a batch of 2 runs past the time limit. A keeper crash can still replay a sent session;
  - 2 signer restarts. That is the least number that lets a node which finished restart and then receive its peer's re-sent first round;
  - 1 each of backup failure, keeper crash and keeper-asset shortage.

## Fairness

- **Keeper replicas:** weakly fair in handling the log, restarting and syncing their RPC node. A real process is restarted, and its node syncs.
- **Observer spend loop:** wakes every 3 seconds. Its four steps are weakly fair. Failures and crashes are bounded and never forced.
- **Signer nodes:** each honest node's MTG consumer and both loops poll forever. Every kind of step is bounded, so weak fairness on a node's steps makes it take each step that stays enabled. Faulty members and crashes get no fairness.
- **Observer snapshot loop:** the loop, Mixin's listing, the keeper replica's and the MVM node's sync and the Messenger API's listing of a deployed asset are weakly fair. Failures and crashes are bounded and get no fairness.
- **Signer keygen:** the keeper's request handling is weakly fair, and so is each node's set of steps: the MTG consumer, the session loops, the receive loop and the handlers. `time.After` fires whenever a round stays incomplete, so the timeout is a handler step that stays enabled. Crashes, failures and shortages are bounded and get no fairness.
- **Gnosis safe adapter:** no fairness is assumed. The call is made once per caller, and a caller that gets an error may never retry. The run disables the deadlock check because the system stops once the safe is returned or the proposal is rejected.
- **Observer combine:** a response is redelivered until its handler returns nil, and the keeper replica keeps syncing. Both handlers and the sync are weakly fair.

- **Keeper request queue:** the chain, the RPC node's sync, the MTG consumer, the request loop, its wake-up after an error and the supervisor's restart are weakly fair. Crashes are bounded and get no fairness; the observer is not forced to report.

## Not modelled, and the plan

Every run slot is used, so new work has to go into an existing run. The keeper's liveness without reorgs had a run of its own. That run was dropped for `gnosis_safe`, the lost-broadcast run of the older observer for `keeper_requests`, and the Ethereum-orphan run for `snapshots_bond_lag`. `Progress` is still checked by `network_info_reorg_stall`, which shows that `Progress` fails with reorgs. The plan is ordered by how much the behaviour matters:
1. **Keeper asset meta** (keeper/network.go 112-166, part_003): `fetchAssetMeta` retries timeouts forever inside a handler; its callers (deposits and asset operations) are not modelled yet.
2. **Signer sign sessions through the message layer:** `startSign` over `handlerLoop`. Today the sign path is modelled only at the session level, in `SignerSession`.

Left out:
- the curve and batch-size early returns of `sendSignerKeygenRequest` (safe.go 189-198). They finish the request without sending a session, so no signer state follows them;
- the MPC cryptography itself;
- encodings;
- RPC and ABI plumbing;
- the README and tests.

Each component's status and reason is in `PROJECT.json`.
