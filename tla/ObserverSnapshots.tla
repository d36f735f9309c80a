--------------------------- MODULE ObserverSnapshots ---------------------------
(***************************************************************************)
(* The observer's snapshot loop in the older observer revision             *)
(* (src/unnamed/part_002 snapshotsLoop, handleSnapshot, handleBondAsset,   *)
(* handleKeeperResponse) together with the handler it dispatches keeper    *)
(* approvals to, bitcoinAccountantSignTransaction and                      *)
(* bitcoinBroadcastTransaction (src/unnamed/part_001 lines 21-124).        *)
(*                                                                         *)
(* The loop reads its checkpoint, fetches the next page of at most Limit   *)
(* snapshots after it, handles them in order and writes the checkpoint     *)
(* after the page.  Any handler error panics the observer; the restarted   *)
(* loop reads the checkpoint again and handles the page again.             *)
(*                                                                         *)
(* Every snapshot with a positive amount first goes through              *)
(* handleBondAsset, which reads the asset with fetchAssetMeta              *)
(* (src/observer/bond.go: the observer's asset cache, then the Messenger   *)
(* API), and an account approval deploys the holder's bond asset           *)
(* (deployBitcoinSafeBond, checkOrDeployKeeperBond).                       *)
(*                                                                         *)
(* A snapshot is abstracted to its kind: "neg" (an outgoing snapshot),     *)
(* "bond" (a transfer of holder .h's bond asset), "mvm" (an MVM asset not  *)
(* made by the bond factory), "approve" (a keeper response approving       *)
(* transaction .a), "account" (a keeper response approving the account of  *)
(* holder .h) or "other" (a keeper response of another type, or a          *)
(* memo that is no Mixin extra), followed by one last snapshot the loop  *)
(* can never get past: "foreign" (an asset of a chain fetchAssetMeta does  *)
(* not know) or "badop" (a keeper response whose operation does not        *)
(* decode).  The bond asset of holder h is named h.                        *)
(***************************************************************************)
EXTENDS Integers, Sequences, FiniteSets

CONSTANTS
    Approvals,    \* transaction approvals the keeper can approve
    Holders,      \* holders whose Bitcoin accounts the keeper approves
    Stream,       \* the snapshots in the order Mixin lists them, before the last one
    LastKinds,    \* the kinds the last snapshot may have
    Limit,        \* page size of GET /snapshots
    MaxFailures,  \* bound on failed broadcast RPCs
    MaxCrashes    \* bound on observer crashes at arbitrary points

Total == Len(Stream) + 1

Pos == 1..Total

\* Assets the snapshots and the bond path read: the keeper's asset (not on
\* MVM), Bitcoin, an MVM asset not made by the factory, and one bond asset
\* per holder.
Assets == {"keeper", "btc", "mvm"} \cup Holders

VARIABLES
    arrived,      \* number of snapshots that exist so far
    checkpoint,   \* the snapshots-checkpoint property: snapshots 1..checkpoint are done
    phase,        \* the loop's place: "fetch", "handle" or "broadcast"
    batchEnd,     \* last snapshot of the fetched page
    pos,          \* next snapshot of the page to handle
    state,        \* state[a]: the approval's State in the observer store
    keeperSigned, \* keeperSigned[a]: the keeper replica holds a's signer signatures
    accepted,     \* approvals whose signed transaction the Bitcoin node holds
    bondSent,     \* snapshots whose bond transfer (by its trace id) exists
    cache,        \* assets whose meta the observer store holds (WriteAssetMeta)
    indexed,      \* bond assets the Messenger API already lists
    deployed,     \* holders whose bond asset the MVM factory holds
    keeperSafe,   \* holders whose safe the observer's keeper replica holds
    mvmView,      \* holders whose bond the observer's MVM node shows deployed
    last,         \* the kind of the last snapshot
    failures,
    crashes

vars == <<arrived, checkpoint, phase, batchEnd, pos, state, keeperSigned,
          accepted, bondSent, cache, indexed, deployed, keeperSafe,
          failures, crashes, mvmView, last>>

bondVars == <<cache, indexed, deployed, keeperSafe, mvmView, last>>

\* Snapshot i of the whole stream.
Snapshot(i) == IF i <= Len(Stream) THEN Stream[i] ELSE [kind |-> last]

TypeOK ==
    /\ arrived \in 0..Total
    /\ checkpoint \in 0..Total
    /\ phase \in {"fetch", "handle", "broadcast"}
    /\ batchEnd \in 0..Total
    /\ pos \in 1..Total + 1
    /\ state \in [Approvals -> {"initial", "done"}]
    /\ keeperSigned \in [Approvals -> BOOLEAN]
    /\ accepted \subseteq Approvals
    /\ bondSent \subseteq Pos
    /\ cache \subseteq Assets
    /\ indexed \subseteq Holders
    /\ deployed \subseteq Holders
    /\ keeperSafe \subseteq Holders
    /\ mvmView \subseteq deployed
    /\ last \in LastKinds
    /\ failures \in 0..MaxFailures
    /\ crashes \in 0..MaxCrashes

Init ==
    /\ arrived = 0
    /\ checkpoint = 0
    /\ phase = "fetch"
    /\ batchEnd = 0
    /\ pos = 1
    /\ state = [a \in Approvals |-> "initial"]
    /\ keeperSigned \in [Approvals -> BOOLEAN]
    /\ accepted = {}
    /\ bondSent = {}
    /\ cache = {}
    /\ indexed = {}
    /\ deployed = {}
    /\ keeperSafe \in SUBSET Holders
    /\ mvmView = {}
    /\ last \in LastKinds
    /\ failures = 0
    /\ crashes = 0

-----------------------------------------------------------------------------
(* The loop *)

\* The process panics and restarts: the loop starts again from the stored
\* checkpoint with no page in hand.
Restart ==
    /\ phase' = "fetch"
    /\ batchEnd' = checkpoint
    /\ pos' = checkpoint + 1

\* Mutant: the page is taken to be full, whatever Mixin returned.
PageEndFull == checkpoint + Limit

\* GET /snapshots from the offset with limit 500: the snapshots after the
\* checkpoint that exist, at most Limit of them.
PageEnd == IF checkpoint + Limit < arrived THEN checkpoint + Limit ELSE arrived

\* readSnapshotsCheckpoint, then fetch the page.
FetchSnapshots ==
    /\ phase = "fetch"
    /\ batchEnd' = PageEnd
    /\ pos' = checkpoint + 1
    /\ phase' = "handle"
    /\ UNCHANGED <<arrived, checkpoint, state, keeperSigned, accepted, bondSent,
                   failures, crashes, bondVars>>

\* offset ends at the CreatedAt of the page's last snapshot, or stays when
\* the page is empty.
CheckpointOfPage == batchEnd

\* writeSnapshotsCheckpoint after the whole page is handled.
WriteSnapshotsCheckpoint ==
    /\ phase = "handle"
    /\ pos > batchEnd
    /\ checkpoint' = CheckpointOfPage
    /\ phase' = "fetch"
    /\ UNCHANGED <<arrived, batchEnd, pos, state, keeperSigned, accepted,
                   bondSent, failures, crashes, bondVars>>

\* The handled snapshot returned nil: the loop moves to the next one.
Advance ==
    /\ pos' = pos + 1
    /\ phase' = "handle"
    /\ UNCHANGED batchEnd

-----------------------------------------------------------------------------
(* handleSnapshot *)

\* The asset of a snapshot with a positive amount.
AssetOf(sn) ==
    CASE sn.kind = "bond"    -> sn.h
      [] sn.kind = "mvm"     -> "mvm"
      [] sn.kind = "foreign" -> "foreign"
      [] OTHER               -> "keeper"

\* The Messenger API returns data for the asset: every asset but a bond
\* asset it does not list yet.
Listed(x) == x \notin Holders \/ x \in indexed

\* The store after fetchAssetMeta of the assets xs in turn: a cached asset
\* is returned as it is, a listed one is written to the cache, and for an
\* unlisted one the API body has no data and the result is nil.
Fetched(xs) == cache \cup {x \in xs : Listed(x)}

\* fetchAssetMeta returns a meta, not nil.
HasMeta(x) == x \in cache \/ Listed(x)

\* The outcome of handleBondAsset: "panic" when fetchAssetMeta panics on a
\* chain it does not know, or returns nil and meta.Chain dereferences it;
\* "pass" (false, nil) for an asset not on MVM or one that
\* CheckFactoryAssetDeployed, asking the observer's MVM node, does not
\* show deployed; "send" for a bond asset, forwarded to the keeper by
\* SendTransactionUntilSufficient.
BondAssetOutcome(sn) ==
    LET x == AssetOf(sn)
    IN  CASE x = "foreign"                      -> "panic"
          [] ~HasMeta(x)                        -> "panic"
          [] x \notin {"mvm"} \cup Holders      -> "pass"
          [] x \notin mvmView                   -> "pass"
          [] OTHER                              -> "send"

\* handleSnapshot for a positive snapshot whose asset meta is nil, or of a
\* chain fetchAssetMeta does not know: the observer panics and replays the
\* page.
HandleBondAssetPanic ==
    /\ phase = "handle"
    /\ pos <= batchEnd
    /\ Snapshot(pos).kind # "neg"
    /\ BondAssetOutcome(Snapshot(pos)) = "panic"
    /\ Restart
    /\ UNCHANGED <<arrived, checkpoint, state, keeperSigned, accepted, bondSent,
                   bondVars, failures, crashes>>

\* handleSnapshot for a snapshot that changes nothing beyond the asset
\* cache: an outgoing snapshot (amount < 0) returns at once; a snapshot
\* that passes handleBondAsset is ignored by handleKeeperResponse when its
\* asset is not the keeper's, or when it is a keeper response of another
\* type or a memo that does not decode.
HandleIgnored ==
    /\ phase = "handle"
    /\ pos <= batchEnd
    /\ \/ /\ Snapshot(pos).kind = "neg"
          /\ UNCHANGED cache
       \/ /\ Snapshot(pos).kind # "neg"
          /\ AssetOf(Snapshot(pos)) # "keeper" \/ Snapshot(pos).kind = "other"
          /\ Snapshot(pos).kind # "badop"
          /\ BondAssetOutcome(Snapshot(pos)) = "pass"
          /\ cache' = Fetched({AssetOf(Snapshot(pos))})
    /\ Advance
    /\ UNCHANGED <<arrived, checkpoint, state, keeperSigned, accepted, bondSent,
                   indexed, deployed, keeperSafe, mvmView, last, failures, crashes>>

\* handleKeeperResponse for a memo whose operation does not decode: it
\* returns (true, err), snapshotsLoop panics and the page is replayed.
HandleKeeperResponseError ==
    /\ phase = "handle"
    /\ pos <= batchEnd
    /\ Snapshot(pos).kind = "badop"
    /\ BondAssetOutcome(Snapshot(pos)) = "pass"
    /\ cache' = Fetched({"keeper"})
    /\ Restart
    /\ UNCHANGED <<arrived, checkpoint, state, keeperSigned, accepted, bondSent,
                   indexed, deployed, keeperSafe, mvmView, last, failures, crashes>>

\* handleBondAsset for a deployed bond asset: SendTransactionUntilSufficient
\* with the trace id safeTraceId(snapshot, "BOND"); Mixin keeps one transfer
\* per trace id.
handleBondAsset ==
    /\ phase = "handle"
    /\ pos <= batchEnd
    /\ Snapshot(pos).kind # "neg"
    /\ BondAssetOutcome(Snapshot(pos)) = "send"
    /\ bondSent' = bondSent \cup {pos}
    /\ cache' = Fetched({AssetOf(Snapshot(pos))})
    /\ Advance
    /\ UNCHANGED <<arrived, checkpoint, state, keeperSigned, accepted, failures,
                   indexed, deployed, keeperSafe, mvmView, last, crashes>>

\* handleKeeperResponse for an ApproveAccount response: deployBitcoinSafeBond.
\* ReadSafeByAddress on the observer's keeper replica returns nil until the
\* replica holds the safe, and safe.Holder then panics the observer.
\* checkOrDeployKeeperBond fetches the Bitcoin asset and the holder's bond
\* asset; a bond the API lists is returned, otherwise
\* GetOrDeployFactoryAsset deploys it, and its RPC may fail.
deployBitcoinSafeBond ==
    /\ phase = "handle"
    /\ pos <= batchEnd
    /\ Snapshot(pos).kind = "account"
    /\ BondAssetOutcome(Snapshot(pos)) = "pass"
    /\ LET h == Snapshot(pos).h
       IN  \/ /\ h \notin keeperSafe
              /\ cache' = Fetched({"keeper"})
              /\ Restart
              /\ UNCHANGED <<deployed, failures>>
           \/ /\ h \in keeperSafe
              /\ cache' = Fetched({"keeper", "btc", h})
              /\ \/ /\ HasMeta(h)
                    /\ Advance
                    /\ UNCHANGED <<deployed, failures>>
                 \/ /\ ~HasMeta(h)
                    /\ deployed' = deployed \cup {h}
                    /\ Advance
                    /\ UNCHANGED failures
                 \/ /\ ~HasMeta(h)
                    /\ failures < MaxFailures
                    /\ failures' = failures + 1
                    /\ Restart
                    /\ UNCHANGED deployed
    /\ UNCHANGED <<arrived, checkpoint, state, keeperSigned, accepted, bondSent,
                   indexed, keeperSafe, mvmView, last, crashes>>

\* Mutant: a second approval response for a Done approval is signed and
\* broadcast again.
ApprovalSettledNever(a) == FALSE

\* Mutant: the early return compares the state with Initial instead of Done.
ApprovalSettledAlways(a) == state[a] \in {"initial", "done"}

\* The early return of bitcoinAccountantSignTransaction on a Done approval.
ApprovalSettled(a) == state[a] = "done"

\* bitcoinAccountantSignTransaction up to FinishTransactionSignatures: a
\* Done approval returns nil; a signer signature missing from the keeper
\* replica panics the observer (bytes.Equal on line 68); otherwise the
\* approval is marked Done and the loop goes on to the broadcast.
bitcoinAccountantSignTransaction ==
    /\ phase = "handle"
    /\ pos <= batchEnd
    /\ Snapshot(pos).kind = "approve"
    /\ BondAssetOutcome(Snapshot(pos)) = "pass"
    /\ cache' = Fetched({"keeper"})
    /\ LET a == Snapshot(pos).a
       IN  \/ /\ ApprovalSettled(a)
              /\ Advance
              /\ UNCHANGED state
           \/ /\ ~ApprovalSettled(a)
              /\ ~keeperSigned[a]
              /\ Restart
              /\ UNCHANGED state
           \/ /\ ~ApprovalSettled(a)
              /\ keeperSigned[a]
              /\ state' = [state EXCEPT ![a] = "done"]
              /\ phase' = "broadcast"
              /\ UNCHANGED <<batchEnd, pos>>
    /\ UNCHANGED <<arrived, checkpoint, keeperSigned, accepted, bondSent,
                   indexed, deployed, keeperSafe, mvmView, last, failures, crashes>>

\* bitcoinBroadcastTransaction: RPCSendRawTransaction accepts a new
\* transaction and returns an error for one the node already holds; the
\* RPC may also fail before or after the node accepts.  An error panics the
\* observer.
bitcoinBroadcastTransaction ==
    /\ phase = "broadcast"
    /\ LET a == Snapshot(pos).a
       IN  \/ /\ accepted' = accepted \cup {a}
              /\ IF a \in accepted THEN Restart ELSE Advance
              /\ UNCHANGED failures
           \/ /\ failures < MaxFailures
              /\ accepted' \in {accepted, accepted \cup {a}}
              /\ failures' = failures + 1
              /\ Restart
    /\ UNCHANGED <<arrived, checkpoint, state, keeperSigned, bondSent, bondVars,
                   crashes>>

-----------------------------------------------------------------------------
(* Environment *)

\* A new snapshot is listed by Mixin.  A holder's bond asset exists on
\* Mixin, and can be transferred, only once the factory deployed it.
SnapshotArrives ==
    /\ arrived < Total
    /\ Snapshot(arrived + 1).kind = "bond" => Snapshot(arrived + 1).h \in deployed
    /\ arrived' = arrived + 1
    /\ UNCHANGED <<checkpoint, phase, batchEnd, pos, state, keeperSigned,
                   accepted, bondSent, bondVars, failures, crashes>>

\* The observer's keeper replica receives the signer signatures of a.
SyncKeeperReplica(a) ==
    /\ ~keeperSigned[a]
    /\ keeperSigned' = [keeperSigned EXCEPT ![a] = TRUE]
    /\ UNCHANGED <<arrived, checkpoint, phase, batchEnd, pos, state, accepted,
                   bondSent, bondVars, failures, crashes>>

\* The observer's keeper replica receives the safe of holder h.
SyncKeeperSafe(h) ==
    /\ h \notin keeperSafe
    /\ keeperSafe' = keeperSafe \cup {h}
    /\ UNCHANGED <<arrived, checkpoint, phase, batchEnd, pos, state,
                   keeperSigned, accepted, bondSent, cache, indexed, deployed,
                   mvmView, last, failures, crashes>>

\* The observer's MVM node receives the block that deployed h's bond.
SyncMvmNode(h) ==
    /\ h \in deployed \ mvmView
    /\ mvmView' = mvmView \cup {h}
    /\ UNCHANGED <<arrived, checkpoint, phase, batchEnd, pos, state,
                   keeperSigned, accepted, bondSent, cache, indexed, deployed,
                   keeperSafe, last, failures, crashes>>

\* The Messenger API starts listing the deployed bond asset of holder h.
IndexAsset(h) ==
    /\ h \in deployed \ indexed
    /\ indexed' = indexed \cup {h}
    /\ UNCHANGED <<arrived, checkpoint, phase, batchEnd, pos, state,
                   keeperSigned, accepted, bondSent, cache, deployed,
                   keeperSafe, mvmView, last, failures, crashes>>

\* The observer is killed at any point of the loop.
Crash ==
    /\ crashes < MaxCrashes
    /\ phase # "fetch"
    /\ crashes' = crashes + 1
    /\ Restart
    /\ UNCHANGED <<arrived, checkpoint, state, keeperSigned, accepted, bondSent,
                   bondVars, failures>>

LoopStep ==
    \/ FetchSnapshots
    \/ HandleBondAssetPanic
    \/ HandleIgnored
    \/ HandleKeeperResponseError
    \/ handleBondAsset
    \/ deployBitcoinSafeBond
    \/ bitcoinAccountantSignTransaction
    \/ bitcoinBroadcastTransaction
    \/ WriteSnapshotsCheckpoint

Next ==
    \/ LoopStep
    \/ SnapshotArrives
    \/ \E a \in Approvals : SyncKeeperReplica(a)
    \/ \E h \in Holders : SyncKeeperSafe(h) \/ IndexAsset(h) \/ SyncMvmNode(h)
    \/ Crash

\* The loop runs forever, Mixin keeps listing snapshots, the keeper
\* replica and the MVM node keep syncing and the Messenger API lists a
\* deployed asset.
Fairness ==
    /\ WF_vars(LoopStep)
    /\ WF_vars(SnapshotArrives)
    /\ \A a \in Approvals : WF_vars(SyncKeeperReplica(a))
    /\ \A h \in Holders : WF_vars(SyncKeeperSafe(h)) /\ WF_vars(IndexAsset(h))
                            /\ WF_vars(SyncMvmNode(h))

Spec == Init /\ [][Next]_vars /\ Fairness

-----------------------------------------------------------------------------
(* Properties *)

\* What handling keeper response i leaves behind.
ResponseHandled(i) ==
    CASE Snapshot(i).kind = "approve" -> state[Snapshot(i).a] = "done"
      [] Snapshot(i).kind = "account" -> Snapshot(i).h \in deployed
      [] OTHER -> TRUE

\* Every keeper response up to the stored checkpoint has been handled: an
\* approval is Done and an approved account's bond is deployed.  The loop
\* writes the checkpoint only after each snapshot of the page returned nil,
\* whatever panic (a lagging keeper replica, a failed deployment or
\* broadcast) or crash came between.
CheckpointCoversResponses ==
    \A i \in 1..checkpoint : ResponseHandled(i)

\* Every bond transfer up to the stored checkpoint was forwarded to the
\* keeper by handleBondAsset (spec: the observer forwards every bond).
BondTransfersForwarded ==
    \A i \in 1..checkpoint : Snapshot(i).kind = "bond" => i \in bondSent

\* The page after the checkpoint holds a snapshot whose handler fails on
\* every replay: an asset of an unknown chain or an undecodable operation.
StuckOnPoison ==
    \E i \in checkpoint + 1 .. arrived :
        /\ i <= checkpoint + Limit
        /\ Snapshot(i).kind \in {"foreign", "badop"}

\* Every snapshot Mixin lists is eventually behind the checkpoint, unless
\* the loop reaches a snapshot its handler fails on forever: panics on a
\* lagging keeper replica, failed broadcasts and crashes only replay a
\* page, and nothing but such a snapshot keeps the loop from moving on.
SnapshotsDrainOrStuck ==
    <>(checkpoint = Total \/ StuckOnPoison)
=============================================================================
