---------------------------- MODULE KeeperRequests ----------------------------
(***************************************************************************)
(* The keeper's request table (src/keeper/store/request.go) and the        *)
(* observer handlers of src/keeper/network.go that consume it:              *)
(* writeNetworkInfo with verifyBitcoinNetworkInfo, and writeAccountPlan.   *)
(*                                                                         *)
(* MTG outputs are written to the requests table by WriteRequestIfNotExist *)
(* and handled one at a time, oldest first (ReadPendingRequest).  A        *)
(* handler either finishes the request (FinishRequest, or a                *)
(* Write...FromRequest that stores its row and marks it Done in one        *)
(* transaction), returns an error, after which the loop retries it, or     *)
(* panics, after which the process is restarted and MTG redelivers the     *)
(* outputs after its last checkpoint.  The keeper's node checks Bitcoin    *)
(* blocks against its own RPC node, which may lag the chain.               *)
(*                                                                         *)
(* A request is abstracted to its action and the fields its handler        *)
(* decodes; a block hash to the height of the block it names ("lie": the   *)
(* hash names a block at another height than the one claimed).            *)
(***************************************************************************)
EXTENDS Integers, Sequences, FiniteSets

CONSTANTS
    Shapes,         \* request shapes the observer may send (see Shape)
    Chains,         \* chain bytes, Bitcoin and Ethereum included
    Bitcoin,        \* SafeChainBitcoin
    Ethereum,       \* SafeChainEthereum
    MinFee,         \* bitcoinMinimumFeeRate
    MaxFee,         \* bitcoinMaximumFeeRate
    MaxHeight,      \* bound on the chain height
    MaxRequests,    \* bound on the observer's requests in the MTG log
    MaxCrashes,     \* bound on process crashes other than panics
    NoInfo          \* ReadNetworkInfo returned nil

ASSUME {Bitcoin, Ethereum} \subseteq Chains /\ MaxHeight \in Nat \ {0}

Heights == 1..MaxHeight
RequestIds == 1..MaxRequests

\* What the handlers decode from req.Action and req.Extra: "short" is an
\* extra shorter than the handler needs, "badhash" a Bitcoin hash that is
\* not 64 hex digits.
Shape == [action: {"info", "plan"}, form: {"short", "badhash", "ok"},
          chain: Chains, fee: Nat, lie: BOOLEAN]
ASSUME Shapes \subseteq Shape

\* A common.Request of the observer, created at MTG sequence id.
Request == [id: RequestIds, shape: Shapes, height: Heights]
\* A store.NetworkInfo row.
Info == [rid: RequestIds, chain: Chains, fee: Nat, height: Heights]

VARIABLES
    tip,        \* height of the Bitcoin chain
    view,       \* height up to which the keeper's Bitcoin RPC node is synced
    log,        \* the MTG outputs of the observer, in sequence order
    delivered,  \* outputs the keeper has written to the requests table
    reqs,       \* reqs[i]: state of request i in the requests table
    latest,     \* latest[c]: the latest NetworkInfo row of chain c
    plan,       \* plan[c]: request id of the latest account plan of c, or 0
    applied,    \* applied[i]: times request i's row was written (saturates at 2)
    backoff,    \* the request loop is sleeping after a handler error
    panicked,   \* the keeper process died in a panic or a crash
    crashes     \* crashes so far, panics excluded

vars == <<tip, view, log, delivered, reqs, latest, plan, applied, backoff, panicked, crashes>>

TypeOK ==
    /\ tip \in Heights /\ view \in 0..MaxHeight
    /\ log \in Seq(Request) /\ Len(log) <= MaxRequests
    /\ delivered \in 0..Len(log)
    /\ reqs \in [RequestIds -> {"none", "initial", "done"}]
    /\ latest \in [Chains -> Info \cup {NoInfo}]
    /\ plan \in [Chains -> {0} \cup RequestIds]
    /\ applied \in [RequestIds -> 0..2]
    /\ backoff \in BOOLEAN /\ panicked \in BOOLEAN
    /\ crashes \in 0..MaxCrashes

Init ==
    /\ tip = 1 /\ view = 0
    /\ log = << >> /\ delivered = 0
    /\ reqs = [i \in RequestIds |-> "none"]
    /\ latest = [c \in Chains |-> NoInfo]
    /\ plan = [c \in Chains |-> 0]
    /\ applied = [i \in RequestIds |-> 0]
    /\ backoff = FALSE /\ panicked = FALSE /\ crashes = 0

-----------------------------------------------------------------------------
(* The environment: the chain, the keeper's RPC node and the observer.    *)

MineBlock ==
    /\ tip < MaxHeight
    /\ tip' = tip + 1
    /\ UNCHANGED <<view, log, delivered, reqs, latest, plan, applied, backoff, panicked, crashes>>

SyncNode ==
    /\ view < tip
    /\ view' = view + 1
    /\ UNCHANGED <<tip, log, delivered, reqs, latest, plan, applied, backoff, panicked, crashes>>

\* The observer reports a request of some shape for a mined height.
ObserverPush ==
    /\ Len(log) < MaxRequests
    /\ \E s \in Shapes, h \in 1..tip :
          log' = Append(log, [id |-> Len(log) + 1, shape |-> s, height |-> h])
    /\ UNCHANGED <<tip, view, delivered, reqs, latest, plan, applied, backoff, panicked, crashes>>

-----------------------------------------------------------------------------
(* The requests table.                                                     *)

\* Mutant of WriteRequestIfNotExist: the existence check is lost, so a
\* redelivered output resets its request to Initial.
WriteRequestAlways(r) == [reqs EXCEPT ![r.id] = "initial"]

\* WriteRequestIfNotExist: a request already in the table is left as it is.
WriteRequestIfNotExist(r) ==
    IF reqs[r.id] = "none" THEN [reqs EXCEPT ![r.id] = "initial"] ELSE reqs

\* The keeper's MTG consumer writes the next output to the requests table.
DeliverOutput ==
    /\ ~panicked
    /\ delivered < Len(log)
    /\ reqs' = WriteRequestIfNotExist(log[delivered + 1])
    /\ delivered' = delivered + 1
    /\ UNCHANGED <<tip, view, log, latest, plan, applied, backoff, panicked, crashes>>

Pending == {i \in RequestIds : reqs[i] = "initial"}

\* Mutant of ReadPendingRequest: ORDER BY created_at DESC.
ReadPendingNewest == CHOOSE i \in Pending : \A j \in Pending : j <= i

\* ReadPendingRequest: the Initial request with the least created_at.
ReadPendingRequest == CHOOSE i \in Pending : \A j \in Pending : i <= j

\* FinishRequest: UPDATE ... SET state=Done WHERE request_id=? AND state=Initial.
FinishRequest(i) ==
    reqs' = [reqs EXCEPT ![i] = IF @ = "initial" THEN "done" ELSE @]

-----------------------------------------------------------------------------
(* The handlers of src/keeper/network.go.                                 *)

\* bitcoin.RPCGetBlock on a node synced up to height v finds the block.
RPCFinds(v, b) == b <= v

\* The height of the block the request's hash names.
BlockOf(r) == IF r.shape.lie THEN (r.height % MaxHeight) + 1 ELSE r.height

\* verifyBitcoinNetworkInfo as (valid, err): "error" is an error return,
\* "invalid" is valid=false.
VerifyBitcoinNetworkInfo(r, v) ==
    CASE r.shape.form = "badhash"           -> "invalid"
      [] ~RPCFinds(v, BlockOf(r))           -> "error"
      [] BlockOf(r) # r.height              -> "error"
      [] r.shape.fee \notin MinFee..MaxFee  -> "invalid"
      [] OTHER                              -> "valid"

\* Mutant of StaleRequest: the old.Height > info.Height rejection is lost.
StaleNoHeight(r, old) == old # NoInfo /\ old.rid = r.id

\* The early FinishRequest of writeNetworkInfo after ReadNetworkInfo.
StaleRequest(r, old) == old # NoInfo /\ (old.rid = r.id \/ old.height > r.height)

\* What writeNetworkInfo does with request r when the latest row of its
\* chain is old and the keeper's node is synced up to v: "finish", "write"
\* (WriteNetworkInfoFromRequest), "error" or "panic" (the Ethereum case).
NetworkInfoOutcome(r, old, v) ==
    CASE r.shape.form = "short"     -> "finish"
      [] StaleRequest(r, old)       -> "finish"
      [] r.shape.chain = Bitcoin    ->
            CASE VerifyBitcoinNetworkInfo(r, v) = "error" -> "error"
              [] VerifyBitcoinNetworkInfo(r, v) = "invalid" -> "finish"
              [] OTHER -> "write"
      [] r.shape.chain = Ethereum   -> "panic"
      [] OTHER                      -> "finish"

\* What writeAccountPlan does: "plan" is WriteAccountPlanFromRequest.
AccountPlanOutcome(r) ==
    IF r.shape.form = "short" \/ r.shape.chain \notin {Bitcoin, Ethereum}
    THEN "finish" ELSE "plan"

Outcome(r, v) ==
    IF r.shape.action = "info"
    THEN NetworkInfoOutcome(r, latest[r.shape.chain], v)
    ELSE AccountPlanOutcome(r)

\* Mutant of InfoOf: the stored row loses its RequestId.
InfoNoRequestId(r) == [chain |-> r.shape.chain, fee |-> r.shape.fee, height |-> r.height]

\* The store.NetworkInfo that writeNetworkInfo builds from the request.
InfoOf(r) == [rid |-> r.id, chain |-> r.shape.chain, fee |-> r.shape.fee, height |-> r.height]

Applied(i) == [applied EXCEPT ![i] = IF @ < 2 THEN @ + 1 ELSE 2]

\* The request loop handles the oldest pending request.
HandlePending ==
    /\ ~panicked /\ ~backoff
    /\ Pending # {}
    /\ LET i == ReadPendingRequest
           r == log[i]
       IN \/ /\ Outcome(r, view) = "finish"
             /\ FinishRequest(i)
             /\ UNCHANGED <<latest, plan, applied, backoff, panicked>>
          \/ /\ Outcome(r, view) = "write"
             /\ latest' = [latest EXCEPT ![r.shape.chain] = InfoOf(r)]
             /\ FinishRequest(i)
             /\ applied' = Applied(i)
             /\ UNCHANGED <<plan, backoff, panicked>>
          \/ /\ Outcome(r, view) = "plan"
             /\ plan' = [plan EXCEPT ![r.shape.chain] = i]
             /\ FinishRequest(i)
             /\ applied' = Applied(i)
             /\ UNCHANGED <<latest, backoff, panicked>>
          \/ /\ Outcome(r, view) = "error"
             /\ backoff' = TRUE
             /\ UNCHANGED <<reqs, latest, plan, applied, panicked>>
          \/ /\ Outcome(r, view) = "panic"
             /\ panicked' = TRUE
             /\ UNCHANGED <<reqs, latest, plan, applied, backoff>>
    /\ UNCHANGED <<tip, view, log, delivered, crashes>>

\* The loop wakes up after the error and reads the pending request again.
Retry ==
    /\ backoff
    /\ backoff' = FALSE
    /\ UNCHANGED <<tip, view, log, delivered, reqs, latest, plan, applied, panicked, crashes>>

\* The process dies at any point between two store transactions.
Crash ==
    /\ ~panicked /\ crashes < MaxCrashes
    /\ panicked' = TRUE /\ crashes' = crashes + 1
    /\ UNCHANGED <<tip, view, log, delivered, reqs, latest, plan, applied, backoff>>

\* The supervisor restarts the keeper; MTG redelivers every output after a
\* checkpoint that may lie behind the outputs already written.
Restart ==
    /\ panicked
    /\ panicked' = FALSE /\ backoff' = FALSE
    /\ \E d \in 0..delivered : delivered' = d
    /\ UNCHANGED <<tip, view, log, reqs, latest, plan, applied, crashes>>

\* Every bound is reached and every request is Done; the loops keep polling.
Quiescent ==
    /\ Len(log) = MaxRequests /\ delivered = Len(log)
    /\ Pending = {} /\ ~panicked
    /\ view = MaxHeight
    /\ UNCHANGED vars

Next ==
    \/ MineBlock \/ SyncNode \/ ObserverPush
    \/ DeliverOutput \/ HandlePending \/ Retry \/ Crash \/ Restart
    \/ Quiescent

\* The chain keeps producing blocks, the RPC node keeps syncing, the MTG
\* consumer and the request loop poll forever and a dead process is
\* restarted by its supervisor.
Fairness ==
    /\ WF_vars(MineBlock) /\ WF_vars(SyncNode)
    /\ WF_vars(DeliverOutput) /\ WF_vars(HandlePending)
    /\ WF_vars(Retry) /\ WF_vars(Restart)

Spec == Init /\ [][Next]_vars /\ Fairness

-----------------------------------------------------------------------------
(* Properties.                                                             *)

\* At-most-once handling (spec section 3): the row of a request is written
\* at most once, although MTG redelivers outputs after every crash or panic
\* and the loop retries a request after every error; WriteRequestIfNotExist
\* and the Done state of the requests table are what prevent a replay.
AppliedOnce == \A i \in RequestIds : applied[i] <= 1

\* The keeper's latest network info of a chain never goes to a lower
\* height, whatever order the observer reports blocks in (the
\* old.Height > info.Height early return of writeNetworkInfo).
HeightNeverDecreases ==
    [][\A c \in Chains :
          latest[c] # NoInfo =>
             latest'[c] # NoInfo /\ latest'[c].height >= latest[c].height]_latest

\* The oldest pending request is one its handler can never finish: once
\* the node has synced, it still returns an error or panics.
HeadFails ==
    Pending # {} /\
    LET i == CHOOSE j \in Pending : \A k \in Pending : j <= k
    IN  Outcome(log[i], MaxHeight) \in {"error", "panic"}

\* Every request the observer logged is eventually Done, unless the keeper
\* ends up stuck on an older request that can never be finished (an
\* Ethereum network info, on which writeNetworkInfo panics, or a hash of a
\* block at another height, on which verifyBitcoinNetworkInfo errs): the
\* request loop takes requests oldest first, so such a request blocks every
\* later one, and nothing else does.
DrainsOrStuck ==
    \A i \in RequestIds : (Len(log) >= i) ~> (reqs[i] = "done" \/ HeadFails)
=============================================================================
