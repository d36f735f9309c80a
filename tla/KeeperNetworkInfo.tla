--------------------------- MODULE KeeperNetworkInfo ---------------------------
(***************************************************************************)
(* The keeper's network-info handler, Node.writeNetworkInfo with           *)
(* verifyBitcoinNetworkInfo and verifyEthereumNetworkInfo                   *)
(* (src/unnamed/part_003, the keeper/network.go revision with Litecoin and *)
(* Polygon), run by every keeper replica over the same ordered MTG log.    *)
(*                                                                         *)
(* The observer pushes (chain, fee, height, hash) records of blocks it saw *)
(* on the main chain.  Every keeper replica consumes the log in order and  *)
(* checks each record against its OWN chain RPC node, which may lag the    *)
(* chain.  A check that errors makes the handler panic: the keeper process *)
(* dies, is restarted, and replays the same request.                       *)
(*                                                                         *)
(* A block hash is abstracted to <<height, variant>>: a one-block reorg at *)
(* the tip replaces the variant at that height, and the replaced block is  *)
(* then an orphan (RPC Confirmations = -1 on Bitcoin-family nodes).        *)
(***************************************************************************)
EXTENDS Integers, Sequences, FiniteSets

CONSTANTS
    Keepers,        \* keeper replicas, each with its own chain RPC node
    Chains,         \* chains whose network info the observer reports
    BitcoinChains,  \* the Bitcoin-family chains (Bitcoin, Litecoin); the rest are Ethereum-family
    MaxHeight,      \* bound on the chain height
    Fees,           \* fee rates the observer may report (satoshi per vbyte)
    MinFee,         \* bitcoinMinimumFeeRate
    MaxFee,         \* bitcoinMaximumFeeRate
    MaxRequests,    \* bound on the number of network-info requests in the log
    MaxReorgs,      \* bound on the number of tip reorgs
    NoInfo          \* ReadLatestNetworkInfo returned nil

ASSUME BitcoinChains \subseteq Chains
ASSUME MaxHeight \in Nat \ {0} /\ MaxRequests \in Nat /\ MaxReorgs \in Nat

Heights == 1..MaxHeight
Variants == {0, 1}
Blocks == Heights \X Variants
RequestIds == 1..MaxRequests

\* A network-info request as decoded from the observer's extra bytes.
Request == [id: RequestIds, chain: Chains, fee: Fees, height: Heights, hash: Blocks]
\* A stored store.NetworkInfo row.
Info == [rid: RequestIds, chain: Chains, fee: Fees, height: Heights, hash: Blocks]

VARIABLES
    tip,        \* tip[c]: height of the main chain of c
    main,       \* main[c][h]: variant of the main-chain block at height h
    produced,   \* produced[c]: every block of c ever mined, orphans included
    reorgs,     \* number of reorgs so far
    view,       \* view[k][c]: height up to which keeper k's RPC node is synced
    log,        \* the ordered MTG log of network-info requests
    cursor,     \* cursor[k]: number of log entries keeper k has finished
    latest,     \* latest[k][c]: keeper k's latest stored NetworkInfo of c
    decided,    \* decided[k][i]: "done" or "failed" once k finished request i
    panicked    \* panicked[k]: keeper k's process died in a panic

chainVars == <<tip, main, produced, reorgs, view>>
keeperVars == <<cursor, latest, decided, panicked>>
vars == <<chainVars, log, keeperVars>>

TypeOK ==
    /\ tip \in [Chains -> Heights]
    /\ main \in [Chains -> [Heights -> Variants]]
    /\ produced \in [Chains -> SUBSET Blocks]
    /\ reorgs \in 0..MaxReorgs
    /\ view \in [Keepers -> [Chains -> 0..MaxHeight]]
    /\ log \in Seq(Request) /\ Len(log) <= MaxRequests
    /\ cursor \in [Keepers -> 0..MaxRequests]
    /\ latest \in [Keepers -> [Chains -> Info \cup {NoInfo}]]
    /\ decided \in [Keepers -> [RequestIds -> {"none", "done", "failed"}]]
    /\ panicked \in [Keepers -> BOOLEAN]

Init ==
    /\ tip = [c \in Chains |-> 1]
    /\ main = [c \in Chains |-> [h \in Heights |-> 0]]
    /\ produced = [c \in Chains |-> {<<1, 0>>}]
    /\ reorgs = 0
    /\ view = [k \in Keepers |-> [c \in Chains |-> 0]]
    /\ log = << >>
    /\ cursor = [k \in Keepers |-> 0]
    /\ latest = [k \in Keepers |-> [c \in Chains |-> NoInfo]]
    /\ decided = [k \in Keepers |-> [i \in RequestIds |-> "none"]]
    /\ panicked = [k \in Keepers |-> FALSE]

-----------------------------------------------------------------------------
(* The environment: the chains, the keepers' RPC nodes and the observer.  *)

MineBlock(c) ==
    /\ tip[c] < MaxHeight
    /\ tip' = [tip EXCEPT ![c] = @ + 1]
    /\ produced' = [produced EXCEPT ![c] = @ \cup {<<tip[c] + 1, main[c][tip[c] + 1]>>}]
    /\ UNCHANGED <<main, reorgs, view, log, keeperVars>>

\* A one-block reorg: the tip block is replaced by a sibling.
Reorg(c) ==
    /\ reorgs < MaxReorgs
    /\ main' = [main EXCEPT ![c][tip[c]] = 1 - @]
    /\ produced' = [produced EXCEPT ![c] = @ \cup {<<tip[c], main'[c][tip[c]]>>}]
    /\ reorgs' = reorgs + 1
    /\ UNCHANGED <<tip, view, log, keeperVars>>

SyncNode(k, c) ==
    /\ view[k][c] < tip[c]
    /\ view' = [view EXCEPT ![k][c] = @ + 1]
    /\ UNCHANGED <<tip, main, produced, reorgs, log, keeperVars>>

\* The observer reports a block of its current main chain, possibly behind the tip.
ObserverPush ==
    /\ Len(log) < MaxRequests
    /\ \E c \in Chains : \E h \in 1..tip[c], f \in Fees :
          log' = Append(log, [id |-> Len(log) + 1, chain |-> c, fee |-> f,
                              height |-> h, hash |-> <<h, main[c][h]>>])
    /\ UNCHANGED <<chainVars, keeperVars>>

-----------------------------------------------------------------------------
(* The keeper's handler.                                                   *)

\* Mutant of RPCFinds: the node's own tip block is taken as not yet synced.
RPCFindsOffByOne(k, c, b) == b \in produced[c] /\ b[1] < view[k][c]

\* bitcoin.RPCGetBlock / ethereum.RPCGetBlock on keeper k's node finds block b.
RPCFinds(k, c, b) == b \in produced[c] /\ b[1] <= view[k][c]

\* The block is known but off the main chain: Confirmations = -1.
Orphaned(c, b) == main[c][b[1]] # b[2]

\* Mutant of StaleRequest: the old.Height > info.Height rejection is lost.
StaleRequestNoHeight(r, old) == old # NoInfo /\ old.rid = r.id

\* The early failRequest of writeNetworkInfo: a record already applied, or
\* one lower than the latest stored record of the chain.
StaleRequest(r, old) ==
    old # NoInfo /\ (old.rid = r.id \/ old.height > r.height)

\* Mutant of Verify: a block the keeper's node does not know yet is reported
\* invalid (valid=false, err=nil) instead of an error.
VerifyNotSyncInvalid(k, r, old) ==
    CASE old # NoInfo /\ old.hash = r.hash /\ old.height # r.height -> "error"
      [] ~(old # NoInfo /\ old.hash = r.hash) /\ ~RPCFinds(k, r.chain, r.hash) -> "invalid"
      [] ~(old # NoInfo /\ old.hash = r.hash)
         /\ r.chain \in BitcoinChains /\ Orphaned(r.chain, r.hash)     -> "error"
      [] r.chain \in BitcoinChains /\ r.fee \notin MinFee..MaxFee     -> "invalid"
      [] OTHER                                                        -> "valid"

Verify(k, r, old) ==
    CASE old # NoInfo /\ old.hash = r.hash /\ old.height # r.height -> "error"
      [] ~(old # NoInfo /\ old.hash = r.hash)
         /\ \/ ~RPCFinds(k, r.chain, r.hash)
            \/ r.chain \in BitcoinChains /\ Orphaned(r.chain, r.hash)   -> "error"
      [] r.chain \in BitcoinChains /\ r.fee \notin MinFee..MaxFee   -> "invalid"
      [] OTHER                                                      -> "valid"

\* Mutant of InfoOf: the stored row loses its RequestId.
InfoOfNoRequestId(r) == [chain |-> r.chain, fee |-> r.fee, height |-> r.height, hash |-> r.hash]

\* The store.NetworkInfo built from the request's extra bytes.
InfoOf(r) == [rid |-> r.id, chain |-> r.chain, fee |-> r.fee,
              height |-> r.height, hash |-> r.hash]

FailRequest(k, i) ==
    /\ decided' = [decided EXCEPT ![k][i] = "failed"]
    /\ UNCHANGED <<latest, panicked>>

\* store.WriteNetworkInfoFromRequest: the record is stored and the request done.
WriteNetworkInfoFromRequest(k, r) ==
    /\ latest' = [latest EXCEPT ![k][r.chain] = InfoOf(r)]
    /\ decided' = [decided EXCEPT ![k][r.id] = "done"]
    /\ UNCHANGED panicked

writeNetworkInfo(k) ==
    /\ ~panicked[k]
    /\ cursor[k] < Len(log)
    /\ LET r == log[cursor[k] + 1]
           old == latest[k][r.chain]
       IN \/ /\ StaleRequest(r, old)
             /\ FailRequest(k, r.id)
             /\ cursor' = [cursor EXCEPT ![k] = @ + 1]
          \/ /\ ~StaleRequest(r, old)
             /\ Verify(k, r, old) = "error"
             /\ panicked' = [panicked EXCEPT ![k] = TRUE]
             /\ UNCHANGED <<cursor, latest, decided>>
          \/ /\ ~StaleRequest(r, old)
             /\ Verify(k, r, old) = "invalid"
             /\ FailRequest(k, r.id)
             /\ cursor' = [cursor EXCEPT ![k] = @ + 1]
          \/ /\ ~StaleRequest(r, old)
             /\ Verify(k, r, old) = "valid"
             /\ WriteNetworkInfoFromRequest(k, r)
             /\ cursor' = [cursor EXCEPT ![k] = @ + 1]
    /\ UNCHANGED <<chainVars, log>>

\* The process supervisor restarts a keeper that panicked; it replays the
\* same request from its unchanged store.
Restart(k) ==
    /\ panicked[k]
    /\ panicked' = [panicked EXCEPT ![k] = FALSE]
    /\ UNCHANGED <<chainVars, log, cursor, latest, decided>>

\* Every bound is exhausted and every keeper has consumed the whole log.
Quiescent ==
    /\ Len(log) = MaxRequests
    /\ \A k \in Keepers : cursor[k] = Len(log)
    /\ UNCHANGED vars

Next ==
    \/ \E c \in Chains : MineBlock(c) \/ Reorg(c)
    \/ \E k \in Keepers, c \in Chains : SyncNode(k, c)
    \/ ObserverPush
    \/ \E k \in Keepers : writeNetworkInfo(k) \/ Restart(k)
    \/ Quiescent

\* The keepers' loops poll the log, their RPC nodes keep syncing, and a
\* dead process is restarted: each is weakly fair.
Fairness ==
    /\ \A k \in Keepers : WF_vars(writeNetworkInfo(k)) /\ WF_vars(Restart(k))
    /\ \A k \in Keepers, c \in Chains : WF_vars(SyncNode(k, c))

Spec == Init /\ [][Next]_vars /\ Fairness

-----------------------------------------------------------------------------
(* Properties.                                                             *)

\* Replica determinism: keepers that have finished the same prefix of the
\* log hold the same latest network info of every chain, and no request is
\* done on one keeper and failed on another, although each keeper checks
\* the records against its own, possibly lagging, RPC node (writeNetworkInfo
\* panics instead of deciding when its node does not know the block).
ReplicasAgree ==
    \A k1, k2 \in Keepers :
        /\ cursor[k1] = cursor[k2] => latest[k1] = latest[k2]
        /\ \A i \in RequestIds :
              decided[k1][i] # "none" /\ decided[k2][i] # "none"
                => decided[k1][i] = decided[k2][i]

\* The height of a keeper's latest network info of a chain never goes down
\* (the old.Height > info.Height rejection in writeNetworkInfo), whatever the
\* order in which the observer reports blocks.
HeightNeverDecreases ==
    [][\A k \in Keepers, c \in Chains :
          latest[k][c] # NoInfo =>
             /\ latest'[k][c] # NoInfo
             /\ latest'[k][c].height >= latest[k][c].height]_latest

\* When a keeper stores a Bitcoin-family block it did not already hold as
\* its latest, that block is on the main chain at that moment: the RPC fork
\* check of verifyBitcoinNetworkInfo (Confirmations = -1).  A stored hash
\* re-affirmed by a later request skips the RPC call, as spec 4.4 allows.
NewBlockOf(k, c) ==
    latest'[k][c] # NoInfo
    /\ (latest[k][c] = NoInfo \/ latest'[k][c].hash # latest[k][c].hash)

InfoCanonical ==
    [][\A k \in Keepers, c \in Chains :
          NewBlockOf(k, c) => ~Orphaned(c, latest'[k][c].hash)]_vars

\* Every keeper eventually finishes every request the observer logged: a
\* keeper whose node lags panics, is restarted and retries until synced.
Progress ==
    \A k \in Keepers, i \in RequestIds : (Len(log) >= i) ~> (cursor[k] >= i)

=============================================================================
