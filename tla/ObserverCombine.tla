---------------------------- MODULE ObserverCombine ----------------------------
(***************************************************************************)
(* The observer's handling of a keeper signature response for a            *)
(* transaction approval (src/unnamed/part_001, the newer observer          *)
(* revision): keeperCombineBitcoinTransactionSignatures merges the         *)
(* signer's partial signature into the holder's PSBT, and                  *)
(* keeperVerifyEthereumTransactionSignatures counts the signatures of a    *)
(* Safe transaction.  Both end with UpdateRecoveryState followed by        *)
(* FinishTransactionSignatures; broadcasting is left to the spend loop     *)
(* (module ObserverFeeSpend).                                              *)
(*                                                                         *)
(* The response is redelivered until the handler returns nil: a panic or  *)
(* an error makes the observer restart and handle it again.  The signer    *)
(* signature is checked against the observer's replica of the keeper      *)
(* store, which may not yet hold the keeper's signature request.           *)
(*                                                                         *)
(* An approval is abstracted to one required input: its script path       *)
(* (in.Sequence: "normal" or "recovery") and the partial signatures, by    *)
(* key, that the holder's stored PSBT carries.  Keys are "H" (holder), "S" *)
(* (signer), "O" (observer) and "X" (any other key).                       *)
(***************************************************************************)
EXTENDS Integers, Sequences, FiniteSets

CONSTANTS
    Approvals,   \* transaction approvals with a keeper response
    Chain,       \* Chain[a]: "bitcoin" or "ethereum"
    BtcShapes,   \* possible [seq, hsigs] of a Bitcoin approval's required input
    EthShapes,   \* possible [seq, sigs] of an Ethereum Safe transaction
    MaxCrashes   \* bound on crashes between the two store updates

Keys == {"H", "S", "O", "X"}
Safe3 == {"H", "S", "O"}

VARIABLES
    shape,        \* shape[a]: the approval's script path and signatures (fixed)
    keeperSigned, \* keeperSigned[a]: the observer's keeper replica holds the signer signature
    state,        \* state[a]: the approval State, "initial" or "done"
    recovery,     \* recovery[a]: State of the recovery row of a's safe
    combined,     \* combined[a]: keys whose signatures FinishTransactionSignatures stored
    pending,      \* pending[a]: a's response is delivered until a handler returns nil
    crashes

vars == <<shape, keeperSigned, state, recovery, combined, pending, crashes>>

TypeOK ==
    /\ \A a \in Approvals : shape[a] \in IF Chain[a] = "bitcoin" THEN BtcShapes ELSE EthShapes
    /\ keeperSigned \in [Approvals -> BOOLEAN]
    /\ state \in [Approvals -> {"initial", "done"}]
    /\ recovery \in [Approvals -> {"initial", "done"}]
    /\ combined \in [Approvals -> SUBSET Keys]
    /\ pending \in [Approvals -> BOOLEAN]
    /\ crashes \in 0..MaxCrashes

Init ==
    /\ shape \in {f \in [Approvals -> BtcShapes \cup EthShapes] :
                    \A a \in Approvals : f[a] \in IF Chain[a] = "bitcoin" THEN BtcShapes ELSE EthShapes}
    /\ keeperSigned \in [Approvals -> BOOLEAN]
    /\ state = [a \in Approvals |-> "initial"]
    /\ recovery = [a \in Approvals |-> "initial"]
    /\ combined = [a \in Approvals |-> {}]
    /\ pending = [a \in Approvals |-> TRUE]
    /\ crashes = 0

SeqKeys(s) == {s[i] : i \in 1..Len(s)}

\* Mutant: the holder-observer branch accepts either of the two keys.
HolderObserverEither(hs) == "H" \in SeqKeys(hs) \/ "O" \in SeqKeys(hs)

\* The recovery input is already signed by holder and observer.
HolderObserver(hs) == "H" \in SeqKeys(hs) /\ "O" \in SeqKeys(hs)

\* The checks of the input loop of keeperCombineBitcoinTransactionSignatures:
\* "panic" when a partial signature has the wrong key; otherwise whether the
\* signer's signature is still to be added.
CombineInput(sh) ==
    LET hs == sh.hsigs
    IN  CASE sh.seq = "normal" /\ hs[1] # "H" -> "panic"
          [] sh.seq = "normal" -> "addSigner"
          [] Len(hs) = 1 /\ hs[1] # "O" -> "panic"
          [] Len(hs) = 1 -> "addSigner"
          [] HolderObserver(hs) -> "skip"
          [] OTHER -> "panic"

\* Mutant: the two store updates in the opposite order.
CommitSwapped(a, keys) ==
    \/ /\ recovery' = [recovery EXCEPT ![a] = "done"]
       /\ state' = [state EXCEPT ![a] = "done"]
       /\ combined' = [combined EXCEPT ![a] = keys]
       /\ pending' = [pending EXCEPT ![a] = FALSE]
       /\ UNCHANGED crashes
    \/ /\ crashes < MaxCrashes
       /\ state' = [state EXCEPT ![a] = "done"]
       /\ combined' = [combined EXCEPT ![a] = keys]
       /\ crashes' = crashes + 1
       /\ UNCHANGED <<recovery, pending>>

\* Mutant: UpdateRecoveryState is passed RequestStatePending.
CommitPendingRecovery(a, keys) ==
    /\ recovery' = [recovery EXCEPT ![a] = "pending"]
    /\ state' = [state EXCEPT ![a] = "done"]
    /\ combined' = [combined EXCEPT ![a] = keys]
    /\ pending' = [pending EXCEPT ![a] = FALSE]
    /\ UNCHANGED crashes

\* UpdateRecoveryState(safe.Address, raw, RequestStateDone) then
\* FinishTransactionSignatures, and the handler returns nil; a crash may
\* come between the two commits, or after both before the snapshot loop
\* moves past the response, and the response is then delivered again.
Commit(a, keys) ==
    \/ /\ recovery' = [recovery EXCEPT ![a] = "done"]
       /\ state' = [state EXCEPT ![a] = "done"]
       /\ combined' = [combined EXCEPT ![a] = keys]
       /\ \/ /\ pending' = [pending EXCEPT ![a] = FALSE]
             /\ UNCHANGED crashes
          \/ /\ crashes < MaxCrashes
             /\ crashes' = crashes + 1
             /\ UNCHANGED pending
    \/ /\ crashes < MaxCrashes
       /\ recovery' = [recovery EXCEPT ![a] = "done"]
       /\ crashes' = crashes + 1
       /\ UNCHANGED <<state, combined, pending>>

\* Mutant: a signer signature missing from the keeper replica is skipped
\* with a nil return instead of a panic.
CombineBitcoinMissingOk(a) ==
    LET r == CombineInput(shape[a])
        keys == SeqKeys(shape[a].hsigs) \cup (IF r = "addSigner" THEN {"S"} ELSE {})
    IN  /\ Chain[a] = "bitcoin"
        /\ state[a] = "initial"
        /\ r # "panic"
        /\ pending[a]
        /\ IF r = "addSigner" /\ ~keeperSigned[a]
           THEN /\ pending' = [pending EXCEPT ![a] = FALSE]
                /\ UNCHANGED <<state, recovery, combined, crashes>>
           ELSE Commit(a, keys)

\* keeperCombineBitcoinTransactionSignatures for a's response, when it
\* returns nil (a panic leaves the state unchanged and the response is
\* handled again).
keeperCombineBitcoinTransactionSignatures(a) ==
    LET r == CombineInput(shape[a])
        keys == SeqKeys(shape[a].hsigs) \cup (IF r = "addSigner" THEN {"S"} ELSE {})
    IN  /\ Chain[a] = "bitcoin"
        /\ state[a] = "initial"
        /\ pending[a]
        /\ r # "panic"
        /\ r = "addSigner" => keeperSigned[a]
        /\ Commit(a, keys)

\* keeperVerifyEthereumTransactionSignatures: at least two of holder,
\* observer and signer have signed the Safe transaction.
keeperVerifyEthereumTransactionSignatures(a) ==
    /\ Chain[a] = "ethereum"
    /\ state[a] = "initial"
    /\ pending[a]
    /\ Cardinality(shape[a].sigs \cap Safe3) >= 2
    /\ Commit(a, shape[a].sigs)

\* The handler panics or returns an error for a's response: a malformed
\* partial signature, a signer signature the keeper replica does not hold
\* yet, or too few Ethereum signatures.  The observer restarts and the same
\* response is handled again.
HandlerFails(a) ==
    /\ pending[a]
    /\ state[a] = "initial"
    /\ IF Chain[a] = "bitcoin"
       THEN LET r == CombineInput(shape[a])
            IN  r = "panic" \/ (r = "addSigner" /\ ~keeperSigned[a])
       ELSE Cardinality(shape[a].sigs \cap Safe3) < 2
    /\ UNCHANGED vars

\* The observer's keeper replica catches up with the keeper.
SyncKeeperReplica(a) ==
    /\ ~keeperSigned[a]
    /\ keeperSigned' = [keeperSigned EXCEPT ![a] = TRUE]
    /\ UNCHANGED <<shape, state, recovery, combined, pending, crashes>>

\* A response for an approval already Done returns nil at once (the
\* tx.State >= Done early return of both handlers).
HandleDone(a) ==
    /\ pending[a] /\ state[a] = "done"
    /\ pending' = [pending EXCEPT ![a] = FALSE]
    /\ UNCHANGED <<shape, keeperSigned, state, recovery, combined, crashes>>

\* No response is left to handle.
Quiescent ==
    /\ \A a \in Approvals : ~pending[a]
    /\ UNCHANGED vars

Next ==
    \E a \in Approvals :
        \/ /\ keeperCombineBitcoinTransactionSignatures(a)
           /\ UNCHANGED <<shape, keeperSigned>>
        \/ /\ keeperVerifyEthereumTransactionSignatures(a)
           /\ UNCHANGED <<shape, keeperSigned>>
        \/ HandlerFails(a)
        \/ SyncKeeperReplica(a)
        \/ HandleDone(a)
    \/ Quiescent

\* The response is redelivered until handled, and the keeper replica syncs.
Fairness ==
    \A a \in Approvals :
        /\ WF_vars(keeperCombineBitcoinTransactionSignatures(a) /\ UNCHANGED <<shape, keeperSigned>>)
        /\ WF_vars(keeperVerifyEthereumTransactionSignatures(a) /\ UNCHANGED <<shape, keeperSigned>>)
        /\ WF_vars(SyncKeeperReplica(a))

Spec == Init /\ [][Next]_vars /\ Fairness

-----------------------------------------------------------------------------
(* Properties *)

\* The signatures a stored combination needs.  A Bitcoin input must satisfy
\* its script (spec 4.3): the normal path needs holder and signer, the
\* recovery path two of the three keys with the observer among them.  An
\* Ethereum Safe transaction needs the threshold of two of its three owners
\* (BuildGnosisSafe); which two is left to the Safe's guard contract, so a
\* holder-and-signer recovery is accepted here (README finding 5).
Satisfies(chain, seq, keys) ==
    IF chain = "ethereum" THEN Cardinality(keys \cap Safe3) >= 2
    ELSE IF seq = "normal" THEN {"H", "S"} \subseteq keys
    ELSE "O" \in keys /\ Cardinality(keys \cap Safe3) >= 2

\* An approval marked Done by FinishTransactionSignatures carries signatures
\* that satisfy its chain's rule, whatever partial signatures the holder's
\* PSBT or Safe transaction and the keeper response held: every branch of
\* the Bitcoin input loop that skips a key check, and the Ethereum count,
\* would show here.
DoneIsSatisfied ==
    \A a \in Approvals :
        state[a] = "done" => Satisfies(Chain[a], shape[a].seq, combined[a])

\* A Done approval's safe has its recovery row Done too: the handlers update
\* the recovery state before FinishTransactionSignatures, because once the
\* approval is Done a redelivered response returns early and a crash
\* between the two updates could never be repaired.
RecoveryNotBehind ==
    \A a \in Approvals : state[a] = "done" => recovery[a] = "done"

\* A response the handlers can accept: a Bitcoin input whose partial
\* signatures pass the input loop's key checks, or a Safe transaction with
\* two of the three owners' signatures.
WellFormed(a) ==
    IF Chain[a] = "bitcoin" THEN CombineInput(shape[a]) # "panic"
    ELSE Cardinality(shape[a].sigs \cap Safe3) >= 2

\* Every approval whose response is well formed is eventually Done, through
\* panics on a lagging keeper replica and crashes between the two updates.
EveryApprovalCombined ==
    <>(\A a \in Approvals : WellFormed(a) => state[a] = "done")
=============================================================================
