---------------------------- MODULE ObserverFeeSpend ----------------------------
(***************************************************************************)
(* The observer's Bitcoin spend loop (src/unnamed/part_001, the newer      *)
(* observer revision): bitcoinTransactionSpendLoop takes every fully       *)
(* signed transaction approval in order, attaches one accountant fee input *)
(* to it, broadcasts it and confirms the approval.                         *)
(*                                                                         *)
(* The fee input comes from bitcoinRetrieveFeeInputsForTransaction: either *)
(* AssignBitcoinUTXOByRangeForTransaction takes an accountant output       *)
(* within [0.9 fee, 1.1 fee] (or the output already assigned to the        *)
(* approval), or a fee-splitter transaction is built from the oldest       *)
(* accountant outputs and recorded by WriteBitcoinFeeOutput.  The          *)
(* bitcoin_outputs table survives a crash of the observer; the loop's      *)
(* local state does not.  The Bitcoin node accepts a transaction, already  *)
(* knows it, or rejects it for a conflicting or missing input; an RPC call *)
(* can fail after the node accepted the transaction.                       *)
(*                                                                         *)
(* Outpoints are <<txid, index>>.  The safe inputs an approval spends are  *)
(* abstracted to the single outpoint <<t, 0>>.                             *)
(***************************************************************************)
EXTENDS Integers, Sequences, SequencesExt, FiniteSets

CONSTANTS
    TxOrder,       \* fully signed approvals, in ListFullySignedTransactionApprovals order
    FundingTxs,    \* funding transactions of the initial accountant outputs
    InitialUtxos,  \* InitialUtxos[i]: satoshi of output <<FundingTxs[i], 0>>, in created_at order
    FeeRates,      \* the values bitcoin.EstimateAvgFee may return (sat/vbyte)
    VirtualSize,   \* psbt.EstimateVirtualSize() + 160
    Dust,          \* bitcoin.ValueDust(chain)
    MaxFailures,   \* bound on RPC failures and observer crashes
    None           \* SQL NULL

Txs == ToSet(TxOrder)
ASSUME Len(FundingTxs) = Len(InitialUtxos)

VARIABLES
    approval,  \* approval[t]: "signed" (fully signed) or "spent" (confirmed)
    spentHash, \* spentHash[t]: the spend transaction recorded on confirmation
    outputs,   \* the bitcoin_outputs table, in insertion (created_at) order
    accepted,  \* transactions the Bitcoin node has accepted (mempool or chain)
    pc,        \* the spend loop: "idle", "assigned", "splitSent" or "sent"
    cur,       \* the approval the loop is working on
    feeIn,     \* the fee input the loop holds for it
    failures   \* RPC failures and crashes so far

vars == <<approval, spentHash, outputs, accepted, pc, cur, feeIn, failures>>

-----------------------------------------------------------------------------
(* Outputs and transactions.                                               *)

SafeInput(t) == <<t, 0>>
FundingOutput(i) == [id |-> <<FundingTxs[i], 0>>, sat |-> InitialUtxos[i],
                     state |-> "initial", spentBy |-> None, raw |-> None]

\* fee := fvb * virtualSize, at least the dust value.
FeeOf(fvb) == IF fvb * VirtualSize < Dust THEN Dust ELSE fvb * VirtualSize

\* min, max := uint64(float64(fee)*0.9), uint64(float64(fee)*1.1)
InRange(sat, fee) == (fee * 9) \div 10 <= sat /\ sat <= (fee * 11) \div 10

\* estvb := uint64(40+len(msgTx.TxIn)*300+2*128) / 4
EstVBytes(n) == (40 + n * 300 + 2 * 128) \div 4

SumSat(s) == FoldLeft(LAMBDA acc, o : acc + o.sat, 0, s)

\* A transaction id stands for the hash of the transaction's content: its
\* inputs and the fee it pays.  The spend of approval t with fee input o is
\* bitcoin.SpendSignedTransaction; the splitter is built by
\* bitcoinRetrieveFeeInputsForTransaction.
SpendTx(t, o) == [kind |-> "spend", id |-> [ins |-> {SafeInput(t), o.id}, fee |-> o.sat],
                  ins |-> {SafeInput(t), o.id}]

SplitterTx(xid) == [kind |-> "split", id |-> xid, ins |-> xid.ins]

SpentOnNode == UNION {x.ins : x \in accepted}

\* Outpoints the node knows: the funding and safe outputs, and the outputs of
\* accepted splitters.
ExistsOnNode(op) ==
    \/ op[1] \in ToSet(FundingTxs) \cup Txs
    \/ \E x \in accepted : x.kind = "split" /\ x.id = op[1]

TypeOK ==
    /\ approval \in [Txs -> {"signed", "spent"}]
    /\ \A t \in Txs : spentHash[t] = None \/ SafeInput(t) \in spentHash[t].ins
    /\ \A i \in 1..Len(outputs) :
          /\ outputs[i].state \in {"initial", "done"}
          /\ outputs[i].sat \in Nat
    /\ pc \in {"idle", "assigned", "splitSent", "sent"}
    /\ cur \in Txs \cup {None}
    /\ failures \in 0..MaxFailures

Init ==
    /\ approval = [t \in Txs |-> "signed"]
    /\ spentHash = [t \in Txs |-> None]
    /\ outputs = [i \in 1..Len(InitialUtxos) |-> FundingOutput(i)]
    /\ accepted = {}
    /\ pc = "idle"
    /\ cur = None
    /\ feeIn = None
    /\ failures = 0

-----------------------------------------------------------------------------
(* bitcoinRetrieveFeeInputsForTransaction.                                 *)

\* AssignBitcoinUTXOByRangeForTransaction: SELECT ... WHERE (satoshi in
\* [min,max] AND state=Initial) OR (spent_by=tx) LIMIT 1.  Without ORDER BY
\* SQLite returns the first matching row of its scan, in rowid order.
AssignMatches(t, fee) ==
    {i \in 1..Len(outputs) :
        \/ outputs[i].state = "initial" /\ InRange(outputs[i].sat, fee)
        \/ outputs[i].spentBy = t}

AssignedRow(t, fee) == CHOOSE i \in AssignMatches(t, fee) :
                           \A j \in AssignMatches(t, fee) : i <= j

\* Mutant of AssignBitcoinUTXOByRangeForTransaction: the row is set to the
\* Pending state instead of Done.
AssignPending(t, fee) ==
    LET i == AssignedRow(t, fee)
        o == outputs[i]
    IN IF o.spentBy = t
       THEN /\ feeIn' = o
            /\ UNCHANGED outputs
       ELSE LET assigned == [o EXCEPT !.state = "pending", !.spentBy = t]
            IN /\ outputs' = [outputs EXCEPT ![i] = assigned]
               /\ feeIn' = assigned

AssignBitcoinUTXOByRangeForTransaction(t, fee) ==
    LET i == AssignedRow(t, fee)
        o == outputs[i]
    IN IF o.spentBy = t
       THEN /\ feeIn' = o
            /\ UNCHANGED outputs
       ELSE LET assigned == [o EXCEPT !.state = "done", !.spentBy = t]
            IN /\ outputs' = [outputs EXCEPT ![i] = assigned]
               /\ feeIn' = assigned

\* ReadBitcoinUTXOs: the Initial outputs ordered by created_at.
InitialUTXOs == SelectSeq(outputs, LAMBDA o : o.state = "initial")

\* The splitter loop adds inputs one by one and stops at the first prefix
\* that pays estvb*fvb + fee; 0 when no prefix does (no TxOut: nil input).
SplitInputs(fvb, fee) ==
    LET utxos == InitialUTXOs
        Pays(n) == SumSat(SubSeq(utxos, 1, n)) >= EstVBytes(n) * fvb + fee
    IN IF \E n \in 1..Len(utxos) : Pays(n)
       THEN CHOOSE n \in 1..Len(utxos) : Pays(n) /\ \A m \in 1..(n - 1) : ~Pays(m)
       ELSE 0

\* Mutant of WriteBitcoinFeeOutput: the splitter's inputs are left Initial.
WriteFeeOutputInputsKept(t, fvb, fee, n) ==
    LET utxos == SubSeq(InitialUTXOs, 1, n)
        xid == [ins |-> {utxos[j].id : j \in 1..n}, fee |-> fee]
        change == SumSat(utxos) - EstVBytes(n) * fvb - fee
        out0 == [id |-> <<xid, 0>>, sat |-> fee, state |-> "done",
                 spentBy |-> t, raw |-> xid]
        out1 == [id |-> <<xid, 1>>, sat |-> change, state |-> "initial",
                 spentBy |-> None, raw |-> xid]
    IN /\ outputs' = outputs \o (IF change > Dust THEN <<out0, out1>> ELSE <<out0>>)
       /\ feeIn' = out0

\* WriteBitcoinFeeOutput: the inputs become Done and spent by the splitter;
\* output 0 (the fee) is inserted Done and spent by the approval, the change
\* output (when above dust) Initial; both carry the splitter's raw bytes.
WriteBitcoinFeeOutput(t, fvb, fee, n) ==
    LET utxos == SubSeq(InitialUTXOs, 1, n)
        inIds == {utxos[j].id : j \in 1..n}
        xid == [ins |-> inIds, fee |-> fee]
        change == SumSat(utxos) - EstVBytes(n) * fvb - fee
        out0 == [id |-> <<xid, 0>>, sat |-> fee, state |-> "done",
                 spentBy |-> t, raw |-> xid]
        out1 == [id |-> <<xid, 1>>, sat |-> change, state |-> "initial",
                 spentBy |-> None, raw |-> xid]
        marked == [i \in 1..Len(outputs) |->
                     IF outputs[i].id \in inIds
                     THEN [outputs[i] EXCEPT !.state = "done", !.spentBy = xid]
                     ELSE outputs[i]]
    IN /\ outputs' = marked \o (IF change > Dust THEN <<out0, out1>> ELSE <<out0>>)
       /\ feeIn' = out0

\* The head of ListFullySignedTransactionApprovals (None when empty).
NextApproval == LET signed == SelectSeq(TxOrder, LAMBDA t : approval[t] = "signed")
        IN IF signed = << >> THEN None ELSE signed[1]

\* bitcoinSpendFullySignedTransaction up to the broadcast: estimate the fee
\* and obtain a fee input (the failing case is InsufficientBalance).
RetrieveFeeInput ==
    /\ pc = "idle"
    /\ NextApproval # None
    /\ \E fvb \in FeeRates :
          LET t == NextApproval
              fee == FeeOf(fvb)
          IN \/ /\ AssignMatches(t, fee) # {}
                /\ AssignBitcoinUTXOByRangeForTransaction(t, fee)
             \/ /\ AssignMatches(t, fee) = {}
                /\ SplitInputs(fvb, fee) > 0
                /\ WriteBitcoinFeeOutput(t, fvb, fee, SplitInputs(fvb, fee))
    /\ pc' = "assigned"
    /\ cur' = NextApproval
    /\ UNCHANGED <<approval, spentHash, accepted, failures>>

-----------------------------------------------------------------------------
(* bitcoinBroadcastTransactionAndWriteDeposit and the rest of the loop.    *)

\* The node takes x when all its inputs exist and none is spent by another
\* accepted transaction.
NodeAccepts(x) ==
    /\ \A op \in x.ins : ExistsOnNode(op)
    /\ \A y \in accepted : (y.kind # x.kind \/ y.id # x.id) => x.ins \cap y.ins = {}

\* The loop gives up on this round: the error makes it break and sleep.
Abort ==
    /\ pc' = "idle"
    /\ cur' = None
    /\ feeIn' = None

\* Mutant of Broadcast: any error of RPCSendRawTransaction counts as "already
\* in block chain".
BroadcastAnyErrorOk(x, next) ==
    \/ /\ x \in accepted
       /\ pc' = next
       /\ UNCHANGED <<accepted, cur, feeIn, failures>>
    \/ /\ x \notin accepted
       /\ NodeAccepts(x)
       /\ accepted' = accepted \cup {x}
       /\ pc' = next
       /\ UNCHANGED <<cur, feeIn, failures>>
    \/ /\ x \notin accepted
       /\ ~NodeAccepts(x)
       /\ pc' = next
       /\ UNCHANGED <<accepted, cur, feeIn, failures>>
    \/ /\ failures < MaxFailures
       /\ failures' = failures + 1
       /\ \/ accepted' = accepted
          \/ NodeAccepts(x) /\ accepted' = accepted \cup {x}
       /\ Abort

\* bitcoinBroadcastTransaction followed by RPCGetTransaction.  A transaction
\* the node already holds is a success ("Transaction already in block
\* chain", or its id for a mempool duplicate); a conflicting or unfunded one
\* is rejected; an RPC failure may come before or after the node took it.
Broadcast(x, next) ==
    \/ /\ x \in accepted
       /\ pc' = next
       /\ UNCHANGED <<accepted, cur, feeIn, failures>>
    \/ /\ x \notin accepted
       /\ NodeAccepts(x)
       /\ accepted' = accepted \cup {x}
       /\ pc' = next
       /\ UNCHANGED <<cur, feeIn, failures>>
    \/ /\ x \notin accepted
       /\ ~NodeAccepts(x)
       /\ Abort
       /\ UNCHANGED <<accepted, failures>>
    \/ /\ failures < MaxFailures
       /\ failures' = failures + 1
       /\ \/ accepted' = accepted
          \/ NodeAccepts(x) /\ accepted' = accepted \cup {x}
       /\ Abort

\* The splitter that funds the fee input is broadcast first.
BroadcastFeeSplitter ==
    /\ pc = "assigned"
    /\ feeIn.raw # None
    /\ Broadcast(SplitterTx(feeIn.raw), "splitSent")
    /\ UNCHANGED <<approval, spentHash, outputs>>

BroadcastSpend ==
    /\ \/ pc = "assigned" /\ feeIn.raw = None
       \/ pc = "splitSent"
    /\ Broadcast(SpendTx(cur, feeIn), "sent")
    /\ UNCHANGED <<approval, spentHash, outputs>>

\* ConfirmFullySignedTransactionApproval records the spend's hash; the loop
\* goes on with the next approval.
ConfirmFullySignedTransactionApproval ==
    /\ pc = "sent"
    /\ approval' = [approval EXCEPT ![cur] = "spent"]
    /\ spentHash' = [spentHash EXCEPT ![cur] = SpendTx(cur, feeIn).id]
    /\ Abort
    /\ UNCHANGED <<outputs, accepted, failures>>

\* The observer process dies; the table survives, the loop restarts idle.
Crash ==
    /\ pc # "idle"
    /\ failures < MaxFailures
    /\ failures' = failures + 1
    /\ Abort
    /\ UNCHANGED <<approval, spentHash, outputs, accepted>>

\* No output is assignable and no splitter pays: bitcoinSpendFullySigned-
\* Transaction returns "insufficient accountant balance", the loop breaks
\* and retries the same approval after its sleep, until an operator funds
\* the accountant.
InsufficientBalance ==
    /\ pc = "idle"
    /\ NextApproval # None
    /\ \A fvb \in FeeRates :
          /\ AssignMatches(NextApproval, FeeOf(fvb)) = {}
          /\ SplitInputs(fvb, FeeOf(fvb)) = 0
    /\ UNCHANGED vars

\* Every approval is spent: the loop only sleeps and lists nothing.
Quiescent ==
    /\ NextApproval = None
    /\ pc = "idle"
    /\ UNCHANGED vars

Next ==
    \/ RetrieveFeeInput
    \/ BroadcastFeeSplitter
    \/ BroadcastSpend
    \/ ConfirmFullySignedTransactionApproval
    \/ Crash
    \/ InsufficientBalance
    \/ Quiescent

\* The spend loop wakes up every 3 seconds; crashes and RPC failures are
\* bounded and never required.
Fairness ==
    /\ WF_vars(RetrieveFeeInput)
    /\ WF_vars(BroadcastFeeSplitter)
    /\ WF_vars(BroadcastSpend)
    /\ WF_vars(ConfirmFullySignedTransactionApproval)

Spec == Init /\ [][Next]_vars /\ Fairness

-----------------------------------------------------------------------------
(* Properties.                                                             *)

\* An accountant output the table still offers (Initial) has not been spent
\* by any transaction the node accepted: the splitter's inputs and every
\* assigned fee input are marked Done before anything is broadcast, and a
\* retried or crashed attempt never leaves a spent output available.
AvailableIsUnspent ==
    \A i \in 1..Len(outputs) :
        outputs[i].state = "initial" => outputs[i].id \notin SpentOnNode

\* The spend hash recorded when an approval is confirmed is a transaction
\* the node accepted, and the fee input of that transaction is recorded in
\* the table as Done and spent by the approval.
ConfirmedSpendRecorded ==
    \A t \in Txs :
        approval[t] = "spent" =>
            \E x \in accepted, i \in 1..Len(outputs) :
                /\ x.kind = "spend"
                /\ x.id = spentHash[t]
                /\ outputs[i].id \in x.ins
                /\ outputs[i].state = "done"
                /\ outputs[i].spentBy = t

\* Each approval is assigned at most one accountant fee output: a retry
\* reuses the output already spent_by the approval (the OR spent_by=? arm
\* of AssignBitcoinUTXOByRangeForTransaction and its early return).
FeeAssignedOnce ==
    \A t \in Txs : Cardinality({i \in 1..Len(outputs) : outputs[i].spentBy = t}) <= 1

=============================================================================
