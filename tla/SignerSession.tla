---------------------------- MODULE SignerSession ----------------------------
(***************************************************************************)
(* One MPC sign session of the signer group (src/signer/node.go).          *)
(*                                                                         *)
(* Every signer node consumes the same ordered MTG log through             *)
(* ProcessOutput/processAction: the keeper's sign input creates the        *)
(* session, PREPARE messages add session-signer rows until more than       *)
(* threshold members prepared, and signer RESULT messages update those     *)
(* rows until verifySessionSignerResults finds more than threshold equal   *)
(* signatures.  Alongside, each node runs two local loops on its own store *)
(* state: loopInitialSessions/queueOperation/startSign runs the MPC        *)
(* protocol with the prepared members, and loopPendingSessions sends the   *)
(* node's result to the group and marks the session done.                  *)
(*                                                                         *)
(* The session's replicated rows are a function of the log prefix; the     *)
(* session State and Extra are local to each node (its own MPC outcome,    *)
(* or a signature adopted from the others' results).  A signature is one   *)
(* of "S" (the signature the MPC run produces) or "B" (a forged value a    *)
(* faulty member may send); "" is a PREPARE row with no result yet.        *)
(***************************************************************************)
EXTENDS Integers, Sequences, FiniteSets

CONSTANTS
    MemberOrder,    \* conf.MTG.Genesis.Members, in their configured order
    Threshold,      \* node.threshold, the MPC threshold
    Faulty,         \* members that may send a forged RESULT
    MaxFailures,    \* bound on MPC runs that fail (FailSession)
    MaxCrashes      \* bound on node restarts

Members == {MemberOrder[i] : i \in 1..Len(MemberOrder)}
Honest == Members \ Faulty

ASSUME Faulty \subseteq Members /\ Threshold \in Nat /\ Threshold < Len(MemberOrder)

NoRow == "none"                  \* no session-signer row for this member
Sigs == {"S", "B"}
States == {"none", "initial", "pending", "done", "failed"}
Entry == [kind: {"input"}, from: Members \cup {"keeper"}, val: {""}]
    \cup [kind: {"prepare"}, from: Members, val: {""}]
    \cup [kind: {"result"}, from: Members, val: {""} \cup Sigs]

VARIABLES
    log,        \* the ordered MTG log of this session's outputs
    cursor,     \* cursor[n]: log entries node n has processed
    rows,       \* rows[n][m]: n's session-signer row of member m (NoRow, "" or a signature)
    preparedAt, \* preparedAt[n]: n's session PreparedAt is valid
    state,      \* state[n]: n's local session State ("none" before the input)
    extra,      \* extra[n]: the signature part of n's local session Extra
    queued,     \* queued[n]: node.operations[id], the in-memory queueOperation dedup
    outs,       \* outs[n]: the keeper transactions n built, one entry per log entry
    failures,   \* MPC runs that failed so far
    crashes     \* node restarts so far

vars == <<log, cursor, rows, preparedAt, state, extra, queued, outs, failures, crashes>>

TypeOK ==
    /\ log \in Seq(Entry)
    /\ cursor \in [Members -> 0..Len(log)]
    /\ rows \in [Members -> [Members -> {NoRow, ""} \cup Sigs]]
    /\ preparedAt \in [Members -> BOOLEAN]
    /\ state \in [Members -> States]
    /\ extra \in [Members -> {""} \cup Sigs]
    /\ queued \in [Members -> BOOLEAN]
    /\ outs \in [Members -> Seq({"none"} \cup Sigs)]
    /\ failures \in 0..MaxFailures /\ crashes \in 0..MaxCrashes

Init ==
    /\ log = << [kind |-> "input", from |-> "keeper", val |-> ""] >>
    /\ cursor = [n \in Members |-> 0]
    /\ rows = [n \in Members |-> [m \in Members |-> NoRow]]
    /\ preparedAt = [n \in Members |-> FALSE]
    /\ state = [n \in Members |-> "none"]
    /\ extra = [n \in Members |-> ""]
    /\ queued = [n \in Members |-> FALSE]
    /\ outs = [n \in Members |-> << >>]
    /\ failures = 0 /\ crashes = 0

\* The members that prepared: startSign's members argument.
Participants(r) == {m \in Members : r[m] # NoRow}

\* The first member in Genesis order that has a row, found or not a result.
FirstFound(r) ==
    LET idx == {i \in 1..Len(MemberOrder) : r[MemberOrder[i]] # NoRow}
    IN  IF idx = {} THEN NoRow
        ELSE r[MemberOrder[CHOOSE i \in idx : \A j \in idx : i <= j]]

\* Mutant: the finish test at the threshold instead of above it.
VerifyAtThreshold(r) ==
    LET sig == FirstFound(r)
        signed == Cardinality({m \in Members : r[m] \notin {NoRow, ""} /\ r[m] = sig})
    IN  [finished |-> signed >= Threshold, sig |-> sig]

\* verifySessionSignerResults for a sign session: sig is fixed by the first
\* member with any row, even an empty one, and the session is finished when
\* more than threshold non-empty rows equal it.
VerifySessionSignerResults(r) ==
    LET sig == FirstFound(r)
        signed == Cardinality({m \in Members : r[m] \notin {NoRow, ""} /\ r[m] = sig})
    IN  [finished |-> signed > Threshold, sig |-> sig]

\* WriteSessionIfNotExist for the keeper's sign input.
ProcessKeeperInput(n) ==
    /\ state' = [state EXCEPT ![n] = IF @ = "none" THEN "initial" ELSE @]
    /\ outs' = [outs EXCEPT ![n] = Append(@, "none")]
    /\ UNCHANGED <<rows, preparedAt, extra>>

\* processSignerPrepare: once prepared, later PREPAREs are ignored; otherwise
\* the sender's row is added and the session is prepared when more than
\* threshold members have rows.
ProcessSignerPrepare(n, e) ==
    /\ state[n] # "none"
    /\ IF preparedAt[n]
       THEN UNCHANGED <<rows, preparedAt>>
       ELSE LET r == [rows[n] EXCEPT ![e.from] = IF @ = NoRow THEN "" ELSE @]
            IN  /\ rows' = [rows EXCEPT ![n] = r]
                /\ preparedAt' = [preparedAt EXCEPT ![n] = Cardinality(Participants(r)) > Threshold]
    /\ outs' = [outs EXCEPT ![n] = Append(@, "none")]
    /\ UNCHANGED <<state, extra>>

\* Mutant: a node that did not run the MPC itself never adopts the result.
AdoptNever(n, v) == [state |-> state[n], extra |-> extra[n]]

\* Mutant: the adopted Extra keeps the message and drops the signature that
\* concatMessageAndSignature appends.
AdoptRawResult(n, v) ==
    IF v.finished /\ state[n] = "initial" /\ preparedAt[n]
    THEN [state |-> "pending", extra |-> "msg"]
    ELSE [state |-> state[n], extra |-> extra[n]]

\* The adoption in processSignerResult: an Initial, prepared session is
\* marked Pending with the signature the results agree on.
Adopt(n, v) ==
    IF v.finished /\ state[n] = "initial" /\ preparedAt[n]
    THEN [state |-> "pending", extra |-> v.sig]
    ELSE [state |-> state[n], extra |-> extra[n]]

\* processSignerResult: UpdateSessionSigner updates the sender's row (a
\* member without a PREPARE row has none to update), then the results are
\* verified; when finished, the session is adopted and the keeper
\* transaction carries the session's signature if verifySessionSignature
\* accepts it.
ProcessSignerResult(n, e) ==
    LET r == [rows[n] EXCEPT ![e.from] = IF @ = NoRow THEN NoRow ELSE e.val]
        v == VerifySessionSignerResults(r)
        s == Adopt(n, v)
    IN  /\ state[n] # "none"
        /\ rows' = [rows EXCEPT ![n] = r]
        /\ state' = [state EXCEPT ![n] = s.state]
        /\ extra' = [extra EXCEPT ![n] = s.extra]
        /\ outs' = [outs EXCEPT ![n] = Append(@, IF v.finished /\ s.extra = "S" THEN "S" ELSE "none")]
        /\ UNCHANGED preparedAt

\* ProcessOutput: node n applies its next MTG log entry.
ProcessOutput(n) ==
    /\ cursor[n] < Len(log)
    /\ LET e == log[cursor[n] + 1]
       IN  \/ e.kind = "input" /\ ProcessKeeperInput(n)
           \/ e.kind = "prepare" /\ ProcessSignerPrepare(n, e)
           \/ e.kind = "result" /\ ProcessSignerResult(n, e)
    /\ cursor' = [cursor EXCEPT ![n] = @ + 1]
    /\ UNCHANGED <<log, queued, failures, crashes>>

\* A member announces it is ready to sign the session (the sender of the
\* PREPARE message is outside node.go); each member prepares once.
SendPrepare(n) ==
    /\ state[n] = "initial"
    /\ ~\E i \in 1..Len(log) : log[i].kind = "prepare" /\ log[i].from = n
    /\ log' = Append(log, [kind |-> "prepare", from |-> n, val |-> ""])
    /\ UNCHANGED <<cursor, rows, preparedAt, state, extra, queued, outs, failures, crashes>>

\* loopInitialSessions -> queueOperation -> startSign.  A node that is not
\* among the prepared members exits without commitment; a participant's MPC
\* run either yields the signature (MarkSessionPending) or fails (FailSession).
StartSign(n) ==
    /\ state[n] = "initial" /\ preparedAt[n]
    /\ ~queued[n]
    /\ queued' = [queued EXCEPT ![n] = TRUE]
    /\ \/ /\ n \notin Participants(rows[n])
          /\ UNCHANGED <<state, extra, failures>>
       \/ /\ n \in Participants(rows[n])
          /\ state' = [state EXCEPT ![n] = "pending"]
          /\ extra' = [extra EXCEPT ![n] = "S"]
          /\ UNCHANGED failures
       \/ /\ n \in Participants(rows[n])
          /\ failures < MaxFailures
          /\ state' = [state EXCEPT ![n] = "failed"]
          /\ failures' = failures + 1
          /\ UNCHANGED extra
    /\ UNCHANGED <<log, cursor, rows, preparedAt, outs, crashes>>

\* Mutant: the result deduplicated per session, not per sending node.
ResultSentAnyNode(n) == \E i \in 1..Len(log) : log[i].kind = "result"

\* The trace id SESSION:id:SIGNER:node:RESULT, on which the MTG network
\* deduplicates a resent result.
ResultSent(n) == \E i \in 1..Len(log) : log[i].kind = "result" /\ log[i].from = n

\* loopPendingSessions, first step: sendSignerResultTransaction.
SendSignerResult(n) ==
    /\ state[n] = "pending"
    /\ log' = IF ResultSent(n) THEN log
              ELSE Append(log, [kind |-> "result", from |-> n, val |-> extra[n]])
    /\ UNCHANGED <<cursor, rows, preparedAt, state, extra, queued, outs, failures, crashes>>

\* loopPendingSessions, second step: MarkSessionDone once the send succeeded.
MarkSessionDone(n) ==
    /\ state[n] = "pending" /\ ResultSent(n)
    /\ state' = [state EXCEPT ![n] = "done"]
    /\ UNCHANGED <<log, cursor, rows, preparedAt, extra, queued, outs, failures, crashes>>

\* A faulty member sends a forged signature as its result, once.
ForgeResult(f) ==
    /\ f \in Faulty
    /\ ~\E i \in 1..Len(log) : log[i].kind = "result" /\ log[i].from = f /\ log[i].val = "B"
    /\ log' = Append(log, [kind |-> "result", from |-> f, val |-> "B"])
    /\ UNCHANGED <<cursor, rows, preparedAt, state, extra, queued, outs, failures, crashes>>

\* A restart loses the in-memory operations map; the store survives.
Crash(n) ==
    /\ crashes < MaxCrashes
    /\ queued' = [queued EXCEPT ![n] = FALSE]
    /\ crashes' = crashes + 1
    /\ UNCHANGED <<log, cursor, rows, preparedAt, state, extra, outs, failures>>

\* Every node has applied the whole log; the loops keep polling.
Quiescent ==
    /\ \A n \in Members : cursor[n] = Len(log)
    /\ UNCHANGED vars

Next ==
    \/ \E n \in Members :
          \/ ProcessOutput(n) \/ SendPrepare(n) \/ StartSign(n)
          \/ SendSignerResult(n) \/ MarkSessionDone(n) \/ ForgeResult(n) \/ Crash(n)
    \/ Quiescent

\* The MTG consumer and both loops poll forever, so an honest node with an
\* enabled step keeps taking steps; every kind of step is bounded (the log
\* is finite), so none of them is put off for ever.
NodeStep(n) ==
    \/ ProcessOutput(n) \/ SendPrepare(n) \/ StartSign(n)
    \/ SendSignerResult(n) \/ MarkSessionDone(n)

Fairness == \A n \in Honest : WF_vars(NodeStep(n))

Spec == Init /\ [][Next]_vars /\ Fairness

-----------------------------------------------------------------------------
(* Properties *)

\* MTG determinism of processSignerResult: two honest nodes that applied the
\* same log entry built the same keeper transaction for it, although each
\* builds it from its own local session State and Extra (its own MPC
\* outcome, or the adopted signature).
ReplicasAgree ==
    \A n1, n2 \in Honest :
        \A i \in 1..Len(outs[n1]) :
            i <= Len(outs[n2]) => outs[n1][i] = outs[n2][i]

\* No honest node holds a forged signature as its session Extra, which
\* loopPendingSessions would then send to the group as its own result: the
\* adoption in processSignerResult only follows more than threshold equal
\* results.
NoForgedAdoption ==
    \A n \in Honest : state[n] \in {"pending", "done"} => extra[n] = "S"

\* With no failed or faulty participant, every node eventually builds the
\* keeper's sign output: prepare, startSign, the result loop and the
\* adoption together complete a session.
SessionCompletes ==
    <>(\A n \in Members : \E i \in 1..Len(outs[n]) : outs[n][i] = "S")

=============================================================================
