----------------------------- MODULE SignerKeygen -----------------------------
(***************************************************************************)
(* A keygen batch from the keeper's request to the keygen outputs of the   *)
(* signer group.                                                           *)
(*                                                                         *)
(* Keeper side (src/keeper/store/safe.go, sendSignerKeygenRequest): one    *)
(* keeper input per session of the batch, each with the id derived from   *)
(* the request id and its index, then FinishRequest.  A crash inside the   *)
(* loop replays the request; MTG keeps one transaction per trace id.       *)
(*                                                                         *)
(* Signer side (src/signer/node.go): every node applies the shared MTG log *)
(* (ProcessOutput), runs startKeygen for its Initial sessions              *)
(* (loopInitialSessions, queueOperation), reports its public key           *)
(* (loopPendingSessions) and, once every member reported the key it holds  *)
(* itself, builds the keeper's keygen output (processSignerResult,         *)
(* verifySessionSignerResults, buildKeeperTransaction).                    *)
(*                                                                         *)
(* The MPC message layer is modelled: acceptIncomingMessages, getSession, *)
(* handlerLoop with its expired reply and timeout, and restarts losing the *)
(* in-memory channels.  The protocol is abstracted to Rounds rounds of one *)
(* message per peer, whose completion yields the public key "P".          *)
(***************************************************************************)
EXTENDS Integers, Sequences, FiniteSets

CONSTANTS
    Members,      \* the signer group's Genesis members
    Batch,        \* batch size of the keeper's ObserverRequestSignerKeys request
    MaxFailures,  \* bound on failed keygen runs
    MaxCrashes,   \* bound on signer restarts
    MaxKeeperCrashes,
    MaxShortages, \* bound on keeper-asset shortages in buildKeeperTransaction
    Rounds        \* message rounds of the keygen protocol

Sids == 1..Batch
States == {"none", "initial", "pending", "done", "failed"}
Pubs == {"", "P"}
\* Round numbers: the first message round (MPCFirstMessageRound) and 0 for
\* the reply whose SSID is the session id.
FirstRound == 1
Expired == 0
\* A message carries the restart count at which it was made: a restarted
\* signer runs the protocol afresh, and its messages differ from the ones
\* its earlier run left on the network.
Msg == [from : Members, to : Members, sid : Sids, rnd : 0..Rounds,
        inc : 0..MaxCrashes]
Entry == [kind : {"input"}, sid : Sids] \cup
         [kind : {"result"}, sid : Sids, from : Members, pub : Pubs]

VARIABLES
    kState,     \* the keeper request's State
    kNext,      \* the keeper handler's loop index
    log,        \* the signer group's MTG log
    cursor,     \* cursor[n]: entries of log node n has applied
    sstate,     \* sstate[n][s]: session State on node n
    spub,       \* spub[n][s]: session Public on node n
    rows,       \* rows[n][s][m]: the public member m reported, as node n stored it
    queued,     \* queued[n]: the operations map of node n (in memory)
    outs,       \* outs[n]: sessions whose keygen output node n built, in order
    run,        \* run[n][s]: the round the handlerLoop of s on n waits for, 0 if none
    chan,       \* chan[n][s]: the buffered messages of getSession(s) on n
    net,        \* messages queued on the signer network
    failures, crashes, kCrashes, shortages

vars == <<kState, kNext, log, cursor, sstate, spub, rows, queued, outs,
          run, chan, net, failures, crashes, kCrashes, shortages>>

TypeOK ==
    /\ kState \in {"initial", "done"}
    /\ kNext \in 0..Batch
    /\ log \in Seq(Entry)
    /\ cursor \in [Members -> 0..Len(log)]
    /\ sstate \in [Members -> [Sids -> States]]
    /\ spub \in [Members -> [Sids -> Pubs]]
    /\ rows \in [Members -> [Sids -> [Members -> {"none"} \cup Pubs]]]
    /\ queued \in [Members -> SUBSET Sids]
    /\ outs \in [Members -> Seq(Sids)]
    /\ run \in [Members -> [Sids -> 0..Rounds]]
    /\ chan \in [Members -> [Sids -> SUBSET [from : Members, rnd : 0..Rounds]]]
    /\ net \subseteq Msg
    /\ failures \in 0..MaxFailures
    /\ crashes \in 0..MaxCrashes
    /\ kCrashes \in 0..MaxKeeperCrashes
    /\ shortages \in 0..MaxShortages

Init ==
    /\ kState = "initial"
    /\ kNext = 0
    /\ log = << >>
    /\ cursor = [n \in Members |-> 0]
    /\ sstate = [n \in Members |-> [s \in Sids |-> "none"]]
    /\ spub = [n \in Members |-> [s \in Sids |-> ""]]
    /\ rows = [n \in Members |-> [s \in Sids |-> [m \in Members |-> "none"]]]
    /\ queued = [n \in Members |-> {}]
    /\ outs = [n \in Members |-> << >>]
    /\ run = [n \in Members |-> [s \in Sids |-> 0]]
    /\ chan = [n \in Members |-> [s \in Sids |-> {}]]
    /\ net = {}
    /\ failures = 0
    /\ crashes = 0
    /\ kCrashes = 0
    /\ shortages = 0

InLog(e) == \E i \in 1..Len(log) : log[i] = e

\* A transaction with trace id already in the group is not built again.
AppendOnce(e) == log' = IF InLog(e) THEN log ELSE Append(log, e)

-----------------------------------------------------------------------------
(* Keeper *)

\* Mutant: the loop runs one session past the batch (i <= batch).
BatchEndLong == Batch + 1

\* for i := 0; i < batch; i++
BatchEnd == Batch

\* One iteration of the batch loop: buildSignerTransaction for session
\* kNext + 1, whose id depends only on the request id and the index.
KeeperBuildSignerTransaction ==
    /\ kState = "initial"
    /\ kNext < BatchEnd
    /\ AppendOnce([kind |-> "input", sid |-> kNext + 1])
    /\ kNext' = kNext + 1
    /\ UNCHANGED <<kState, cursor, sstate, spub, rows, queued, outs, run, chan, net, failures,
                   crashes, kCrashes, shortages>>

\* FinishRequest after the loop.
KeeperFinishRequest ==
    /\ kState = "initial"
    /\ kNext >= BatchEnd
    /\ kState' = "done"
    /\ UNCHANGED <<kNext, log, cursor, sstate, spub, rows, queued, outs, run, chan, net,
                   failures, crashes, kCrashes, shortages>>

\* The keeper dies inside the handler, or buildSignerTransaction returns an
\* error; the request is still Initial and is
\* handled again from the first session.
KeeperCrash ==
    /\ kState = "initial"
    /\ kNext > 0
    /\ kCrashes < MaxKeeperCrashes
    /\ kNext' = 0
    /\ kCrashes' = kCrashes + 1
    /\ UNCHANGED <<kState, log, cursor, sstate, spub, rows, queued, outs, run, chan, net,
                   failures, crashes, shortages>>

-----------------------------------------------------------------------------
(* Signer nodes *)

\* Mutant: one member fewer than the whole group is enough.
VerifyKeygenAllButOne(n, s, r) ==
    Cardinality({m \in Members : r[m] = spub[n][s] /\ r[m] = r[n]}) >= Cardinality(Members) - 1

\* verifySessionSignerResults for a keygen session: every Genesis member
\* reported the public key this node holds for the session.
VerifyKeygenResults(n, s, r) ==
    \A m \in Members : r[m] = spub[n][s] /\ r[m] = r[n]

\* processAction for a keeper keygen input: WriteSessionIfNotExist.
ProcessKeygenInput(n, e) ==
    /\ sstate' = [sstate EXCEPT ![n][e.sid] =
                     IF @ = "none" THEN "initial" ELSE @]
    /\ cursor' = [cursor EXCEPT ![n] = @ + 1]
    /\ UNCHANGED <<spub, rows, outs, shortages>>

\* buildKeeperTransaction for the keygen output: the output is built, or
\* the keeper asset is short and the action is handed back to MTG, which
\* delivers it again.
BuildKeeperTransaction(n, s) ==
    \/ /\ cursor' = [cursor EXCEPT ![n] = @ + 1]
       /\ outs' = [outs EXCEPT ![n] = Append(@, s)]
       /\ UNCHANGED shortages
    \/ /\ shortages < MaxShortages
       /\ shortages' = shortages + 1
       /\ UNCHANGED <<cursor, outs>>

\* processSignerResult for a keygen session: WriteSessionSignerIfNotExist,
\* then the keygen output once the results agree.
ProcessKeygenResult(n, e) ==
    LET s == e.sid
        r == [rows[n][s] EXCEPT ![e.from] = IF @ = "none" THEN e.pub ELSE @]
    IN  /\ rows' = [rows EXCEPT ![n][s] = r]
        /\ UNCHANGED <<sstate, spub>>
        /\ IF VerifyKeygenResults(n, s, r)
           THEN BuildKeeperTransaction(n, s)
           ELSE /\ cursor' = [cursor EXCEPT ![n] = @ + 1]
                /\ UNCHANGED <<outs, shortages>>

\* ProcessOutput of the next log entry.
ProcessOutput(n) ==
    /\ cursor[n] < Len(log)
    /\ LET e == log[cursor[n] + 1]
       IN  IF e.kind = "input" THEN ProcessKeygenInput(n, e)
           ELSE ProcessKeygenResult(n, e)
    /\ UNCHANGED <<kState, kNext, log, queued, run, chan, net, failures, crashes, kCrashes>>

\* Mutant: a failed keygen run returns its error without FailSession.
FailSessionSkipped(n, s) == UNCHANGED sstate

\* store.FailSession: the session is Failed on this node.
FailSession(n, s) == sstate' = [sstate EXCEPT ![n][s] = "failed"]

\* The round-r messages node n's handler sends to its peers for session s.
RoundMsgs(n, s, r) ==
    {[from |-> n, to |-> m, sid |-> s, rnd |-> r, inc |-> crashes] :
        m \in Members \ {n}}

\* The handler of (n, s) holds a round-r message of every peer.
RoundComplete(n, s, r) ==
    \A m \in Members \ {n} : [from |-> m, rnd |-> r] \in chan[n][s]

\* queueOperation: an operation already in the operations map is skipped;
\* otherwise it is marked and startOperation runs startKeygen, whose
\* handlerLoop sends the first round.  base is the network after the
\* caller's own step.
QueueOperation(n, s, base) ==
    IF s \in queued[n]
    THEN /\ net' = base
         /\ UNCHANGED <<queued, run>>
    ELSE /\ queued' = [queued EXCEPT ![n] = @ \cup {s}]
         /\ run' = [run EXCEPT ![n][s] = FirstRound]
         /\ net' = base \cup RoundMsgs(n, s, FirstRound)

\* loopInitialSessions: an Initial session of the store is queued.
StartKeygen(n) ==
    \E s \in Sids :
        /\ sstate[n][s] = "initial"
        /\ s \notin queued[n]
        /\ QueueOperation(n, s, net)
        /\ UNCHANGED <<kState, kNext, log, cursor, sstate, spub, rows, outs,
                       chan, failures, crashes, kCrashes, shortages>>

\* Mutant: a first-round message queues the session in any state.
OnFirstRoundAnyState(n, msg, rest) ==
    IF msg.rnd # FirstRound \/ sstate[n][msg.sid] = "none"
    THEN /\ net' = rest
         /\ UNCHANGED <<queued, run>>
    ELSE QueueOperation(n, msg.sid, rest)

\* acceptIncomingMessages after the push: a first-round message reads the
\* session; none is skipped, Initial is queued, and any other state
\* answers the sender with a message whose SSID is the session id.
OnFirstRound(n, msg, rest) ==
    CASE msg.rnd # FirstRound \/ sstate[n][msg.sid] = "none" ->
             /\ net' = rest
             /\ UNCHANGED <<queued, run>>
      [] sstate[n][msg.sid] = "initial" ->
             QueueOperation(n, msg.sid, rest)
      [] OTHER ->
             /\ net' = rest \cup {[from |-> n, to |-> msg.from, sid |-> msg.sid,
                                   rnd |-> Expired, inc |-> crashes]}
             /\ UNCHANGED <<queued, run>>

\* acceptIncomingMessages: a message for n from its sender is pushed into
\* getSession(sid), created on demand, then OnFirstRound.
AcceptIncomingMessages(n) ==
    \E msg \in net :
        /\ msg.to = n
        /\ chan' = [chan EXCEPT ![n][msg.sid] =
                        @ \cup {[from |-> msg.from, rnd |-> msg.rnd]}]
        /\ OnFirstRound(n, msg, net \ {msg})
        /\ UNCHANGED <<kState, kNext, log, cursor, sstate, spub, rows, outs,
                       failures, crashes, kCrashes, shortages>>

\* handlerLoop returns an error and startKeygen fails the session.
KeygenFailed(n, s) ==
    /\ run' = [run EXCEPT ![n][s] = 0]
    /\ FailSession(n, s)
    /\ UNCHANGED <<net, chan, spub, failures>>

\* Mutant: handlerLoop without its time.After case.
HandlerTimeoutNever(n, s, r) == FALSE

\* time.After in handlerLoop: the round cannot complete and the handler
\* returns a timeout error.
HandlerTimeout(n, s, r) ==
    /\ ~RoundComplete(n, s, r)
    /\ KeygenFailed(n, s)

\* handlerLoop for session s of node n, one select case per disjunct:
\* an incoming message whose SSID is the session id ends it as expired;
\* the messages of every peer for the current round let the handler send
\* the next round or return the result; time.After ends it with a timeout
\* when the round cannot complete.  The result goes to sendKeygenBackup,
\* whose failure also fails the session, and then WriteKeyIfNotExists
\* makes the session Pending with its public key.
HandlerLoop(n) ==
    \E s \in Sids :
        /\ run[n][s] # 0
        /\ LET r == run[n][s] IN
           \/ /\ \E m \in Members : [from |-> m, rnd |-> Expired] \in chan[n][s]
              /\ KeygenFailed(n, s)
           \/ /\ RoundComplete(n, s, r)
              /\ chan' = [chan EXCEPT ![n][s] =
                              @ \ {[from |-> m, rnd |-> r] : m \in Members}]
              /\ IF r < Rounds
                 THEN /\ run' = [run EXCEPT ![n][s] = r + 1]
                      /\ net' = net \cup RoundMsgs(n, s, r + 1)
                      /\ UNCHANGED <<sstate, spub, failures>>
                 ELSE /\ run' = [run EXCEPT ![n][s] = 0]
                      /\ UNCHANGED net
                      /\ \/ /\ sstate' = [sstate EXCEPT ![n][s] = "pending"]
                            /\ spub' = [spub EXCEPT ![n][s] =
                                            IF @ = "" THEN "P" ELSE @]
                            /\ UNCHANGED failures
                         \/ /\ failures < MaxFailures
                            /\ FailSession(n, s)
                            /\ failures' = failures + 1
                            /\ UNCHANGED spub
           \/ HandlerTimeout(n, s, r)
        /\ UNCHANGED <<kState, kNext, log, cursor, rows, queued, outs,
                       crashes, kCrashes, shortages>>

\* loopPendingSessions: sendSignerResultTransaction with the public key as
\* extra and the per-node trace id.
SendSignerResult(n) ==
    \E s \in Sids :
        /\ sstate[n][s] = "pending"
        /\ ~InLog([kind |-> "result", sid |-> s, from |-> n, pub |-> spub[n][s]])
        /\ log' = Append(log, [kind |-> "result", sid |-> s, from |-> n, pub |-> spub[n][s]])
        /\ UNCHANGED <<kState, kNext, cursor, sstate, spub, rows, queued, outs, run, chan, net,
                       failures, crashes, kCrashes, shortages>>

\* loopPendingSessions: MarkSessionDone once the result is sent.
MarkSessionDone(n) ==
    \E s \in Sids :
        /\ sstate[n][s] = "pending"
        /\ InLog([kind |-> "result", sid |-> s, from |-> n, pub |-> spub[n][s]])
        /\ sstate' = [sstate EXCEPT ![n][s] = "done"]
        /\ UNCHANGED <<kState, kNext, log, cursor, spub, rows, queued, outs, run, chan, net,
                       failures, crashes, kCrashes, shortages>>

\* A signer restarts and loses its operations and sessions maps and the
\* running handlers; its store and the messages in flight survive.
Crash(n) ==
    /\ crashes < MaxCrashes
    /\ queued' = [queued EXCEPT ![n] = {}]
    /\ run' = [run EXCEPT ![n] = [s \in Sids |-> 0]]
    /\ chan' = [chan EXCEPT ![n] = [s \in Sids |-> {}]]
    /\ crashes' = crashes + 1
    /\ UNCHANGED <<kState, kNext, log, cursor, sstate, spub, rows, outs,
                   net, failures, kCrashes, shortages>>

NodeStep(n) ==
    \/ ProcessOutput(n)
    \/ StartKeygen(n)
    \/ AcceptIncomingMessages(n)
    \/ HandlerLoop(n)
    \/ SendSignerResult(n)
    \/ MarkSessionDone(n)

KeeperStep ==
    \/ KeeperBuildSignerTransaction
    \/ KeeperFinishRequest

\* Everything is done: the system idles.
Quiescent ==
    /\ kState = "done"
    /\ \A n \in Members : ~ENABLED NodeStep(n)
    /\ UNCHANGED vars

Next ==
    \/ KeeperStep
    \/ KeeperCrash
    \/ \E n \in Members : NodeStep(n) \/ Crash(n)
    \/ Quiescent

\* The keeper consumes its requests and every signer's MTG consumer and
\* session loops poll forever.
Fairness ==
    /\ WF_vars(KeeperStep)
    /\ \A n \in Members : WF_vars(NodeStep(n))

Spec == Init /\ [][Next]_vars /\ Fairness

-----------------------------------------------------------------------------
(* Properties *)

\* Two signers that have applied the same prefix of the MTG log have built
\* the same keygen outputs, although the check before each output reads the
\* node's own session public key, which its own keygen run writes outside
\* the log, and the shortage path hands actions back to MTG.
ReplicasAgree ==
    \A n, m \in Members : cursor[n] = cursor[m] => outs[n] = outs[m]

\* Every session of the batch is eventually either output by every signer
\* or failed on some signer: a keygen session never hangs silently through
\* restarts and keeper-asset shortages.
KeygenDecided ==
    \A s \in Sids :
        <>( (\A n \in Members : \E i \in 1..Len(outs[n]) : outs[n][i] = s)
            \/ (\E n \in Members : sstate[n][s] = "failed") )

\* A session some signer has output is failed on no signer: a node whose
\* key share is written answers a restarted peer's first-round message
\* with an expired reply (acceptIncomingMessages) instead of running the
\* protocol again, through restarts and duplicated rounds on the network.
OutputNeverFailed ==
    \A s \in Sids :
        (\E n \in Members : \E i \in 1..Len(outs[n]) : outs[n][i] = s)
            => \A m \in Members : sstate[m][s] # "failed"

\* The session store of every node follows the keygen session lifecycle
\* (KeygenSessionLifecycle): the message layer, handlerLoop and restarts
\* only queue Initial sessions once, decide a session only on a node that
\* queued it and only from Initial, and every node eventually opens,
\* queues and decides every session of the batch and marks it Done if it
\* holds the key: a handlerLoop left waiting for messages a restarted peer
\* lost ends in its timeout.
Lifecycle == INSTANCE KeygenSessionLifecycle
                 WITH Members <- Members, Sids <- Sids,
                      sstate <- sstate, spub <- spub, queued <- queued

LifecycleSpec == Lifecycle!Spec

=============================================================================
