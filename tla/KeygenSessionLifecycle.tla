------------------------ MODULE KeygenSessionLifecycle ------------------------
(***************************************************************************)
(* What a signer node's session store promises for keygen sessions        *)
(* (src/signer/node.go), seen without the MPC message layer: a session     *)
(* enters the store as Initial when the node applies the keeper's input,   *)
(* is queued at most once per process lifetime, is decided (Pending with  *)
(* its public key, or Failed) only by a node that queued it and only from *)
(* Initial, and a Pending session is reported and marked Done.  A restart  *)
(* forgets the queue.  Every session of the batch is eventually opened,   *)
(* queued, decided and, if Pending, marked Done: each node settles it.    *)
(*                                                                         *)
(* SignerKeygen implements this specification with the identity mapping   *)
(* on sstate, spub and queued; its handler rounds, channels and network    *)
(* are hidden.                                                             *)
(***************************************************************************)
CONSTANTS
    Members,    \* the signer nodes
    Sids        \* the keygen sessions

VARIABLES
    sstate,     \* sstate[n][s]: session State on node n
    spub,       \* spub[n][s]: session Public on node n
    queued      \* queued[n]: sessions in node n's operations map

vars == <<sstate, spub, queued>>

Init ==
    /\ sstate = [n \in Members |-> [s \in Sids |-> "none"]]
    /\ spub = [n \in Members |-> [s \in Sids |-> ""]]
    /\ queued = [n \in Members |-> {}]

\* processAction writes the session of a keeper input if it is not there.
Open(n, s) ==
    /\ sstate[n][s] = "none"
    /\ sstate' = [sstate EXCEPT ![n][s] = "initial"]
    /\ UNCHANGED <<spub, queued>>

\* queueOperation adds an Initial session to the operations map once.
Queue(n, s) ==
    /\ sstate[n][s] = "initial"
    /\ s \notin queued[n]
    /\ queued' = [queued EXCEPT ![n] = @ \cup {s}]
    /\ UNCHANGED <<sstate, spub>>

\* startKeygen ends in WriteKeyIfNotExists: Pending with the public key.
Finish(n, s) ==
    /\ s \in queued[n]
    /\ sstate[n][s] = "initial"
    /\ sstate' = [sstate EXCEPT ![n][s] = "pending"]
    /\ spub' = [spub EXCEPT ![n][s] = "P"]
    /\ UNCHANGED queued

\* startKeygen ends in FailSession.
Fail(n, s) ==
    /\ s \in queued[n]
    /\ sstate[n][s] = "initial"
    /\ sstate' = [sstate EXCEPT ![n][s] = "failed"]
    /\ UNCHANGED <<spub, queued>>

Decide(n, s) == Finish(n, s) \/ Fail(n, s)

\* loopPendingSessions marks a reported session Done.
Report(n, s) ==
    /\ sstate[n][s] = "pending"
    /\ sstate' = [sstate EXCEPT ![n][s] = "done"]
    /\ UNCHANGED <<spub, queued>>

\* A restart empties the in-memory operations map.
Restart(n) ==
    /\ queued' = [queued EXCEPT ![n] = {}]
    /\ UNCHANGED <<sstate, spub>>

Next ==
    \/ \E n \in Members, s \in Sids :
          Open(n, s) \/ Queue(n, s) \/ Decide(n, s) \/ Report(n, s)
    \/ \E n \in Members : Restart(n)

Spec ==
    /\ Init
    /\ [][Next]_vars
    /\ \A n \in Members, s \in Sids :
          /\ WF_vars(Open(n, s))
          /\ WF_vars(Queue(n, s))
          /\ WF_vars(Decide(n, s))
          /\ WF_vars(Report(n, s))
=============================================================================
