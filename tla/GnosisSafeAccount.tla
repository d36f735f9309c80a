--------------------------- MODULE GnosisSafeAccount ---------------------------
(***************************************************************************)
(* The Gnosis Safe account of an Ethereum-family safe                      *)
(* (src/apps/ethereum/account.go).                                         *)
(*                                                                         *)
(* BuildGnosisSafe orders the holder, signer and observer keys by their    *)
(* Ethereum addresses (GetSortedSafeOwners) and derives the CREATE2        *)
(* address of the 2-of-3 proxy from the sorted owners                      *)
(* (GetSafeAccountAddress), together with the transaction that enables    *)
(* the time-lock guard on that address.  GetOrDeploySafeAccount then asks *)
(* an RPC node whether the proxy and its guard exist                       *)
(* (CheckSafeAccountDeployed, GetSafeAccountGuard), deploys the proxy      *)
(* (DeploySafeAccount) and executes the guard transaction, each step       *)
(* returning an error the caller retries on.                               *)
(*                                                                         *)
(* A public key is a model value and ParseEthereumCompressedPublicKey an  *)
(* injective map of the keys to addresses 1..N, ordered as                 *)
(* common.Address.Cmp orders them.  A contract address is the pair of the *)
(* owners in the order the initializer encodes them and the threshold:    *)
(* CREATE2 over keccak is taken as collision free.  The RPC node reports   *)
(* the chain as of its last sync.                                          *)
(***************************************************************************)
EXTENDS Integers, Sequences, SequencesExt, FiniteSets, TLC

CONSTANTS
    Keys,           \* compressed secp256k1 public keys
    MaxFailures,    \* bound on failed RPC calls
    NoSafe          \* BuildGnosisSafe has not returned a safe

Addrs == 1..Cardinality(Keys)
\* The slot of pubs that no key was written to.
NoKey == "nokey"
\* The threshold BuildGnosisSafe derives the address with.
SafeThreshold == 2
\* GetSafeAccountGuard's results: no contract code, the zero guard
\* (EthereumEmptyAddress), or a guard contract.
NoCode == "nocode"
EmptyGuard == "empty"
Guard == "guard"

Seq3(S) == [1..3 -> S]
SafeAddr == [owners : Seq3(Addrs), threshold : {SafeThreshold}]

VARIABLES
    addr,       \* addr[k]: ParseEthereumCompressedPublicKey(k)
    input,      \* <<holder, signer, observer>> passed to BuildGnosisSafe
    safe,       \* the GnosisSafe and guard transaction BuildGnosisSafe returned
    deployed,   \* proxy contracts on the chain
    guarded,    \* proxies whose guard is enabled
    view,       \* the RPC node's chain as of its last sync
    pc,         \* "build", "rejected", or where GetOrDeploySafeAccount is
    arg,        \* the owners slice the call holds
    found,      \* the isGuarded, isDeployed answer of CheckSafeAccountDeployed
    result,     \* the address GetOrDeploySafeAccount returned
    failures

vars == <<addr, input, safe, deployed, guarded, view, pc, arg, found, result,
          failures>>

TypeOK ==
    /\ addr \in [Keys -> Addrs]
    /\ input \in Seq3(Keys)
    /\ safe \in [owners : Seq3(Addrs), pubs : Seq3(Keys \cup {NoKey}),
                 address : SafeAddr, guardTx : SafeAddr] \cup {NoSafe}
    /\ deployed \subseteq SafeAddr /\ guarded \subseteq SafeAddr
    /\ view \in [deployed : SUBSET SafeAddr, guarded : SUBSET SafeAddr]
    /\ pc \in {"build", "rejected", "idle", "check", "deploy", "guard", "done"}
    /\ arg \in Seq3(Addrs) \cup {<< >>}
    /\ found \in [isGuarded : BOOLEAN, isDeployed : BOOLEAN]
    /\ result \in SafeAddr \cup {NoSafe}
    /\ failures \in 0..MaxFailures

-----------------------------------------------------------------------------
(* GetSortedSafeOwners and GetSafeAccountAddress                           *)

LessAddr(a, b) == a < b

\* Mutant: the keys are returned in the order they were passed.
SortedPubsUnsorted(keys) == keys

\* addressMap: the index of each address in the sorted owners; a repeated
\* address keeps the last index the loop wrote.
AddressIndex(owners) ==
    [a \in ToSet(owners) |-> CHOOSE i \in 1..3 :
        owners[i] = a /\ \A j \in i+1..3 : owners[j] # a]

\* GetSortedSafeOwners: the owners sorted by address, then every key
\* written to the slot of its address, in holder, signer, observer order.
SortedOwners(keys) == SortSeq([i \in 1..3 |-> addr[keys[i]]], LessAddr)

SortedPubs(keys) ==
    LET idx == AddressIndex(SortedOwners(keys))
    IN  FoldLeft(LAMBDA p, k : [p EXCEPT ![idx[addr[k]]] = k],
                 <<NoKey, NoKey, NoKey>>, keys)

\* GetSafeAccountAddress: CREATE2 over the initializer of the owners, which
\* it first sorts in place.
SafeAccountAddress(owners, threshold) ==
    [owners |-> SortSeq(owners, LessAddr), threshold |-> threshold]

\* Mutant: the owners are sorted into a copy, leaving the caller's slice
\* in its own order.
SortInPlaceCopy(owners) == owners

\* The caller's slice after GetSafeAccountAddress returns.
SortInPlace(owners) == SortSeq(owners, LessAddr)

\* Mutant: the initializer packs the threshold one too high.
ProxyAddressThresholdOff(owners, threshold) ==
    [owners |-> owners, threshold |-> threshold + 1]

\* The proxy CreateProxyWithNonce creates: the initializer encodes the
\* owners in slice order.
ProxyAddress(owners, threshold) == [owners |-> owners, threshold |-> threshold]

-----------------------------------------------------------------------------

Init ==
    /\ addr \in {f \in [Keys -> Addrs] : \A j, k \in Keys : f[j] = f[k] => j = k}
    /\ input \in Seq3(Keys)
    /\ safe = NoSafe
    /\ deployed = {} /\ guarded = {}
    /\ view = [deployed |-> {}, guarded |-> {}]
    /\ pc = "build"
    /\ arg = << >>
    /\ found = [isGuarded |-> FALSE, isDeployed |-> FALSE]
    /\ result = NoSafe
    /\ failures = 0

Fail == failures < MaxFailures /\ failures' = failures + 1

\* BuildGnosisSafe: the owners and the safe address; the time lock out of
\* range or CreateEnableGuardTransaction failing returns an error and no
\* safe, so the proposal is never deployed.
BuildGnosisSafe ==
    /\ pc = "build"
    /\ LET owners == SortedOwners(input)
           address == SafeAccountAddress(owners, SafeThreshold)
       IN  \/ /\ safe' = [owners |-> owners, pubs |-> SortedPubs(input),
                            address |-> address, guardTx |-> address]
              /\ pc' = "idle"
           \/ /\ pc' = "rejected"
              /\ UNCHANGED safe
    /\ UNCHANGED <<addr, input, deployed, guarded, view, arg, found, result,
                   failures>>

\* GetOrDeploySafeAccount is called with the safe's owners in the order the
\* caller holds them; GetSafeAccountAddress sorts that slice.
CallGetOrDeploy ==
    /\ pc = "idle"
    /\ \E order \in Permutations(1..3) :
          arg' = SortInPlace([i \in 1..3 |-> safe.owners[order[i]]])
    /\ pc' = "check"
    /\ UNCHANGED <<addr, input, safe, deployed, guarded, view, found, result, failures>>

\* The address GetOrDeploySafeAccount works on.
Target == SafeAccountAddress(arg, SafeThreshold)

\* GetSafeAccountGuard on the RPC node's view of the chain.
GuardOf(v, a) ==
    CASE a \notin v.deployed -> NoCode
      [] a \notin v.guarded  -> EmptyGuard
      [] OTHER               -> Guard

\* Mutant: a proxy with the empty guard is taken as guarded.
DeployedCheckEmptyGuarded(g) ==
    [isGuarded |-> g # NoCode, isDeployed |-> g # NoCode]

\* CheckSafeAccountDeployed: "" is neither, the empty guard is deployed but
\* unguarded, and any other guard is both.
DeployedCheck(g) ==
    [isGuarded |-> g = Guard, isDeployed |-> g # NoCode]

\* An error of GetOrDeploySafeAccount: the call returns and is retried.
ReturnError == pc' = "idle" /\ arg' = << >>

CheckSafeAccountDeployed ==
    /\ pc = "check"
    /\ \/ /\ found' = DeployedCheck(GuardOf(view, Target))
          /\ pc' = IF found'.isDeployed THEN "guard" ELSE "deploy"
          /\ UNCHANGED <<arg, failures>>
       \/ /\ Fail
          /\ ReturnError
          /\ UNCHANGED found
    /\ UNCHANGED <<addr, input, safe, deployed, guarded, view, result>>

\* DeploySafeAccount: CreateProxyWithNonce reverts in gas estimation when
\* the proxy exists; otherwise it is mined, and WaitMined may still fail.
DeploySafeAccount ==
    /\ pc = "deploy"
    /\ LET p == ProxyAddress(arg, SafeThreshold) IN
       \/ /\ p \notin deployed
          /\ deployed' = deployed \cup {p}
          /\ pc' = "guard"
          /\ UNCHANGED <<arg, failures>>
       \/ /\ p \notin deployed
          /\ Fail
          /\ deployed' = deployed \cup {p}
          /\ ReturnError
       \/ /\ p \in deployed
          /\ ReturnError
          /\ UNCHANGED <<deployed, failures>>
       \/ /\ Fail
          /\ ReturnError
          /\ UNCHANGED deployed
    /\ UNCHANGED <<addr, input, safe, guarded, view, found, result>>

\* The guard transaction's ExecTransaction: enableGuard runs on a deployed
\* proxy whose guard is not set; it reverts otherwise.  A mined
\* transaction may still be reported as an error.
ExecGuardTransaction ==
    /\ pc = "guard"
    /\ IF found.isGuarded
       THEN /\ pc' = "done" /\ result' = Target
            /\ UNCHANGED <<guarded, arg, failures>>
       ELSE LET t == safe.guardTx IN
            \/ /\ t \in deployed \ guarded
               /\ guarded' = guarded \cup {t}
               /\ pc' = "done" /\ result' = Target
               /\ UNCHANGED <<arg, failures>>
            \/ /\ t \in deployed \ guarded
               /\ Fail
               /\ guarded' = guarded \cup {t}
               /\ ReturnError
               /\ UNCHANGED result
            \/ /\ t \notin deployed \ guarded
               /\ ReturnError
               /\ UNCHANGED <<guarded, result, failures>>
            \/ /\ Fail
               /\ ReturnError
               /\ UNCHANGED <<guarded, result>>
    /\ UNCHANGED <<addr, input, safe, deployed, view, found>>

\* The RPC node syncs to the chain.
SyncNode ==
    /\ view # [deployed |-> deployed, guarded |-> guarded]
    /\ view' = [deployed |-> deployed, guarded |-> guarded]
    /\ UNCHANGED <<addr, input, safe, deployed, guarded, pc, arg, found, result, failures>>

Next ==
    \/ BuildGnosisSafe
    \/ CallGetOrDeploy
    \/ CheckSafeAccountDeployed
    \/ DeploySafeAccount
    \/ ExecGuardTransaction
    \/ SyncNode

Spec == Init /\ [][Next]_vars

-----------------------------------------------------------------------------
(* Properties *)

Built == safe # NoSafe

\* GetSortedSafeOwners returns the owner addresses in ascending order and
\* pubs in the same order: the key in slot i has the address of owner i,
\* and when the holder, signer and observer keys differ every one of them
\* is in a slot.  (A repeated key leaves a slot empty: addressMap holds one
\* index per address.)
OwnersMatchPubs ==
    Built =>
        /\ IsSorted(safe.owners, LAMBDA a, b : a <= b)
        /\ \A i \in 1..3 : safe.pubs[i] # NoKey => addr[safe.pubs[i]] = safe.owners[i]
        /\ Cardinality(ToSet(input)) = 3 => ToSet(safe.pubs) = ToSet(input)

\* Every proxy GetOrDeploySafeAccount creates is at the address
\* BuildGnosisSafe derived for the safe, whatever order the caller passes
\* the owners in: DeploySafeAccount encodes the slice that
\* GetSafeAccountAddress sorted in place.
NoStrayDeployment ==
    deployed \subseteq (IF Built THEN {safe.address} ELSE {})

\* When GetOrDeploySafeAccount returns an address, it is the safe's, and
\* that proxy is deployed with its guard enabled, through deploy and guard
\* calls that fail after being mined, retries, and an RPC node that lags
\* the chain.
ReturnedSafeGuarded ==
    pc = "done" => /\ result = safe.address
                   /\ result \in deployed \cap guarded

=============================================================================
