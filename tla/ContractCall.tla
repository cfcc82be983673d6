----------------------------- MODULE ContractCall -----------------------------
(***************************************************************************)
(* BoundContract.Call (accounts/abi/bind/base.go:169-249) by several       *)
(* callers while the chain advances.                                       *)
(*                                                                         *)
(* Call makes up to two backend calls: the contract call itself, and, when *)
(* it returned no data, a code lookup to tell "no contract" (ErrNoCode)    *)
(* from "empty result".  Each is one step; between them the chain may      *)
(* grow and a deployment may enter the pending state.  The state a call    *)
(* reads is selected by opts: the pending state, a block hash, an explicit *)
(* block number, or (BlockNumber nil) the latest block.                    *)
(*                                                                         *)
(* Only whether the contract has code matters to Call's control flow, so a *)
(* state is that one boolean: chain[i] for block i, pending for the        *)
(* pending state.  A call to a contract with code returns data exactly     *)
(* when the method declares outputs (HasOutputs).                          *)
(***************************************************************************)
EXTENDS Integers, Sequences, SequencesExt

CONSTANTS
    Callers,
    CallKinds,     \* subset of {"pending", "hash", "number", "latest"}
    HasPending,    \* callers whose backend implements PendingContractCaller
    HasBlockHash,  \* callers whose backend implements BlockHashContractCaller
    HasOutputs,    \* the called method declares return values
    MaxHeight,     \* bound on the chain's length
    None

VARIABLES
    chain,     \* chain[i]: the contract has code in block i
    pending,   \* the contract has code in the pending state
    call       \* call[c]: [pc, kind, block, at, err] of c's Call

vars == <<chain, pending, call>>

\* Whether the contract has code in the state a Call of this kind reads,
\* at the moment it reads it.  hash and number pin a block; latest and
\* pending name whatever the backend holds then.
StateCode(kind, b) ==
    CASE kind = "pending"            -> pending
      [] kind \in {"hash", "number"} -> chain[b]
      [] kind = "latest"             -> Last(chain)

\* The blocks a call of this kind may name: any existing one for a hash or
\* an explicit number; the head for latest (pending names no block).
Targets(kind) ==
    IF kind \in {"hash", "number"} THEN 1..Len(chain) ELSE {Len(chain)}

Init ==
    /\ chain = <<FALSE>>
    /\ pending = FALSE
    /\ call \in [Callers -> [pc : {"start"}, kind : CallKinds, block : {1},
                              at : {None}, err : {None}]]

(* Environment: a deployment of the contract enters the pending state.    *)
Deploy ==
    /\ ~pending
    /\ pending' = TRUE
    /\ UNCHANGED <<chain, call>>

(* Environment: a block is mined, carrying the pending state.             *)
Mine ==
    /\ Len(chain) < MaxHeight
    /\ chain' = Append(chain, pending)
    /\ UNCHANGED <<pending, call>>

Done(c, e) == call' = [call EXCEPT ![c].pc = "done", ![c].err = e]

\* Unpack of the output (base.go:241-248): empty data cannot be unpacked
\* into declared outputs ("abi: attempting to unmarshall an empty string").
UnpackEmpty == IF HasOutputs THEN "ErrUnpack" ELSE None

CallContractAlwaysProbe(c) ==
    LET k == call[c].kind IN
    /\ call[c].pc = "start"
    /\ \/ k = "pending" /\ c \notin HasPending /\ Done(c, "ErrNoPendingState")
       \/ k = "hash" /\ c \notin HasBlockHash /\ Done(c, "ErrNoBlockHashState")
       \/ /\ k = "pending" => c \in HasPending
          /\ k = "hash" => c \in HasBlockHash
          /\ \/ Done(c, "rpc")
             \/ \E b \in Targets(k) :
                  call' = [call EXCEPT ![c].pc = "probe", ![c].block = b,
                                       ![c].at = StateCode(k, b)]
    /\ UNCHANGED <<chain, pending>>

(* ACTION CallContract: the capability check and the first backend call   *)
(* of the path opts selects (base.go:190-232).  Data comes back when the *)
(* contract has code and the method has outputs; then Call unpacks it and *)
(* returns.                                                               *)
CallContract(c) ==
    LET k == call[c].kind IN
    /\ call[c].pc = "start"
    /\ \/ k = "pending" /\ c \notin HasPending /\ Done(c, "ErrNoPendingState")
       \/ k = "hash" /\ c \notin HasBlockHash /\ Done(c, "ErrNoBlockHashState")
       \/ /\ k = "pending" => c \in HasPending
          /\ k = "hash" => c \in HasBlockHash
          /\ \/ Done(c, "rpc")
             \/ \E b \in Targets(k) :
                  LET at == StateCode(k, b) IN
                  call' = [call EXCEPT ![c].pc = IF at /\ HasOutputs THEN "done"
                                                 ELSE "probe",
                                       ![c].block = b, ![c].at = at]
    /\ UNCHANGED <<chain, pending>>

CodeAtLatest(c) == Last(chain)

\* The code lookup of the path (PendingCodeAt, CodeAtHash, CodeAt with
\* opts.BlockNumber), made after the call returned no data.
CodeAt(c) == StateCode(call[c].kind, call[c].block)

(* ACTION ProbeCode: the second backend call and what follows it          *)
(* (base.go:200-206, 218-224, 232-238, 241-248).                          *)
ProbeCode(c) ==
    /\ call[c].pc = "probe"
    /\ \/ Done(c, "rpc")
       \/ Done(c, IF CodeAt(c) THEN UnpackEmpty ELSE "ErrNoCode")
    /\ UNCHANGED <<chain, pending>>

Next ==
    \/ Deploy
    \/ Mine
    \/ \E c \in Callers : CallContract(c) \/ ProbeCode(c)

Spec == Init /\ [][Next]_vars

-----------------------------------------------------------------------------

TypeOK ==
    /\ chain \in Seq(BOOLEAN) /\ 1 <= Len(chain) /\ Len(chain) <= MaxHeight
    /\ pending \in BOOLEAN
    /\ \A c \in Callers :
         /\ call[c].pc \in {"start", "probe", "done"}
         /\ call[c].kind \in CallKinds
         /\ call[c].block \in 1..Len(chain)
         \* Call only looks the code up when the call returned no data.
         /\ call[c].pc = "probe" => ~(call[c].at /\ HasOutputs)

\* Call is answered from the state it executed against.
\* ErrNoCode means the contract had no code there, and a call that found no
\* code reports ErrNoCode. A backend failure or a missing capability is
\* exempt from this.
NoCodeReported(c) ==
    call[c].pc = "done" /\ call[c].err \notin {"rpc", "ErrNoPendingState",
                                               "ErrNoBlockHashState"}
    => (call[c].err = "ErrNoCode" <=> ~call[c].at)

\* For a call pinned to a block (a hash or an explicit number), the code
\* lookup reads the same block as the call. So the outcome is the one that
\* block determines, however far the chain has moved in between.
\* This covers CallContractAtHash / CodeAtHash and CallContract / CodeAt
\* with opts.BlockNumber (base.go:211-238).
PinnedCallConsistent ==
    \A c \in Callers : call[c].kind \in {"hash", "number"} => NoCodeReported(c)

\* A Call against the latest block or the pending state reports ErrNoCode
\* exactly when the contract had no code in the state its call executed
\* against. Here the two lookups name a moving state (base.go:190-206,
\* 226-238).
CallNoCodeAccurate == \A c \in Callers : NoCodeReported(c)

=============================================================================
