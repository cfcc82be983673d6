------------------------------- MODULE MetaData -------------------------------
(***************************************************************************)
(* MetaData.GetAbi (accounts/abi/bind/base.go:95-116): the ABI of a        *)
(* generated binding, parsed on first use and kept in m.ab, under m.mu.    *)
(* Generated constructors call it from any goroutine.                      *)
(*                                                                         *)
(* A call is three steps so that the mutex is what keeps them together:   *)
(* Lock, the m.ab check, and the parse with the store.  The parse of the   *)
(* fixed ABI string either always succeeds or always fails (valid); a      *)
(* successful parse yields a new *abi.ABI, named by a number.             *)
(***************************************************************************)
EXTENDS Integers

CONSTANTS Callers, MaxCalls, None

VARIABLES
    valid,     \* abi.JSON(m.ABI) succeeds
    mu,        \* holder of m.mu, or None
    ab,        \* m.ab: None, or the pointer it caches
    parsed,    \* number of *abi.ABI values abi.JSON has produced
    pc,        \* pc[c]: "idle", "locked" or "parse"
    calls,     \* calls[c]: GetAbi calls c has finished
    returned   \* the pointers GetAbi has returned, to anyone

vars == <<valid, mu, ab, parsed, pc, calls, returned>>

Init ==
    /\ valid \in BOOLEAN
    /\ mu = None
    /\ ab = None
    /\ parsed = 0
    /\ pc = [c \in Callers |-> "idle"]
    /\ calls = [c \in Callers |-> 0]
    /\ returned = {}

LockNoMutex(c) ==
    /\ pc[c] = "idle" /\ calls[c] < MaxCalls
    /\ pc' = [pc EXCEPT ![c] = "locked"]
    /\ UNCHANGED <<valid, mu, ab, parsed, calls, returned>>

(* ACTION Lock: m.mu.Lock() (base.go:105); blocks while another holds it.  *)
Lock(c) ==
    /\ pc[c] = "idle" /\ calls[c] < MaxCalls
    /\ mu = None
    /\ mu' = c
    /\ pc' = [pc EXCEPT ![c] = "locked"]
    /\ UNCHANGED <<valid, ab, parsed, calls, returned>>

\* Return from GetAbi, the deferred Unlock included.
Return(c) ==
    /\ mu' = None
    /\ pc' = [pc EXCEPT ![c] = "idle"]
    /\ calls' = [calls EXCEPT ![c] = @ + 1]

(* ACTION Check: return the cached ABI if there is one (base.go:107-109).  *)
Check(c) ==
    /\ pc[c] = "locked"
    /\ \/ /\ ab # None
          /\ Return(c)
          /\ returned' = returned \union {ab}
          /\ UNCHANGED <<valid, ab, parsed>>
       \/ /\ ab = None
          /\ pc' = [pc EXCEPT ![c] = "parse"]
          /\ UNCHANGED <<valid, mu, ab, parsed, calls, returned>>

ParseStoreOnError(c) ==
    /\ pc[c] = "parse"
    /\ Return(c)
    /\ \/ /\ valid
          /\ parsed' = parsed + 1
          /\ ab' = parsed + 1
          /\ returned' = returned \union {parsed + 1}
       \/ /\ ~valid
          /\ ab' = parsed + 1
          /\ UNCHANGED <<parsed, returned>>
    /\ UNCHANGED valid

(* ACTION Parse: parse m.ABI; cache and return the result, or return the  *)
(* error and cache nothing (base.go:110-115).                             *)
Parse(c) ==
    /\ pc[c] = "parse"
    /\ Return(c)
    /\ \/ /\ valid
          /\ parsed' = parsed + 1
          /\ ab' = parsed + 1
          /\ returned' = returned \union {parsed + 1}
       \/ /\ ~valid
          /\ UNCHANGED <<ab, parsed, returned>>
    /\ UNCHANGED valid

Next == \E c \in Callers : Lock(c) \/ Check(c) \/ Parse(c)

Spec == Init /\ [][Next]_vars

-----------------------------------------------------------------------------

TypeOK ==
    /\ valid \in BOOLEAN
    /\ mu \in Callers \union {None}
    /\ ab \in 1..parsed \union {None}
    /\ pc \in [Callers -> {"idle", "locked", "parse"}]
    /\ calls \in [Callers -> 0..MaxCalls]
    /\ returned \subseteq 1..parsed

\* Every goroutine that gets an ABI from GetAbi gets the same *abi.ABI,
\* and a valid ABI is parsed only once, however the calls of several
\* goroutines interleave: the check of m.ab and its store happen under one
\* hold of m.mu (base.go:105-115).
AbiParsedOnce ==
    /\ parsed <= 1
    /\ \A p, q \in returned : p = q

=============================================================================
