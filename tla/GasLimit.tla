------------------------------ MODULE GasLimit ------------------------------
(***************************************************************************)
(* VerifyGaslimit, consensus/misc/gaslimit.go, on W-bit words: the code's  *)
(* uint64/int64 conversions and wrapping arithmetic with W = 64 scaled     *)
(* down to a width TLC can enumerate.  A chain of headers grows from a     *)
(* genesis gas limit; each header is accepted when VerifyGaslimit against  *)
(* its parent returns nil and it does not exceed MaxGasLimit, the cap the  *)
(* callers of VerifyGaslimit apply.                                        *)
(***************************************************************************)
EXTENDS Integers

CONSTANTS
    W,                      \* word width (64 in the code)
    GasLimitBoundDivisor,   \* params.GasLimitBoundDivisor (1024)
    MinGasLimit,            \* params.MinGasLimit (5000)
    MaxGasLimit,            \* the callers' cap on a header's gas limit
    GenesisLimits           \* gas limits the chain may start from

Word == 2^W
Uint == 0..(Word - 1)

ASSUME /\ W \in Nat \ {0}
       /\ MaxGasLimit \in Uint
       /\ GenesisLimits \subseteq MinGasLimit..MaxGasLimit
       /\ MinGasLimit >= GasLimitBoundDivisor

VARIABLE parent   \* gas limit of the current head

-----------------------------------------------------------------------------
\* int64(x) of a uint64 x, and int64 arithmetic wrapping modulo 2^W.
ToInt(x) == IF x >= 2^(W - 1) THEN x - Word ELSE x
Wrap(i) == ToInt(i % Word)
\* uint64(i) of an int64 i.
ToUint(i) == i % Word

\* Mutant: the bound test is off by one (> instead of >=).
VerifyGaslimitOffByOne(parentGasLimit, headerGasLimit) ==
    LET d0    == Wrap(ToInt(parentGasLimit) - ToInt(headerGasLimit))
        diff  == IF d0 < 0 THEN Wrap(-d0) ELSE d0
        limit == parentGasLimit \div GasLimitBoundDivisor
    IN CASE ToUint(diff) > limit            -> "invalid gas limit"
         [] headerGasLimit < MinGasLimit    -> "invalid gas limit below min"
         [] OTHER                           -> "ok"

\* Mutant: the MinGasLimit check is missing.
VerifyGaslimitNoMin(parentGasLimit, headerGasLimit) ==
    LET d0    == Wrap(ToInt(parentGasLimit) - ToInt(headerGasLimit))
        diff  == IF d0 < 0 THEN Wrap(-d0) ELSE d0
        limit == parentGasLimit \div GasLimitBoundDivisor
    IN IF ToUint(diff) >= limit THEN "invalid gas limit" ELSE "ok"

\* VerifyGaslimit: |int64(parent) - int64(header)| < parent / divisor, and
\* header >= MinGasLimit.
VerifyGaslimit(parentGasLimit, headerGasLimit) ==
    LET d0    == Wrap(ToInt(parentGasLimit) - ToInt(headerGasLimit))
        diff  == IF d0 < 0 THEN Wrap(-d0) ELSE d0
        limit == parentGasLimit \div GasLimitBoundDivisor
    IN CASE ToUint(diff) >= limit           -> "invalid gas limit"
         [] headerGasLimit < MinGasLimit    -> "invalid gas limit below min"
         [] OTHER                           -> "ok"

-----------------------------------------------------------------------------
Init == parent \in GenesisLimits

\* A new header whose gas limit passes VerifyGaslimit becomes the head.
AcceptHeader(h) ==
    /\ h <= MaxGasLimit
    /\ VerifyGaslimit(parent, h) = "ok"
    /\ parent' = h

Next == \E h \in Uint : AcceptHeader(h)

Spec == Init /\ [][Next]_parent

-----------------------------------------------------------------------------
(* Reference: the rule in mathematical integers.                           *)

Abs(i) == IF i < 0 THEN -i ELSE i

ValidGasLimit(p, h) ==
    /\ Abs(p - h) < p \div GasLimitBoundDivisor
    /\ h >= MinGasLimit

\* Every head's gas limit is a valid one: between MinGasLimit and the cap.
TypeOK == parent \in MinGasLimit..MaxGasLimit

\* Each accepted header changes the gas limit by less than 1/divisor of the
\* parent's, as the comment of VerifyGaslimit says, whatever the chain of
\* headers before it.
GasLimitStep == [][ValidGasLimit(parent, parent')]_parent
=============================================================================
