--------------------------- MODULE MCContractCall ---------------------------
(***************************************************************************)
(* Two callers: c1's backend implements the pending and block-hash         *)
(* interfaces, c2's implements neither.  Each makes one Call of any kind.  *)
(* The chain grows to three blocks while a deployment enters the pending   *)
(* state and is mined, so every call can straddle the deployment.          *)
(***************************************************************************)
EXTENDS ContractCall

CONSTANTS c1, c2
=============================================================================
