------------------------- MODULE MCContractTransact -------------------------
(***************************************************************************)
(* Two callers of one account.  The options cover every branch of          *)
(* transact: backend-filled fees (deployment and call), an explicit gas    *)
(* price, a fee cap below the suggested tip, every field explicit with an  *)
(* access list, mixed fee kinds, a missing and a failing signer, and a     *)
(* NoSend deployment.  The suggested tip and gas price are 2 and the base  *)
(* fee is 1, so a derived fee cap is 4; an explicit price of 5 outbids it. *)
(* The backend-filled deployment and call differ in whether the caller    *)
(* passed a context with a deadline.  Deployments and the second option   *)
(* pack arguments (DeployContract, Transact); the other calls come        *)
(* through RawTransact or Transfer.                                       *)
(***************************************************************************)
EXTENDS ContractTransact

CONSTANTS c1, c2, NoneV

Opt(gp, fc, tc, al, gl, n, sg, ns, dp, cx, pk) ==
    [gasPrice |-> gp, gasFeeCap |-> fc, gasTipCap |-> tc, accessList |-> al,
     gasLimit |-> gl, nonce |-> n, signer |-> sg, noSend |-> ns, deploy |-> dp,
     context |-> cx, pack |-> pk]

MCOptsSet ==
    { Opt(NoneV, NoneV, NoneV, FALSE, 0, NoneV, "ok", FALSE, TRUE, TRUE, TRUE),
      Opt(NoneV, NoneV, NoneV, FALSE, 0, NoneV, "ok", FALSE, FALSE, FALSE, TRUE),
      Opt(5, NoneV, NoneV, FALSE, 0, NoneV, "ok", FALSE, TRUE, TRUE, FALSE),
      Opt(NoneV, 1, NoneV, FALSE, 0, NoneV, "ok", FALSE, FALSE, FALSE, FALSE),
      Opt(NoneV, 5, 1, TRUE, 30, 0, "ok", FALSE, FALSE, TRUE, FALSE),
      Opt(2, NoneV, 1, FALSE, 0, NoneV, "ok", FALSE, FALSE, FALSE, FALSE),
      Opt(NoneV, NoneV, NoneV, FALSE, 0, NoneV, NoneV, FALSE, FALSE, FALSE, FALSE),
      Opt(NoneV, NoneV, NoneV, FALSE, 0, NoneV, "fails", FALSE, TRUE, FALSE, FALSE),
      Opt(NoneV, NoneV, NoneV, FALSE, 0, NoneV, "ok", TRUE, TRUE, TRUE, FALSE) }

MCBaseFees == {NoneV, 1}
=============================================================================
