--------------------------- MODULE ContractTransact ---------------------------
(***************************************************************************)
(* BoundContract.transact and DeployContract (accounts/abi/bind/base.go),  *)
(* run by several callers that share one sending account and one backend.  *)
(*                                                                         *)
(* A call is two steps.  Prepare is transact up to the signed transaction: *)
(* the option checks, the legacy / dynamic-fee choice, createLegacyTx or   *)
(* createDynamicTx with their backend calls (SuggestGasPrice,              *)
(* SuggestGasTipCap, PendingCodeAt, EstimateGas, PendingNonceAt), the      *)
(* signer and the NoSend return.  The only shared state those calls read   *)
(* that another caller can change is the pending nonce, so the race that   *)
(* matters is between Prepare and another caller's Send.  Send is          *)
(* SendTransaction and, for a deployment, the address computation.         *)
(*                                                                         *)
(* Every backend call can fail.  The backend's pending pool is not in      *)
(* this repository; it is modelled from its documented behaviour: it       *)
(* keys transactions of an account by nonce, and replaces a pending one    *)
(* only by a transaction paying strictly more (when Replace is TRUE).      *)
(***************************************************************************)
EXTENDS Integers, FiniteSets

CONSTANTS
    Callers,      \* goroutines calling Transact / DeployContract
    OptsSet,      \* TransactOpts values a caller may pass
    BaseFees,     \* base fee of the latest header; None before London
    Tips,         \* values SuggestGasTipCap may return
    Prices,       \* values SuggestGasPrice may return
    Estimate,     \* value EstimateGas returns
    Replace,      \* the pool replaces a same-nonce transaction paying more
    None

\* base.go:35
basefeeWiggleMultiplier == 2

VARIABLES
    head,    \* BaseFee of the header HeaderByNumber(nil) returns
    code,    \* whether PendingCodeAt(c.address) is non-empty
    pool,    \* the backend's pending transactions of the account
    opts,    \* opts[c]: the TransactOpts caller c passed
    caller   \* caller[c]: [pc, tx, err, addr] of c's call in progress

vars == <<head, code, pool, opts, caller>>

Tx == [kind : {"legacy", "dynamic"}, nonce : Nat, tip : Nat, feeCap : Nat,
       gas : Nat, accessList : BOOLEAN, to : {"contract", None}, by : Callers]

\* The result of a step of transact: an error, or a transaction.
Err(e) == [err |-> e, tx |-> None]
Ok(tx) == [err |-> None, tx |-> tx]

\* How a backend call can go wrong: it fails, or it blocks ("hang") until
\* the context's deadline, for ever if there is none.
Failed == {Err("rpc"), Err("hang")}

\* The value of a field the caller may leave nil for the backend to fill:
\* the set of outcomes of the backend call, its failures included.
Filled(given, suggested) ==
    IF given # None THEN {Ok(given)}
    ELSE Failed \union {Ok(v) : v \in suggested}

\* estimateGasLimit (base.go:393-413): PendingCodeAt for a call to a
\* contract, ErrNoCode if it has none, then EstimateGas.
EstimateGasLimit(o, cd) ==
    IF ~o.deploy /\ ~cd
    THEN Failed \union {Err("ErrNoCode")}
    ELSE Failed \union {Ok(Estimate)}

\* The gas limit step of createLegacyTx / createDynamicTx: GasLimit 0 means
\* estimate.
GasLimit(o, cd) ==
    IF o.gasLimit # 0 THEN {Ok(o.gasLimit)} ELSE EstimateGasLimit(o, cd)

\* Sequencing of steps that may fail: the error outcomes of rs stop the
\* call; F continues it with the value of each successful one.
Bind(rs, F(_)) ==
    {r \in rs : r.err # None} \union UNION {F(r.tx) : r \in {s \in rs : s.err = None}}

GetNonceOffByOne(o, pn) == Filled(o.nonce, {pn + 1})

\* getNonce (base.go:415-421): opts.Nonce, or PendingNonceAt.
GetNonce(o, pn) == Filled(o.nonce, {pn})

\* The tail both builders share, then the signer check of transact
\* (base.go:459-466): fill in gas and nonce, and sign.
Complete(o, tx, cd, pn) ==
    Bind(GasLimit(o, cd), LAMBDA g :
      Bind(GetNonce(o, pn), LAMBDA n :
        CASE o.signer = None    -> {Err("ErrNoSigner")}
          [] o.signer = "fails" -> {Err("ErrSigner")}
          [] OTHER              -> {Ok([tx EXCEPT !.gas = g, !.nonce = n])}))

Blank(o, c) == [kind |-> "legacy", nonce |-> 0, tip |-> 0, feeCap |-> 0, gas |-> 0,
                accessList |-> FALSE, to |-> IF o.deploy THEN None ELSE "contract",
                by |-> c]

\* A legacy transaction's tip and fee cap are both its gas price.
Legacy(o, c, p) == [Blank(o, c) EXCEPT !.tip = p, !.feeCap = p]

Dynamic(o, c, tip, cap) ==
    [Blank(o, c) EXCEPT !.kind = "dynamic", !.tip = tip, !.feeCap = cap,
                        !.accessList = o.accessList]

\* The fee cap createDynamicTx uses: opts.GasFeeCap, or tip + 2 * baseFee.
FeeCap(o, tip, hb) ==
    IF o.gasFeeCap # None THEN o.gasFeeCap ELSE tip + hb * basefeeWiggleMultiplier

CreateLegacyTxNoLondonCheck(o, c, cd, pn) ==
    Bind(Filled(o.gasPrice, Prices), LAMBDA p : Complete(o, Legacy(o, c, p), cd, pn))

\* createLegacyTx (base.go:345-391).
CreateLegacyTx(o, c, cd, pn) ==
    IF o.gasFeeCap # None \/ o.gasTipCap # None \/ o.accessList
    THEN {Err("ErrLondonInactive")}
    ELSE Bind(Filled(o.gasPrice, Prices), LAMBDA p : Complete(o, Legacy(o, c, p), cd, pn))

\* createDynamicTx (base.go:287-343).  hb is head.BaseFee; head is nil
\* (None) only when the caller set both caps, and is then never read.
CreateDynamicTx(o, c, hb, cd, pn) ==
    Bind(Filled(o.gasTipCap, Tips), LAMBDA t :
        IF FeeCap(o, t, hb) < t THEN {Err("ErrFeeCapBelowTip")}
        ELSE Complete(o, Dynamic(o, c, t, FeeCap(o, t, hb)), cd, pn))

\* transact (base.go:426-466): the outcomes of building and signing the
\* transaction of caller c, given the head's base fee hb, whether the
\* contract has code, and the pending nonce pn.
Transact(o, c, hb, cd, pn) ==
    CASE o.gasPrice # None /\ (o.gasFeeCap # None \/ o.gasTipCap # None)
            -> {Err("ErrMixedFees")}
      [] o.gasPrice # None -> CreateLegacyTx(o, c, cd, pn)
      [] o.gasFeeCap # None /\ o.gasTipCap # None -> CreateDynamicTx(o, c, None, cd, pn)
      [] hb # None -> Failed \union CreateDynamicTx(o, c, hb, cd, pn)
      [] OTHER     -> Failed \union CreateLegacyTx(o, c, cd, pn)

\* The entry points (base.go:149-156, 253-286): DeployContract, and
\* Transact (o.pack), pack the arguments first, which fails on arguments
\* the ABI refuses; RawTransact and Transfer hand their calldata to
\* transact as it is.
Entry(o, c, hb, cd, pn) ==
    (IF o.deploy \/ o.pack THEN {Err("ErrPack")} ELSE {})
        \union Transact(o, c, hb, cd, pn)

\* PendingNonceAt: the first nonce of the account with no pending
\* transaction (nothing is mined in this model).
PendingNonce ==
    CHOOSE n \in 0..Cardinality(pool) :
        /\ \A p \in pool : p.nonce # n
        /\ \A m \in 0..(n - 1) : \E p \in pool : p.nonce = m

\* Whether the pool takes tx: a free nonce, or a replacement paying more.
Admits(tx) ==
    \A p \in pool : p.nonce = tx.nonce =>
        Replace /\ tx.tip > p.tip /\ tx.feeCap > p.feeCap

Admit(tx) == {p \in pool : p.nonce # tx.nonce} \union {tx}

Init ==
    /\ head \in BaseFees
    /\ code \in BOOLEAN
    /\ pool = {}
    /\ opts \in [Callers -> OptsSet]
    /\ caller = [c \in Callers |-> [pc |-> "prepare", tx |-> None, err |-> None,
                                    addr |-> None]]

PrepareIgnoringError(c) ==
    /\ caller[c].pc = "prepare"
    /\ \E r \in Entry(opts[c], c, head, code, PendingNonce) :
         caller' = [caller EXCEPT ![c] =
             [pc   |-> IF ~opts[c].noSend THEN "send" ELSE "done",
              tx   |-> r.tx, err |-> r.err,
              addr |-> IF opts[c].noSend /\ opts[c].deploy /\ r.tx # None
                       THEN r.tx.nonce ELSE None]]
    /\ UNCHANGED <<head, code, pool, opts>>

(* ACTION Prepare: transact up to the signed transaction.  A NoSend call   *)
(* returns here; DeployContract then computes the address from its nonce. *)
Prepare(c) ==
    /\ caller[c].pc = "prepare"
    /\ \E r \in Entry(opts[c], c, head, code, PendingNonce) :
         caller' = [caller EXCEPT ![c] =
             [pc   |-> CASE r.err = "hang"                 -> "blocked"
                         [] r.err = None /\ ~opts[c].noSend -> "send"
                         [] OTHER                           -> "done",
              tx   |-> r.tx,
              err  |-> r.err,
              addr |-> IF r.err = None /\ opts[c].noSend /\ opts[c].deploy
                       THEN r.tx.nonce ELSE None]]
    /\ UNCHANGED <<head, code, pool, opts>>

\* The address DeployContract binds (base.go:157): CreateAddress(From,
\* tx.Nonce()), represented by the nonce since From is fixed.
DeployAddress(c) == IF opts[c].deploy THEN caller[c].tx.nonce ELSE None

(* ACTION Send: SendTransaction (base.go:470-473), then DeployContract's   *)
(* address (base.go:153-158).  The send may fail before the pool sees it, *)
(* be refused by the pool, or be accepted with its reply lost; or it may  *)
(* block, before or after the pool took it, until the context's deadline. *)
(* Only an accepted and answered send returns the transaction.            *)
Send(c) ==
    LET tx == caller[c].tx
        fin(e, a) == caller' = [caller EXCEPT ![c].pc = "done", ![c].err = e,
                                              ![c].addr = a]
        noReply == \/ fin("rpc", None)
                   \/ caller' = [caller EXCEPT ![c].pc = "blocked", ![c].err = "hang"]
    IN
    /\ caller[c].pc = "send"
    /\ \/ /\ noReply
          /\ UNCHANGED pool
       \/ /\ ~Admits(tx)
          /\ fin("ErrUnderpriced", None)
          /\ UNCHANGED pool
       \/ /\ Admits(tx)
          /\ pool' = Admit(tx)
          /\ \/ noReply
             \/ fin(None, DeployAddress(c))
    /\ UNCHANGED <<head, code, opts>>

\* ensureContext (base.go:614-619): a nil opts.Context becomes
\* context.Background(), which has no deadline; only a context the caller
\* gave can end a blocked backend call.
Deadline(o) == o.context

(* ACTION Timeout: the deadline of the caller's context passes while a   *)
(* backend call blocks; the call returns the context's error.            *)
Timeout(c) ==
    /\ caller[c].pc = "blocked"
    /\ Deadline(opts[c])
    /\ caller' = [caller EXCEPT ![c].pc = "done", ![c].err = "ctx",
                                ![c].addr = None]
    /\ UNCHANGED <<head, code, pool, opts>>

Next == \E c \in Callers : Prepare(c) \/ Send(c) \/ Timeout(c)

Spec == Init /\ [][Next]_vars

-----------------------------------------------------------------------------

TypeOK ==
    /\ head \in BaseFees
    /\ code \in BOOLEAN
    /\ pool \subseteq Tx
    /\ opts \in [Callers -> OptsSet]
    /\ \A c \in Callers :
         /\ caller[c].pc \in {"prepare", "send", "blocked", "done"}
         /\ caller[c].tx \in Tx \union {None}
         /\ caller[c].addr \in Nat \union {None}
         /\ caller[c].pc = "send" => caller[c].err = None /\ caller[c].tx # None

\* Every transaction transact built and signed (pending or returned).
Built == pool \union {caller[c].tx : c \in {d \in Callers : caller[d].tx # None}}

\* The transaction type transact picks agrees with the caller's options and
\* the chain: legacy when GasPrice is set, or when the head has no base fee
\* and not both caps are set; a legacy transaction never silently drops a
\* fee cap, tip cap or access list the caller asked for (base.go:436-450,
\* 346-348).
TxTypeFollowsOpts ==
    \A c \in Callers : caller[c].tx # None =>
        LET o == opts[c]
            t == caller[c].tx
        IN  /\ (t.kind = "legacy") <=>
                  \/ o.gasPrice # None
                  \/ head = None /\ (o.gasFeeCap = None \/ o.gasTipCap = None)
            /\ t.kind = "legacy" =>
                  o.gasFeeCap = None /\ o.gasTipCap = None /\ ~o.accessList

\* The account's pending nonces stay gap-free: every nonce transact takes
\* from PendingNonceAt is the next free one, however the calls of several
\* callers interleave between reading it and sending (getNonce,
\* base.go:416-418).
NoNonceGap ==
    \A p \in pool : \A m \in 0..(p.nonce - 1) : \E q \in pool : q.nonce = m

\* A deployment DeployContract reports as sent is the pending transaction
\* at the address it returns: the contract bound at that address is the
\* caller's own (base.go:153-158).
DeployAddressBacked ==
    \A c \in Callers :
        caller[c].pc = "done" /\ caller[c].err = None /\ opts[c].deploy
            /\ ~opts[c].noSend
        => \E p \in pool : p.nonce = caller[c].addr /\ p.by = c /\ p.to = None

=============================================================================
