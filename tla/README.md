# TLA+ models of the go-ethereum slice in `src/`

This directory holds TLA+ models of the parts of `src/` that the TLC model
checker can check. It also holds the TLC configurations that check them.
Each module is translated from the Go code. `PROJECT.json` maps every
definition to the source lines it models. It also lists the runs, the
mutants that show each property can fail, the findings, and the hazards.

## 1. Inventory

| Component | Source | State it keeps | Operations that change state | Concurrency / failure |
|---|---|---|---|---|
| ENR `Record` | `p2p/enr/enr.go` | `seq`, `signature`, `raw` (cached encoding), `pairs` (sorted k/v) | `Set`, `SetSeq`, `SetSig` (sign / reject / unsign), `DecodeRLP`; `EncodeRLP` writes to the wire | Single owner. Records cross untrusted peers. The decoder faces adversarial input. Signing can fail after verification (size). |
| ENR `SchemeMap` | `p2p/enr/enr.go:84-102` | none (registry, read-only) | none; `Verify`, `NodeAddr` are lookups | Fails closed on `Verify` and open on `NodeAddr`. |
| `SizeConstrainedCache` | `common/lru/blob_lru.go` | `size`, `maxSize`, recency list (`BasicLRU`, not in `src/`) | `Add` (evicts), `Get` (bumps recency) | A mutex serialises callers. Values are assumed content-addressed. |
| `VerifyGaslimit` | `consensus/misc/gaslimit.go` | none (pure check) | none; applied header by header along a chain | `uint64`→`int64` conversions and wrapping arithmetic |
| Contract bindings (`BoundContract`, `MetaData`) | `accounts/abi/bind/base.go` | `MetaData.ab` (lazily parsed ABI); none in `BoundContract` beyond its config | `GetAbi`, `Call`, `Transact`/`transact`, `DeployContract`, `FilterLogs`, `WatchLogs` | Sequences of backend RPCs, each of which may fail. There is no nonce reservation between concurrent callers. `FilterLogs` starts a goroutine that feeds a 128-slot channel. |
| ABI `Method` | `accounts/abi/method.go` | none (value type) | `NewMethod` (string formatting, Keccak id) | none |
| stdio RPC transport | `rpc/stdio.go` | none | `Read`/`Write` pass-through | Write deadlines are unsupported. |
| `rlpgen` | `rlp/rlpgen/main.go` | none | code generation via `go/packages` | none |
| Azure upload | `internal/build/azure.go` | none | upload/list/delete over HTTP | network I/O |
| Tests | `common/bytes_test.go`, `common/mclock/alarm_test.go` | the tested code is not in `src/` | | |

How the parts interact. A node builds its `Record` with `Set` and signs it:
`SetSig` calls the scheme's `Verify` and then `encode`, which checks
`SizeLimit`. The node publishes the record with `EncodeRLP`, which writes the
cached `raw`. Any node can overwrite its record with `DecodeRLP` of a list from
the network. That step validates structure only, never the signature. A
consumer then calls `VerifySignature` with a `SchemeMap`, which looks up the
record's `"id"` entry through `Load`. `Set` bumps `seq` only when the record is
signed, through `invalidate`.

The hard behaviours:
- the `raw` cache and the signature must never outlive the content they cover;
- the key order must be kept by binary-search insertion and by the decoder;
- the `SizeLimit` boundary must be the same at sign time and at decode time;
- adversarial lists must be rejected;
- `seq` must never be reused;
- cache accounting must be right at the byte budget;
- fixed-width integer wrap-around in the gas check.

Properties that make each component correct:
- `Record` pairs are always strictly sorted.
- `raw` is present exactly when a signature is. It then equals the encoding
  of the current content and fits in `SizeLimit`.
- Whatever verifies under the `SchemeMap` was signed by the node it names,
  over exactly this content.
- The decoder accepts everything the encoder produces.
- Two published versions with the same `seq` are the same record.
- Cache: `size` equals the sum of the lengths of the held values, and it is
  at most `maxSize`. `Add` reports an eviction only when one happened.
- Gas limit: every accepted step moves by less than `parent/1024`, and stays
  at or above the minimum.

## 2. Modules and how they map to the code

### `Enr.tla` (+ `MCEnr.tla`): `p2p/enr/enr.go`
- **State.** `rec[n]` is node `n`'s `Record`, with fields
  `[seq, signature, raw, pairs]` (`enr.go:106-118`). `net` is the set of
  lists written by `EncodeRLP`.
- **Wire lists.** A list is a sequence of RLP elements
  `[t |-> kind, v |-> payload]`. The kinds are key, blob, uint, sig and nested
  list. Byte lengths come from constants (`KeySize`, `BlobSize`, `SigSize`),
  and `RawLen` applies `rlp.ListSize`. Only lengths and kinds are kept; the
  bytes themselves are abstracted away.
- **Keys.** Keys are strings. Their byte order is the constant sequence
  `KeyOrder`.
- **Actions.** `Set` (`invalidate` + `SetPairs`, the three cases of the
  `switch` in `Set`), `SetSeq`, `Unsign` (`SetSig(nil, nil)`), `Sign` (a node
  calls `SetSig` with its own signature or with junk, through the `"v4"`
  scheme or the `SchemeMap`), `EncodeRLP` and `DecodeRLP` (`decodeRecord`:
  size, header, pair loop, duplicate and order checks, all-or-nothing).
- **Operators.** `sort.Search` is the real binary search (`SearchIn`). The
  read-only calls are `Load`, `Size`, `computeSize`, `IdentityScheme`,
  `VerifySignature` and `AppendElements`.
- **From the spec.** The `"v4"` scheme (`V4Verify`) and the `rlp` size helpers
  are modelled from the spec (marked `spec_modelled`). Their code is not in
  `src/`. A signature is the record `[signer, over]`. It verifies when the
  signer is the key in the `secp256k1` entry and `over` is the record's
  `AppendElements`, so signatures cannot be forged.
- **Forged lists.** `Forged` holds the adversarial lists: empty, signature
  only, unsorted, duplicate key, dangling key, nested list as a key, a
  306-byte list, and a well-formed list naming the unregistered scheme `V5`
  with a junk signature.

### `BlobLru.tla` (+ `MCBlobLru.tla`): `common/lru/blob_lru.go`
- **State.** `size` is `c.size`. `lru` is the `BasicLRU` recency list, oldest
  first. `evicted` is `Add`'s return value.
- **Actions.** `Add` and `Get` are each one atomic step, because `c.lock` is
  held for the whole call.
- **Eviction loop.** The loop `for targetSize > maxSize { RemoveOldest ... }`
  is the recursive `Evict`. It stops when the list is empty.
- **Values.** Values are content-addressed, as `Add`'s comment requires, so
  `ValueLen[k]` is fixed per key.

### `GasLimit.tla`: `consensus/misc/gaslimit.go`
- **Width.** `VerifyGaslimit` is an operator on `W`-bit words. `int64(x)`,
  wrapping subtraction and negation, and `uint64(diff)` are each modelled by
  what they do modulo `2^W`.
- **State and action.** A chain of headers is the variable `parent`.
  `AcceptHeader(h)` makes `h` the head when `VerifyGaslimit(parent, h)`
  returns nil and `h <= MaxGasLimit`.
- **Caller cap.** `MaxGasLimit` is the cap the callers apply (`0x7fff...`, not
  in `src/`).
- **Reference.** `ValidGasLimit` is the rule in mathematical integers.

### `ContractTransact.tla` (+ `MCContractTransact.tla`): `accounts/abi/bind/base.go` transactions
- **Callers.** Each caller runs one `Transact`, `RawTransact`, `Transfer` or
  `DeployContract` (`opts[c].deploy`) with a `TransactOpts` value from
  `OptsSet`. All callers send from one account. `Entry` is the entry point
  (`base.go:149-156, 253-286`): `DeployContract` and `Transact` (`pack`)
  first pack the arguments, which may fail.
- **Prepare.** `Prepare(c)` is `transact` up to the signed transaction (`base.go:426-469`):
  - the mixed-fee check;
  - the legacy / dynamic choice, from `GasPrice`, both caps, and the head's `BaseFee`;
  - `createLegacyTx` or `createDynamicTx` with their backend calls;
  - the signer and the `NoSend` return.
- **Send.** `Send(c)` is `SendTransaction` and `DeployContract`'s address
  (`base.go:159`).
- **Outcome sets.** Each backend call yields a set of outcomes, one of them a
  failure. `Bind` threads them the way the Go code's `if err != nil { return }`
  chain does.
- **Why two steps.** Within `Prepare` the only shared state read that another
  caller can change is the pending nonce. So splitting at `SendTransaction`
  keeps every interleaving that matters.
- **The pool.** The backend's pending pool is modelled from its documented
  behaviour (`spec_modelled`). It keys transactions by nonce. A send may fail
  before reaching it, be refused for an occupied nonce, or be accepted with
  the reply lost. The pool replaces a pending transaction only if the new one
  pays strictly more tip and fee cap, and only when `Replace` is TRUE.
- **Blocking and deadlines.** Every backend call may also block (`"hang"`),
  and then the caller is `"blocked"`. `SendTransaction` may block before or
  after the pool took the transaction. `ensureContext` (`base.go:614-619`)
  turns a nil `opts.Context` into `context.Background()`, which has no
  deadline. So only a caller whose options carry a context (`Deadline`) is
  released, by `Timeout`, with the context's error.

### `ContractCall.tla` (+ `MCContractCall.tla`): `BoundContract.Call`
- **State.** A state is whether the contract has code in it: `chain[i]` for
  block `i`, and `pending`.
- **Environment.** `Deploy` puts a deployment in the pending state, and `Mine`
  appends a block carrying it.
- **Call.** `Call` is two steps:
  - `CallContract`: the capability check, then `PendingCallContract`,
    `CallContractAtHash` or `CallContract`;
  - `ProbeCode`: the code lookup of the same path when no data came back, then
    the unpack of the empty output.
- **Targets.** A call names a block for the hash and number kinds, the head
  for latest, and nothing for pending.

### `MetaData.tla`: `MetaData.GetAbi`
- **Steps.** `Lock`, `Check` (return the cached `m.ab`) and `Parse` (parse,
  cache on success, return, unlock) are separate steps. The mutex, not the
  model, is what keeps them together.
- **Pointers.** A parse yields a fresh pointer, numbered by `parsed`.

### `LogFilter.tla`: `BoundContract.FilterLogs` and `WatchLogs`
- **State.** `phase` records which call was made and how the backend
  answered: it may fail, block, or return (`"filtered"` for `FilterLogs`,
  `"watching"` for `WatchLogs`). `buff` holds the logs the backend matched. A log is `[n, topic]`: its
  position in the chain (so order is visible) and its first topic, an event
  ID or `NoTopic` for a log with no topics. `ctx` says whether
  `opts.Context` was given. The producer goroutine
  is `prod`, with its loop index `next`. `ch` is the 128-slot `logs` channel
  (capacity `Cap`). `quit`, `unsub` and `errClosed` are the subscription's
  quit channel, its unsubscribed flag and its closed `Err()` channel. `cons`
  and `got` are the caller and the logs it received.
- **Actions.**
  - `FilterLogs` is `base.go:479-524` up to the start of the goroutine.
    `Query` is the event selector put first in the topics (`485-492`). The
    contract may have emitted any logs, and the backend returns those whose
    first topic matches (`BackendFilterLogs`, `spec_modelled`). The query may
    fail, or block until `Timeout`, which needs a deadline (`Deadline`,
    `ensureContext`).
  - `WatchLogs` is `base.go:529-558`: the same selector, then
    `SubscribeFilterLogs`, which may fail or block like the query. With
    `opts.Start` the subscription first matches past logs (`PastLogs`);
    without it, it starts from the latest block. The backend's subscription
    is not in `src/` and is modelled from the `ContractFilterer` contract
    (`spec_modelled`). `Emit` is a new block's log, kept if it `Matches`.
    `Forward` sends the next kept log into the channel and blocks while the
    channel is full. `ForwarderReturn` ends the forwarder after
    `Unsubscribe` and closes `Err()`.
  - `UnpackLog` is the signature checks of `base.go:563-584`, and
    `UnpackLogIntoMap` makes the same checks (`588-610`). The ABI decoding
    of the data and indexed topics is taken to succeed.
  - `ProducerSend` is `FilterLogs`' `logs <- log` arm of the select (`513-515`).
    `ProducerReturn` is the `<-quit` arm or the end of the loop
    (`516-520`), and the subscription teardown that follows.
  - `Receive`, `Finish`, `Unsubscribe`, `Unsubscribed` and `Abandon` are
    the caller, and `event.NewSubscription`'s `Unsubscribe`. They are not in
    `src/` and are modelled from their documentation (`spec_modelled`).

### `EnrAbstract.tla`: the record lifecycle of `spec.md` section 3
- **State.** `record[n]` is `[seq, kv, signed]`: the content as a function
  from keys to values, with no signature bytes, cache or encoding.
  `published` is the set of published contents.
- **Actions.** `Set` gives `seq+1` exactly when the record was signed, and
  always unsigns. `SetSeq` sets `seq` and unsigns. `Unsign` and `Sign` flip
  the flag only. `Publish` needs a signed record. `Adopt` replaces a record
  by one whole published or adversarial content.
- **Refinement.** `MCEnr` defines `Abs == INSTANCE EnrAbstract WITH ...`.
  It maps `kv` to the function `pairs` defines and `signed` to
  `signature # NoSig`. A published list maps to the content it encodes
  (`ListContent`), and `Junk` to the contents of the forged lists that
  decode.

## 3. Runs

| Run | Module / cfg | Expect | What it shows |
|---|---|---|---|
| `enr_safety` | `MCEnr` / `MCEnr.cfg` | pass | See below. |
| `enr_seq_reuse` | `MCEnr` / `MCEnrSeq.cfg` | violation | See below. |
| `lru_safety` | `MCBlobLru` / `MCBlobLru.cfg` | pass | See below. |
| `lru_oversize` | `MCBlobLru` / `MCBlobLruOversize.cfg` | violation | An 8-byte value added to a 7-byte cache empties the cache and is stored anyway: `size = 8 > maxSize` (`WithinBudget`). |
| `lru_evicted_flag` | `MCBlobLru` / `MCBlobLruEvicted.cfg` | violation | The same 8-byte value added to the empty cache makes `Add` return `true`, yet nothing was removed. Add's doc comment (`blob_lru.go:55`) says it returns true if an eviction occurred (`EvictedMeansRemoved`). The flag is set before `RemoveOldest` reports that the list is empty (`blob_lru.go:71`). |
| `gas_capped` | `GasLimit` / `MCGasLimit.cfg` | pass | See below. |
| `transact_safety` | `MCContractTransact` / `MCContractTransact.cfg` | pass | See below. |
| `transact_deploy_replaced` | `MCContractTransact` / `MCContractTransactReplace.cfg` | violation | See below. |
| `call_pinned` | `MCContractCall` / `MCContractCall.cfg` | pass | See below. |
| `call_latest_race` | `MCContractCall` / `MCContractCallLatest.cfg` | violation | See below. |
| `getabi_once` | `MetaData` / `MCMetaData.cfg` | pass | Three goroutines call `GetAbi` twice each. A valid ABI is parsed once and every caller gets the same pointer. A failed parse is never cached (`AbiParsedOnce`, `TypeOK`). |
| `logfilter_liveness` | `LogFilter` / `MCLogFilter.cfg` | pass | See below. |

**`enr_safety`.** Two nodes mutate, sign, publish and decode records, and can
also decode the forged lists. Through all of that, `TypeOK`, `PairsSorted`,
`CacheCoherent` and `RoundTrip` hold. The run reaches
39,329 distinct states in about 2 minutes. `SetSeq` is offered 0 (a
rollback) and 2 (a jump). The refinement below is checked in the same run.

**`enr_seq_reuse`.** The chain is: sign, publish, `SetSig(nil, nil)`, `Set`,
re-sign, publish. It publishes two different records signed at `seq` 0, which
violates `SeqIdentifiesVersion`. `SetSeq` is not offered as an input in this
run, so the violation comes from the unsign path alone.

**`lru_safety`.** Five keys whose values are 1 to 4 bytes long share a 7-byte
budget. `TypeOK`, `SizeAccounting` and `WithinBudget` hold. Whether `Add`'s
result means an eviction is not checked here: with every value fitting, the
case where it does not (an oversized value, `lru_evicted_flag`) cannot
arise.

**`gas_capped`.** The words are 8 bits wide, the divisor is 4 and the minimum
is 8. Genesis gas limits are 8 and 100, and the cap is 127 (`2^(W-1)-1`).
Every accepted step obeys the reference rule (`GasLimitStep`), and
`TypeOK` holds.

The gas check relies on its callers capping gas limits at `2^63-1`; above
that, `int64(parentGasLimit)` wraps. With 8-bit words and no cap, a chain
100 → 112 → 138 → 171 → 212 then accepts 8: `int64(212)` wraps to -44, and
`|−44 − 8| = 52 < 212/4`. This is recorded as a hazard, not a run.

**`transact_safety`.** Two callers of one account use 9 option sets covering
every branch. All backend calls may fail or block, and the pool does not
replace. The run reaches 17,996 distinct states and shows two things:
- the type follows the options and the head (`TxTypeFollowsOpts`);
- pending nonces stay gap-free however the reads and sends interleave, and
  a send that blocks or loses its reply after the pool took it
  (`NoNonceGap`).

`DeployAddressBacked` is checked only where it can fail, in
`transact_deploy_replaced`. Without replacement the pool only grows, so it
would hold by construction.

**`transact_deploy_replaced`.** The pool replaces a pending transaction by one
that pays more:
1. Caller 1 deploys at nonce 0 and is told it succeeded.
2. Caller 2 had read the same pending nonce. It sends a transaction with gas
   price 5, which replaces the deployment.

`DeployAddressBacked` is then violated: the returned address will never hold
caller 1's contract.

**`call_pinned`.** Calls pinned to a hash or number report `ErrNoCode` exactly
when that block lacks the code, while a deployment is mined in between
(`PinnedCallConsistent`).

**`call_latest_race`.** A pending call runs against a state without the
contract. The deployment then enters the pending state, and the code lookup
sees it. `Call` returns the unpack error of empty output instead of `ErrNoCode`
(`CallNoCodeAccurate`).

**Refinement, in `enr_safety`.** Every step of `Enr` is a step of `EnrAbstract`
or leaves its image unchanged (`AbsSpec`). So `Set` on a signed record goes
to exactly `seq+1` and never changes `seq` on an unsigned one. A rejected
`SetSig` or `DecodeRLP` changes nothing. An accepted decode takes one
whole list's content. The mutant `InvalidateNoInc`, which forgets the
`seq++`, is refused within 62 states.

**`logfilter_liveness`.** The caller makes one `FilterLogs` or `WatchLogs`
call. The contract emits up to 3 logs of two events or with no topics, and
the query selects one event. The channel has capacity 2. Under weak
fairness of the producer goroutine and the backend's forwarder, the run
reaches 1,356 distinct states, and:
- every log the caller receives passes the checks of `UnpackLog` and
  `UnpackLogIntoMap` for the same event name (`DeliveredLogsUnpack`);
- at every moment, the logs received are the start of the logs the backend
  matched, in order, with none lost, repeated or reordered
  (`DeliveredInOrder`). This holds for both calls, however sends, reads and
  `Unsubscribe` interleave;
- a caller that reads until `Err()` closes and the channel is empty has
  every log, once and in order (`DrainedHasAll`);
- `Unsubscribe` always returns, even with the producer blocked on a full
  channel (`UnsubscribeReturns`);
- when the logs fit in the channel, the producer ends even if the caller
  drops the iterator (`LeakFreeWhenFits`).

A producer blocked on a full channel, under a caller that neither reads nor
unsubscribes, stays blocked for ever. The code promises nothing else: an
iterator must be closed. So there is no run for that case.

Every property of a passing run has a mutant in `PROJECT.json`: a plausible bug
in one mapped definition, written next to it in the module. TLC finds each
mutant's property violated under the run's own cfg.

### Bounds, and why they are enough
- **ENR bounds.**
  - Two nodes give every cross-node case: decoding another node's record,
    re-publishing it, and verifying a record that names another node.
  - Three keys give insertion at the front, in the middle and at the end. The
    `SetPairsInsertOffByOne` mutant is found within 3 steps.
  - The real encoded sizes and the real limit of 300 put one signed record at
    exactly 300 bytes, which both checks accept. Another record is 306 bytes,
    which `errTooBig` rejects.
  - `MaxSeq = 2` lets a signed record be mutated twice.
  - `MaxNet = 1` bounds the published lists in the passing run. The
    violation run needs `MaxNet = 2`.
- **Cache bounds.** Pairs and triples of values exceed the budget, so one
  `Add` can evict up to three items.
- **Transaction bounds.** Two callers are the least that can race on one
  account's nonce. One suggested tip and one suggested price (2), with a base
  fee of 1, give a derived fee cap of 4. An explicit cap of 1 sits below the
  tip, and an explicit price of 5 outbids the derived cap, so every fee
  comparison in the code and the pool goes both ways.
- **Call bounds.** Three blocks let a call and its code lookup straddle a
  mined deployment. Two callers give both capability sets, and each may make
  any of the four kinds of call.
- **`GetAbi` bounds.** Three goroutines making two calls each give a second
  goroutine both before and after the cache is filled.
- **`FilterLogs` bounds.** A capacity of 2 with up to 3 logs gives a batch
  that fits, one that fills the channel exactly, and one that overflows it.
  That is all the code's 128 can distinguish. Two events and logs without
  topics give every outcome of `UnpackLog`'s checks.
- **Gas bounds.** With `W = 8` the whole word range is enumerated. A minimum
  at least as large as the divisor keeps a valid child header, equal to the
  parent, always available, so there is no deadlock.

### Fairness
Fairness is asserted only on goroutine steps, in `LogFilter`. The Go
scheduler runs every runnable goroutine, so a goroutine whose next step (or
select arm) stays enabled eventually takes it.
- In `LogFilter`: `ProducerSend`, `ProducerReturn`, the backend
  forwarder's `Forward` and `ForwarderReturn`, and the return from
  `Unsubscribe` once `Err()` is closed, are `WF_vars`. The caller's steps
  (`Receive`, `Unsubscribe`, `Abandon`) get no fairness, nor does `Emit`:
  new blocks come when they come. Reading and closing are the caller's
  choice.

`Record`, the cache, the gas check, transactions, `Call` and `GetAbi` are
checked for safety only. In `ContractTransact`, `Timeout` ends a blocked
call when the caller gave a deadline. A property saying that such a call
returns would only restate `Deadline`, the one line `ensureContext` adds.
So it is not stated. Nothing in their code must eventually happen beyond returning
from a call.

## 4. Not modelled, and why
- `rpc/stdio.go`: pass-through I/O over `os.Stdin`/`os.Stdout`; there is no
  state to model.
- `internal/build/azure.go`: HTTP calls to a cloud SDK.
- `rlp/rlpgen/main.go`: a code generator over `go/types`.
- `accounts/abi/method.go`: `NewMethod` builds a value once. It formats
  strings with `fmt` and hashes the signature with Keccak-256. `IsConstant`
  and `IsPayable` read two fields. No code in `src/` calls any of them, and
  nothing is shared or mutated. The one question worth asking, whether
  distinct signatures get distinct 4-byte IDs, is about the hash, which a
  model cannot reproduce.
- `common/bytes_test.go`, `common/mclock/alarm_test.go`: tests whose code
  under test (`common/bytes.go`, `mclock.Alarm`) is not in this slice.
- In `accounts/abi/bind/base.go`:
  - the ABI decoding inside `UnpackLog*` (it is in `abi`, not in `src/`);
  - an anonymous event's logs with indexed arguments: a log carries only its
    first topic, so such a log looks like the event whose ID is its first
    argument. That is a hazard of `UnpackLog` (see `PROJECT.json`) that this
    model cannot show;
  - a backend subscription that ends with an error: `WatchLogs` passes the
    subscription through, and what the caller does next is outside `src/`;
  - the argument packing `c.abi.Pack` is modelled only as a failure
    outcome of `Entry`, before any backend call;
  - a blocking backend call is modelled in `ContractTransact` and
    `FilterLogs`/`WatchLogs`; `Call` lets every backend call return.

## 5. Plan

The order is by importance.

Done:
1. `Enr` core: all `Record` operations and the adversarial decoder.
2. `BlobLru`.
3. `GasLimit` against a reference.
4. `ContractTransact`: concurrent `transact` / `DeployContract`.
5. `ContractCall`: `Call`'s paths and the `ErrNoCode` lookup.
6. `MetaData`: `GetAbi`.
7. `EnrAbstract`, and the refinement of `Enr` into it.
8. `LogFilter`: the `FilterLogs` goroutine and its liveness.
9. `ContractTransact`: blocking backend calls, `SendTransaction` included, and `ensureContext`.
10. `FilterLogs`: event selector, `UnpackLog`, and a blocking query.
11. `WatchLogs` with the backend's subscription, `UnpackLogIntoMap`, and
    in-order delivery for both calls.

Next:
12. A fault model for `ContractTransact` in which the pool drops a sent
    transaction.
