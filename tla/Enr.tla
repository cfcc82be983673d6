-------------------------------- MODULE Enr --------------------------------
(***************************************************************************)
(* Ethereum Node Records, p2p/enr/enr.go.                                  *)
(*                                                                         *)
(* Every node owns one Record (rec[n]) that it mutates with Set, SetSeq    *)
(* and SetSig, publishes with EncodeRLP, and overwrites with DecodeRLP     *)
(* from any list on the network.  The network holds the lists nodes have   *)
(* encoded plus a fixed set of adversarial lists (Forged).                 *)
(*                                                                         *)
(* A wire list is a sequence of RLP elements.  An element is a record      *)
(* [t |-> kind, v |-> payload]: "key" (an entry key string), "blob" (a     *)
(* pre-encoded entry value), "uint" (a canonical integer), "sig" (a        *)
(* signature) or "list" (a nested list).  Only the kinds matter to the     *)
(* decoder; the byte length of each element is given by the constants.     *)
(***************************************************************************)
EXTENDS Integers, Sequences, SequencesExt, FiniteSets

CONSTANTS
    Nodes,        \* nodes; a node's public key is the node itself
    KeyOrder,     \* the entry keys, in byte-wise ascending order
    IdKey,        \* "id": the key naming the identity scheme
    SecpKey,      \* "secp256k1": the key holding the signer's public key
    EntriesOf,    \* EntriesOf[n]: the <<key, blob>> entries node n may Set
    SchemeNames,  \* blobs that decode as an ID (scheme names)
    Registered,   \* the scheme names present in the SchemeMap
    KeySize,      \* KeySize[k]: rlp.StringSize(k)
    BlobSize,     \* BlobSize[b]: length of the pre-encoded blob b
    SigSize,      \* encoded length of a signature element
    SizeLimit,    \* enr.SizeLimit (300)
    MaxSeq,       \* bound on sequence numbers (caps the seq++ of Set)
    MaxNet,       \* bound on the number of lists nodes publish
    SeqArgs,      \* the values callers pass to SetSeq
    Forged,       \* adversarial wire lists present on the network
    None, NoSig   \* sentinels: raw == nil, signature == nil

Keys == ToSet(KeyOrder)
Elem(t, v) == [t |-> t, v |-> v]
BadSig == Elem("sig", [signer |-> None, over |-> <<>>])

ASSUME /\ IdKey \in Keys /\ SecpKey \in Keys
       /\ Registered \subseteq SchemeNames
       /\ MaxSeq \in Nat /\ MaxNet \in Nat /\ SizeLimit \in Nat
       /\ SeqArgs \subseteq 0..MaxSeq

VARIABLES
    rec,     \* rec[n]: [seq, signature, raw, pairs] of node n's Record
    net      \* set of wire lists published with EncodeRLP

vars == <<rec, net>>

-----------------------------------------------------------------------------
(* Byte-wise key order, and the RLP size helpers (package rlp).           *)

KeyRank(k) == CHOOSE i \in DOMAIN KeyOrder : KeyOrder[i] = k
KeyLess(a, b) == KeyRank(a) < KeyRank(b)

RECURSIVE ByteLen(_)
ByteLen(x) == IF x = 0 THEN 0 ELSE 1 + ByteLen(x \div 256)

IntSize(x) == IF x < 128 THEN 1 ELSE 1 + ByteLen(x)

ListSize(n) == IF n < 56 THEN 1 + n ELSE 1 + ByteLen(n) + n

ElemSize(e) ==
    CASE e = NoSig     -> 1        \* rlp.BytesSize(nil)
      [] e.t = "key"   -> KeySize[e.v]
      [] e.t = "blob"  -> BlobSize[e.v]
      [] e.t = "uint"  -> IntSize(e.v)
      [] e.t = "sig"   -> SigSize
      [] e.t = "list"  -> 1

RawLen(list) == ListSize(FoldLeft(LAMBDA acc, e : acc + ElemSize(e), 0, list))

-----------------------------------------------------------------------------
(* Record accessors.                                                       *)

EmptyRecord == [seq |-> 0, signature |-> NoSig, raw |-> None, pairs |-> <<>>]

\* AppendElements: [seq, k1, v1, k2, v2, ...]; the content a signature covers.
AppendElements(r) ==
    <<Elem("uint", r.seq)>>
      \o FlattenSeq([i \in 1..Len(r.pairs) |->
                       <<Elem("key", r.pairs[i].k), r.pairs[i].v>>])

\* computeSize: the encoded length without materialising the encoding.
ComputeSize(r) == RawLen(<<r.signature>> \o AppendElements(r))

Size(r) == IF r.raw # None THEN RawLen(r.raw) ELSE ComputeSize(r)

\* sort.Search(len(pairs), func(i) bool { return pairs[i].k >= key }),
\* as the binary search it is; indices are 0-based as in Go.
RECURSIVE SearchIn(_, _, _, _)
SearchIn(ps, key, i, j) ==
    IF i >= j THEN i
    ELSE LET h == (i + j) \div 2
         IN IF KeyLess(ps[h + 1].k, key)
            THEN SearchIn(ps, key, h + 1, j)
            ELSE SearchIn(ps, key, i, h)

Search(ps, key) == SearchIn(ps, key, 0, Len(ps))

\* Load: [found, v]; a miss is errNotFound.
Load(r, key) ==
    LET i == Search(r.pairs, key)
    IN IF i < Len(r.pairs) /\ r.pairs[i + 1].k = key
       THEN [found |-> TRUE, v |-> r.pairs[i + 1].v]
       ELSE [found |-> FALSE, v |-> None]

\* IdentityScheme: r.Load(&id) with the error ignored; "" is None here.
IdentityScheme(r) ==
    LET l == Load(r, IdKey)
    IN IF l.found /\ l.v.t = "blob" /\ l.v.v \in SchemeNames
       THEN l.v.v ELSE None

\* The public key a record names: its secp256k1 entry decoded as a key.
PubKey(r) ==
    LET l == Load(r, SecpKey)
    IN IF l.found /\ l.v.t = "blob" /\ l.v.v \in Nodes THEN l.v.v ELSE None

\* The "v4" identity scheme's Verify: the signature must be one made by
\* the key in the secp256k1 entry over the record's AppendElements.
V4Verify(r, sig) ==
    /\ PubKey(r) # None
    /\ sig # NoSig /\ sig.t = "sig"
    /\ sig.v.signer = PubKey(r)
    /\ sig.v.over = AppendElements(r)

\* SchemeMap.Verify: an unregistered scheme fails with ErrInvalidSig.
SchemeMapVerify(r, sig) ==
    IF IdentityScheme(r) \notin Registered THEN FALSE
    ELSE V4Verify(r, sig)

\* SchemeMap.NodeAddr: nil for an unregistered scheme.
SchemeMapNodeAddr(r) ==
    IF IdentityScheme(r) \notin Registered THEN None
    ELSE PubKey(r)

\* VerifySignature(s) == s.Verify(r, r.signature).
VerifySignature(r, scheme) ==
    IF scheme = "v4" THEN V4Verify(r, r.signature)
    ELSE SchemeMapVerify(r, r.signature)

\* encode(sig): the full wire list, or errTooBig past SizeLimit.
Encode(r, sig) ==
    LET raw == <<sig>> \o AppendElements(r)
    IN IF RawLen(raw) > SizeLimit THEN [ok |-> FALSE, raw |-> None]
       ELSE [ok |-> TRUE, raw |-> raw]

-----------------------------------------------------------------------------
(* decodeRecord: structure-only validation of an untrusted list.           *)

Err(e) == [ok |-> FALSE, err |-> e]

\* Mutant: the dangling-key test is off by one and rejects the last pair.
RECURSIVE DecodePairsOffByOne(_, _, _)
DecodePairsOffByOne(m, i, acc) ==
    IF i > Len(m) THEN [ok |-> TRUE, pairs |-> acc]
    ELSE IF m[i].t # "key" THEN Err("rlpType")
    ELSE IF i + 1 >= Len(m) THEN Err("errIncompletePair")
    ELSE IF acc # <<>> /\ m[i].v = Last(acc).k THEN Err("errDuplicateKey")
    ELSE IF acc # <<>> /\ KeyLess(m[i].v, Last(acc).k) THEN Err("errNotSorted")
    ELSE DecodePairsOffByOne(m, i + 2, Append(acc, [k |-> m[i].v, v |-> m[i + 1]]))

\* The k/v loop; acc holds the pairs read so far (i > 0 iff acc # <<>>).
RECURSIVE DecodePairs(_, _, _)
DecodePairs(m, i, acc) ==
    IF i > Len(m) THEN [ok |-> TRUE, pairs |-> acc]
    ELSE IF m[i].t # "key" THEN Err("rlpType")
    ELSE IF i + 1 > Len(m) THEN Err("errIncompletePair")
    ELSE IF acc # <<>> /\ m[i].v = Last(acc).k THEN Err("errDuplicateKey")
    ELSE IF acc # <<>> /\ KeyLess(m[i].v, Last(acc).k) THEN Err("errNotSorted")
    ELSE DecodePairs(m, i + 2, Append(acc, [k |-> m[i].v, v |-> m[i + 1]]))

DecodeRecord(m) ==
    CASE RawLen(m) > SizeLimit -> Err("errTooBig")
      [] Len(m) < 1            -> Err("errIncompleteList")
      [] m[1].t = "list"       -> Err("rlpType")
      [] Len(m) < 2            -> Err("errIncompleteList")
      [] m[2].t # "uint"       -> Err("rlpType")
      [] OTHER ->
            LET ps == DecodePairs(m, 3, <<>>)
            IN IF ~ps.ok THEN ps
               ELSE [ok |-> TRUE,
                     dec |-> [seq |-> m[2].v, signature |-> m[1],
                              raw |-> m, pairs |-> ps.pairs]]

-----------------------------------------------------------------------------
(* Operations.  Each changes only rec[n], except EncodeRLP (net).         *)

Init ==
    /\ rec = [n \in Nodes |-> EmptyRecord]
    /\ net = {}

\* Mutant: seq++ on every mutation, signed or not.
InvalidateAlwaysInc(r) ==
    [r EXCEPT !.seq = @ + 1, !.signature = NoSig, !.raw = None]

\* Mutant: invalidate forgets the seq++ of a signed record.
InvalidateNoInc(r) ==
    [r EXCEPT !.signature = NoSig, !.raw = None]

\* invalidate: a signed record gets seq+1; signature and raw are dropped.
Invalidate(r) ==
    [r EXCEPT !.seq = IF r.signature # NoSig THEN @ + 1 ELSE @,
              !.signature = NoSig,
              !.raw = None]

\* Mutant: the middle insertion lands one slot too far right.
SetPairsInsertOffByOne(ps, key, blob) ==
    LET i == Search(ps, key)
        el == [k |-> key, v |-> Elem("blob", blob)]
    IN CASE i < Len(ps) /\ ps[i + 1].k = key -> [ps EXCEPT ![i + 1].v = el.v]
         [] i < Len(ps)                       -> InsertAt(ps, i + 2, el)
         [] OTHER                             -> Append(ps, el)

\* Set(e): invalidate, then update in place, insert at i, or append.
SetPairs(ps, key, blob) ==
    LET i == Search(ps, key)
        el == [k |-> key, v |-> Elem("blob", blob)]
    IN CASE i < Len(ps) /\ ps[i + 1].k = key -> [ps EXCEPT ![i + 1].v = el.v]
         [] i < Len(ps)                       -> InsertAt(ps, i + 1, el)
         [] OTHER                             -> Append(ps, el)

Set(n, e) ==
    /\ rec[n].signature # NoSig => rec[n].seq < MaxSeq
    /\ LET r == Invalidate(rec[n])
       IN rec' = [rec EXCEPT ![n] = [r EXCEPT !.pairs = SetPairs(r.pairs, e[1], e[2])]]
    /\ UNCHANGED net

\* Mutant: SetSeq drops the signature but keeps the cached encoding.
SetSeqKeepRaw(n, s) ==
    /\ rec' = [rec EXCEPT ![n] = [@ EXCEPT !.signature = NoSig, !.seq = s]]
    /\ UNCHANGED net

\* SetSeq(s): unconditionally unsigned, seq set exactly.
SetSeq(n, s) ==
    /\ rec' = [rec EXCEPT ![n] = [@ EXCEPT !.signature = NoSig,
                                          !.raw = None, !.seq = s]]
    /\ UNCHANGED net

\* SetSig(nil, nil): explicit unsign.
Unsign(n) ==
    /\ rec' = [rec EXCEPT ![n] = [@ EXCEPT !.signature = NoSig, !.raw = None]]
    /\ UNCHANGED net

\* SetSig(s, sig): verify, encode within SizeLimit, then store both; on
\* either error the record is left as it was.
SetSig(n, scheme, sig) ==
    LET r   == rec[n]
        ok  == IF scheme = "v4" THEN V4Verify(r, sig) ELSE SchemeMapVerify(r, sig)
        enc == Encode(r, sig)
    IN IF ok /\ enc.ok
       THEN /\ rec' = [rec EXCEPT ![n] = [@ EXCEPT !.signature = sig,
                                                   !.raw = enc.raw]]
            /\ UNCHANGED net
       ELSE UNCHANGED vars

\* A node signs with its own key over its current content, or offers junk.
Sign(n, scheme) ==
    \E sig \in {Elem("sig", [signer |-> n, over |-> AppendElements(rec[n])]), BadSig} :
        SetSig(n, scheme, sig)

\* EncodeRLP: errEncodeUnsigned unless signed; otherwise writes raw.
EncodeRLP(n) ==
    /\ rec[n].signature # NoSig
    /\ Cardinality(net) < MaxNet
    /\ net' = net \cup {rec[n].raw}
    /\ UNCHANGED rec

\* DecodeRLP: *r = dec; r.raw = raw, only if the whole list validates.
DecodeRLP(n, m) ==
    LET res == DecodeRecord(m)
    IN /\ IF res.ok THEN rec' = [rec EXCEPT ![n] = res.dec]
                    ELSE UNCHANGED rec
       /\ UNCHANGED net

Next ==
    \E n \in Nodes :
        \/ \E e \in EntriesOf[n] : Set(n, e)
        \/ \E s \in SeqArgs : SetSeq(n, s)
        \/ Unsign(n)
        \/ \E scheme \in {"v4", "map"} : Sign(n, scheme)
        \/ EncodeRLP(n)
        \/ \E m \in net \cup Forged : DecodeRLP(n, m)

Spec == Init /\ [][Next]_vars

-----------------------------------------------------------------------------
(* Properties.                                                             *)

\* The elements a record can hold (a predicate: payloads of several kinds
\* cannot be put in one set TLC must order).
IsElem(e) ==
    \/ e.t = "key"  /\ e.v \in Keys
    \/ e.t = "list" /\ e.v = 0
    \/ e.t = "blob" /\ e.v \in DOMAIN BlobSize
    \/ e.t = "uint" /\ e.v \in 0..MaxSeq

TypeOK ==
    \A n \in Nodes :
        /\ rec[n].seq \in 0..MaxSeq
        /\ rec[n].signature = NoSig \/ rec[n].signature.t = "sig"
        /\ rec[n].raw = None \/ \A i \in DOMAIN rec[n].raw :
              IsElem(rec[n].raw[i]) \/ rec[n].raw[i] = rec[n].signature
        /\ \A i \in 1..Len(rec[n].pairs) :
              rec[n].pairs[i].k \in Keys /\ IsElem(rec[n].pairs[i].v)

\* Record.pairs stays strictly ascending by key after any sequence of Set
\* insertions (binary search + InsertAt) and any accepted DecodeRLP.
PairsSorted ==
    \A n \in Nodes :
        \A i \in 1..Len(rec[n].pairs) - 1 :
            KeyLess(rec[n].pairs[i].k, rec[n].pairs[i + 1].k)

\* The cached encoding is never stale: raw is present exactly when a
\* signature is, and then equals encode(signature) of the current seq and
\* pairs and is within SizeLimit (Set/SetSeq/SetSig/DecodeRLP all keep it).
CacheCoherent ==
    \A n \in Nodes :
        LET r == rec[n] IN
        /\ (r.raw = None) <=> (r.signature = NoSig)
        /\ r.raw # None =>
              /\ r.raw = <<r.signature>> \o AppendElements(r)
              /\ RawLen(r.raw) <= SizeLimit

\* Every list a node encodes decodes back to a record with the same seq,
\* signature, pairs and Size (decodeRecord accepts what encode produces).
RoundTrip ==
    \A n \in Nodes :
        rec[n].raw # None =>
            LET res == DecodeRecord(rec[n].raw)
            IN /\ res.ok
               /\ res.dec = rec[n]
               /\ Size(res.dec) = Size(rec[n])

\* Spec section 3: mutating a distributed signed record must give one every
\* observer recognises as newer, so two published lists with genuine
\* signatures of the same signer and the same seq carry the same content.
SeqIdentifiesVersion ==
    \A m1, m2 \in {m \in net : m[1].v.signer \in Nodes} :
        (m1[1].v.signer = m2[1].v.signer /\ m1[2] = m2[2]) => m1 = m2
=============================================================================
