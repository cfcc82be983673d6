------------------------------- MODULE MCEnr -------------------------------
(* Two nodes, the keys "big" < "id" < "secp256k1" with their real encoded  *)
(* sizes, and the real 300-byte SizeLimit.  A signed record holding "big"  *)
(* and "secp256k1" is exactly 300 bytes (accepted at both checks); adding  *)
(* "id" makes it 306, so SetSig meets errTooBig.                           *)
EXTENDS Enr

CONSTANTS n1, n2, V4, V5, Big

MCKeyOrder == <<"big", "id", "secp256k1">>
MCKeySize == [k \in {"big", "id", "secp256k1"} |->
                 IF k = "secp256k1" THEN 10 ELSE IF k = "id" THEN 3 ELSE 4]
\* "v4" encodes in 3 bytes, a compressed public key in 34, the big entry in 182
MCBlobSize == [b \in {V4, V5, Big, n1, n2} |->
                 CASE b \in {V4, V5} -> 3 [] b = Big -> 182 [] OTHER -> 34]
MCEntriesOf == [n \in {n1, n2} |->
                 {<<"id", V4>>, <<"secp256k1", n>>, <<"big", Big>>}]

S(b) == Elem("blob", b)
K(k) == Elem("key", k)
U(x) == Elem("uint", x)
\* One list per decodeRecord failure (the seventh is 306 bytes), plus a well-formed list naming the
\* unregistered scheme V5 with a junk signature.
MCForged ==
    { <<>>,
      <<BadSig>>,
      <<BadSig, U(0), K("secp256k1"), S(n1), K("id"), S(V4)>>,
      <<BadSig, U(0), K("id"), S(V4), K("id"), S(V5)>>,
      <<BadSig, U(0), K("id")>>,
      <<BadSig, U(0), Elem("list", 0), S(V4)>>,
      <<BadSig, U(0), K("big"), S(Big), K("id"), S(V4), K("secp256k1"), S(n2)>>,
      <<BadSig, U(1), K("id"), S(V5), K("secp256k1"), S(n1)>> }

-----------------------------------------------------------------------------
(* Refinement mapping onto EnrAbstract: a record's content is the function *)
(* its pairs define, it is signed when it carries a signature, and a wire  *)
(* list stands for the content it decodes to.                              *)

KV(ps) == [k \in {ps[i].k : i \in DOMAIN ps} |->
              ps[CHOOSE i \in DOMAIN ps : ps[i].k = k].v]

Content(r) == [seq |-> r.seq, kv |-> KV(r.pairs)]

\* The content of a list EncodeRLP wrote: seq, then key/value pairs (what
\* DecodeRecord gives back for it, as RoundTrip checks).
ListContent(m) ==
    LET at == {j \in 3..Len(m) : j % 2 = 1}
    IN [seq |-> m[2].v,
        kv  |-> [k \in {m[j].v : j \in at} |->
                    m[(CHOOSE j \in at : m[j].v = k) + 1]]]

Decodable == {m \in Forged : DecodeRecord(m).ok}

MCValues == {Elem("blob", e[2]) : e \in UNION {EntriesOf[n] : n \in Nodes}}
MCJunk == {Content(DecodeRecord(m).dec) : m \in Decodable}

Abs == INSTANCE EnrAbstract WITH
    Values    <- MCValues,
    Junk      <- MCJunk,
    record    <- [n \in Nodes |-> [seq    |-> rec[n].seq,
                                   kv     |-> KV(rec[n].pairs),
                                   signed |-> rec[n].signature # NoSig]],
    published <- {ListContent(m) : m \in net}

\* Every step of the records (Set, SetSeq, SetSig, EncodeRLP, DecodeRLP in
\* p2p/enr/enr.go) is a step of the record lifecycle of spec.md section 3:
\* in particular Set moves a signed record to exactly seq+1, and a failed
\* DecodeRLP or SetSig leaves the record untouched.
AbsSpec == Abs!Spec
=============================================================================
