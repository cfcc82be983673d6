----------------------------- MODULE EnrAbstract -----------------------------
(***************************************************************************)
(* What a node record promises its users (spec.md section 3, "Record      *)
(* lifecycle" and "Sequence policy"), without signatures, caches or wire  *)
(* encoding.                                                              *)
(*                                                                         *)
(* A record is its sequence number, its key/value content (a function     *)
(* from keys to values) and whether it is signed.  Nodes mutate their own *)
(* record, publish a signed one, and adopt any published record or any    *)
(* record an adversary can make decodable (Junk), as a whole.             *)
(***************************************************************************)
EXTENDS Naturals, TLC

CONSTANTS
    Nodes,
    Keys,
    Values,    \* the values a node's Set stores
    SeqArgs,   \* the values callers pass to SetSeq
    Junk       \* [seq, kv] contents of adversarial lists that decode

VARIABLES
    record,    \* record[n]: [seq, kv, signed]
    published  \* set of [seq, kv] contents of published records

vars == <<record, published>>

NoEntries == [k \in {} |-> k]

Init ==
    /\ record = [n \in Nodes |-> [seq |-> 0, kv |-> NoEntries, signed |-> FALSE]]
    /\ published = {}

\* Set on a signed record increments seq by exactly 1 and clears the
\* signature; on an unsigned record seq is left as it is.
Set(n, k, v) ==
    /\ record' = [record EXCEPT ![n] =
                    [seq    |-> IF @.signed THEN @.seq + 1 ELSE @.seq,
                     kv     |-> (k :> v) @@ @.kv,
                     signed |-> FALSE]]
    /\ UNCHANGED published

\* set_sequence(s) clears the signature and sets seq to s exactly.
SetSeq(n, s) ==
    /\ record' = [record EXCEPT ![n].seq = s, ![n].signed = FALSE]
    /\ UNCHANGED published

\* set_signature(nil, nil) unsigns; content and seq stay.
Unsign(n) ==
    /\ record' = [record EXCEPT ![n].signed = FALSE]
    /\ UNCHANGED published

\* A successful signature changes nothing but the signed flag.
Sign(n) ==
    /\ record' = [record EXCEPT ![n].signed = TRUE]
    /\ UNCHANGED published

\* Only a signed record is encoded.
Publish(n) ==
    /\ record[n].signed
    /\ published' = published \cup {[seq |-> record[n].seq, kv |-> record[n].kv]}
    /\ UNCHANGED record

\* Decode is atomic: the record becomes one whole decodable list's content.
Adopt(n) ==
    /\ \E a \in published \cup Junk :
          record' = [record EXCEPT ![n] = [seq |-> a.seq, kv |-> a.kv,
                                           signed |-> TRUE]]
    /\ UNCHANGED published

Next ==
    \E n \in Nodes :
        \/ \E k \in Keys, v \in Values : Set(n, k, v)
        \/ \E s \in SeqArgs : SetSeq(n, s)
        \/ Unsign(n)
        \/ Sign(n)
        \/ Publish(n)
        \/ Adopt(n)

Spec == Init /\ [][Next]_vars
=============================================================================
