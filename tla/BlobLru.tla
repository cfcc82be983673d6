------------------------------ MODULE BlobLru ------------------------------
(***************************************************************************)
(* SizeConstrainedCache, common/lru/blob_lru.go: an LRU cache whose        *)
(* capacity is a byte budget.  Add and Get run under c.lock, so each call  *)
(* is one atomic step.  Values are content-addressed: the value added      *)
(* under key k always has length ValueLen[k].  The underlying BasicLRU     *)
(* (not in this slice) is a recency list, oldest first, of capacity        *)
(* MaxInt; Contains is SequencesExt's.                                     *)
(***************************************************************************)
EXTENDS Integers, Sequences, SequencesExt, FiniteSets

CONSTANTS
    Keys,      \* cache keys
    ValueLen,  \* ValueLen[k]: len(value) of the content-addressed value of k
    MaxSize    \* maxSize, the byte budget given to NewSizeConstrainedCache

ASSUME ValueLen \in [Keys -> Nat] /\ MaxSize \in Nat

VARIABLES
    size,      \* c.size
    lru,       \* c.lru: the keys it holds, least recently used first
    evicted    \* the value the last Add returned (FALSE after a Get)

vars == <<size, lru, evicted>>

-----------------------------------------------------------------------------
(* BasicLRU operations used by the cache.                                  *)

\* Mutant: a held key is appended again instead of moved.
TouchDup(l, k) == Append(l, k)

\* Add/Get of a held key moves it to the most recent end; a new key is
\* appended there.
Touch(l, k) == Append(Remove(l, k), k)

-----------------------------------------------------------------------------
(* The eviction loop of Add: while targetSize > maxSize, RemoveOldest;     *)
(* stop when the list is empty.  Returns the list, targetSize, evicted.    *)

\* Mutant: the loop body runs at most once (an if instead of a for).
EvictOnce(l, target, ev) ==
    IF target <= MaxSize THEN [l |-> l, target |-> target, ev |-> ev]
    ELSE IF l = <<>> THEN [l |-> l, target |-> target, ev |-> TRUE]
    ELSE [l |-> Tail(l), target |-> target - ValueLen[Head(l)], ev |-> TRUE]

RECURSIVE Evict(_, _, _)
Evict(l, target, ev) ==
    IF target <= MaxSize THEN [l |-> l, target |-> target, ev |-> ev]
    ELSE IF l = <<>> THEN [l |-> l, target |-> target, ev |-> TRUE]
    ELSE Evict(Tail(l), target - ValueLen[Head(l)], TRUE)

-----------------------------------------------------------------------------

Init ==
    /\ size = 0
    /\ lru = <<>>
    /\ evicted = FALSE

\* Mutant: the bytes of a key already held are counted again.
AddAlwaysCount(k) ==
    LET r == Evict(lru, size + ValueLen[k], FALSE)
    IN /\ size' = r.target
       /\ lru' = Touch(r.l, k)
       /\ evicted' = r.ev

\* Add(key, value): evict only for a key not already held, then add (or
\* bump) the key.
Add(k) ==
    IF Contains(lru, k)
    THEN /\ lru' = Touch(lru, k)
         /\ evicted' = FALSE
         /\ UNCHANGED size
    ELSE LET r == Evict(lru, size + ValueLen[k], FALSE)
         IN /\ size' = r.target
            /\ lru' = Append(r.l, k)
            /\ evicted' = r.ev

\* Get(key): a hit bumps the key; the byte count is untouched.
Get(k) ==
    /\ lru' = IF Contains(lru, k) THEN Touch(lru, k) ELSE lru
    /\ evicted' = FALSE
    /\ UNCHANGED size

Next == \E k \in Keys : Add(k) \/ Get(k)

Spec == Init /\ [][Next]_vars

-----------------------------------------------------------------------------
(* Properties.                                                             *)

TypeOK ==
    /\ size \in Nat
    /\ lru \in Seq(Keys) /\ Len(lru) = Cardinality(ToSet(lru))
    /\ evicted \in BOOLEAN

\* c.size is the total length of the values the LRU holds, through every
\* sequence of Adds (new and repeated keys) with evictions and Gets.
SizeAccounting ==
    size = FoldLeft(LAMBDA acc, k : acc + ValueLen[k], 0, lru)

\* The doc comment: older items are evicted until the size constraint is
\* met, so the cache never holds more than maxSize bytes.
WithinBudget == size <= MaxSize

\* Add's doc comment: it returns true if an eviction occurred, i.e. only
\* when some held key was actually removed.
EvictedMeansRemoved ==
    [][evicted' => \E k \in ToSet(lru) : ~Contains(lru', k)]_vars
=============================================================================
