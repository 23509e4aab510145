------------------------------ MODULE LruCache ------------------------------
(***************************************************************************)
(* internal/datasection/cache.go: the byte-bounded LRU cache of inflated   *)
(* DZ payloads.  Every method holds the mutex from its first to its last   *)
(* statement, so get and put are single steps.                             *)
(*                                                                         *)
(* A key is the file offset of a compressed payload; the payload inflated  *)
(* from it has Size[key] bytes and is named after the key it came from.    *)
(***************************************************************************)
EXTENDS Integers, Sequences, FiniteSets, FiniteSetsExt

CONSTANTS
    Keys,    \* offsets of compressed payloads
    Size,    \* inflated size of each payload
    Budget   \* c.budget, positive (newLRU replaces 0 by its default)

ASSUME LruAssumption ==
    Size \in [Keys -> Nat] /\ Budget \in Nat \ {0}

VARIABLES
    entries,  \* c.entries: the cached payloads
    order,    \* c.order: keys, least recently used first
    size      \* c.size

lru == <<entries, order, size>>

LruInit == entries = <<>> /\ order = <<>> /\ size = 0

Cached == DOMAIN entries

(* Mutation: touch forgets to drop the old position.                       *)
TouchKeepsOld(ord, key) == Append(ord, key)

(* touch: the key moves to the most recently used end.                     *)
Touch(ord, key) ==
    LET i == CHOOSE i \in DOMAIN ord : ord[i] = key
    IN Append([j \in 1..(Len(ord) - 1) |-> IF j < i THEN ord[j] ELSE ord[j + 1]], key)

(* get of a cached key; a miss changes nothing.                            *)
GetHit(key) ==
    /\ key \in Cached
    /\ order' = Touch(order, key)
    /\ UNCHANGED <<entries, size>>

(* Bytes of some payloads, and of the n least recently used ones.          *)
Bytes(ks) == MapThenSumSet(LAMBDA k : Size[k], ks)
SizeOfOldest(n) == Bytes({order[i] : i \in 1..n})

(* put's loop stops after n evictions: the payload fits, or nothing is     *)
(* left to evict.                                                          *)
Stops(key, n) ==
    n = Len(order) \/ size - SizeOfOldest(n) + Size[key] <= Budget

(* Mutation: a full cache is emptied.                                      *)
EvictedAll(key) == Len(order)

(* put evicts from the old end until the payload fits; one that is larger  *)
(* than the whole budget ends up alone.                                    *)
Evicted(key) ==
    CHOOSE n \in 0..Len(order) :
        Stops(key, n) /\ \A m \in 0..(n - 1) : ~Stops(key, m)

(* Mutation: evictions are subtracted, the new payload is not added.       *)
SizeForgetsNew(key, n) == size - SizeOfOldest(n)

SizeAfter(key, n) == size - SizeOfOldest(n) + Size[key]

(* put of a new key.  A key that is already cached is only touched.        *)
PutNew(key) ==
    LET n    == Evicted(key)
        kept == SubSeq(order, n + 1, Len(order))
    IN /\ key \notin Cached
       /\ entries' = [k \in {kept[i] : i \in DOMAIN kept} \union {key} |->
                         IF k = key THEN key ELSE entries[k]]
       /\ order' = Append(kept, key)
       /\ size' = SizeAfter(key, n)

Put(key) == GetHit(key) \/ PutNew(key)

-----------------------------------------------------------------------------
(* The order list and the map never drift apart: the list holds each       *)
(* cached key exactly once, so an eviction always deletes what it subtracts *)
(* (cache.go: touch, put).                                                 *)
OrderIsKeys ==
    /\ {order[i] : i \in DOMAIN order} = Cached
    /\ \A i, j \in DOMAIN order : order[i] = order[j] => i = j

(* The size counts the bytes held, and it exceeds the budget only for a    *)
(* payload that is cached alone (cache.go: put).                           *)
SizeIsHeld == size = Bytes(Cached)

WithinBudget == size <= Budget \/ Cardinality(Cached) = 1

BudgetKept == SizeIsHeld /\ WithinBudget
=============================================================================
