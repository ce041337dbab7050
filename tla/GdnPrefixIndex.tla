-------------------------- MODULE GdnPrefixIndex --------------------------
(***************************************************************************)
(* The host-side index of the cross-slot prefix store                      *)
(* (runtime/serving/GdnPrefixIndex.hpp): block-aligned token prefixes      *)
(* mapped to payload ids, with pins and LRU eviction.  An index is a value *)
(* here; PrefixStore puts it to work.                                      *)
(*                                                                         *)
(* The FNV buckets of the code only narrow the search: every hit is        *)
(* confirmed by comparing the whole token sequence, so the index is a map  *)
(* from token sequences, and that is how it is modelled.                   *)
(***************************************************************************)
EXTENDS Naturals, FiniteSets, Sequences

CONSTANTS BlockSize,    \* _blockSize: prefixes are keyed at its multiples
          MaxEntries    \* _maxEntries: the LRU cap, 0 for no cap

ASSUME BlockSizeAssumption == BlockSize \in Nat \ {0}
ASSUME MaxEntriesAssumption == MaxEntries \in Nat

NoPayload == 0          \* kNone

(* An index: the tokens, pin count and recency of every payload, and the   *)
(* recency clock.  The three functions have the same domain.               *)
EmptyIndex == [tok  |-> [id \in {} |-> <<>>],
               ref  |-> [id \in {} |-> 0],
               last |-> [id \in {} |-> 0],
               tick |-> 0]

Payloads(x) == DOMAIN x.tok

(* The entries whose tokens are exactly the first tokens of the prompt, at *)
(* one of the block boundaries that lookup probes.                         *)
MatchingByLength(x, prompt) ==         \* mutant: a bucket hit is taken as is
    {id \in Payloads(x) : Len(x.tok[id]) <= Len(prompt)}

Matching(x, prompt) ==
    {id \in Payloads(x) : /\ Len(x.tok[id]) <= Len(prompt)
                          /\ Len(x.tok[id]) % BlockSize = 0
                          /\ x.tok[id] = SubSeq(prompt, 1, Len(x.tok[id]))}

(* lookup: the longest matching entry, NoPayload when there is none.       *)
Lookup(x, prompt) ==
    IF Matching(x, prompt) = {} THEN NoPayload
    ELSE CHOOSE id \in Matching(x, prompt) :
            \A other \in Matching(x, prompt) :
                Len(x.tok[other]) <= Len(x.tok[id])

Touch(x, id) == [x EXCEPT !.last[id] = x.tick + 1, !.tick = @ + 1]

Acquire(x, id) ==
    IF id \in Payloads(x) THEN [x EXCEPT !.ref[id] = @ + 1] ELSE x

(* n releases of one payload: each one stops at zero.                      *)
Release(x, id, n) ==
    IF id \in Payloads(x)
    THEN [x EXCEPT !.ref[id] = IF n <= @ THEN @ - n ELSE 0]
    ELSE x

Unpinned(x) == {id \in Payloads(x) : x.ref[id] = 0}

(* The entries the eviction loop removes: the least recently used of the   *)
(* unpinned ones, as many as the index is over its cap.                    *)
VictimsIgnoringPins(x) ==              \* mutant: the refcount is not looked at
    IF MaxEntries = 0 \/ Cardinality(Payloads(x)) <= MaxEntries THEN {}
    ELSE {id \in Payloads(x) :
            Cardinality({v \in Payloads(x) : x.last[v] < x.last[id]})
                < Cardinality(Payloads(x)) - MaxEntries}

Victims(x) ==
    IF MaxEntries = 0 \/ Cardinality(Payloads(x)) <= MaxEntries THEN {}
    ELSE {id \in Unpinned(x) :
            Cardinality({v \in Unpinned(x) : x.last[v] < x.last[id]})
                < Cardinality(Payloads(x)) - MaxEntries}

Without(x, gone) ==
    LET keep == Payloads(x) \ gone
    IN [tok  |-> [id \in keep |-> x.tok[id]],
        ref  |-> [id \in keep |-> x.ref[id]],
        last |-> [id \in keep |-> x.last[id]],
        tick |-> x.tick]

WithEntry(x, tokens, id) ==
    LET all == Payloads(x) \cup {id}
    IN [tok  |-> [p \in all |-> IF p = id THEN tokens ELSE x.tok[p]],
        ref  |-> [p \in all |-> IF p = id THEN 0 ELSE x.ref[p]],
        last |-> [p \in all |-> IF p = id THEN x.tick + 1 ELSE x.last[p]],
        tick |-> x.tick + 1]

(* insert: a prefix that is already cached keeps its entry and bounces the *)
(* new payload; otherwise the new entry is added unpinned and the cap is   *)
(* restored, which may evict the new entry itself.                         *)
CachedAs(x, tokens) == {id \in Payloads(x) : x.tok[id] = tokens}

InsertEvicts(x, tokens, id) ==
    IF CachedAs(x, tokens) # {} THEN {id} ELSE Victims(WithEntry(x, tokens, id))

Insert(x, tokens, id) ==
    IF CachedAs(x, tokens) # {}
    THEN Touch(x, CHOOSE old \in CachedAs(x, tokens) : TRUE)
    ELSE Without(WithEntry(x, tokens, id), InsertEvicts(x, tokens, id))
=============================================================================
