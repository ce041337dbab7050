------------------------------ MODULE PagedKv ------------------------------
(***************************************************************************)
(* The paged KV cache: PagedKvBlockAllocator (a pool of reference-counted  *)
(* blocks) and PagedKvSequence (the block table and token history of one   *)
(* request).                                                               *)
(*                                                                         *)
(* Which free block allocate() hands out is left open (the code pops a     *)
(* stack): no property tells block ids apart.  A token history is its      *)
(* length: the tokens of a request are determined by the request and the   *)
(* position.  The FNV hash of a full block is what was hashed, <<r, i>>    *)
(* for the first i blocks of request r, provided the parent's hash that    *)
(* was chained in is the right one.                                        *)
(***************************************************************************)
EXTENDS Integers, Sequences, FiniteSets

CONSTANTS
    Blocks,      \* the blocks of the pool
    BlockSize,   \* tokens per block
    Owners       \* the requests that may own a sequence

(* The constructor throws on an empty pool and on blocks of no tokens. *)
ASSUME PoolAssumption ==
    /\ IsFiniteSet(Blocks) /\ Blocks # {}
    /\ BlockSize \in Nat \ {0}

VARIABLES
    free,        \* _freeList
    ref,         \* _blocks[b].refcount
    hash,        \* _blocks[b].hash
    table,       \* _blockTable of the sequence of each request
    ntok         \* _tokens.size() of the sequence of each request

kvVars == <<free, ref, hash, table, ntok>>

NoHash == <<0, 0>>

KvTypeOK ==
    /\ free \in SUBSET Blocks
    /\ ref \in [Blocks -> Nat]
    /\ hash \in [Blocks -> (Owners \cup {0}) \X Nat]
    /\ table \in [Owners -> Seq(Blocks)]
    /\ ntok \in [Owners -> Nat]

KvInit ==
    /\ free = Blocks
    /\ ref = [b \in Blocks |-> 0]
    /\ hash = [b \in Blocks |-> NoHash]
    /\ table = [r \in Owners |-> <<>>]
    /\ ntok = [r \in Owners |-> 0]

AtBoundary(r) == ntok[r] = Len(table[r]) * BlockSize

(* appendToken would return false: it needs a block and there is none. *)
Exhausted(r) == AtBoundary(r) /\ free = {}

(* The hash of block i of r, chained from the hash of block i - 1. *)
ChainHash(r, i, tab, h) ==
    LET parent == IF i = 1 THEN <<r, 0>> ELSE h[tab[i - 1]]
    IN  IF parent = <<r, i - 1>> THEN <<r, i>> ELSE NoHash

(* Mutant of Appended: a full block is never hashed. *)
AppendedUnhashed(r, tab, h) ==
    /\ table' = [table EXCEPT ![r] = tab]
    /\ ntok' = [ntok EXCEPT ![r] = @ + 1]
    /\ hash' = h

(* appendToken, once allocate() has returned a block (or was not needed):  *)
(* tab is the block table, h the hashes after the allocation.              *)
Appended(r, tab, h) ==
    /\ table' = [table EXCEPT ![r] = tab]
    /\ ntok' = [ntok EXCEPT ![r] = @ + 1]
    /\ hash' = IF (ntok[r] + 1) % BlockSize = 0
               THEN [h EXCEPT ![tab[Len(tab)]] = ChainHash(r, Len(tab), tab, h)]
               ELSE h

AppendToken(r) ==
    \/ /\ AtBoundary(r)
       /\ \E b \in free :
            /\ free' = free \ {b}
            /\ ref' = [ref EXCEPT ![b] = 1]
            /\ Appended(r, Append(table[r], b), [hash EXCEPT ![b] = NoHash])
    \/ /\ ~AtBoundary(r)
       /\ Appended(r, table[r], hash)
       /\ UNCHANGED <<free, ref>>

BlocksOf(r) == {table[r][i] : i \in 1..Len(table[r])}

(* How many of the sequences R name block b, and so will release it. *)
Holders(R, b) == Cardinality({r \in R : b \in BlocksOf(r)})

(* release() is a no-op on a free block; the last reference clears the     *)
(* hash and puts the block back.                                           *)
RefAfter(R, b) == IF ref[b] > Holders(R, b) THEN ref[b] - Holders(R, b) ELSE 0

(* Mutant of ReleaseAll: reset() leaves the block table in place. *)
ReleaseAllUncleared(R) ==
    /\ ref' = [b \in Blocks |-> RefAfter(R, b)]
    /\ hash' = [b \in Blocks |-> IF RefAfter(R, b) = 0 THEN NoHash ELSE hash[b]]
    /\ free' = {b \in Blocks : RefAfter(R, b) = 0}
    /\ UNCHANGED <<table, ntok>>

(* reset() or the destructor of every sequence in R. *)
ReleaseAll(R) ==
    /\ ref' = [b \in Blocks |-> RefAfter(R, b)]
    /\ hash' = [b \in Blocks |-> IF RefAfter(R, b) = 0 THEN NoHash ELSE hash[b]]
    /\ free' = {b \in Blocks : RefAfter(R, b) = 0}
    /\ table' = [r \in Owners |-> IF r \in R THEN <<>> ELSE table[r]]
    /\ ntok' = [r \in Owners |-> IF r \in R THEN 0 ELSE ntok[r]]
=============================================================================
