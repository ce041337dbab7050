---------------------------- MODULE PrefixStore ----------------------------
(***************************************************************************)
(* The cross-slot prefix store of ServingSession (CrossSlotPrefixStore and *)
(* the six methods on it): device images of a token prefix, keyed by a     *)
(* GdnPrefixIndex.  A store is a value here.                               *)
(*                                                                         *)
(* An image holds what was copied out of the producing slot: its recurrent *)
(* state and its KV rows [0, pos), both as the tokens they were computed   *)
(* from.  images and pendingFree stand for the device allocations.         *)
(***************************************************************************)
EXTENDS GdnPrefixIndex

EmptyStore == [index       |-> EmptyIndex,
               images      |-> [id \in {} |-> <<>>],
               pendingFree |-> {},
               nextId      |-> 1]

(* lookupPrefixImage: the hit must still have its image.  A hit in the     *)
(* index is touched whether or not the caller goes on to use it.           *)
LookupImage(st, prompt) ==
    LET id == Lookup(st.index, prompt)
    IN IF id \in DOMAIN st.images THEN id ELSE NoPayload

TouchLookup(st, prompt) ==
    LET id == Lookup(st.index, prompt)
    IN IF id = NoPayload THEN st ELSE [st EXCEPT !.index = Touch(@, id)]

(* snapshotSlotToPrefixImage: copy out, register, and defer the frees of   *)
(* the evicted images (and of our own when the index bounced it).          *)
SnapshotKeepingEvicted(st, tokens, image) ==   \* mutant: no extract of victims
    [index       |-> Insert(st.index, tokens, st.nextId),
     images      |-> [p \in DOMAIN st.images \cup {st.nextId} |->
                         IF p = st.nextId THEN image ELSE st.images[p]],
     pendingFree |-> st.pendingFree,
     nextId      |-> st.nextId + 1]

Snapshot(st, tokens, image) ==
    LET id      == st.nextId
        evicted == InsertEvicts(st.index, tokens, id)
        owned   == (DOMAIN st.images \cup {id}) \ evicted
    IN [index       |-> Insert(st.index, tokens, id),
        images      |-> [p \in owned |-> IF p = id THEN image ELSE st.images[p]],
        pendingFree |-> st.pendingFree \cup (evicted \cap (DOMAIN st.images \cup {id})),
        nextId      |-> id + 1]

AcquireImage(st, id) == [st EXCEPT !.index = Acquire(@, id)]

ReleaseImage(st, id, n) == [st EXCEPT !.index = Release(@, id, n)]

(* drainPrefixImageFrees, after its flush.                                 *)
DrainFrees(st) == [st EXCEPT !.pendingFree = {}]
=============================================================================
