------------------------- MODULE BatcherMemoryProofs -------------------------
(***************************************************************************)
(* Theorems about the memory ContinuousBatcher serves from, for every      *)
(* number of slots, requests, prompts and images: the store's index, its   *)
(* images and the frees it has put off account for each other, an image a  *)
(* live slot was restored from is neither evicted nor freed, and the rows, *)
(* recurrent states, checkpoints and images are those of the tokens they   *)
(* stand for.                                                              *)
(***************************************************************************)
EXTENDS BatcherAnswerProofs

IndexFields == {"tok", "ref", "last", "tick"}

(* Index, images and pending frees account for each other: ids are handed  *)
(* out once, an image is either indexed or waiting to be freed.            *)
Accounts(st) ==
    /\ st = [f \in StoreFields |-> st[f]]
    /\ st.index = [f \in IndexFields |-> st.index[f]]
    /\ st.nextId \in Nat \ {0}
    /\ Payloads(st.index) \subseteq 1 .. st.nextId - 1
    /\ DOMAIN st.index.ref = Payloads(st.index)
    /\ \A id \in Payloads(st.index) : st.index.ref[id] \in Nat
    /\ DOMAIN st.images = Payloads(st.index)
    /\ st.pendingFree \subseteq 1 .. st.nextId - 1
    /\ DOMAIN st.images \cap st.pendingFree = {}

(* The slots of sl that hold a pin on an image.                            *)
PinnedBy(sl, id) == {i \in Slots : sl[i].req # None /\ sl[i].pin = id}
PinsOf(sl, G, id) == {i \in G : sl[i].pin = id}

(* A pin is on an image of the store, which counts it.                     *)
Indexed(st, sl) ==
    \A i \in Slots : sl[i].req # None /\ sl[i].pin # NoPayload =>
                        sl[i].pin \in Payloads(st.index)
Covers(st, sl) ==
    \A id \in Payloads(st.index) : Cardinality(PinnedBy(sl, id)) <= st.index.ref[id]

Pinned(st, sl) == Accounts(st) /\ Indexed(st, sl) /\ Covers(st, sl)

-----------------------------------------------------------------------------
(* Counting pins                                                           *)

(* Finitely many slots hold a pin, and none only if the set is empty.      *)
LEMMA PinCount ==
    ASSUME NEW sl, NEW id
    PROVE  /\ IsFiniteSet(PinnedBy(sl, id)) /\ Cardinality(PinnedBy(sl, id)) \in Nat
           /\ PinnedBy(sl, id) = {} <=> Cardinality(PinnedBy(sl, id)) = 0
  <1>1. IsFiniteSet(Slots)
    BY FS_Interval, BatcherAssumption DEF Slots
  <1>2. PinnedBy(sl, id) \subseteq Slots
    BY DEF PinnedBy
  <1> QED BY <1>1, <1>2, FS_Subset, FS_CardinalityType, FS_EmptySet

(* The same slots with the same pins hold the same.                        *)
LEMMA SamePins ==
    ASSUME NEW sl, NEW sl2, NEW id,
           \A i \in Slots : sl2[i].req # None /\ sl2[i].pin = id <=>
                            sl[i].req # None /\ sl[i].pin = id
    PROVE  PinnedBy(sl2, id) = PinnedBy(sl, id)
  BY DEF PinnedBy

(* A slot more.                                                            *)
LEMMA OnePinMore ==
    ASSUME NEW sl, NEW sl2, NEW id, NEW i \in Slots, sl[i].req = None,
           sl2[i].req # None, sl2[i].pin = id,
           \A j \in Slots \ {i} : sl2[j].req = sl[j].req /\ sl2[j].pin = sl[j].pin
    PROVE  Cardinality(PinnedBy(sl2, id)) = Cardinality(PinnedBy(sl, id)) + 1
  <1>1. PinnedBy(sl2, id) = PinnedBy(sl, id) \cup {i} /\ i \notin PinnedBy(sl, id)
    BY DEF PinnedBy
  <1> QED BY <1>1, PinCount, FS_AddElement

(* The slots in G fewer.                                                   *)
LEMMA PinsFewer ==
    ASSUME NEW sl, NEW sl2, NEW id, NEW G \in SUBSET Slots,
           \A i \in G : sl[i].req # None /\ sl2[i].req = None,
           \A j \in Slots \ G : sl2[j].req = sl[j].req /\ sl2[j].pin = sl[j].pin
    PROVE  /\ Cardinality(PinsOf(sl, G, id)) \in Nat
           /\ Cardinality(PinnedBy(sl2, id)) + Cardinality(PinsOf(sl, G, id))
                = Cardinality(PinnedBy(sl, id))
  <1> DEFINE gone == PinsOf(sl, G, id)
  <1>1. /\ PinnedBy(sl, id) = PinnedBy(sl2, id) \cup gone
        /\ PinnedBy(sl2, id) \cap gone = {} /\ gone \subseteq PinnedBy(sl, id)
    BY DEF PinnedBy, PinsOf
  <1>2. IsFiniteSet(gone) /\ Cardinality(gone) \in Nat
    BY <1>1, PinCount, FS_Subset, FS_CardinalityType
  <1> HIDE DEF gone
  <1>3. Cardinality(PinnedBy(sl2, id) \cap gone) = 0
    BY <1>1, FS_EmptySet
  <1>4. /\ IsFiniteSet(PinnedBy(sl2, id)) /\ Cardinality(PinnedBy(sl2, id)) \in Nat
    BY PinCount
  <1>5. Cardinality(PinnedBy(sl2, id) \cup gone)
          = Cardinality(PinnedBy(sl2, id)) + Cardinality(gone)
            - Cardinality(PinnedBy(sl2, id) \cap gone)
    BY <1>2, <1>4, FS_Union
  <1> QED BY <1>1, <1>2, <1>3, <1>4, <1>5 DEF gone

-----------------------------------------------------------------------------
(* The operations of the store                                             *)

(* Two stores with the same ids, counts and images.                        *)
SameCounts(st, st2) ==
    /\ Accounts(st2)
    /\ st2.images = st.images /\ st2.index.tok = st.index.tok
    /\ Payloads(st2.index) = Payloads(st.index)
    /\ \A id \in Payloads(st.index) : st2.index.ref[id] = st.index.ref[id]

(* With the same ids and counts, pins that were counted still are.         *)
LEMMA SameCountsKeep ==
    ASSUME NEW st, NEW st2, NEW sl, SameCounts(st, st2)
    PROVE  Pinned(st, sl) => Pinned(st2, sl)
  BY DEF SameCounts, Pinned, Indexed, Covers

(* A lookup only touches the recency of an entry.                          *)
LEMMA TouchLookupCounts ==
    ASSUME NEW st, NEW prompt, Accounts(st)
    PROVE  SameCounts(st, TouchLookup(st, prompt))
  <1> DEFINE id == Lookup(st.index, prompt)
  <1>1. CASE id = NoPayload
    BY <1>1 DEF TouchLookup, SameCounts
  <1>2. CASE id # NoPayload
    <2>1. PICK x, x2 : x = st.index /\ x2 = Touch(x, id)
      OBVIOUS
    <2> HIDE DEF id
    <2>2. x = [f \in IndexFields |-> x[f]]
      BY <2>1 DEF Accounts
    <2>3. /\ x2 = [f \in IndexFields |-> x2[f]] /\ x2.tok = x.tok /\ x2.ref = x.ref
      BY <2>1, <2>2 DEF Touch, IndexFields
    <2>4. TouchLookup(st, prompt) = [st EXCEPT !.index = x2]
      BY <1>2, <2>1 DEF TouchLookup, id
    <2>5. st = [f \in StoreFields |-> st[f]]
      BY DEF Accounts
    <2>6. PICK t : t = TouchLookup(st, prompt)
      OBVIOUS
    <2>7. /\ t = [f \in StoreFields |-> t[f]] /\ t.index = x2 /\ t.images = st.images
          /\ t.pendingFree = st.pendingFree /\ t.nextId = st.nextId
      BY <2>4, <2>5, <2>6 DEF StoreFields
    <2> QED BY <2>1, <2>3, <2>6, <2>7 DEF SameCounts, Accounts, Payloads
  <1> QED BY <1>1, <1>2

(* Draining frees what has been put off, and nothing else.                 *)
LEMMA DrainCounts ==
    ASSUME NEW st, Accounts(st)
    PROVE  SameCounts(st, DrainFrees(st))
  <1>1. PICK t : t = DrainFrees(st)
    OBVIOUS
  <1>2. /\ t = [f \in StoreFields |-> t[f]] /\ t.index = st.index /\ t.images = st.images
        /\ t.pendingFree = {} /\ t.nextId = st.nextId
    BY <1>1 DEF Accounts, DrainFrees, StoreFields
  <1> QED BY <1>1, <1>2 DEF SameCounts, Accounts

(* Acquiring an image counts one pin more.                                 *)
LEMMA AcquireCounts ==
    ASSUME NEW st, Accounts(st), NEW id \in Payloads(st.index)
    PROVE  LET t == AcquireImage(st, id)
           IN /\ Accounts(t) /\ Payloads(t.index) = Payloads(st.index)
              /\ t.images = st.images /\ t.index.tok = st.index.tok
              /\ \A p \in Payloads(st.index) :
                    t.index.ref[p] = IF p = id THEN st.index.ref[p] + 1 ELSE st.index.ref[p]
  <1>1. PICK t, x : t = AcquireImage(st, id) /\ x = Acquire(st.index, id)
    OBVIOUS
  <1>2. /\ t = [f \in StoreFields |-> t[f]] /\ t.index = x /\ t.images = st.images
        /\ t.pendingFree = st.pendingFree /\ t.nextId = st.nextId
    BY <1>1 DEF Accounts, AcquireImage, StoreFields
  <1>3. PICK y : y = st.index
    OBVIOUS
  <1>4. /\ y = [f \in IndexFields |-> y[f]] /\ DOMAIN y.ref = DOMAIN y.tok
        /\ id \in DOMAIN y.ref
    BY <1>3 DEF Accounts, Payloads
  <1>5. x = [y EXCEPT !.ref[id] = @ + 1]
    BY <1>1, <1>3 DEF Acquire
  <1>6. /\ x = [f \in IndexFields |-> x[f]] /\ x.tok = y.tok
        /\ x.ref = [y.ref EXCEPT ![id] = @ + 1]
    BY <1>4, <1>5 DEF IndexFields
  <1>7. /\ DOMAIN x.ref = DOMAIN y.ref
        /\ \A p \in DOMAIN y.ref : x.ref[p] = IF p = id THEN y.ref[p] + 1 ELSE y.ref[p]
    BY <1>4, <1>6
  <1>8. \A p \in Payloads(y) : y.ref[p] \in Nat
    BY <1>3 DEF Accounts
  <1>9. Payloads(x) = Payloads(y) /\ \A p \in Payloads(x) : x.ref[p] \in Nat
    BY <1>4, <1>6, <1>7, <1>8 DEF Payloads
  <1>10. Accounts(t)
    BY <1>2, <1>3, <1>4, <1>6, <1>7, <1>9 DEF Accounts, Payloads
  <1> QED BY <1>1, <1>2, <1>3, <1>4, <1>6, <1>7, <1>9, <1>10 DEF Payloads

(* The eviction after an insert removes only entries without a pin.        *)
LEMMA VictimsUnpinned ==
    ASSUME NEW x
    PROVE  Victims(x) \subseteq Unpinned(x) /\ Unpinned(x) \subseteq Payloads(x)
  BY DEF Victims, Unpinned

(* Index y is x with the new entry id and without those in gone.           *)
Inserted(x, tokens, id, y, gone) ==
    /\ y = [f \in IndexFields |-> y[f]]
    /\ DOMAIN y.ref = Payloads(y)
    /\ Payloads(y) = (Payloads(x) \cup {id}) \ gone
    /\ \A p \in Payloads(y) : /\ (p = id => y.ref[p] = 0) /\ (p # id => y.ref[p] = x.ref[p])
                               /\ y.tok[p] = IF p = id THEN tokens ELSE x.tok[p]
    /\ \A p \in Payloads(x) \cap gone : x.ref[p] = 0

(* What an insert leaves in the index: no pinned entry goes, no count      *)
(* changes, and a new entry is not pinned.                                 *)
LEMMA InsertCounts ==
    ASSUME NEW st, Accounts(st), NEW tokens
    PROVE  Inserted(st.index, tokens, st.nextId, Insert(st.index, tokens, st.nextId),
                    InsertEvicts(st.index, tokens, st.nextId))
  <1>1. PICK x, id : x = st.index /\ id = st.nextId
    OBVIOUS
  <1>2. PICK y, gone : y = Insert(x, tokens, id) /\ gone = InsertEvicts(x, tokens, id)
    OBVIOUS
  <1>3. /\ x = [f \in IndexFields |-> x[f]] /\ DOMAIN x.ref = Payloads(x)
        /\ id \notin Payloads(x)
    BY <1>1 DEF Accounts
  <1>4. ASSUME CachedAs(x, tokens) # {} PROVE Inserted(x, tokens, id, y, gone)
    <2>1. PICK old : y = Touch(x, old) /\ gone = {id}
      BY <1>2, <1>4 DEF Insert, InsertEvicts
    <2>2. y = [f \in IndexFields |-> y[f]] /\ y.tok = x.tok /\ y.ref = x.ref
      BY <1>3, <2>1 DEF Touch, IndexFields
    <2>3. Payloads(y) = Payloads(x)
      BY <2>2 DEF Payloads
    <2>4. Payloads(y) = (Payloads(x) \cup {id}) \ gone /\ id \notin Payloads(y)
      BY <1>3, <2>1, <2>3
    <2>5. \A p \in Payloads(y) : /\ (p = id => y.ref[p] = 0) /\ (p # id => y.ref[p] = x.ref[p])
                                 /\ y.tok[p] = IF p = id THEN tokens ELSE x.tok[p]
      BY <2>2, <2>4
    <2>6. Payloads(x) \cap gone = {} /\ DOMAIN y.ref = Payloads(y)
      BY <1>3, <2>1, <2>2, <2>3
    <2> QED BY <2>2, <2>4, <2>5, <2>6, Zenon DEF Inserted
  <1>5. ASSUME CachedAs(x, tokens) = {} PROVE Inserted(x, tokens, id, y, gone)
    <2>1. PICK w : w = WithEntry(x, tokens, id)
      OBVIOUS
    <2>2. y = Without(w, gone) /\ gone = Victims(w)
      BY <1>2, <1>5, <2>1 DEF Insert, InsertEvicts
    <2>3. /\ DOMAIN w.tok = Payloads(x) \cup {id}
          /\ \A p \in Payloads(x) \cup {id} :
                /\ w.tok[p] = IF p = id THEN tokens ELSE x.tok[p]
                /\ (p = id => w.ref[p] = 0) /\ (p # id => w.ref[p] = x.ref[p])
      BY <2>1 DEF WithEntry
    <2>4. Payloads(w) = Payloads(x) \cup {id}
      BY <2>3 DEF Payloads
    <2>5. /\ y = [f \in IndexFields |-> y[f]]
          /\ DOMAIN y.tok = Payloads(w) \ gone /\ DOMAIN y.ref = Payloads(w) \ gone
          /\ \A p \in Payloads(w) \ gone : y.tok[p] = w.tok[p] /\ y.ref[p] = w.ref[p]
      BY <2>2 DEF Without, IndexFields
    <2>6. \A p \in gone : p \in Payloads(w) /\ w.ref[p] = 0
      BY <2>2, VictimsUnpinned DEF Unpinned
    <2>7. Payloads(y) = Payloads(w) \ gone
      BY <2>5 DEF Payloads
    <2>8. \A p \in Payloads(y) : /\ (p = id => y.ref[p] = 0) /\ (p # id => y.ref[p] = x.ref[p])
                                 /\ y.tok[p] = IF p = id THEN tokens ELSE x.tok[p]
      BY <2>3, <2>4, <2>5, <2>7
    <2>9. /\ \A p \in Payloads(x) \cap gone : x.ref[p] = 0
          /\ DOMAIN y.ref = Payloads(y) /\ Payloads(y) = (Payloads(x) \cup {id}) \ gone
      BY <1>3, <2>3, <2>4, <2>5, <2>6, <2>7
    <2>10. y = [f \in IndexFields |-> y[f]]
      BY <2>5
    <2> QED BY <2>8, <2>9, <2>10, Zenon DEF Inserted
  <1>6. Inserted(x, tokens, id, y, gone)
    BY <1>4, <1>5
  <1> QED BY <1>1, <1>2, <1>6

(* Store t is st with an image under the new id, and without images that   *)
(* had no pin.                                                             *)
Snapped(st, tokens, image, t) ==
    /\ Accounts(t)
    /\ \A p \in Payloads(t.index) :
          /\ p \in Payloads(st.index) \cup {st.nextId}
          /\ (p = st.nextId => t.index.ref[p] = 0)
          /\ (p # st.nextId => t.index.ref[p] = st.index.ref[p])
          /\ t.index.tok[p] = IF p = st.nextId THEN tokens ELSE st.index.tok[p]
          /\ t.images[p] = IF p = st.nextId THEN image ELSE st.images[p]
    /\ \A p \in Payloads(st.index) : st.index.ref[p] # 0 => p \in Payloads(t.index)

(* A snapshot takes a new id and keeps every pinned image.                 *)
LEMMA SnapshotCounts ==
    ASSUME NEW st, Accounts(st), NEW tokens, NEW image
    PROVE  Snapped(st, tokens, image, Snapshot(st, tokens, image))
  <1>1. PICK x, id : x = st.index /\ id = st.nextId
    OBVIOUS
  <1>2. PICK t, y, gone : /\ t = Snapshot(st, tokens, image) /\ y = Insert(x, tokens, id)
                          /\ gone = InsertEvicts(x, tokens, id)
    OBVIOUS
  <1>3. /\ y = [f \in IndexFields |-> y[f]] /\ DOMAIN y.ref = Payloads(y)
        /\ Payloads(y) = (Payloads(x) \cup {id}) \ gone
        /\ \A p \in Payloads(y) : /\ (p = id => y.ref[p] = 0) /\ (p # id => y.ref[p] = x.ref[p])
                                   /\ y.tok[p] = IF p = id THEN tokens ELSE x.tok[p]
        /\ \A p \in Payloads(x) \cap gone : x.ref[p] = 0
    <2>1. Inserted(x, tokens, id, y, gone)
      BY <1>1, <1>2, InsertCounts
    <2> QED BY <2>1 DEF Inserted
  <1>4. /\ DOMAIN st.images = Payloads(x) /\ id \in Nat \ {0}
        /\ Payloads(x) \subseteq 1 .. id - 1 /\ st.pendingFree \subseteq 1 .. id - 1
        /\ \A p \in Payloads(x) : x.ref[p] \in Nat
        /\ Payloads(x) \cap st.pendingFree = {}
    BY <1>1 DEF Accounts
  <1>5. /\ t = [f \in StoreFields |-> t[f]] /\ t.index = y
        /\ t.images = [p \in (DOMAIN st.images \cup {id}) \ gone |->
                          IF p = id THEN image ELSE st.images[p]]
        /\ t.pendingFree = st.pendingFree \cup (gone \cap (DOMAIN st.images \cup {id}))
        /\ t.nextId = id + 1
    BY <1>1, <1>2 DEF Snapshot, StoreFields
  <1>6. /\ DOMAIN t.images = Payloads(y)
        /\ \A p \in Payloads(y) : t.images[p] = IF p = id THEN image ELSE st.images[p]
    BY <1>3, <1>4, <1>5
  <1>7. /\ Payloads(y) \subseteq 1 .. (id + 1) - 1 /\ id + 1 \in Nat \ {0}
        /\ t.pendingFree \subseteq 1 .. (id + 1) - 1
        /\ \A p \in Payloads(y) : y.ref[p] \in Nat
    <2>1. \A p \in 1 .. id - 1 : p \in 1 .. (id + 1) - 1
      BY <1>4
    <2>2. id \in 1 .. (id + 1) - 1
      BY <1>4
    <2>3. Payloads(y) \subseteq 1 .. (id + 1) - 1
      BY <1>3, <1>4, <2>1, <2>2
    <2>4. t.pendingFree \subseteq 1 .. (id + 1) - 1
      BY <1>4, <1>5, <2>1, <2>2
    <2>5. ASSUME NEW p \in Payloads(y) PROVE y.ref[p] \in Nat
      <3>1. (p = id => y.ref[p] = 0) /\ (p # id => y.ref[p] = x.ref[p])
        BY <1>3
      <3>2. p # id => p \in Payloads(x)
        BY <1>3
      <3> QED BY <1>4, <3>1, <3>2
    <2> QED BY <1>4, <2>3, <2>4, <2>5
  <1>8. DOMAIN t.images \cap t.pendingFree = {}
    <2>1. id \notin st.pendingFree
      BY <1>4
    <2> QED BY <1>3, <1>4, <1>5, <1>6, <2>1
  <1>9. Accounts(t)
    BY <1>3, <1>5, <1>6, <1>7, <1>8 DEF Accounts
  <1>10. Snapped(st, tokens, image, t)
    <2>1. \A p \in Payloads(x) : x.ref[p] # 0 => p \in Payloads(y)
      BY <1>3
    <2>2. \A p \in Payloads(y) : p \in Payloads(x) \cup {id}
      BY <1>3
    <2>3. t.index = y
      BY <1>5
    <2> QED BY <1>1, <1>3, <1>6, <1>9, <2>1, <2>2, <2>3, Zenon DEF Snapped
  <1> QED BY <1>2, <1>10

(* A snapshot keeps every pin.                                             *)
LEMMA SnapshotKeeps ==
    ASSUME NEW st, NEW sl, Pinned(st, sl), NEW tokens, NEW image
    PROVE  Pinned(Snapshot(st, tokens, image), sl)
  <1>1. PICK t, new : t = Snapshot(st, tokens, image) /\ new = st.nextId
    OBVIOUS
  <1>2. Accounts(st) /\ Indexed(st, sl) /\ Covers(st, sl)
    BY DEF Pinned
  <1>3. /\ Accounts(t)
        /\ \A p \in Payloads(t.index) :
              /\ p \in Payloads(st.index) \cup {new}
              /\ (p = new => t.index.ref[p] = 0) /\ (p # new => t.index.ref[p] = st.index.ref[p])
        /\ \A p \in Payloads(st.index) : st.index.ref[p] # 0 => p \in Payloads(t.index)
    <2>1. Snapped(st, tokens, image, t)
      BY <1>1, <1>2, SnapshotCounts
    <2> QED BY <1>1, <2>1 DEF Snapped
  <1>4. new \notin Payloads(st.index) /\ new # NoPayload
    BY <1>1, <1>2 DEF Accounts, NoPayload
  <1>5. Cardinality(PinnedBy(sl, new)) = 0
    <2>1. PinnedBy(sl, new) = {}
      BY <1>2, <1>4 DEF Indexed, PinnedBy
    <2> QED BY <2>1, PinCount
  <1>6. Indexed(t, sl)
    <2> SUFFICES ASSUME NEW i \in Slots, sl[i].req # None, sl[i].pin # NoPayload
                 PROVE  sl[i].pin \in Payloads(t.index)
      BY DEF Indexed
    <2>1. PICK p : p = sl[i].pin
      OBVIOUS
    <2>2. p \in Payloads(st.index) /\ i \in PinnedBy(sl, p)
      BY <1>2, <2>1 DEF Indexed, PinnedBy
    <2>3. Cardinality(PinnedBy(sl, p)) \in Nat /\ Cardinality(PinnedBy(sl, p)) # 0
      BY <2>2, PinCount
    <2>4. Cardinality(PinnedBy(sl, p)) <= st.index.ref[p]
      BY <1>2, <2>2 DEF Covers
    <2>5. st.index.ref[p] # 0
      BY <2>3, <2>4
    <2> QED BY <1>3, <2>1, <2>2, <2>5
  <1>7. Covers(t, sl)
    BY <1>2, <1>3, <1>5 DEF Covers
  <1> QED BY <1>1, <1>3, <1>6, <1>7 DEF Pinned

(* n releases of a payload.                                                *)
LEMMA ReleaseCounts ==
    ASSUME NEW x, NEW id \in Payloads(x), x = [f \in IndexFields |-> x[f]],
           DOMAIN x.ref = Payloads(x), x.ref[id] \in Nat, NEW n \in Nat
    PROVE  /\ Release(x, id, n).ref[id] \in Nat
           /\ n <= x.ref[id] => Release(x, id, n).ref[id] = x.ref[id] - n
  <1>1. Release(x, id, n) = [x EXCEPT !.ref[id] = IF n <= @ THEN @ - n ELSE 0]
    BY DEF Release
  <1>2. Release(x, id, n).ref = [x.ref EXCEPT ![id] = IF n <= @ THEN @ - n ELSE 0]
    BY <1>1 DEF IndexFields
  <1>3. Release(x, id, n).ref[id] = IF n <= x.ref[id] THEN x.ref[id] - n ELSE 0
    BY <1>2
  <1> QED BY <1>3

(* retireSlot gives back the pins of the slots it frees, each once.        *)
LEMMA RetirePins ==
    ASSUME NEW sl, NEW dv, NEW st, NEW cold, NEW warm,
           RetireSlots(sl, dv, st, cold, warm), Pinned(st, sl),
           \A i \in Slots : sl[i] = [f \in SlotFields |-> sl[i][f]],
           cold \cup warm \in SUBSET Slots, \A i \in cold \cup warm : sl[i].req # None
    PROVE  Pinned(store', slots')
  <1> DEFINE gone == cold \cup warm
             Unpins(id) == Cardinality({i \in gone : sl[i].pin = id})
  <1>1. /\ \A i \in gone : slots'[i].req = None
        /\ \A i \in Slots \ gone : slots'[i] = sl[i]
    BY DEF RetireSlots, SlotFields
  <1>2. store' = [st EXCEPT !.index.ref =
                     [id \in DOMAIN @ |-> Release(st.index, id, Unpins(id)).ref[id]]]
    BY DEF RetireSlots
  <1>3. Accounts(st) /\ Indexed(st, sl) /\ Covers(st, sl)
    BY DEF Pinned
  <1>4. PICK x, y, t : /\ x = st.index /\ t = store'
                       /\ y = [x EXCEPT !.ref = [id \in DOMAIN @ |->
                                                   Release(x, id, Unpins(id)).ref[id]]]
    OBVIOUS
  <1> HIDE DEF gone, Unpins
  <1>5. /\ x = [f \in IndexFields |-> x[f]] /\ DOMAIN x.ref = Payloads(x)
        /\ \A id \in Payloads(x) : x.ref[id] \in Nat
    BY <1>3, <1>4 DEF Accounts
  <1>6. /\ t = [f \in StoreFields |-> t[f]] /\ t.index = y /\ t.images = st.images
        /\ t.pendingFree = st.pendingFree /\ t.nextId = st.nextId
    <2>1. t = [st EXCEPT !.index = y]
      BY <1>2, <1>4
    <2> QED BY <1>3, <2>1 DEF Accounts, StoreFields
  <1>7. /\ y = [f \in IndexFields |-> y[f]] /\ y.tok = x.tok
        /\ y.ref = [id \in DOMAIN x.ref |-> Release(x, id, Unpins(id)).ref[id]]
    BY <1>4, <1>5 DEF IndexFields
  <1>8. Payloads(y) = Payloads(x) /\ DOMAIN y.ref = Payloads(y)
    BY <1>5, <1>7 DEF Payloads
  <1>9. ASSUME NEW id \in Payloads(x)
        PROVE  y.ref[id] \in Nat /\ Cardinality(PinnedBy(slots', id)) <= y.ref[id]
    <2>1. /\ Unpins(id) \in Nat
          /\ Cardinality(PinnedBy(slots', id)) + Unpins(id) = Cardinality(PinnedBy(sl, id))
      <3>1. PICK sl2, G : sl2 = slots' /\ G = gone
        OBVIOUS
      <3>2. G \in SUBSET Slots
        BY <3>1 DEF gone
      <3>3. \A i \in G : sl[i].req # None /\ sl2[i].req = None
        BY <1>1, <3>1 DEF gone
      <3>4. \A j \in Slots \ G : sl2[j].req = sl[j].req /\ sl2[j].pin = sl[j].pin
        BY <1>1, <3>1
      <3>5. /\ Cardinality(PinsOf(sl, G, id)) \in Nat
            /\ Cardinality(PinnedBy(sl2, id)) + Cardinality(PinsOf(sl, G, id))
                = Cardinality(PinnedBy(sl, id))
        BY <3>2, <3>3, <3>4, PinsFewer
      <3> QED BY <3>1, <3>5 DEF Unpins, PinsOf
    <2>2. /\ Cardinality(PinnedBy(slots', id)) \in Nat /\ x.ref[id] \in Nat
          /\ Cardinality(PinnedBy(sl, id)) <= x.ref[id]
      BY <1>3, <1>4, <1>5, PinCount DEF Covers
    <2>3. Unpins(id) <= x.ref[id]
      BY <2>1, <2>2
    <2>4. y.ref[id] = x.ref[id] - Unpins(id) /\ y.ref[id] \in Nat
      BY <1>5, <1>7, <2>1, <2>3, ReleaseCounts
    <2> QED BY <2>1, <2>2, <2>3, <2>4
  <1>10. Accounts(t)
    BY <1>3, <1>4, <1>6, <1>7, <1>8, <1>9 DEF Accounts
  <1>11. Indexed(t, slots')
    <2> SUFFICES ASSUME NEW i \in Slots, slots'[i].req # None, slots'[i].pin # NoPayload
                 PROVE  slots'[i].pin \in Payloads(x)
      BY <1>6, <1>8 DEF Indexed
    <2>1. slots'[i] = sl[i]
      BY <1>1 DEF gone
    <2> QED BY <1>3, <1>4, <2>1 DEF Indexed
  <1>12. Covers(t, slots')
    BY <1>6, <1>8, <1>9 DEF Covers
  <1> QED BY <1>4, <1>10, <1>11, <1>12 DEF Pinned

(* A slot that is only freed keeps its pin in the count.                   *)
LEMMA FreePins ==
    ASSUME Pinned(store, slots), store' = store, NEW G \in SUBSET Slots,
           \A i \in G : slots[i].req # None /\ slots'[i].req = None,
           \A j \in Slots \ G : slots'[j].req = slots[j].req /\ slots'[j].pin = slots[j].pin
    PROVE  Pinned(store', slots')
  <1>1. Accounts(store) /\ Indexed(store, slots) /\ Covers(store, slots)
    BY DEF Pinned
  <1>2. Indexed(store', slots')
    BY <1>1 DEF Indexed
  <1>3. ASSUME NEW id \in Payloads(store.index)
        PROVE  Cardinality(PinnedBy(slots', id)) <= store.index.ref[id]
    <2>1. /\ Cardinality(PinsOf(slots, G, id)) \in Nat
          /\ Cardinality(PinnedBy(slots', id)) + Cardinality(PinsOf(slots, G, id))
                = Cardinality(PinnedBy(slots, id))
      BY PinsFewer
    <2>2. /\ Cardinality(PinnedBy(slots', id)) \in Nat
          /\ Cardinality(PinnedBy(slots, id)) \in Nat
      BY PinCount
    <2>3. /\ Cardinality(PinnedBy(slots, id)) <= store.index.ref[id]
          /\ store.index.ref[id] \in Nat
      BY <1>1 DEF Covers, Accounts
    <2> QED BY <2>1, <2>2, <2>3
  <1> QED BY <1>1, <1>2, <1>3 DEF Pinned, Covers

(* An admission pins the image it restored, if any.                        *)
LEMMA AdmitPins ==
    ASSUME Pinned(store, slots), NEW i \in Slots, slots[i].req = None,
           slots'[i].req # None, NEW id, slots'[i].pin = id,
           \A j \in Slots \ {i} : slots'[j].req = slots[j].req /\ slots'[j].pin = slots[j].pin,
           NEW st, SameCounts(store, st),
           \/ id = NoPayload /\ store' = st
           \/ id \in Payloads(store.index) /\ store' = AcquireImage(st, id)
    PROVE  Pinned(store', slots')
  <1>1. /\ Accounts(store) /\ Indexed(store, slots) /\ Covers(store, slots)
        /\ Accounts(st) /\ Payloads(st.index) = Payloads(store.index)
    BY DEF Pinned, SameCounts
  <1>2. \A p : p # id => PinnedBy(slots', p) = PinnedBy(slots, p)
    BY DEF PinnedBy
  <1>3. CASE id = NoPayload /\ store' = st
    <2>1. ASSUME NEW p \in Payloads(store.index) PROVE p # id
      <3>1. Payloads(store.index) \subseteq 1 .. store.nextId - 1
        BY <1>1 DEF Accounts
      <3>2. 0 \notin 1 .. store.nextId - 1
        OBVIOUS
      <3> QED BY <1>3, <3>1, <3>2 DEF NoPayload
    <2>2. Indexed(store', slots')
      BY <1>1, <1>3 DEF Indexed
    <2>3. Covers(store', slots')
      BY <1>1, <1>2, <1>3, <2>1 DEF Covers, SameCounts
    <2> QED BY <1>1, <1>3, <2>2, <2>3 DEF Pinned
  <1>4. CASE id \in Payloads(store.index) /\ store' = AcquireImage(st, id)
    <2>1. PICK t : t = store'
      OBVIOUS
    <2>2. /\ Accounts(t) /\ Payloads(t.index) = Payloads(store.index)
          /\ \A p \in Payloads(store.index) :
                t.index.ref[p] = IF p = id THEN store.index.ref[p] + 1 ELSE store.index.ref[p]
      BY <1>1, <1>4, <2>1, AcquireCounts DEF SameCounts
    <2>3. Indexed(t, slots')
      BY <1>1, <1>4, <2>2 DEF Indexed
    <2>4. Cardinality(PinnedBy(slots', id)) = Cardinality(PinnedBy(slots, id)) + 1
      BY OnePinMore
    <2>5. ASSUME NEW p \in Payloads(store.index)
          PROVE  Cardinality(PinnedBy(slots', p)) <= t.index.ref[p]
      <3>1. /\ Cardinality(PinnedBy(slots, p)) <= store.index.ref[p]
            /\ store.index.ref[p] \in Nat /\ Cardinality(PinnedBy(slots, p)) \in Nat
        BY <1>1, PinCount DEF Covers, Accounts
      <3>2. t.index.ref[p] = IF p = id THEN store.index.ref[p] + 1 ELSE store.index.ref[p]
        BY <2>2
      <3>3. CASE p = id
        BY <2>4, <3>1, <3>2, <3>3
      <3>4. CASE p # id
        BY <1>2, <3>1, <3>2, <3>4
      <3> QED BY <3>3, <3>4
    <2> QED BY <2>1, <2>2, <2>3, <2>5 DEF Pinned, Covers
  <1> QED BY <1>3, <1>4

-----------------------------------------------------------------------------
(* The actions                                                             *)

(* Only who is in a slot and its pin matter.                               *)
LEMMA OtherFields ==
    ASSUME NEW st, NEW sl, NEW sl2,
           \A i \in Slots : sl2[i].req = sl[i].req /\ sl2[i].pin = sl[i].pin
    PROVE  Pinned(st, sl) => Pinned(st, sl2)
  <1>1. \A id : PinnedBy(sl2, id) = PinnedBy(sl, id)
    BY DEF PinnedBy
  <1> QED BY <1>1 DEF Pinned, Indexed, Covers

(* What every step keeps.                                                  *)
PinsKept == Pinned(store', slots')

(* An admission by one of the three passes.                                *)
LEMMA AdmitToPins ==
    ASSUME BatcherInv, Pinned(store, slots), NEW i \in Slots \ Occupied,
           NEW k \in DOMAIN waiting, NEW start, NEW id, NEW eager,
           AdmitTo(i, waiting[k], start, id, eager),
           NEW st, SameCounts(store, st),
           \/ id = NoPayload /\ store' = st
           \/ id \in Payloads(store.index) /\ store' = AcquireImage(st, id)
    PROVE  PinsKept
  <1>1. slots[i].req = None
    BY DEF Occupied
  <1>2. waiting[k] # None
    BY BatcherAssumption DEF BatcherInv, Places
  <1>3. /\ slots'[i].req = waiting[k] /\ slots'[i].pin = id
        /\ \A j \in Slots \ {i} : slots'[j] = slots[j]
    BY DEF BatcherInv, Shape, AdmitTo, SlotFields
  <1> QED BY <1>1, <1>2, <1>3, AdmitPins DEF PinsKept

(* Only the cross-slot pass pins: one image, for the slot it admits to.    *)
LEMMA AdmissionPins ==
    ASSUME BatcherInv, Pinned(store, slots), AdmitWarm \/ AdmitCross \/ AdmitCold
    PROVE  PinsKept
  <1>1. /\ waiting \in Seq(Reqs) /\ Accounts(store)
        /\ SameCounts(store, store)
    BY DEF BatcherInv, Places, Pinned, SameCounts
  <1>2. CASE AdmitWarm
    <2>1. PICK k \in WarmHits : \E i \in FindWarmSlot(req[waiting[k]].prompt) :
             AdmitTo(i, waiting[k], WarmPos(i, req[waiting[k]].prompt), NoPayload, TRUE)
      BY <1>2 DEF AdmitWarm
    <2>9. PICK i \in FindWarmSlot(req[waiting[k]].prompt) :
             AdmitTo(i, waiting[k], WarmPos(i, req[waiting[k]].prompt), NoPayload, TRUE)
      BY <2>1
    <2>2. k \in DOMAIN waiting
      BY DEF WarmHits
    <2>3. i \in Slots \ Occupied
      <3>1. i \in Slots /\ WarmPos(i, req[waiting[k]].prompt) > 0
        BY DEF FindWarmSlot, WarmFor
      <3> QED BY <3>1 DEF WarmPos
    <2>4. store' = store
      BY <1>2 DEF AdmitWarm
    <2> QED BY <1>1, <2>9, <2>2, <2>3, <2>4, AdmitToPins
  <1>3. CASE AdmitCross
    <2>1. PICK i \in PickColdSlot : \E img \in {store.images[CrossId]} :
             AdmitTo(i, waiting[scan], img.pos, CrossId, TRUE)
      BY <1>3 DEF AdmitCross
    <2>2. scan \in DOMAIN waiting
      BY <1>1, <1>3 DEF AdmitCross, CrossMore, BatcherInv, Cursor
    <2>3. i \in Slots \ Occupied
      BY DEF PickColdSlot
    <2>4. CrossId \in DOMAIN store.images
      BY <1>3 DEF AdmitCross, CrossUsable, CrossId, LookupImage
    <2>5. CrossId \in Payloads(store.index)
      BY <1>1, <2>4 DEF Accounts
    <2>6. PICK st : st = TouchLookup(store, CrossPrompt)
      OBVIOUS
    <2>7. SameCounts(store, st) /\ store' = AcquireImage(st, CrossId)
      BY <1>1, <1>3, <2>6, TouchLookupCounts DEF AdmitCross
    <2> QED BY <2>1, <2>2, <2>3, <2>5, <2>7, AdmitToPins
  <1>4. CASE AdmitCold
    <2>1. PICK i \in PickColdSlot :
             AdmitTo(i, Head(waiting), 0, NoPayload,
                     ~MixedStep \/ (PressureGate /\ ~pressure))
      BY <1>4 DEF AdmitCold
    <2>2. 1 \in DOMAIN waiting /\ Head(waiting) = waiting[1]
      BY <1>1, <1>4 DEF AdmitCold, ColdMore
    <2>3. i \in Slots \ Occupied
      BY DEF PickColdSlot
    <2>4. store' = store
      BY <1>4 DEF AdmitCold
    <2> QED BY <1>1, <2>1, <2>2, <2>3, <2>4, AdmitToPins
  <1> QED BY <1>2, <1>3, <1>4

(* A commit gives back the pins of the slots it retires.                   *)
LEMMA CommitPins ==
    ASSUME BatcherInv, NEW B \in SUBSET Occupied, NEW tk, NEW dv, NEW st, NEW rq,
           Commit(B, tk, dv, st, rq), Pinned(st, slots)
    PROVE  Pinned(store', slots')
  <1> DEFINE cold == {i \in B : Cancelled(i)}
             warm == {i \in B \ cold : Stops(tk[i], 1, PromptLen(i))}
             sl == [i \in Slots |-> IF i \in B THEN Ingested(i) ELSE slots[i]]
  <1>1. RetireSlots(sl, dv, st, cold, warm)
    BY DEF Commit
  <1>2. \A i \in Slots : /\ sl[i] = [f \in SlotFields |-> sl[i][f]]
                         /\ sl[i].req = slots[i].req /\ sl[i].pin = slots[i].pin
    <2> TAKE i \in Slots
    <2>1. PICK s : s = slots[i]
      OBVIOUS
    <2>2. s = [f \in SlotFields |-> s[f]]
      BY <2>1 DEF BatcherInv, Shape
    <2>3. PICK pos, res : Ingested(i) = [s EXCEPT !.pos = pos, !.prefillPos = pos,
                                                  !.residentTokens = res]
      BY <2>1 DEF Ingested
    <2>4. /\ Ingested(i) = [f \in SlotFields |-> Ingested(i)[f]]
          /\ Ingested(i).req = s.req /\ Ingested(i).pin = s.pin
      BY <2>2, <2>3 DEF SlotFields
    <2> QED BY <2>1, <2>2, <2>4
  <1>3. /\ cold \cup warm \in SUBSET Slots
        /\ \A i \in cold \cup warm : slots[i].req # None
    BY DEF Occupied
  <1> HIDE DEF cold, warm, sl
  <1>4. Pinned(st, sl)
    BY <1>2, OtherFields
  <1>5. \A i \in cold \cup warm : sl[i].req # None
    BY <1>2, <1>3
  <1> QED BY <1>1, <1>2, <1>3, <1>4, <1>5, RetirePins

(* The chunk's snapshot keeps every pin.                                   *)
LEMMA ChunkStorePins ==
    ASSUME Pinned(store, slots)
    PROVE  Pinned(ChunkStore, slots)
  <1>1. \/ ChunkStore = store
        \/ \E tokens, image : ChunkStore = Snapshot(store, tokens, image)
    BY DEF ChunkStore
  <1> QED BY <1>1, SnapshotKeeps

(* The prefills that do not fail.                                          *)
LEMMA PrefillPins ==
    ASSUME BatcherInv, Pinned(store, slots),
           \/ PrefillBegin \/ PrefillChunkStep
           \/ (\E tok \in GenTokens : PrefillLastChunk(tok))
           \/ PrefillBatch
    PROVE  PinsKept
  <1>1. CASE PrefillBegin
    BY <1>1 DEF PrefillBegin, PinsKept
  <1>2. CASE PrefillChunkStep
    <2>1. store' = ChunkStore /\ slots' = slots
      BY <1>2 DEF PrefillChunkStep
    <2> QED BY <2>1, ChunkStorePins DEF PinsKept
  <1>3. ASSUME NEW tok \in GenTokens, PrefillLastChunk(tok) PROVE PinsKept
    <2>1. PICK dv, st : /\ Commit({job.slot}, [i \in {job.slot} |-> tok], dv, st, ChunkReq)
                        /\ st = DrainFrees(ChunkStore)
      BY <1>3 DEF PrefillLastChunk
    <2>2. {job.slot} \in SUBSET Occupied
      BY <1>3 DEF PrefillLastChunk, BatcherInv, Works, WorkList
    <2>3. Pinned(ChunkStore, slots)
      BY ChunkStorePins
    <2>4. SameCounts(ChunkStore, st)
      BY <2>1, <2>3, DrainCounts DEF Pinned
    <2>5. Pinned(st, slots)
      BY <2>3, <2>4, SameCountsKeep
    <2> QED BY <2>1, <2>2, <2>5, CommitPins DEF PinsKept
  <1>4. CASE PrefillBatch
    <2>1. PICK tk, rq : Commit(BatchSlots, tk, BatchDevice, store, rq)
      BY <1>4 DEF PrefillBatch
    <2>2. BatchSlots \in SUBSET Occupied
      <3>1. toPrefill \in Seq(Slots) /\ toPrefill # <<>> /\ WorkList
        BY <1>4 DEF PrefillBatch, BatchReady, BatcherInv, Works
      <3>2. BatchSize \in 1 .. Len(toPrefill)
        BY <3>1, BatchSizeType
      <3> QED BY <3>1, <3>2 DEF BatchSlots, WorkList
    <2> QED BY <2>1, <2>2, CommitPins DEF PinsKept
  <1> QED BY <1>1, <1>2, <1>3, <1>4

(* The decode step.                                                        *)
LEMMA DecodePins ==
    ASSUME BatcherInv, Pinned(store, slots), DecodeStep
    PROVE  PinsKept
  <1> DEFINE cold == {i \in Occupied : FoundCancelled(i)}
             gens == {i \in Occupied \ cold : slots[i].pos + 1 >= PromptLen(i)}
             stops(tk) == {i \in gens :
                    Stops(tk[i], Len(req[Owner(i)].tokens) + 1, slots[i].pos + 1)}
             sl(tk) == [i \in Slots |-> IF i \in Occupied \ (cold \cup stops(tk))
                                       THEN [slots[i] EXCEPT !.pos = @ + 1]
                                       ELSE slots[i]]
  <1>1. PICK tk, dv : RetireSlots(sl(tk), dv, store, cold, stops(tk))
    BY DEF DecodeStep
  <1>2. PICK s, st : s = sl(tk) /\ st = stops(tk)
    OBVIOUS
  <1>3. \A i \in Slots : /\ s[i] = [f \in SlotFields |-> s[i][f]]
                         /\ s[i].req = slots[i].req /\ s[i].pin = slots[i].pin
    <2> TAKE i \in Slots
    <2>1. PICK t : t = slots[i]
      OBVIOUS
    <2>2. t = [f \in SlotFields |-> t[f]]
      BY <2>1 DEF BatcherInv, Shape
    <2>3. s[i] = t \/ s[i] = [t EXCEPT !.pos = @ + 1]
      BY <1>2, <2>1
    <2> QED BY <2>1, <2>2, <2>3 DEF SlotFields
  <1>4. cold \cup st \in SUBSET Slots /\ \A i \in cold \cup st : slots[i].req # None
    BY <1>2 DEF Occupied
  <1>5. Pinned(store, s)
    BY <1>3, OtherFields
  <1>6. \A i \in cold \cup st : s[i].req # None
    BY <1>3, <1>4
  <1>7. RetireSlots(s, dv, store, cold, st)
    BY <1>1, <1>2
  <1> HIDE DEF cold, gens, stops, sl
  <1> QED BY <1>3, <1>4, <1>5, <1>6, <1>7, RetirePins DEF PinsKept

(* The steps that only move the worker along.                              *)
LEMMA ControlPins ==
    ASSUME Pinned(store, slots),
           \/ BeginIteration \/ EndWarm \/ SkipCross \/ EndCross \/ EndAdmission
           \/ Wake \/ PrefillDone \/ CheckCancelled \/ Client \/ UNCHANGED vars
    PROVE  PinsKept
  <1>1. slots' = slots
    BY DEF BeginIteration, EndWarm, SkipCross, EndCross, EndAdmission, Wake, PrefillDone,
           CheckCancelled, Client, Submit, Cancel, Stop, vars
  <1>2. store' = store \/ store' = TouchLookup(store, CrossPrompt)
    BY DEF BeginIteration, EndWarm, SkipCross, EndCross, EndAdmission, Wake, PrefillDone,
           CheckCancelled, Client, Submit, Cancel, Stop, vars
  <1>3. SameCounts(store, store')
    BY <1>2, TouchLookupCounts DEF SameCounts, Pinned
  <1> QED BY <1>1, <1>3, SameCountsKeep DEF PinsKept

(* The failure paths, the mixed step and the shutdown free slots without   *)
(* giving their pins back: what is pinned stays pinned.                    *)
LEMMA LossyPins ==
    ASSUME BatcherInv, Pinned(store, slots),
           \/ Shutdown \/ PrefillFail \/ PrefillBatchFail
           \/ MixedStepRun \/ MixedStepFail \/ DecodeFail
    PROVE  Pinned(store', slots')
  <1>1. ASSUME NEW F \in SUBSET Occupied, store' = store,
               \A i \in Slots : IF i \in F THEN slots'[i].req = None
                               ELSE slots'[i].req = slots[i].req /\ slots'[i].pin = slots[i].pin
        PROVE  Pinned(store', slots')
    <2>1. F \in SUBSET Slots /\ \A i \in F : slots[i].req # None
      BY DEF Occupied
    <2> QED BY <1>1, <2>1, FreePins
  <1>2. ASSUME NEW F \in SUBSET Occupied, NEW after, FailSlots(F, after)
        PROVE  Pinned(store', slots')
    <2>1. store' = store
      BY <1>2 DEF FailSlots
    <2>2. \A i \in Slots : IF i \in F THEN slots'[i].req = None
                           ELSE slots'[i].req = slots[i].req /\ slots'[i].pin = slots[i].pin
      BY <1>2 DEF FailSlots, Freed, BatcherInv, Shape, SlotFields
    <2> QED BY <1>1, <2>1, <2>2
  <1>3. CASE Shutdown
    <2>1. \A i \in Slots : IF i \in Occupied THEN slots'[i].req = None
                           ELSE slots'[i].req = slots[i].req /\ slots'[i].pin = slots[i].pin
      BY <1>3 DEF Shutdown, Freed, BatcherInv, Shape, SlotFields
    <2> QED BY <1>1, <1>3, <2>1 DEF Shutdown
  <1>4. CASE PrefillFail
    <2>1. {job.slot} \in SUBSET Occupied /\ FailSlots({job.slot}, ChunkDevice)
      BY <1>4 DEF PrefillFail, BatcherInv, Works, WorkList
    <2> QED BY <1>2, <2>1
  <1>5. CASE PrefillBatchFail
    <2>1. toPrefill \in Seq(Slots) /\ toPrefill # <<>> /\ WorkList
      BY <1>5 DEF PrefillBatchFail, BatchReady, BatcherInv, Works
    <2>2. BatchSize \in 1 .. Len(toPrefill)
      BY <2>1, BatchSizeType
    <2>3. BatchSlots \in SUBSET Occupied
      BY <2>1, <2>2 DEF BatchSlots, WorkList
    <2> QED BY <1>2, <1>5, <2>3 DEF PrefillBatchFail
  <1>6. CASE MixedStepFail \/ DecodeFail
    <2>1. PICK after : FailSlots(Occupied, after)
      BY <1>6 DEF MixedStepFail, DecodeFail
    <2> QED BY <1>2, <2>1
  <1>7. CASE MixedStepRun
    <2>1. store' = store
      BY <1>7 DEF MixedStepRun
    <2>2. \E F \in SUBSET Occupied : \A i \in Slots :
             IF i \in F THEN slots'[i].req = None
             ELSE slots'[i].req = slots[i].req /\ slots'[i].pin = slots[i].pin
      <3> DEFINE dead == {i \in Occupied : FoundCancelled(i)}
                 ends == {i \in Prefilling : slots[i].prefillPos + MixedChunk(i) = PromptLen(i)}
                 emits == (ends \cup (Occupied \ Prefilling)) \ dead
                 NextPos(i) == IF i \in ends THEN PromptLen(i) ELSE slots[i].pos + 1
                 stops(tk) == {i \in emits :
                     Stops(tk[i], Len(req[Owner(i)].tokens) + 1, NextPos(i))}
                 Stepped(i) == [slots[i] EXCEPT
                     !.prefillPos = IF i \in Prefilling THEN @ + MixedChunk(i) ELSE @,
                     !.pos = IF i \in emits THEN NextPos(i) ELSE @]
      <3>1. PICK tk : slots' = [i \in Slots |->
                              IF i \notin Occupied THEN slots[i]
                              ELSE IF i \in stops(tk) \cup dead THEN Freed(slots[i])
                              ELSE Stepped(i)]
        BY <1>7 DEF MixedStepRun
      <3>2. stops(tk) \cup dead \in SUBSET Occupied
        BY DEF Prefilling
      <3>3. \A i \in Slots : /\ Stepped(i).req = slots[i].req /\ Stepped(i).pin = slots[i].pin
                             /\ Freed(slots[i]).req = None
        <4> HIDE DEF emits, ends, NextPos
        <4> QED BY DEF BatcherInv, Shape, SlotFields, Freed
      <3> HIDE DEF stops, dead, Stepped
      <3>4. \A i \in Slots : IF i \in stops(tk) \cup dead THEN slots'[i].req = None
                             ELSE slots'[i].req = slots[i].req /\ slots'[i].pin = slots[i].pin
        BY <3>1, <3>2, <3>3
      <3> QED BY <3>2, <3>4
    <2> QED BY <1>1, <2>1, <2>2
  <1> QED BY <1>3, <1>4, <1>5, <1>6, <1>7

(* Every step keeps what live slots were restored from.                    *)
LEMMA NextPins == BatcherInv /\ Pinned(store, slots) /\ [Next]_vars => Pinned(store', slots')
  <1> SUFFICES ASSUME BatcherInv, Pinned(store, slots), [Next]_vars
               PROVE  Pinned(store', slots')
    OBVIOUS
  <1> QED BY AdmissionPins, PrefillPins, DecodePins, ControlPins, LossyPins
          DEF Next, Worker, Quiescent, PinsKept

(* The store starts empty.                                                 *)
LEMMA InitPins == Init => Pinned(store, slots)
  <1> SUFFICES ASSUME Init PROVE Pinned(store, slots)
    OBVIOUS
  <1>1. /\ store = EmptyStore /\ \A i \in Slots : slots[i].req = None
    BY DEF Init, FreshSlot
  <1>2. /\ store = [f \in StoreFields |-> store[f]]
        /\ store.index = EmptyIndex /\ store.nextId = 1 /\ store.pendingFree = {}
        /\ DOMAIN store.images = {}
    BY <1>1 DEF EmptyStore, StoreFields
  <1>3. /\ EmptyIndex = [f \in IndexFields |-> EmptyIndex[f]]
        /\ DOMAIN EmptyIndex.tok = {} /\ DOMAIN EmptyIndex.ref = {}
    BY DEF EmptyIndex, IndexFields
  <1>4. Accounts(store)
    <2>1. PICK x : x = store.index
      OBVIOUS
    <2>2. x = [f \in IndexFields |-> x[f]] /\ Payloads(x) = {} /\ DOMAIN x.ref = {}
      BY <1>2, <1>3, <2>1 DEF Payloads
    <2>3. /\ 1 \in Nat \ {0} /\ {} \subseteq 1 .. 1 - 1 /\ {} \cap {} = {}
      OBVIOUS
    <2>4. \A id \in Payloads(x) : x.ref[id] \in Nat
      BY <2>2
    <2> QED BY <1>2, <2>1, <2>2, <2>3, <2>4, Zenon DEF Accounts
  <1> QED BY <1>1, <1>2, <1>3, <1>4 DEF Pinned, Indexed, Covers, Payloads

(* The inductive invariant of the store: index, images and pending frees   *)
(* account for each other, and every pin of a live slot is counted.        *)
PinInv == Pinned(store, slots)

(* PinInv is an invariant of the batcher, together with BatcherInv: no     *)
(* admission, prefill, step, failure or shutdown breaks the accounts of    *)
(* the store or lets a pin of a live slot go uncounted.                    *)
THEOREM PinInvariance == Spec => [](BatcherInv /\ PinInv)
  <1>1. Init => BatcherInv /\ PinInv
    BY InitInv, InitPins DEF PinInv
  <1>2. BatcherInv /\ PinInv /\ [Next]_vars => (BatcherInv /\ PinInv)'
    BY NextInv, NextPins DEF PinInv
  <1> QED BY <1>1, <1>2, PTL DEF Spec

(* The live slots that were restored from an image are those that hold a   *)
(* pin on it.                                                              *)
LEMMA LivePins == \A id : {i \in Occupied : slots[i].pin = id} = PinnedBy(slots, id)
  BY DEF Occupied, PinnedBy

(* LivePinned: an image a live slot was restored from is in the store and  *)
(* pinned by it: no snapshot evicts it, whatever fails.                    *)
THEOREM LivePinnedHolds == Spec => []LivePinned
  <1>1. PinInv => LivePinned
    <2> SUFFICES ASSUME PinInv, NEW id \in {slots[i].pin : i \in Occupied} \ {NoPayload}
                 PROVE  /\ id \in DOMAIN store.images
                        /\ store.index.ref[id] >= Cardinality(PinnedBy(slots, id))
      BY LivePins DEF LivePinned
    <2>1. Accounts(store) /\ Indexed(store, slots) /\ Covers(store, slots)
      BY DEF PinInv, Pinned
    <2>2. id \in Payloads(store.index)
      BY <2>1 DEF Indexed, Occupied
    <2>3. /\ Cardinality(PinnedBy(slots, id)) <= store.index.ref[id]
          /\ Cardinality(PinnedBy(slots, id)) \in Nat /\ store.index.ref[id] \in Nat
      BY <2>1, <2>2, PinCount DEF Covers, Accounts
    <2> QED BY <2>1, <2>2, <2>3 DEF Accounts
  <1> QED BY <1>1, PinInvariance, PTL

-----------------------------------------------------------------------------
(* What a slot's memory holds                                              *)

(* s is the first n tokens of text.                                        *)
Spells(s, text, n) == s \in Seq(Nat) /\ Len(s) = n /\ \A k \in 1 .. n : s[k] = text[k]

(* toks is what follows the first n tokens of text, c of them.             *)
Continues(toks, text, n, c) ==
    toks \in Seq(Nat) /\ Len(toks) = c /\ \A k \in 1 .. c : toks[k] = text[n + k]

(* Only its own forward writes a slot's rows: there are no slabs to        *)
(* overrun, and no hole of a step's batch, which gets a dummy row, was     *)
(* kept warm, because that takes a second slot above it.                   *)
RowsKept == ~Slab /\ (WarmSlot => MaxBatch = 1)

(* The first n rows, and the recurrent state, are those of text; nothing   *)
(* is claimed of the rows where others may have overwritten them.          *)
RowsOf(kv, text, n) == RowsKept => \A k \in 0 .. n - 1 : kv[k] = text[k + 1]
StateOf(d, text, n) == n > 0 => /\ Slab => d.len = n
                                /\ ~Slab => Spells(d.ssm, text, n)
At(d, text, n) == RowsOf(d.kv, text, n) /\ StateOf(d, text, n)

(* The checkpoints are of prefixes of key no longer than bound, ascending. *)
RingOf(ring, key, bound) ==
    /\ \A k \in DOMAIN ring : /\ ring[k].pos <= bound
                              /\ Spells(ring[k].ssm, key, ring[k].pos)
    /\ \A j, k \in DOMAIN ring : j < k => ring[j].pos < ring[k].pos
    /\ Len(ring) <= RingCap

(* A slot that waits to resume prompt at start: its rows are there, and    *)
(* the state of start is the live one or a checkpoint.                     *)
Resumable(d, prompt, start) ==
    /\ RowsOf(d.kv, prompt, start) /\ RingOf(d.ring, prompt, start)
    /\ start > 0 => start \in CkptPositions(d) \/ Spells(d.ssm, prompt, start)

(* An image of the tokens it is keyed by.                                  *)
ImageFits(img, key) ==
    /\ key \in Seq(Nat) /\ img.pos = Len(key) /\ img.ssm = key
    /\ RowsOf(img.kv, key, Len(key))

(* Rows: a write at n of the next tokens of the text.                      *)
LEMMA WriteMore ==
    ASSUME NEW kv, NEW text \in Seq(Nat), NEW n \in Nat, NEW c \in Nat,
           n + c <= Len(text), n + c <= MaxContext,
           NEW toks, Continues(toks, text, n, c),
           RowsOf(kv, text, n)
    PROVE  RowsOf(WriteRows(kv, n, toks), text, n + c)
  <1>1. /\ Len(toks) = c /\ MaxContext \in Nat
        /\ \A k \in 1 .. c : toks[k] = text[n + k]
    BY Sizes DEF Continues
  <1>2. SUFFICES ASSUME RowsKept, NEW k \in 0 .. (n + c) - 1
                 PROVE  WriteRows(kv, n, toks)[k] = text[k + 1]
    BY DEF RowsOf
  <1>3. k \in Rows
    BY <1>1, <1>2 DEF Rows
  <1>4. CASE k < n
    BY <1>1, <1>2, <1>3, <1>4 DEF WriteRows, RowsOf
  <1>5. CASE k >= n
    <2>1. k - n + 1 \in 1 .. c /\ n + (k - n + 1) = k + 1
      BY <1>1, <1>2, <1>5
    <2>2. WriteRows(kv, n, toks)[k] = toks[k - n + 1]
      BY <1>1, <1>2, <1>3, <1>5 DEF WriteRows
    <2> QED BY <1>1, <2>1, <2>2
  <1> QED BY <1>2, <1>4, <1>5

(* The elements of a concatenation.                                        *)
LEMMA ConcatFacts ==
    ASSUME NEW s \in Seq(Nat), NEW t \in Seq(Nat)
    PROVE  /\ s \o t \in Seq(Nat) /\ Len(s \o t) = Len(s) + Len(t)
           /\ \A k \in 1 .. Len(s) : (s \o t)[k] = s[k]
           /\ \A k \in 1 .. Len(t) : (s \o t)[Len(s) + k] = t[k]
  OBVIOUS

(* State: what was absorbed, and the next tokens of the text.              *)
LEMMA SpellMore ==
    ASSUME NEW s, NEW text \in Seq(Nat), NEW n \in Nat, NEW c \in Nat,
           n + c <= Len(text), NEW toks, Continues(toks, text, n, c),
           n > 0 => Spells(s, text, n)
    PROVE  Spells((IF n = 0 THEN <<>> ELSE s) \o toks, text, n + c)
  <1>1. /\ Len(toks) = c /\ toks \in Seq(Nat)
        /\ \A k \in 1 .. c : toks[k] = text[n + k]
    BY DEF Continues
  <1>2. PICK s0 : s0 = IF n = 0 THEN <<>> ELSE s
    OBVIOUS
  <1>3. s0 \in Seq(Nat) /\ Len(s0) = n /\ \A k \in 1 .. n : s0[k] = text[k]
    BY <1>2 DEF Spells
  <1>4. PICK u : u = s0 \o toks
    OBVIOUS
  <1>5. /\ u \in Seq(Nat) /\ Len(u) = n + c
        /\ \A k \in 1 .. n : u[k] = text[k]
        /\ \A k \in 1 .. c : u[n + k] = text[n + k]
    <2>1. /\ u \in Seq(Nat) /\ Len(u) = Len(s0) + Len(toks)
          /\ \A k \in 1 .. Len(s0) : u[k] = s0[k]
          /\ \A k \in 1 .. Len(toks) : u[Len(s0) + k] = toks[k]
      BY <1>1, <1>3, <1>4, ConcatFacts, Zenon
    <2> QED BY <1>1, <1>3, <2>1
  <1>6. ASSUME NEW k \in 1 .. n + c PROVE u[k] = text[k]
    <2>1. CASE k <= n
      BY <1>5, <2>1
    <2>2. CASE k > n
      <3>1. k - n \in 1 .. c /\ n + (k - n) = k
        BY <2>2
      <3> QED BY <1>5, <3>1
    <2> QED BY <2>1, <2>2
  <1>7. Spells(u, text, n + c)
    BY <1>5, <1>6 DEF Spells
  <1> QED BY <1>2, <1>4, <1>7

(* Tokens that continue a text: any part of it, and the next one.          *)
LEMMA PartContinues ==
    ASSUME NEW text \in Seq(Nat), NEW n \in Nat, NEW c \in Nat, n + c <= Len(text)
    PROVE  Continues(SubSeq(text, n + 1, n + c), text, n, c)
  <1>1. PICK toks : toks = SubSeq(text, n + 1, n + c)
    OBVIOUS
  <1>2. toks \in Seq(Nat) /\ Len(toks) = c
    BY <1>1
  <1>3. ASSUME NEW k \in 1 .. c PROVE toks[k] = text[n + k]
    <2>1. PICK a, b : a = n + 1 /\ b = n + c
      OBVIOUS
    <2>2. a \in Nat /\ b \in Nat /\ k \in 1 .. (b - a) + 1 /\ (a + k) - 1 = n + k
      BY <2>1
    <2>3. SubSeq(text, a, b)[k] = text[(a + k) - 1]
      BY <2>2
    <2> QED BY <1>1, <2>1, <2>2, <2>3
  <1> QED BY <1>1, <1>2, <1>3 DEF Continues

(* A device is a record of its four fields.                                *)
DeviceRec(d) == d = [f \in DeviceFields |-> d[f]]

(* What a paged forward makes of the fields.                               *)
LEMMA PagedFields ==
    \A d, toks, at : DeviceRec(d) =>
        /\ PagedForward(d, toks, at).kv = WriteRows(d.kv, at, toks)
        /\ PagedForward(d, toks, at).ssm = (IF at = 0 THEN <<>> ELSE d.ssm) \o toks
        /\ PagedForward(d, toks, at).ring = d.ring
  BY DEF PagedForward, DeviceRec, DeviceFields

(* What an append to a slab makes of them.                                 *)
LEMMA SlabFields ==
    \A d, toks : DeviceRec(d) =>
        /\ SlabAppend(d, toks).kv = WriteRows(d.kv, d.len, toks)
        /\ SlabAppend(d, toks).len = d.len + Len(toks)
        /\ SlabAppend(d, toks).ring = d.ring
  BY DEF SlabAppend, DeviceRec, DeviceFields

(* A forward of the next tokens at n brings the memory from n to n + c.    *)
LEMMA ForwardAdvances ==
    ASSUME NEW d, DeviceRec(d), NEW text \in Seq(Nat), NEW n \in Nat, NEW c \in Nat,
           n + c <= Len(text), n + c <= MaxContext,
           NEW toks, Continues(toks, text, n, c), At(d, text, n)
    PROVE  /\ At(PrefillForward(d, toks, n), text, n + c)
           /\ PrefillForward(d, toks, n).ring = d.ring
  <1>1. PICK e : e = PrefillForward(d, toks, n)
    OBVIOUS
  <1>2. Len(toks) = c
    BY DEF Continues
  <1>3. CASE Slab
    <2>1. PICK d0 : d0 = IF n = 0 THEN [d EXCEPT !.len = 0] ELSE d
      OBVIOUS
    <2>2. DeviceRec(d0) /\ d0.kv = d.kv /\ d0.ring = d.ring /\ d0.len = n
      <3>1. CASE n = 0
        BY <2>1, <3>1 DEF DeviceRec, DeviceFields
      <3>2. CASE n # 0
        BY <1>3, <2>1, <3>2 DEF At, StateOf
      <3> QED BY <3>1, <3>2
    <2>3. e = SlabAppend(d0, toks)
      BY <1>1, <1>3, <2>1 DEF PrefillForward
    <2>4. e.kv = WriteRows(d.kv, n, toks) /\ e.len = n + c /\ e.ring = d.ring
      <3>1. /\ e.kv = WriteRows(d0.kv, d0.len, toks) /\ e.len = d0.len + Len(toks)
            /\ e.ring = d0.ring
        BY <2>2, <2>3, SlabFields, Zenon
      <3> QED BY <1>2, <2>2, <3>1, Zenon
    <2>5. RowsOf(e.kv, text, n + c)
      BY <2>4, WriteMore DEF At
    <2> QED BY <1>1, <1>3, <2>4, <2>5 DEF At, StateOf
  <1>4. CASE ~Slab
    <2>1. e = PagedForward(d, toks, n)
      BY <1>1, <1>4 DEF PrefillForward
    <2>2. /\ e.kv = WriteRows(d.kv, n, toks) /\ e.ring = d.ring
          /\ e.ssm = (IF n = 0 THEN <<>> ELSE d.ssm) \o toks
      BY <2>1, PagedFields, SMTT(30)
    <2>3. RowsOf(e.kv, text, n + c)
      BY <2>2, WriteMore DEF At
    <2>4. Spells(e.ssm, text, n + c)
      BY <1>4, <2>2, SpellMore DEF At, StateOf
    <2> QED BY <1>1, <1>4, <2>2, <2>3, <2>4 DEF At, StateOf
  <1> QED BY <1>3, <1>4

(* So does the row of a step, which a slab appends to what it has.         *)
LEMMA StepAdvances ==
    ASSUME NEW d, DeviceRec(d), NEW text \in Seq(Nat), NEW n \in Nat,
           n + 1 <= Len(text), n + 1 <= MaxContext, Slab => n > 0, At(d, text, n)
    PROVE  /\ At(StepForward(d, text[n + 1], n), text, n + 1)
           /\ StepForward(d, text[n + 1], n).ring = d.ring
  <1>1. PICK toks : toks = <<text[n + 1]>>
    OBVIOUS
  <1>2. Continues(toks, text, n, 1)
    BY <1>1 DEF Continues
  <1>3. /\ At(PrefillForward(d, toks, n), text, n + 1)
        /\ PrefillForward(d, toks, n).ring = d.ring
    BY <1>2, ForwardAdvances
  <1>4. StepForward(d, text[n + 1], n) = PrefillForward(d, toks, n)
    BY <1>1 DEF StepForward, PrefillForward
  <1> QED BY <1>3, <1>4

(* What holds of a text holds of its continuations.                        *)
Extends(text, more) == /\ text \in Seq(Nat) /\ more \in Seq(Nat) /\ Len(text) <= Len(more)
                       /\ \A k \in 1 .. Len(text) : more[k] = text[k]

(* A memory that has the first n tokens of a text has them of its          *)
(* continuations.                                                          *)
LEMMA AtExtends ==
    ASSUME NEW d, NEW text, NEW more, NEW n \in Nat, n <= Len(text), Extends(text, more),
           At(d, text, n)
    PROVE  At(d, more, n)
  <1>1. \A k \in 1 .. n : more[k] = text[k]
    BY DEF Extends
  <1>2. RowsOf(d.kv, more, n)
    <2>1. \A k \in 0 .. n - 1 : k + 1 \in 1 .. n
      OBVIOUS
    <2> QED BY <1>1, <2>1 DEF At, RowsOf
  <1>3. StateOf(d, more, n)
    BY <1>1 DEF At, StateOf, Spells
  <1> QED BY <1>2, <1>3 DEF At

-----------------------------------------------------------------------------
(* Checkpoints and images                                                  *)

(* A ring as RingOK has it.                                                *)
Ring(r) == \E S : r \in Seq(S) /\ \A c \in S : c.pos \in Nat

(* The checkpoints of a ring have positions.                               *)
LEMMA RingNumbers ==
    ASSUME NEW r, Ring(r)
    PROVE  /\ Len(r) \in Nat /\ DOMAIN r = 1 .. Len(r)
           /\ \A k \in DOMAIN r : r[k].pos \in Nat
  BY DEF Ring

(* Ring e has the first checkpoints of r, which are the ones up to m.      *)
Pruned(e, r, m) ==
    /\ Len(e) \in Nat /\ DOMAIN e = 1 .. Len(e) /\ Len(e) <= Len(r)
    /\ \A j \in 1 .. Len(e) : e[j] = r[j] /\ r[j].pos <= m
    /\ \A k \in 1 .. Len(r) : r[k].pos <= m => k <= Len(e)

(* PruneCkpts drops the checkpoints past m, and touches no row.            *)
LEMMA PruneTakesFirst ==
    ASSUME NEW d, RingOK(d), NEW m \in Nat,
           \A j, k \in DOMAIN d.ring : j < k => d.ring[j].pos < d.ring[k].pos
    PROVE  /\ Pruned(PruneCkpts(d, m).ring, d.ring, m)
           /\ PruneCkpts(d, m).kv = d.kv
  <1>1. PICK C : d.ring \in Seq(C) /\ \A c \in C : c.pos \in Nat
    BY DEF RingOK
  <1>2. PICK ring \in Seq(C) : ring = d.ring
    BY <1>1
  <1>3. PICK N \in Nat : N = Len(ring)
    OBVIOUS
  <1>4. PICK K : PruneCkpts(d, m) = [d EXCEPT !.ring = K[N]] /\ Prunes(K, ring, m)
    BY <1>2, <1>3, PruneUnfolds, Zenon
  <1>5. /\ DOMAIN ring = 1 .. N /\ \A k \in 1 .. N : ring[k] \in C /\ ring[k].pos \in Nat
        /\ \A j, k \in 1 .. N : j < k => ring[j].pos < ring[k].pos
    BY <1>1, <1>2, <1>3
  <1> DEFINE Good(n) == /\ K[n] \in Seq(C) /\ Len(K[n]) <= n
                        /\ \A j \in 1 .. Len(K[n]) : K[n][j] = ring[j] /\ ring[j].pos <= m
                        /\ \A k \in 1 .. n : ring[k].pos <= m => k <= Len(K[n])
  <1>6. \A n \in 0 .. N : Good(n)
    <2> DEFINE Bad == {n \in 0 .. N : ~Good(n)}
    <2>1. SUFFICES ASSUME Bad # {} PROVE FALSE
      OBVIOUS
    <2>2. Bad \in SUBSET Nat
      OBVIOUS
    <2>3. PICK b \in Bad : \A y \in Bad : b <= y
      <3> HIDE DEF Bad
      <3> QED BY <2>1, <2>2, LeastNat
    <2>4. b \in 0 .. N /\ ~Good(b)
      BY <2>3
    <2>5. b # 0
      <3>1. K[0] = <<>>
        BY <1>4 DEF Prunes
      <3>2. Good(0)
        BY <3>1
      <3> HIDE DEF Good
      <3> QED BY <2>4, <3>2
    <2>6. b - 1 \in 0 .. N /\ b \in 1 .. N /\ ~(b <= b - 1)
      BY <2>4, <2>5
    <2>7. Good(b - 1)
      <3>1. b - 1 \notin Bad
        <4> HIDE DEF Bad
        <4> QED BY <2>3, <2>6
      <3> HIDE DEF Good
      <3> QED BY <2>6, <3>1
    <2>8. PICK e, f : e = K[b - 1] /\ f = K[b]
      OBVIOUS
    <2>9. /\ e \in Seq(C) /\ Len(e) <= b - 1 /\ Len(e) \in Nat
          /\ \A j \in 1 .. Len(e) : e[j] = ring[j] /\ ring[j].pos <= m
          /\ \A k \in 1 .. b - 1 : ring[k].pos <= m => k <= Len(e)
      BY <2>7, <2>8
    <2>10. f = IF ring[b].pos <= m THEN Append(e, ring[b]) ELSE e
      BY <1>3, <1>4, <2>6, <2>8 DEF Prunes
    <2>11. /\ f \in Seq(C) /\ Len(f) <= b
           /\ \A j \in 1 .. Len(f) : f[j] = ring[j] /\ ring[j].pos <= m
           /\ \A k \in 1 .. b : ring[k].pos <= m => k <= Len(f)
      <3>1. CASE ring[b].pos <= m
        <4>1. \A k \in 1 .. b - 1 : ring[k].pos <= m
          <5>1. ASSUME NEW k \in 1 .. b - 1 PROVE ring[k].pos <= m
            <6>1. k \in 1 .. N /\ k < b
              BY <2>6
            <6>2. ring[k].pos < ring[b].pos /\ ring[k].pos \in Nat /\ ring[b].pos \in Nat
              BY <1>5, <2>6, <6>1
            <6> QED BY <3>1, <6>2
          <5> QED BY <5>1
        <4>2. Len(e) = b - 1
          <5>1. CASE b = 1
            BY <2>6, <2>9, <5>1
          <5>2. CASE b # 1
            <6>1. b - 1 \in 1 .. b - 1
              BY <2>6, <5>2
            <6>2. b - 1 <= Len(e)
              BY <2>9, <4>1, <6>1
            <6> QED BY <2>6, <2>9, <6>2
          <5> QED BY <5>1, <5>2
        <4>3. ring[b] \in C /\ f = Append(e, ring[b])
          BY <1>5, <2>6, <2>10, <3>1
        <4>4. /\ f \in Seq(C) /\ Len(f) = Len(e) + 1 /\ f[Len(e) + 1] = ring[b]
              /\ \A k \in 1 .. Len(e) : f[k] = e[k]
          BY <2>9, <4>3, AppendFacts
        <4>5. ASSUME NEW j \in 1 .. Len(f) PROVE f[j] = ring[j] /\ ring[j].pos <= m
          <5>1. CASE j = b
            BY <2>6, <3>1, <4>2, <4>4, <5>1
          <5>2. CASE j # b
            <6>1. j \in 1 .. Len(e)
              BY <2>6, <4>2, <4>4, <5>2
            <6> QED BY <2>9, <4>4, <6>1
          <5> QED BY <5>1, <5>2
        <4>6. Len(f) = b
          BY <2>6, <4>2, <4>4
        <4> QED BY <2>6, <4>4, <4>5, <4>6
      <3>2. CASE ~(ring[b].pos <= m)
        <4>1. f = e
          BY <2>10, <3>2
        <4>2. \A k \in 1 .. b : ring[k].pos <= m => k \in 1 .. b - 1
          BY <2>6, <3>2
        <4> QED BY <2>6, <2>9, <4>1, <4>2
      <3> QED BY <3>1, <3>2
    <2>12. Good(b)
      BY <2>8, <2>11
    <2> QED BY <2>4, <2>12, Zenon
  <1>7. Good(N)
    <2> HIDE DEF Good
    <2> QED BY <1>3, <1>6
  <1>8. PICK f : f = K[N]
    OBVIOUS
  <1>9. Pruned(f, ring, m)
    BY <1>3, <1>7, <1>8 DEF Pruned
  <1>10. PruneCkpts(d, m).ring = f /\ PruneCkpts(d, m).kv = d.kv
    <2>1. d = [x \in DeviceFields |-> d[x]]
      BY DEF RingOK
    <2> QED BY <1>4, <1>8, <2>1 DEF DeviceFields
  <1> QED BY <1>2, <1>9, <1>10, Zenon
(* The common prefix is one: the two texts agree on it.                    *)
LEMMA LCPAgrees ==
    ASSUME NEW a \in Seq(Nat), NEW b \in Seq(Nat)
    PROVE  /\ LCP(a, b) \in Nat /\ LCP(a, b) <= Len(a) /\ LCP(a, b) <= Len(b)
           /\ \A k \in 1 .. LCP(a, b) : a[k] = b[k]
  <1> DEFINE S == {n \in 0 .. Len(a) : n <= Len(b) /\ SubSeq(a, 1, n) = SubSeq(b, 1, n)}
  <1>1. Len(a) \in Nat /\ Len(b) \in Nat
    OBVIOUS
  <1>2. SubSeq(a, 1, 0) = SubSeq(b, 1, 0)
    OBVIOUS
  <1>3. 0 \in S /\ S \in SUBSET (0 .. Len(a))
    BY <1>1, <1>2
  <1>4. LCP(a, b) = Max(S)
    BY DEF LCP
  <1>5. Max(S) \in S
    <2> HIDE DEF S
    <2> QED BY <1>1, <1>3, BoundedMax
  <1>6. PICK n \in 0 .. Len(a) : n = Max(S) /\ n <= Len(b) /\ SubSeq(a, 1, n) = SubSeq(b, 1, n)
    BY <1>5
  <1> HIDE DEF S
  <1>7. \A k \in 1 .. n : SubSeq(a, 1, n)[k] = a[k] /\ SubSeq(b, 1, n)[k] = b[k]
    BY <1>1, <1>6, SMTT(30)
  <1>8. \A k \in 1 .. n : a[k] = b[k]
    BY <1>6, <1>7
  <1> QED BY <1>1, <1>4, <1>6, <1>8

(* CkptBestPos finds the last checkpoint within the common prefix.         *)
LEMMA BestIsLast ==
    ASSUME NEW d, Ring(d.ring), NEW lcp \in Nat
    PROVE  /\ CkptBestPos(d, lcp) \in Nat /\ CkptBestPos(d, lcp) <= lcp
           /\ CkptBestPos(d, lcp) > 0 => CkptBestPos(d, lcp) \in CkptPositions(d)
           /\ \A p \in CkptPositions(d) : p <= lcp => p <= CkptBestPos(d, lcp)
  <1> DEFINE S == {0} \cup {p \in CkptPositions(d) : p <= lcp}
  <1>1. CkptPositions(d) \subseteq Nat
    BY RingNumbers DEF CkptPositions
  <1>2. S \in SUBSET (0 .. lcp) /\ 0 \in S
    BY <1>1
  <1>3. PICK m : m = Max(S)
    OBVIOUS
  <1>4. m \in S /\ \A x \in S : m >= x
    <2> HIDE DEF S
    <2> QED BY <1>2, <1>3, BoundedMax
  <1>5. m \in Nat /\ m <= lcp /\ (m > 0 => m \in CkptPositions(d))
    BY <1>1, <1>4
  <1>6. \A p \in CkptPositions(d) : p <= lcp => p <= m
    BY <1>1, <1>4, <1>5
  <1>7. CkptBestPos(d, lcp) = m
    BY <1>3 DEF CkptBestPos
  <1> QED BY <1>5, <1>6, <1>7

(* A slot that was kept warm: its rows and checkpoints are those of key.   *)
Keeps(d, key) ==
    /\ key \in Seq(Nat) /\ Len(key) < MaxContext
    /\ RowsOf(d.kv, key, Len(key)) /\ RingOf(d.ring, key, Len(key))

(* It can resume a prompt at the last checkpoint they share, once the      *)
(* checkpoints past the common prefix are gone.                            *)
LEMMA WarmResumes ==
    ASSUME NEW d, RingOK(d), NEW key, Keeps(d, key), NEW prompt \in Seq(Nat),
           NEW lcp, lcp = LCP(key, prompt), NEW best, best = CkptBestPos(d, lcp), best > 0
    PROVE  Resumable(PruneCkpts(d, lcp), prompt, best)
  <1>1. key \in Seq(Nat) /\ Ring(d.ring)
    BY DEF Keeps, RingOK, Ring
  <1>2. /\ lcp \in Nat /\ lcp <= Len(key) /\ lcp <= Len(prompt)
        /\ \A k \in 1 .. lcp : key[k] = prompt[k]
    BY <1>1, LCPAgrees
  <1>3. /\ best \in Nat /\ best <= lcp /\ best \in CkptPositions(d)
        /\ \A p \in CkptPositions(d) : p <= lcp => p <= best
    BY <1>1, <1>2, BestIsLast
  <1>4. PICK e, r : e = PruneCkpts(d, lcp).ring /\ r = d.ring
    OBVIOUS
  <1>5. RingOf(r, key, Len(key)) /\ RowsOf(d.kv, key, Len(key))
    BY <1>4 DEF Keeps
  <1>6. Pruned(e, r, lcp) /\ PruneCkpts(d, lcp).kv = d.kv
    <2>1. \A j, k \in DOMAIN d.ring : j < k => d.ring[j].pos < d.ring[k].pos
      BY <1>4, <1>5 DEF RingOf
    <2> QED BY <1>2, <1>4, <2>1, PruneTakesFirst
  <1>7. /\ Len(r) \in Nat /\ DOMAIN r = 1 .. Len(r)
        /\ \A k \in 1 .. Len(r) : r[k].pos \in Nat /\ r[k].pos \in CkptPositions(d)
    BY <1>1, <1>4, RingNumbers DEF CkptPositions
  <1>8. RowsOf(d.kv, prompt, best)
    <2>1. Len(key) \in Nat
      BY <1>1
    <2>2. \A k \in 0 .. best - 1 : k \in 0 .. Len(key) - 1 /\ k + 1 \in 1 .. lcp
      BY <1>2, <1>3, <2>1
    <2> QED BY <1>2, <1>5, <2>2 DEF RowsOf
  <1>9. RingOf(e, prompt, best)
    <2>1. /\ Len(e) \in Nat /\ DOMAIN e = 1 .. Len(e) /\ Len(e) <= Len(r)
          /\ \A j \in 1 .. Len(e) : e[j] = r[j] /\ r[j].pos <= lcp
      BY <1>6 DEF Pruned
    <2>2. \A j \in 1 .. Len(e) : j \in 1 .. Len(r)
      BY <1>7, <2>1
    <2>3. ASSUME NEW j \in 1 .. Len(e)
          PROVE  e[j].pos <= best /\ Spells(e[j].ssm, prompt, e[j].pos)
      <3>1. PICK p, u : p = r[j].pos /\ u = r[j].ssm
        OBVIOUS
      <3>2. p \in Nat /\ p <= lcp /\ p <= best
        BY <1>3, <1>7, <2>1, <2>2, <3>1
      <3>3. Spells(u, key, p)
        BY <1>5, <1>7, <2>2, <3>1 DEF RingOf
      <3>4. Spells(u, prompt, p)
        <4>1. \A k \in 1 .. p : k \in 1 .. lcp
          BY <1>2, <3>2
        <4> QED BY <1>2, <3>3, <4>1 DEF Spells
      <3> QED BY <2>1, <3>1, <3>2, <3>4
    <2>4. \A j, k \in 1 .. Len(e) : j < k => e[j].pos < e[k].pos
      BY <1>5, <1>7, <2>1, <2>2 DEF RingOf
    <2>5. Len(r) <= RingCap /\ RingCap \in Nat
      BY <1>5, RingCapAssumption DEF RingOf
    <2> QED BY <1>7, <2>1, <2>3, <2>4, <2>5 DEF RingOf
  <1>10. best \in CkptPositions(PruneCkpts(d, lcp))
    <2>1. PICK k \in 1 .. Len(r) : r[k].pos = best
      BY <1>3, <1>4, <1>7 DEF CkptPositions
    <2>2. k \in DOMAIN e /\ e[k].pos = best
      BY <1>3, <1>6, <2>1 DEF Pruned
    <2> QED BY <1>4, <2>2 DEF CkptPositions
  <1> QED BY <1>4, <1>6, <1>8, <1>9, <1>10 DEF Resumable

(* A resumed slot gets the state of start back.                            *)
LEMMA RestoreResumes ==
    ASSUME NEW d, RingOK(d), NEW prompt, NEW start \in Nat, Resumable(d, prompt, start),
           Slab => start = 0, NEW e, e = IF start > 0 THEN RestoreCkpt(d, start) ELSE d
    PROVE  At(e, prompt, start) /\ RingOf(e.ring, prompt, start)
  <1>1. RowsOf(d.kv, prompt, start) /\ RingOf(d.ring, prompt, start)
    BY DEF Resumable
  <1>2. CASE start = 0
    BY <1>1, <1>2 DEF At, StateOf
  <1>3. CASE start > 0 /\ start \notin CkptPositions(d)
    <2>1. e = d
      BY <1>3 DEF RestoreCkpt
    <2>2. Spells(d.ssm, prompt, start)
      BY <1>3 DEF Resumable
    <2> QED BY <1>1, <1>3, <2>1, <2>2 DEF At, StateOf
  <1>4. CASE start > 0 /\ start \in CkptPositions(d)
    <2> DEFINE J == {j \in DOMAIN d.ring : d.ring[j].pos = start}
    <2>1. Ring(d.ring)
      BY DEF RingOK, Ring
    <2>2. Len(d.ring) \in Nat /\ DOMAIN d.ring = 1 .. Len(d.ring)
      BY <2>1, RingNumbers
    <2>3. J \in SUBSET Nat /\ J # {}
      BY <1>4, <2>2 DEF CkptPositions
    <2>4. Min(J) \in J
      <3> HIDE DEF J
      <3>1. \E m \in J : \A y \in J : m <= y
        BY <2>3, LeastNat
      <3> QED BY <3>1 DEF Min
    <2>5. PICK k : k = Min(J)
      OBVIOUS
    <2>6. k \in DOMAIN d.ring /\ d.ring[k].pos = start
      BY <2>4, <2>5
    <2>7. e = [d EXCEPT !.ssm = d.ring[k].ssm]
      BY <1>4, <2>5 DEF RestoreCkpt
    <2> HIDE DEF J
    <2>8. Spells(d.ring[k].ssm, prompt, start)
      BY <1>1, <2>6 DEF RingOf
    <2>9. e.kv = d.kv /\ e.ring = d.ring /\ e.ssm = d.ring[k].ssm
      <3>1. d = [f \in DeviceFields |-> d[f]]
        BY DEF RingOK
      <3>2. PICK u : u = d.ring[k].ssm
        OBVIOUS
      <3>3. e = [d EXCEPT !.ssm = u]
        BY <2>7, <3>2
      <3>4. e.kv = d.kv /\ e.ring = d.ring /\ e.ssm = u
        BY <3>1, <3>3 DEF DeviceFields
      <3> QED BY <3>2, <3>4
    <2> QED BY <1>1, <1>4, <2>8, <2>9 DEF At, StateOf
  <1> QED BY <1>2, <1>3, <1>4
(* A checkpoint taken past the others, of the state the slot is in.        *)
LEMMA CaptureFits ==
    ASSUME NEW d, RingOK(d), NEW key, NEW bound \in Nat, NEW p \in Nat, bound < p,
           RingOf(d.ring, key, bound), Spells(d.ssm, key, p)
    PROVE  /\ RingOf(CaptureCkpt(d, p).ring, key, p)
           /\ CaptureCkpt(d, p).kv = d.kv /\ CaptureCkpt(d, p).ssm = d.ssm
           /\ CaptureCkpt(d, p).len = d.len
  <1>1. PICK C : d.ring \in Seq(C) /\ \A c \in C : c.pos \in Nat
    BY DEF RingOK
  <1>2. PICK ring \in Seq(C) : ring = d.ring
    BY <1>1
  <1>3. PICK new : new = [pos |-> p, ssm |-> d.ssm]
    OBVIOUS
  <1>4. PICK kept : kept = IF Len(ring) >= RingCap THEN Tail(ring) ELSE ring
    OBVIOUS
  <1>5. /\ Len(ring) \in Nat /\ RingCap \in Nat /\ RingCap > 0 /\ Len(ring) <= RingCap
        /\ DOMAIN ring = 1 .. Len(ring) /\ \A k \in 1 .. Len(ring) : ring[k].pos \in Nat
    BY <1>1, <1>2, RingCapAssumption DEF RingOf
  <1>6. PICK o \in {0, 1} : /\ kept \in Seq(C) /\ Len(kept) + o = Len(ring)
                            /\ Len(kept) + 1 <= RingCap
                            /\ \A k \in 1 .. Len(kept) : kept[k] = ring[k + o]
    <2>1. CASE Len(ring) >= RingCap
      <3>1. ring # <<>> /\ kept = Tail(ring)
        BY <1>4, <1>5, <2>1
      <3>2. /\ kept \in Seq(C) /\ Len(kept) + 1 = Len(ring)
            /\ \A k \in 1 .. Len(kept) : kept[k] = ring[k + 1]
        BY <3>1
      <3> QED BY <1>5, <3>2
    <2>2. CASE ~(Len(ring) >= RingCap)
      <3>1. kept = ring
        BY <1>4, <2>2
      <3>2. /\ kept \in Seq(C) /\ Len(kept) + 0 = Len(ring) /\ Len(kept) + 1 <= RingCap
            /\ \A k \in 1 .. Len(kept) : kept[k] = ring[k + 0]
        BY <1>5, <2>2, <3>1
      <3> QED BY <3>2
    <2> QED BY <2>1, <2>2
  <1>7. PICK D, f : D = C \cup {new} /\ f = Append(kept, new)
    OBVIOUS
  <1>8. Len(kept) \in Nat /\ kept \in Seq(D) /\ new \in D
    BY <1>6, <1>7
  <1>9. /\ f \in Seq(D) /\ Len(f) = Len(kept) + 1 /\ f[Len(kept) + 1] = new
        /\ \A k \in 1 .. Len(kept) : f[k] = kept[k]
    BY <1>7, <1>8, AppendFacts
  <1>10. \A k \in 1 .. Len(kept) : k + o \in 1 .. Len(ring) /\ f[k] = ring[k + o]
    BY <1>5, <1>6, <1>8, <1>9
  <1>11. /\ \A k \in 1 .. Len(ring) : ring[k].pos <= bound /\ Spells(ring[k].ssm, key, ring[k].pos)
         /\ \A j, k \in 1 .. Len(ring) : j < k => ring[j].pos < ring[k].pos
    BY <1>2, <1>5 DEF RingOf
  <1>12. ASSUME NEW k \in 1 .. Len(f)
         PROVE  f[k].pos <= p /\ Spells(f[k].ssm, key, f[k].pos)
    <2>1. CASE k = Len(kept) + 1
      <3>1. f[k] = new /\ new.pos = p /\ new.ssm = d.ssm
        BY <1>3, <1>9, <2>1
      <3> QED BY <3>1
    <2>2. CASE k # Len(kept) + 1
      <3>1. k \in 1 .. Len(kept)
        BY <1>8, <1>9, <2>2
      <3>2. PICK c : c = ring[k + o]
        OBVIOUS
      <3>3. f[k] = c /\ c.pos \in Nat /\ c.pos <= bound /\ Spells(c.ssm, key, c.pos)
        BY <1>5, <1>10, <1>11, <3>1, <3>2
      <3> QED BY <3>3
    <2> QED BY <2>1, <2>2
  <1>13. ASSUME NEW j \in 1 .. Len(f), NEW k \in 1 .. Len(f), j < k
         PROVE  f[j].pos < f[k].pos
    <2>1. j \in 1 .. Len(kept)
      BY <1>8, <1>9, <1>13
    <2>2. PICK c : c = ring[j + o]
      OBVIOUS
    <2>3. f[j] = c /\ c.pos \in Nat /\ c.pos <= bound
      BY <1>5, <1>10, <1>11, <2>1, <2>2
    <2>4. CASE k = Len(kept) + 1
      <3>1. f[k] = new /\ new.pos = p
        BY <1>3, <1>9, <2>4
      <3> QED BY <2>3, <3>1
    <2>5. CASE k # Len(kept) + 1
      <3>1. k \in 1 .. Len(kept)
        BY <1>8, <1>9, <2>5
      <3>2. j + o < k + o /\ j + o \in 1 .. Len(ring) /\ k + o \in 1 .. Len(ring)
        BY <1>10, <1>13, <2>1, <3>1
      <3> QED BY <1>10, <1>11, <2>1, <3>1, <3>2
    <2> QED BY <2>4, <2>5
  <1>14. RingOf(f, key, p)
    <2>1. DOMAIN f = 1 .. Len(f) /\ Len(f) <= RingCap
      BY <1>6, <1>9
    <2> QED BY <1>12, <1>13, <2>1 DEF RingOf
  <1>15. /\ CaptureCkpt(d, p).ring = f /\ CaptureCkpt(d, p).kv = d.kv
         /\ CaptureCkpt(d, p).ssm = d.ssm /\ CaptureCkpt(d, p).len = d.len
    <2>1. d = [x \in DeviceFields |-> d[x]]
      BY DEF RingOK
    <2>2. CaptureCkpt(d, p) = [d EXCEPT !.ring = f]
      BY <1>2, <1>3, <1>4, <1>7 DEF CaptureCkpt
    <2> QED BY <2>1, <2>2 DEF DeviceFields
  <1> QED BY <1>14, <1>15, Zenon

(* A sequence that spells the first n tokens is the prefix of length n.    *)
LEMMA SpellsPrefix ==
    ASSUME NEW s, NEW text \in Seq(Nat), NEW n \in Nat, n <= Len(text), Spells(s, text, n)
    PROVE  s = SubSeq(text, 1, n)
  <1>1. PICK u : u = SubSeq(text, 1, n)
    OBVIOUS
  <1>2. u \in Seq(Nat) /\ Len(u) = n
    BY <1>1
  <1>3. \A k \in 1 .. n : u[k] = text[k]
    BY <1>1
  <1>4. s \in Seq(Nat) /\ Len(s) = n /\ \A k \in 1 .. n : s[k] = text[k]
    BY DEF Spells
  <1>5. s = u
    <2>1. s = [k \in 1 .. n |-> s[k]] /\ u = [k \in 1 .. n |-> u[k]]
      BY <1>2, <1>4
    <2>2. \A k \in 1 .. n : s[k] = u[k]
      BY <1>3, <1>4
    <2> QED BY <2>1, <2>2
  <1> QED BY <1>1, <1>5

(* The image of a slot that has absorbed the first n tokens fits them.     *)
LEMMA ImageTaken ==
    ASSUME NEW d, NEW text \in Seq(Nat), NEW n \in Nat, n > 0, n <= Len(text), ~Slab,
           At(d, text, n)
    PROVE  ImageFits(ImageOf(d, n), SubSeq(text, 1, n))
  <1>1. PICK key, img : key = SubSeq(text, 1, n) /\ img = ImageOf(d, n)
    OBVIOUS
  <1>2. key \in Seq(Nat) /\ Len(key) = n
    BY <1>1
  <1>3. \A k \in 1 .. n : key[k] = text[k]
    BY <1>1
  <1>4. img.pos = n /\ img.ssm = d.ssm /\ img.kv = [k \in 0 .. n - 1 |-> d.kv[k]]
    BY <1>1 DEF ImageOf
  <1>5. d.ssm = key
    BY <1>1, SpellsPrefix DEF At, StateOf
  <1>6. RowsOf(img.kv, key, n)
    <2>1. ASSUME RowsKept, NEW k \in 0 .. n - 1 PROVE img.kv[k] = key[k + 1]
      <3>1. k + 1 \in 1 .. n
        OBVIOUS
      <3>2. img.kv[k] = d.kv[k] /\ d.kv[k] = text[k + 1]
        BY <1>4, <2>1 DEF At, RowsOf
      <3> QED BY <1>3, <3>1, <3>2
    <2> QED BY <2>1 DEF RowsOf
  <1> QED BY <1>1, <1>2, <1>4, <1>5, <1>6 DEF ImageFits

(* A slot restored from an image of a prefix of the prompt can resume it   *)
(* there.                                                                  *)
LEMMA ImageResumes ==
    ASSUME NEW d, RingOK(d), NEW img, NEW key, ImageFits(img, key), NEW prompt \in Seq(Nat),
           Extends(key, prompt), Len(key) <= MaxContext
    PROVE  Resumable(ClearCkpts(RestoreImage(d, img)), prompt, img.pos)
  <1>1. key \in Seq(Nat)
    BY DEF ImageFits
  <1>2. PICK n \in Nat : n = Len(key)
    BY <1>1
  <1>3. /\ key \in Seq(Nat) /\ img.pos = n /\ img.ssm = key /\ RowsOf(img.kv, key, n)
        /\ n <= MaxContext
    BY <1>2 DEF ImageFits
  <1>4. \A k \in 1 .. n : key[k] = prompt[k]
    BY <1>2 DEF Extends
  <1>5. PICK kv : kv = [k \in Rows |-> IF k < img.pos THEN img.kv[k] ELSE d.kv[k]]
    OBVIOUS
  <1>6. PICK e : e = ClearCkpts(RestoreImage(d, img))
    OBVIOUS
  <1>7. e.kv = kv /\ e.ssm = key /\ e.ring = <<>>
    <2>1. d = [x \in DeviceFields |-> d[x]]
      BY DEF RingOK
    <2>2. PICK d1 : d1 = RestoreImage(d, img)
      OBVIOUS
    <2>3. d1 = [d EXCEPT !.kv = kv, !.ssm = img.ssm]
      BY <1>5, <2>2 DEF RestoreImage
    <2>4. d1 = [x \in DeviceFields |-> d1[x]] /\ d1.kv = kv /\ d1.ssm = img.ssm
      BY <2>1, <2>3 DEF DeviceFields
    <2>5. e = [d1 EXCEPT !.ring = <<>>]
      BY <1>6, <2>2 DEF ClearCkpts
    <2>6. e.kv = d1.kv /\ e.ssm = d1.ssm /\ e.ring = <<>>
      BY <2>4, <2>5 DEF DeviceFields
    <2> QED BY <1>3, <2>4, <2>6
  <1>8. RowsOf(e.kv, prompt, n)
    <2>1. ASSUME RowsKept, NEW k \in 0 .. n - 1 PROVE kv[k] = prompt[k + 1]
      <3>1. k \in Rows /\ k < n /\ k + 1 \in 1 .. n
        BY <1>3, Sizes DEF Rows
      <3>2. kv[k] = img.kv[k] /\ img.kv[k] = key[k + 1]
        BY <1>3, <1>5, <2>1, <3>1 DEF RowsOf
      <3> QED BY <1>4, <3>1, <3>2
    <2> QED BY <1>7, <2>1 DEF RowsOf
  <1>9. Spells(e.ssm, prompt, n)
    BY <1>2, <1>3, <1>4, <1>7 DEF Spells
  <1>10. RingOf(e.ring, prompt, n)
    <2>1. DOMAIN e.ring = {} /\ Len(e.ring) = 0
      BY <1>7
    <2> QED BY <2>1, RingCapAssumption DEF RingOf
  <1> QED BY <1>3, <1>6, <1>8, <1>9, <1>10 DEF Resumable

(* A hit of the lookup is a prefix of the prompt.                          *)
LEMMA LookupMatches ==
    ASSUME NEW x, NEW prompt \in Seq(Nat), Lookup(x, prompt) # NoPayload,
           \A id \in Payloads(x) : x.tok[id] \in Seq(Nat)
    PROVE  Lookup(x, prompt) \in Payloads(x) /\ Extends(x.tok[Lookup(x, prompt)], prompt)
  <1>1. PICK M : M = Matching(x, prompt)
    OBVIOUS
  <1>2. M # {} /\ \A id \in M : id \in Payloads(x) /\ Len(x.tok[id]) \in 0 .. Len(prompt)
    <2>1. M # {}
      BY <1>1 DEF Lookup
    <2>2. ASSUME NEW id \in M PROVE id \in Payloads(x) /\ Len(x.tok[id]) \in 0 .. Len(prompt)
      <3>1. id \in Payloads(x) /\ Len(x.tok[id]) <= Len(prompt)
        BY <1>1 DEF Matching
      <3>2. x.tok[id] \in Seq(Nat)
        BY <3>1
      <3> QED BY <3>1, <3>2
    <2> QED BY <2>1, <2>2
  <1> DEFINE S == {Len(x.tok[id]) : id \in M}
  <1>3. S # {} /\ S \in SUBSET (0 .. Len(prompt)) /\ Len(prompt) \in Nat
    <2>1. S # {} /\ S \in SUBSET (0 .. Len(prompt))
      BY <1>2, Zenon
    <2> QED BY <2>1
  <1>4. Max(S) \in S /\ \A y \in S : Max(S) >= y
    <2> HIDE DEF S
    <2> QED BY <1>3, BoundedMax
  <1>5. PICK m \in M : Len(x.tok[m]) = Max(S)
    BY <1>4
  <1>6. \A other \in M : Len(x.tok[other]) <= Len(x.tok[m])
    <2>1. ASSUME NEW other \in M PROVE Len(x.tok[other]) <= Len(x.tok[m])
      <3>1. PICK a, b : a = Len(x.tok[other]) /\ b = Len(x.tok[m])
        OBVIOUS
      <3>2. a \in S /\ a \in Nat /\ b \in Nat /\ b = Max(S)
        BY <1>2, <1>5, <3>1
      <3>3. b >= a
        <4> HIDE DEF S
        <4> QED BY <1>4, <3>2, Zenon
      <3> QED BY <3>1, <3>2, <3>3
    <2> QED BY <2>1
  <1> HIDE DEF S
  <1>7. Lookup(x, prompt) = CHOOSE id \in M : \A other \in M : Len(x.tok[other]) <= Len(x.tok[id])
    BY <1>1, <1>2 DEF Lookup
  <1>8. Lookup(x, prompt) \in M
    BY <1>6, <1>7
  <1>9. PICK id, key : id = Lookup(x, prompt) /\ key = x.tok[id]
    OBVIOUS
  <1>10. PICK n \in Nat : n = Len(key)
    BY <1>2, <1>8, <1>9
  <1>11. id \in Payloads(x) /\ n <= Len(prompt) /\ key = SubSeq(prompt, 1, n)
    BY <1>1, <1>8, <1>9, <1>10 DEF Matching
  <1>12. \A k \in 1 .. n : key[k] = prompt[k]
    BY <1>11
  <1>13. Extends(key, prompt)
    BY <1>10, <1>11, <1>12 DEF Extends
  <1> QED BY <1>9, <1>11, <1>13

-----------------------------------------------------------------------------
(* The invariant                                                           *)

(* Every image of the store is of the tokens it is keyed by.               *)
StoreFits(st) ==
    \A id \in DOMAIN st.images : ImageFits(st.images[id], st.index.tok[id])

(* The counters of a slot: what is ingested in band or by a commit is in   *)
(* the prompt, and what is not decoding yet has no position.               *)
Counters(pos, fed, L, n, eager) ==
    /\ fed <= L /\ (PrefillChunk = 0 => fed = 0)
    /\ PrefillChunk > 0 /\ n = 0 => pos = 0
    /\ eager => fed = 0

(* How much of prompt and answer a slot outside the eager prefill holds.   *)
Base(pos, fed, n) == IF PrefillChunk > 0 /\ n = 0 THEN fed ELSE pos

Serves(d, at, rt, prompt, tokens) ==
    /\ at < MaxContext /\ At(d, prompt \o tokens, at)
    /\ RingOf(d.ring, prompt, Len(prompt))
    /\ WarmSlot => rt \in {<<>>, prompt}

(* What an occupied slot's memory holds: while it waits for its prefill,   *)
(* during its chunk loop, and after.                                       *)
MemAt(d, s, q, listed, working, p) ==
    /\ ~s.resident
    /\ Counters(s.pos, s.prefillPos, Len(q.prompt), Len(q.tokens), listed \/ working)
    /\ listed => Resumable(d, q.prompt, s.prefillStart)
    /\ working => At(d, q.prompt, p) /\ RingOf(d.ring, q.prompt, p)
    /\ ~listed /\ ~working =>
          Serves(d, Base(s.pos, s.prefillPos, Len(q.tokens)), s.residentTokens,
                 q.prompt, q.tokens)

SlotHolds(i) == MemAt(device[i], slots[i], req[slots[i].req], Listed(i), Working(i), job.p)

SlotMem(i) ==
    /\ i \in Occupied => SlotHolds(i)
    /\ i \notin Occupied /\ slots[i].resident =>
          WarmSlot /\ Keeps(device[i], slots[i].residentTokens)

(* The inductive invariant, next to BatcherInv, AnswerInv and PinInv.      *)
MemInv == (\A i \in Slots : SlotMem(i)) /\ StoreFits(store)

(* An image keeps its tokens while its entry does.                         *)
LEMMA SameFits ==
    ASSUME NEW st, NEW st2, SameCounts(st, st2), StoreFits(st)
    PROVE  StoreFits(st2)
  BY DEF SameCounts, StoreFits

(* A snapshot of the right image.                                          *)
LEMMA SnapshotFits ==
    ASSUME NEW st, Accounts(st), StoreFits(st), NEW tokens, NEW image,
           ImageFits(image, tokens)
    PROVE  StoreFits(Snapshot(st, tokens, image))
  <1>1. PICK t, new : t = Snapshot(st, tokens, image) /\ new = st.nextId
    OBVIOUS
  <1>2. Snapped(st, tokens, image, t)
    BY <1>1, SnapshotCounts
  <1>3. DOMAIN t.images = Payloads(t.index) /\ DOMAIN st.images = Payloads(st.index)
    BY <1>2 DEF Snapped, Accounts
  <1>4. ASSUME NEW p \in Payloads(t.index) PROVE ImageFits(t.images[p], t.index.tok[p])
    <2>1. /\ p \in Payloads(st.index) \cup {new}
          /\ t.index.tok[p] = IF p = new THEN tokens ELSE st.index.tok[p]
          /\ t.images[p] = IF p = new THEN image ELSE st.images[p]
      BY <1>1, <1>2, Zenon DEF Snapped
    <2>2. CASE p = new
      BY <2>1, <2>2, Zenon
    <2>3. CASE p # new
      BY <1>3, <2>1, <2>3 DEF StoreFits
    <2> QED BY <2>2, <2>3
  <1> QED BY <1>1, <1>3, <1>4 DEF StoreFits

(* What retireSlot does to slot i, freed or not, and to its memory.        *)
RetiredTo(i, s, d, gone) ==
    /\ i \notin gone => slots'[i] = s /\ device'[i] = d
    /\ i \in gone =>
          /\ slots'[i].req = None
          /\ slots'[i].resident => /\ WarmSlot /\ s.residentTokens # <<>>
                                   /\ slots'[i].residentTokens = s.residentTokens
                                   /\ device'[i] = d

(* RetireSlots does that to every slot it is given, and to no other, and   *)
(* changes no image.                                                       *)
LEMMA RetireHolds ==
    ASSUME NEW sl, NEW dv, NEW st, NEW cold, NEW warm, RetireSlots(sl, dv, st, cold, warm),
           \A i \in Slots : sl[i] = [f \in SlotFields |-> sl[i][f]],
           Accounts(st), StoreFits(st)
    PROVE  /\ \A i \in Slots : RetiredTo(i, sl[i], dv[i], cold \cup warm)
           /\ StoreFits(store')
  <1> DEFINE gone == cold \cup warm
             kept == {i \in warm : WarmSlot /\ sl[i].residentTokens # <<>>}
             Rank(i) == Cardinality({j \in kept : j <= i})
             Unpins(id) == Cardinality({i \in gone : sl[i].pin = id})
             Retired(i) == [sl[i] EXCEPT
                 !.req = None, !.prefillStart = 0, !.pin = NoPayload,
                 !.resident = (i \in kept),
                 !.residentTokens = IF i \in kept THEN @ ELSE <<>>,
                 !.tick = IF i \in kept THEN warmTick + Rank(i) ELSE @]
  <1>1. /\ slots' = [i \in Slots |-> IF i \in gone THEN Retired(i) ELSE sl[i]]
        /\ device' = [i \in Slots |-> IF i \in gone \ kept THEN ClearCkpts(dv[i])
                                      ELSE dv[i]]
        /\ store' = [st EXCEPT !.index.ref =
                        [id \in DOMAIN @ |-> Release(st.index, id, Unpins(id)).ref[id]]]
    BY Zenon DEF RetireSlots
  <1>2. ASSUME NEW i \in Slots PROVE RetiredTo(i, sl[i], dv[i], gone)
    <2>1. CASE i \notin gone
      BY <1>1, <2>1 DEF RetiredTo
    <2>2. CASE i \in gone
      <3>1. PICK s, k, t, rt : /\ s = sl[i] /\ k = (i \in kept)
                               /\ t = (IF i \in kept THEN warmTick + Rank(i) ELSE s.tick)
                               /\ rt = (IF i \in kept THEN s.residentTokens ELSE <<>>)
        OBVIOUS
      <3>2. slots'[i] = [s EXCEPT !.req = None, !.prefillStart = 0, !.pin = NoPayload,
                                  !.resident = k, !.residentTokens = rt, !.tick = t]
        BY <1>1, <2>2, <3>1
      <3>3. s = [f \in SlotFields |-> s[f]]
        BY <3>1
      <3>4. slots'[i].req = None /\ slots'[i].resident = k /\ slots'[i].residentTokens = rt
        BY <3>2, <3>3 DEF SlotFields
      <3>5. i \in kept => device'[i] = dv[i]
        BY <1>1
      <3>6. i \in kept => WarmSlot /\ s.residentTokens # <<>>
        BY <3>1
      <3> HIDE DEF kept, gone
      <3> QED BY <2>2, <3>1, <3>4, <3>5, <3>6 DEF RetiredTo
    <2> QED BY <2>1, <2>2
  <1>3. StoreFits(store')
    <2>1. PICK ref : store' = [st EXCEPT !.index.ref = ref]
      BY <1>1
    <2>2. st = [f \in StoreFields |-> st[f]] /\ st.index = [f \in IndexFields |-> st.index[f]]
      BY DEF Accounts
    <2>3. PICK x : x = st.index
      OBVIOUS
    <2>4. PICK y : y = [x EXCEPT !.ref = ref]
      OBVIOUS
    <2>5. y.tok = x.tok
      BY <2>2, <2>3, <2>4 DEF IndexFields
    <2>6. store' = [st EXCEPT !.index = y]
      BY <2>1, <2>3, <2>4
    <2>7. store'.index = y /\ store'.images = st.images
      BY <2>2, <2>6 DEF StoreFields
    <2> QED BY <2>3, <2>5, <2>7 DEF StoreFits
  <1> QED BY <1>2, <1>3

(* A slot that a step does not touch.                                      *)
Quiet(i) == /\ slots'[i] = slots[i] /\ device'[i] = device[i] /\ SamePlace(i)
            /\ slots[i].req # None =>
                  /\ req'[slots[i].req].prompt = req[slots[i].req].prompt
                  /\ req'[slots[i].req].tokens = req[slots[i].req].tokens

(* Such a slot holds what it held.                                         *)
LEMMA QuietSlot ==
    ASSUME NEW i \in Slots, SlotMem(i), Quiet(i)
    PROVE  SlotMem(i)'
  <1>1. (Listed(i)' <=> Listed(i)) /\ (Working(i)' <=> Working(i))
    BY DEF Quiet, SamePlace
  <1>2. i \in Occupied <=> slots[i].req # None
    BY DEF Occupied
  <1>3. i \in Occupied' <=> slots[i].req # None
    BY DEF Occupied, Quiet
  <1>4. CASE slots[i].req # None
    <2>1. MemAt(device[i], slots[i], req[slots[i].req], Listed(i), Working(i), job.p)
      BY <1>2, <1>4 DEF SlotMem, SlotHolds
    <2>2. PICK d, s, q, q2 : /\ d = device[i] /\ s = slots[i] /\ q = req[s.req]
                             /\ q2 = req'[s.req]
      OBVIOUS
    <2>3. q2.prompt = q.prompt /\ q2.tokens = q.tokens
      BY <1>4, <2>2 DEF Quiet
    <2>4. Working(i) => job'.p = job.p
      BY DEF Quiet, SamePlace
    <2>5. MemAt(d, s, q2, Listed(i)', Working(i)', job'.p)
      <3>1. PICK pos, fed, start, rt : /\ pos = s.pos /\ fed = s.prefillPos
                                       /\ start = s.prefillStart /\ rt = s.residentTokens
        OBVIOUS
      <3>2. PICK prompt, tokens : prompt = q.prompt /\ tokens = q.tokens
        OBVIOUS
      <3>3. /\ ~s.resident
            /\ Counters(pos, fed, Len(prompt), Len(tokens), Listed(i) \/ Working(i))
            /\ Listed(i) => Resumable(d, prompt, start)
            /\ Working(i) => At(d, prompt, job.p) /\ RingOf(d.ring, prompt, job.p)
            /\ ~Listed(i) /\ ~Working(i) =>
                  Serves(d, Base(pos, fed, Len(tokens)), rt, prompt, tokens)
        BY <2>1, <2>2, <3>1, <3>2, Zenon DEF MemAt
      <3>4. Counters(pos, fed, Len(prompt), Len(tokens), Listed(i)' \/ Working(i)')
        BY <1>1, <3>3 DEF Counters
      <3>5. Working(i)' => At(d, prompt, job'.p) /\ RingOf(d.ring, prompt, job'.p)
        BY <1>1, <2>4, <3>3
      <3>6. /\ Listed(i)' => Resumable(d, prompt, start)
            /\ ~Listed(i)' /\ ~Working(i)' =>
                  Serves(d, Base(pos, fed, Len(tokens)), rt, prompt, tokens)
        BY <1>1, <3>3
      <3> QED BY <2>3, <3>1, <3>2, <3>3, <3>4, <3>5, <3>6, Zenon DEF MemAt
    <2>6. SlotHolds(i)'
      BY <2>2, <2>5 DEF SlotHolds, Quiet
    <2> QED BY <1>3, <1>4, <2>6 DEF SlotMem
  <1>5. CASE slots[i].req = None
    BY <1>2, <1>3, <1>5 DEF SlotMem, Quiet
  <1> QED BY <1>4, <1>5

(* A write that spares the checkpoints, and the rows if they count.        *)
Spares(e, d) == e.ring = d.ring /\ (RowsKept => e.kv = d.kv)

(* A slot that is freed without retireSlot is not kept warm.               *)
LEMMA FreedSlot ==
    ASSUME NEW i \in Slots, i \in Occupied, SlotMem(i), slots'[i].req = None,
           slots'[i].resident = slots[i].resident
    PROVE  SlotMem(i)'
  <1>1. ~slots[i].resident
    BY DEF SlotMem, SlotHolds, MemAt
  <1>2. i \notin Occupied'
    BY DEF Occupied
  <1> QED BY <1>1, <1>2 DEF SlotMem

-----------------------------------------------------------------------------
(* Steps that leave the device memory of the slots in use alone            *)

(* Checkpoints within a bound are within a larger one.                     *)
LEMMA RingGrows ==
    ASSUME NEW r, Ring(r), NEW key, NEW a \in Nat, NEW b \in Nat, a <= b, RingOf(r, key, a)
    PROVE  RingOf(r, key, b)
  <1>1. \A k \in DOMAIN r : r[k].pos \in Nat
    BY RingNumbers
  <1>2. ASSUME NEW k \in DOMAIN r PROVE r[k].pos <= b
    <2>1. PICK p : p = r[k].pos
      OBVIOUS
    <2>2. p \in Nat /\ p <= a
      BY <1>1, <2>1 DEF RingOf
    <2> QED BY <2>1, <2>2
  <1> QED BY <1>2 DEF RingOf

(* A free slot that keeps its record, and what counts of its memory if it  *)
(* is kept warm.                                                           *)
LEMMA IdleSlot ==
    ASSUME NEW i \in Slots, i \notin Occupied, SlotMem(i), slots'[i] = slots[i],
           slots[i].resident => Spares(device'[i], device[i])
    PROVE  SlotMem(i)'
  <1>1. i \notin Occupied'
    BY DEF Occupied
  <1>2. ASSUME NEW key, Keeps(device[i], key), Spares(device'[i], device[i])
        PROVE  Keeps(device'[i], key)
    BY <1>2, Zenon DEF Keeps, Spares, RowsOf
  <1> QED BY <1>1, <1>2 DEF SlotMem

(* With one slot there is no hole inside the batch.                        *)
LEMMA NoHole ==
    ASSUME MaxBatch = 1, NEW i \in Slots, i \notin Occupied
    PROVE  i \notin ActivePrefix
  <1>1. Slots = {0}
    BY DEF Slots
  <1>2. Occupied = {}
    BY <1>1 DEF Occupied
  <1> QED BY <1>2 DEF ActivePrefix

(* A slot in use holds what its parts say it does.                         *)
LEMMA SlotFilled ==
    ASSUME NEW i \in Slots, slots'[i].req # None, ~slots'[i].resident,
           NEW d, NEW pos, NEW fed, NEW start, NEW rt, NEW prompt, NEW tokens,
           NEW l, NEW w, NEW p,
           device'[i] = d, slots'[i].pos = pos, slots'[i].prefillPos = fed,
           slots'[i].prefillStart = start, slots'[i].residentTokens = rt,
           req'[slots'[i].req].prompt = prompt, req'[slots'[i].req].tokens = tokens,
           l = Listed(i)', w = Working(i)', p = job'.p,
           Counters(pos, fed, Len(prompt), Len(tokens), l \/ w),
           l => Resumable(d, prompt, start),
           w => At(d, prompt, p) /\ RingOf(d.ring, prompt, p),
           ~l /\ ~w => Serves(d, Base(pos, fed, Len(tokens)), rt, prompt, tokens)
    PROVE  SlotMem(i)'
  <1>1. i \in Occupied'
    BY DEF Occupied
  <1>2. PICK s, q : s = slots'[i] /\ q = req'[s.req]
    OBVIOUS
  <1>3. MemAt(d, s, q, l, w, p)
    <2>1. /\ ~s.resident /\ s.pos = pos /\ s.prefillPos = fed /\ s.prefillStart = start
          /\ s.residentTokens = rt /\ q.prompt = prompt /\ q.tokens = tokens
      BY <1>2
    <2> QED BY <2>1, Zenon DEF MemAt
  <1>4. MemAt(device'[i], slots'[i], req'[slots'[i].req], Listed(i)', Working(i)', job'.p)
    BY <1>2, <1>3
  <1>5. SlotHolds(i)'
    BY <1>4 DEF SlotHolds
  <1> QED BY <1>1, <1>5 DEF SlotMem

(* The steps that only move the worker along.                              *)
LEMMA ControlMem ==
    ASSUME BatcherInv, PinInv, MemInv,
           \/ BeginIteration \/ EndWarm \/ SkipCross \/ EndCross \/ EndAdmission
           \/ Wake \/ PrefillDone \/ CheckCancelled \/ Stop \/ Quiescent \/ UNCHANGED vars
    PROVE  MemInv'
  <1>1. /\ req' = req /\ slots' = slots /\ job' = job /\ device' = device
    BY DEF BeginIteration, EndWarm, SkipCross, EndCross, EndAdmission, Wake, PrefillDone,
           CheckCancelled, Stop, Quiescent, vars, workerVars
  <1>2. toPrefill' = toPrefill
    BY DEF BeginIteration, EndWarm, SkipCross, EndCross, EndAdmission, Wake, PrefillDone,
           CheckCancelled, Stop, Quiescent, vars, workerVars, BatcherInv, Works, WorkList
  <1>3. store' = store \/ store' = TouchLookup(store, CrossPrompt)
    BY DEF BeginIteration, EndWarm, SkipCross, EndCross, EndAdmission, Wake, PrefillDone,
           CheckCancelled, Stop, Quiescent, vars
  <1>4. StoreFits(store')
    <2>1. Accounts(store) /\ StoreFits(store)
      BY DEF PinInv, Pinned, MemInv
    <2> QED BY <1>3, <2>1, TouchLookupCounts, SameFits
  <1>5. ASSUME NEW i \in Slots PROVE SlotMem(i)'
    <2>1. SamePlace(i)
      BY <1>1, <1>2 DEF SamePlace, Listed, Working
    <2>2. Quiet(i)
      BY <1>1, <2>1 DEF Quiet
    <2> QED BY <2>2, QuietSlot DEF MemInv
  <1>6. (\A i \in Slots : SlotMem(i))'
    BY <1>5 DEF Slots
  <1> QED BY <1>4, <1>6 DEF MemInv

(* The clients: a request that a slot runs keeps its prompt and its        *)
(* answer.                                                                 *)
LEMMA ClientMem ==
    ASSUME BatcherInv, MemInv, NEW r \in Reqs,
           \/ \E p \in Prompts, t \in Tenants : Submit(r, p, t)
           \/ Cancel(r)
    PROVE  MemInv'
  <1>1. /\ slots' = slots /\ job' = job /\ device' = device /\ store' = store
        /\ toPrefill' = toPrefill
    BY DEF Submit, Cancel, workerVars
  <1>2. \A q \in Reqs \ {r} : req'[q] = req[q]
    <2>1. CASE Cancel(r)
      BY <2>1 DEF Cancel
    <2>2. ASSUME NEW p \in Prompts, NEW t \in Tenants, Submit(r, p, t)
          PROVE  \A q \in Reqs \ {r} : req'[q] = req[q]
      <3>1. \E new : req' = [req EXCEPT ![r] = new]
        BY <2>2 DEF Submit
      <3> QED BY <3>1
    <2> QED BY <2>1, <2>2
  <1>3. (\E i \in Occupied : slots[i].req = r) =>
            req'[r].prompt = req[r].prompt /\ req'[r].tokens = req[r].tokens
    <2>1. CASE Cancel(r)
      BY <2>1 DEF Cancel, BatcherInv, Shape, ReqFields
    <2>2. CASE ~Cancel(r)
      <3>1. req[r].st = "new"
        BY <2>2 DEF Submit
      <3> QED BY <3>1 DEF BatcherInv, Places, Placement, Owner
    <2> QED BY <2>1, <2>2
  <1>4. ASSUME NEW i \in Slots PROVE SlotMem(i)'
    <2>1. SamePlace(i)
      BY <1>1 DEF SamePlace, Listed, Working
    <2>2. slots[i].req # None => slots[i].req \in Reqs /\ i \in Occupied
      BY DEF BatcherInv, Places, Occupied
    <2>3. slots[i].req # None =>
             /\ req'[slots[i].req].prompt = req[slots[i].req].prompt
             /\ req'[slots[i].req].tokens = req[slots[i].req].tokens
      <3>1. CASE slots[i].req = r
        BY <1>3, <2>2, <3>1
      <3>2. CASE slots[i].req # r
        <4>1. slots[i].req # None => req'[slots[i].req] = req[slots[i].req]
          BY <1>2, <2>2, <3>2
        <4> QED BY <4>1
      <3> QED BY <3>1, <3>2
    <2>4. Quiet(i)
      BY <1>1, <2>1, <2>3 DEF Quiet
    <2> QED BY <2>4, QuietSlot DEF MemInv
  <1>5. (\A i \in Slots : SlotMem(i))'
    BY <1>4 DEF Slots
  <1> QED BY <1>1, <1>5 DEF MemInv, StoreFits

(* The shutdown frees every slot and touches no memory.                    *)
LEMMA ShutdownMem ==
    ASSUME BatcherInv, MemInv, Shutdown
    PROVE  MemInv'
  <1>1. /\ slots' = [i \in Slots |-> IF i \in Occupied THEN Freed(slots[i]) ELSE slots[i]]
        /\ device' = device /\ store' = store
    BY DEF Shutdown
  <1>2. ASSUME NEW i \in Slots PROVE SlotMem(i)'
    <2>1. CASE i \in Occupied
      <3>1. slots[i] = [f \in SlotFields |-> slots[i][f]]
        BY DEF BatcherInv, Shape
      <3>2. Freed(slots[i]).req = None /\ Freed(slots[i]).resident = slots[i].resident
        BY <3>1 DEF Freed, SlotFields
      <3>3. slots'[i].req = None /\ slots'[i].resident = slots[i].resident
        BY <1>1, <2>1, <3>2
      <3> QED BY <2>1, <3>3, FreedSlot DEF MemInv
    <2>2. CASE i \notin Occupied
      <3>1. slots'[i] = slots[i]
        BY <1>1, <2>2
      <3> QED BY <1>1, <2>2, <3>1, IdleSlot DEF MemInv, Spares
    <2> QED BY <2>1, <2>2
  <1>3. (\A i \in Slots : SlotMem(i))'
    BY <1>2 DEF Slots
  <1> QED BY <1>1, <1>3 DEF MemInv, StoreFits

(* A forward that threw: it may have written only to the slots it fails    *)
(* and to holes that are not kept warm.                                    *)
LEMMA FailMem ==
    ASSUME BatcherInv, MemInv, NEW F \in SUBSET Occupied, NEW after, FailSlots(F, after),
           \A i \in Occupied \ F : SamePlace(i) /\ after[i] = device[i],
           \A i \in Slots \ Occupied : slots[i].resident => Spares(after[i], device[i])
    PROVE  MemInv'
  <1>1. Shape /\ Places
    BY DEF BatcherInv
  <1>2. /\ \A r \in Reqs : (\A i \in F : slots[i].req # r) => req'[r] = req[r]
        /\ \A i \in Slots \ F : slots'[i] = slots[i]
        /\ \A i \in F : slots'[i].req = None
    BY <1>1, FailTells
  <1>3. store' = store /\ (device' = device \/ device' = after)
    BY DEF FailSlots
  <1>4. ASSUME NEW i \in Slots PROVE SlotMem(i)'
    <2>1. CASE i \in F
      <3>1. slots[i] = [f \in SlotFields |-> slots[i][f]]
        BY <1>1 DEF Shape
      <3>2. Freed(slots[i]).resident = slots[i].resident
        BY <3>1 DEF Freed, SlotFields
      <3>3. slots'[i].resident = slots[i].resident
        BY <2>1, <3>2 DEF FailSlots
      <3> QED BY <1>2, <2>1, <3>3, FreedSlot DEF MemInv
    <2>2. CASE i \in Occupied \ F
      <3>1. slots'[i] = slots[i] /\ device'[i] = device[i] /\ SamePlace(i)
        BY <1>2, <1>3, <2>2
      <3>2. slots[i].req \in Reqs
        BY <1>1, <2>2 DEF Places, Occupied
      <3>3. \A j \in F : slots[j].req # slots[i].req
        BY <2>2, OtherOwner
      <3>4. req'[slots[i].req] = req[slots[i].req]
        BY <1>2, <3>2, <3>3
      <3>5. Quiet(i)
        BY <3>1, <3>4 DEF Quiet
      <3> QED BY <3>5, QuietSlot DEF MemInv
    <2>3. CASE i \notin Occupied
      <3>1. slots'[i] = slots[i] /\ (slots[i].resident => Spares(device'[i], device[i]))
        BY <1>2, <1>3, <2>3 DEF Spares
      <3> QED BY <2>3, <3>1, IdleSlot DEF MemInv
    <2> QED BY <2>1, <2>2, <2>3
  <1>5. (\A i \in Slots : SlotMem(i))'
    BY <1>4 DEF Slots
  <1> QED BY <1>3, <1>5 DEF MemInv, StoreFits

-----------------------------------------------------------------------------
(* Admission                                                               *)

(* A slot with no checkpoints.                                             *)
LEMMA NoRing == \A key, bound : RingOf(<<>>, key, bound)
  <1>1. DOMAIN <<>> = {} /\ Len(<<>>) = 0
    OBVIOUS
  <1> QED BY <1>1, RingCapAssumption DEF RingOf

(* An admission: the slot can resume the prompt where it is told to.       *)
LEMMA AdmitMem ==
    ASSUME BatcherInv, AnswerInv, MemInv, NEW i \in Slots \ Occupied, NEW k \in DOMAIN waiting,
           NEW start \in Nat, NEW pin, NEW eager,
           AdmitTo(i, waiting[k], start, pin, eager), LockHeld,
           NEW d2, device' = [device EXCEPT ![i] = d2],
           PrefillChunk > 0 /\ eager => Resumable(d2, req[waiting[k]].prompt, start),
           ~(PrefillChunk > 0 /\ eager) => start = 0 /\ d2.ring = <<>>,
           StoreFits(store')
    PROVE  MemInv'
  <1>1. PICK r \in Reqs : r = waiting[k]
    BY DEF BatcherInv, Places
  <1>2. AdmitTo(i, r, start, pin, eager)
    BY <1>1
  <1>3. /\ req' = req /\ job' = job /\ \A j \in Slots \ {i} : slots'[j] = slots[j]
        /\ slots'[i].req = r /\ slots'[i].pos = 0 /\ slots'[i].prefillPos = 0
        /\ slots'[i].prefillStart = start /\ ~slots'[i].resident
        /\ slots'[i].residentTokens = IF start = 0 THEN <<>> ELSE slots[i].residentTokens
        /\ \A j : j # i => (Listed(j)' <=> Listed(j))
        /\ Listed(i)' <=> PrefillChunk > 0 /\ eager
        /\ \A j : ~Working(j) /\ ~Working(j)'
    BY <1>2, AdmitPlaces
  <1>4. device = [j \in Slots |-> device[j]]
    BY DEF AnswerInv, Positions
  <1>5. device'[i] = d2 /\ \A j \in Slots \ {i} : device'[j] = device[j]
    BY <1>4
  <1>6. ASSUME NEW j \in Slots, j # i PROVE SlotMem(j)'
    <2>1. Quiet(j)
      BY <1>3, <1>5, <1>6 DEF Quiet, SamePlace
    <2> QED BY <2>1, QuietSlot DEF MemInv
  <1>7. SlotMem(i)'
    <2>1. PICK prompt, tokens, rt, l, w, p :
             /\ prompt = req[r].prompt /\ tokens = req[r].tokens
             /\ rt = slots'[i].residentTokens
             /\ l = Listed(i)' /\ w = Working(i)' /\ p = job'.p
      OBVIOUS
    <2>2. Untouched(req[r]) /\ HandleOK(req[r])
      BY <1>1 DEF AnswerInv, Queue, Handles
    <2>3. prompt \in Seq(Nat) /\ tokens = <<>> /\ Len(tokens) = 0
      BY <2>1, <2>2, HandleTypes DEF Untouched
    <2>4. ~w /\ (l <=> PrefillChunk > 0 /\ eager)
      BY <1>3, <2>1
    <2>5. Counters(0, 0, Len(prompt), Len(tokens), l \/ w)
      BY <2>3 DEF Counters
    <2>6. l => Resumable(d2, prompt, start)
      BY <1>1, <2>1, <2>4
    <2>7. ~l => Serves(d2, Base(0, 0, Len(tokens)), rt, prompt, tokens)
      <3>1. Base(0, 0, Len(tokens)) = 0
        BY DEF Base
      <3>2. 0 < MaxContext
        BY Sizes
      <3>3. At(d2, prompt \o tokens, 0)
        BY DEF At, RowsOf, StateOf
      <3>4. ~l => rt = <<>>
        BY <1>3, <2>1, <2>4
      <3>5. ~l => RingOf(d2.ring, prompt, Len(prompt))
        BY <2>4, NoRing
      <3> QED BY <3>1, <3>2, <3>3, <3>4, <3>5 DEF Serves
    <2>8. r # None
      BY BatcherAssumption
    <2>9. /\ slots'[i].req # None /\ req'[slots'[i].req].prompt = prompt
          /\ req'[slots'[i].req].tokens = tokens
      BY <1>3, <2>1, <2>8
    <2>10. i \in Slots /\ ~slots'[i].resident /\ slots'[i].pos = 0 /\ slots'[i].prefillPos = 0
           /\ slots'[i].prefillStart = start
      BY <1>3
    <2> QED BY <1>5, <2>1, <2>4, <2>5, <2>6, <2>7, <2>9, <2>10, SlotFilled
  <1>8. (\A j \in Slots : SlotMem(j))'
    <2>1. \A j \in Slots : SlotMem(j)'
      BY <1>6, <1>7
    <2> QED BY <2>1 DEF Slots
  <1> QED BY <1>8 DEF MemInv, StoreFits

(* A queued request has a prompt that fits the context.                    *)
LEMMA QueuedPrompt ==
    ASSUME BatcherInv, AnswerInv, NEW k \in DOMAIN waiting
    PROVE  /\ req[waiting[k]].prompt \in Seq(Nat) /\ Len(req[waiting[k]].prompt) \in Nat
           /\ 0 < Len(req[waiting[k]].prompt) /\ Len(req[waiting[k]].prompt) < MaxContext
  <1>1. waiting[k] \in Reqs /\ req[waiting[k]].st = "open"
    BY DEF BatcherInv, Places, Placement, Waiting
  <1>2. PICK q : q = req[waiting[k]]
    OBVIOUS
  <1>3. HandleOK(q) /\ q.st = "open"
    BY <1>1, <1>2 DEF AnswerInv, Handles
  <1>4. q.prompt \in Seq(Nat) /\ 0 < Len(q.prompt) /\ Len(q.prompt) < MaxContext
    BY <1>3, Zenon DEF HandleOK
  <1> QED BY <1>2, <1>4

(* The warm pass: the slot is pruned to what its history shares with the   *)
(* prompt.                                                                 *)
LEMMA AdmitWarmMem ==
    ASSUME BatcherInv, AnswerInv, PinInv, MemInv, AdmitWarm
    PROVE  MemInv'
  <1>1. PICK k \in WarmHits : \E i \in FindWarmSlot(req[waiting[k]].prompt) :
           /\ AdmitTo(i, waiting[k], WarmPos(i, req[waiting[k]].prompt), NoPayload, TRUE)
           /\ device' = [device EXCEPT ![i] =
                 PruneCkpts(@, LCP(slots[i].residentTokens, req[waiting[k]].prompt))]
    BY DEF AdmitWarm
  <1>2. PICK i \in FindWarmSlot(req[waiting[k]].prompt) :
           /\ AdmitTo(i, waiting[k], WarmPos(i, req[waiting[k]].prompt), NoPayload, TRUE)
           /\ device' = [device EXCEPT ![i] =
                 PruneCkpts(@, LCP(slots[i].residentTokens, req[waiting[k]].prompt))]
    BY <1>1
  <1>3. k \in DOMAIN waiting
    BY DEF WarmHits
  <1>4. PICK prompt, key, d : /\ prompt = req[waiting[k]].prompt
                              /\ key = slots[i].residentTokens /\ d = device[i]
    OBVIOUS
  <1>5. PICK lcp : lcp = LCP(key, prompt)
    OBVIOUS
  <1>6. PICK best : best = CkptBestPos(d, lcp)
    OBVIOUS
  <1>7. PICK d2 : d2 = PruneCkpts(d, lcp)
    OBVIOUS
  <1>8. /\ i \in Slots \ Occupied /\ slots[i].resident
        /\ WarmPos(i, prompt) = best /\ best > 0
    <2>1. i \in Slots /\ WarmPos(i, prompt) > 0
      BY <1>4 DEF FindWarmSlot, WarmFor
    <2> QED BY <1>4, <1>5, <1>6, <2>1 DEF WarmPos
  <1>9. Keeps(d, key) /\ RingOK(d)
    BY <1>4, <1>8 DEF MemInv, SlotMem, AnswerInv, Positions
  <1>10. prompt \in Seq(Nat) /\ key \in Seq(Nat)
    BY <1>3, <1>4, <1>9, QueuedPrompt DEF Keeps
  <1>11. Resumable(d2, prompt, best)
    BY <1>5, <1>6, <1>7, <1>8, <1>9, <1>10, WarmResumes
  <1>12. best \in Nat
    <2>1. prompt # <<>>
      <3>1. 0 < Len(prompt)
        BY <1>3, <1>4, QueuedPrompt
      <3> QED BY <3>1
    <2> QED BY <1>8, <1>10, <2>1, WarmPosType DEF AnswerInv
  <1>13. /\ AdmitTo(i, waiting[k], best, NoPayload, TRUE)
         /\ device' = [device EXCEPT ![i] = d2]
    BY <1>2, <1>4, <1>5, <1>7, <1>8
  <1>14. LockHeld /\ StoreFits(store')
    BY DEF AdmitWarm, LockHeld, MemInv
  <1>15. PrefillChunk > 0
    <2>1. WarmSlot
      BY DEF FindWarmSlot, WarmFor
    <2> QED BY <2>1, BatcherAssumption
  <1>16. Resumable(d2, req[waiting[k]].prompt, best)
    BY <1>4, <1>11
  <1> QED BY <1>3, <1>8, <1>12, <1>13, <1>14, <1>15, <1>16, AdmitMem

(* The cross-slot pass: the image is of a prefix of the prompt.            *)
LEMMA AdmitCrossMem ==
    ASSUME BatcherInv, AnswerInv, PinInv, MemInv, AdmitCross
    PROVE  MemInv'
  <1>1. PICK i \in PickColdSlot : \E img \in {store.images[CrossId]} :
           /\ AdmitTo(i, waiting[scan], img.pos, CrossId, TRUE)
           /\ device' = [device EXCEPT ![i] = ClearCkpts(RestoreImage(@, img))]
    BY DEF AdmitCross
  <1>2. PICK img : /\ img = store.images[CrossId]
                   /\ AdmitTo(i, waiting[scan], img.pos, CrossId, TRUE)
                   /\ device' = [device EXCEPT ![i] = ClearCkpts(RestoreImage(@, img))]
    BY <1>1
  <1>3. scan \in DOMAIN waiting
    BY DEF AdmitCross, CrossMore, BatcherInv, Cursor, Places
  <1>4. i \in Slots \ Occupied /\ XSlot
    BY DEF PickColdSlot, AdmitCross, CrossMore
  <1>5. PICK prompt, id, d, d2 : /\ prompt = req[waiting[scan]].prompt /\ id = CrossId
                                 /\ d = device[i] /\ d2 = ClearCkpts(RestoreImage(d, img))
    OBVIOUS
  <1>6. /\ id # NoPayload /\ id \in DOMAIN store.images /\ id = Lookup(store.index, prompt)
        /\ img.pos < Len(prompt)
    <2>1. /\ id # NoPayload /\ img.pos < Len(prompt)
      BY <1>2, <1>5 DEF AdmitCross, CrossUsable, CrossPrompt
    <2>2. id = LookupImage(store, prompt)
      BY <1>5 DEF CrossId, CrossPrompt
    <2> QED BY <2>1, <2>2 DEF LookupImage
  <1>7. Accounts(store) /\ StoreFits(store)
    BY DEF PinInv, Pinned, MemInv
  <1>8. prompt \in Seq(Nat) /\ Len(prompt) \in Nat /\ Len(prompt) < MaxContext
    BY <1>3, <1>5, QueuedPrompt
  <1>9. PICK x, key : x = store.index /\ key = x.tok[id]
    OBVIOUS
  <1>10. \A m \in Payloads(x) : x.tok[m] \in Seq(Nat)
    BY <1>7, <1>9 DEF Accounts, StoreFits, ImageFits
  <1>11. Extends(key, prompt)
    <2>1. Lookup(x, prompt) # NoPayload /\ id = Lookup(x, prompt)
      BY <1>6, <1>9
    <2>2. Extends(x.tok[Lookup(x, prompt)], prompt)
      BY <1>8, <1>10, <2>1, LookupMatches
    <2> QED BY <1>9, <2>1, <2>2
  <1>12. ImageFits(img, key)
    BY <1>2, <1>5, <1>6, <1>7, <1>9 DEF StoreFits
  <1>13. img.pos \in Nat /\ Len(key) <= MaxContext
    <2>1. img.pos = Len(key) /\ key \in Seq(Nat)
      BY <1>12 DEF ImageFits
    <2>2. Len(key) \in Nat
      BY <2>1
    <2> QED BY <1>6, <1>8, <2>1, <2>2, Sizes
  <1>14. Resumable(d2, prompt, img.pos)
    <2>1. RingOK(d)
      BY <1>4, <1>5 DEF AnswerInv, Positions
    <2> QED BY <1>5, <1>8, <1>11, <1>12, <1>13, <2>1, ImageResumes
  <1>15. StoreFits(store')
    <2>1. PICK st : st = TouchLookup(store, CrossPrompt)
      OBVIOUS
    <2>2. SameCounts(store, st) /\ store' = AcquireImage(st, id)
      BY <1>5, <1>7, <2>1, TouchLookupCounts DEF AdmitCross
    <2>3. StoreFits(st) /\ Accounts(st) /\ id \in Payloads(st.index)
      BY <1>6, <1>7, <2>2, SameFits DEF SameCounts, Accounts
    <2>4. store'.images = st.images /\ store'.index.tok = st.index.tok
      BY <2>2, <2>3, AcquireCounts
    <2> QED BY <2>3, <2>4 DEF StoreFits
  <1>16. LockHeld /\ PrefillChunk > 0
    BY <1>4, BatcherAssumption DEF AdmitCross, LockHeld
  <1>17. device' = [device EXCEPT ![i] = d2]
    BY <1>2, <1>5
  <1>18. Resumable(d2, req[waiting[scan]].prompt, img.pos)
    BY <1>5, <1>14
  <1>19. AdmitTo(i, waiting[scan], img.pos, CrossId, TRUE)
    BY <1>2
  <1> QED BY <1>3, <1>4, <1>13, <1>15, <1>16, <1>17, <1>18, <1>19, AdmitMem

(* The cold pass: nothing is resumed, and the ring is cleared.             *)
LEMMA AdmitColdMem ==
    ASSUME BatcherInv, AnswerInv, MemInv, AdmitCold
    PROVE  MemInv'
  <1>1. PICK eager : eager = (~MixedStep \/ (PressureGate /\ ~pressure))
    OBVIOUS
  <1>2. PICK i \in PickColdSlot :
           /\ AdmitTo(i, Head(waiting), 0, NoPayload, eager)
           /\ device' = [device EXCEPT ![i] = ClearCkpts(@)]
    BY <1>1 DEF AdmitCold
  <1>3. 1 \in DOMAIN waiting /\ Head(waiting) = waiting[1]
    BY DEF AdmitCold, ColdMore, BatcherInv, Places
  <1>4. i \in Slots \ Occupied
    BY DEF PickColdSlot
  <1>5. PICK d2 : d2 = ClearCkpts(device[i])
    OBVIOUS
  <1>6. d2.ring = <<>>
    <2>1. PICK d : d = device[i]
      OBVIOUS
    <2>2. d = [x \in DeviceFields |-> d[x]]
      BY <1>4, <2>1 DEF AnswerInv, Positions, RingOK
    <2> QED BY <1>5, <2>1, <2>2 DEF ClearCkpts, DeviceFields
  <1>7. PICK prompt : prompt = req[waiting[1]].prompt
    OBVIOUS
  <1>8. Resumable(d2, prompt, 0)
    BY <1>6, NoRing DEF Resumable, RowsOf
  <1>9. device' = [device EXCEPT ![i] = d2] /\ AdmitTo(i, waiting[1], 0, NoPayload, eager)
    BY <1>2, <1>3, <1>5
  <1>10. LockHeld /\ StoreFits(store')
    BY DEF AdmitCold, LockHeld, MemInv
  <1>11. Resumable(d2, req[waiting[1]].prompt, 0) /\ 0 \in Nat
    BY <1>7, <1>8
  <1> QED BY <1>3, <1>4, <1>6, <1>9, <1>10, <1>11, AdmitMem

-----------------------------------------------------------------------------
(* The eager prefill                                                       *)

(* What MemInv says of a slot in use.                                      *)
LEMMA SlotParts ==
    ASSUME MemInv, NEW i \in Occupied, NEW r, r = slots[i].req
    PROVE  /\ ~slots[i].resident
           /\ Counters(slots[i].pos, slots[i].prefillPos, Len(req[r].prompt), Len(req[r].tokens),
                       Listed(i) \/ Working(i))
           /\ Listed(i) => Resumable(device[i], req[r].prompt, slots[i].prefillStart)
           /\ Working(i) => /\ At(device[i], req[r].prompt, job.p)
                            /\ RingOf(device[i].ring, req[r].prompt, job.p)
           /\ ~Listed(i) /\ ~Working(i) =>
                 Serves(device[i], Base(slots[i].pos, slots[i].prefillPos, Len(req[r].tokens)),
                        slots[i].residentTokens, req[r].prompt, req[r].tokens)
  <1>1. i \in Slots
    BY DEF Occupied
  <1>2. MemAt(device[i], slots[i], req[slots[i].req], Listed(i), Working(i), job.p)
    BY <1>1 DEF MemInv, SlotMem, SlotHolds
  <1>3. PICK s, q, d, l, w : /\ s = slots[i] /\ q = req[r] /\ d = device[i]
                             /\ l = Listed(i) /\ w = Working(i)
    OBVIOUS
  <1>4. MemAt(d, s, q, l, w, job.p)
    BY <1>2, <1>3
  <1>5. /\ ~s.resident
        /\ Counters(s.pos, s.prefillPos, Len(q.prompt), Len(q.tokens), l \/ w)
        /\ l => Resumable(d, q.prompt, s.prefillStart)
        /\ w => At(d, q.prompt, job.p) /\ RingOf(d.ring, q.prompt, job.p)
        /\ ~l /\ ~w => Serves(d, Base(s.pos, s.prefillPos, Len(q.tokens)), s.residentTokens,
                              q.prompt, q.tokens)
    BY <1>4, Zenon DEF MemAt
  <1> QED BY <1>3, <1>5

(* Only what resumes somewhere needs the paged substrate.                  *)
LEMMA SlabStarts ==
    ASSUME BatcherInv, AnswerInv, NEW i \in Occupied
    PROVE  slots[i].prefillStart \in Nat /\ (Slab => slots[i].prefillStart = 0)
  <1>1. PICK pos, fed, start, L, n, ran, told, l, w :
           /\ pos = slots[i].pos /\ fed = slots[i].prefillPos /\ start = slots[i].prefillStart
           /\ L = Len(req[slots[i].req].prompt) /\ n = Len(req[slots[i].req].tokens)
           /\ ran = req[slots[i].req].ran /\ told = req[slots[i].req].prefillSet
           /\ l = Listed(i) /\ w = Working(i)
    OBVIOUS
  <1>2. StandsAt(pos, fed, start, L, n, ran, told, l, w, job.p)
    BY <1>1, SlotNumbers
  <1>3. start \in Nat /\ (~WarmSlot /\ ~XSlot => start = 0)
    BY <1>2, Zenon DEF StandsAt
  <1>4. Slab => ~WarmSlot /\ ~XSlot
    BY BatcherAssumption
  <1> QED BY <1>1, <1>3, <1>4

(* The chunk loop gives a resumed slot its checkpoint back.                *)
LEMMA BeginMem ==
    ASSUME BatcherInv, AnswerInv, MemInv, PrefillBegin
    PROVE  MemInv'
  <1>1. PICK i : i = Head(toPrefill)
    OBVIOUS
  <1>2. slots' = slots /\ req' = req /\ store' = store
    BY DEF PrefillBegin
  <1>3. /\ i \in Occupied /\ Listed(i) /\ ~Working(i) /\ ~Listed(i)' /\ Working(i)'
        /\ job'.p = slots[i].prefillStart
        /\ device' = [device EXCEPT ![i] = IF slots[i].prefillStart > 0
                                           THEN RestoreCkpt(@, slots[i].prefillStart) ELSE @]
        /\ \A j : j # i => (Listed(j)' <=> Listed(j)) /\ ~Working(j) /\ ~Working(j)'
    BY <1>1, BeginPlaces
  <1>4. i \in Slots
    BY <1>3 DEF Occupied
  <1>5. PICK start, d, r : start = slots[i].prefillStart /\ d = device[i] /\ r = slots[i].req
    OBVIOUS
  <1>6. PICK prompt, tokens, pos, fed, rt :
           /\ prompt = req[r].prompt /\ tokens = req[r].tokens /\ pos = slots[i].pos
           /\ fed = slots[i].prefillPos /\ rt = slots[i].residentTokens
    OBVIOUS
  <1>7. PICK e : e = IF start > 0 THEN RestoreCkpt(d, start) ELSE d
    OBVIOUS
  <1>8. /\ ~slots[i].resident
        /\ Counters(pos, fed, Len(prompt), Len(tokens), TRUE)
        /\ Resumable(d, prompt, start)
    <2>1. /\ ~slots[i].resident
          /\ Counters(pos, fed, Len(prompt), Len(tokens), Listed(i) \/ Working(i))
          /\ Listed(i) => Resumable(d, prompt, start)
      BY <1>3, <1>5, <1>6, SlotParts
    <2>2. Counters(pos, fed, Len(prompt), Len(tokens), TRUE)
      BY <1>3, <2>1 DEF Counters
    <2> QED BY <1>3, <2>1, <2>2
  <1>9. start \in Nat /\ (Slab => start = 0) /\ RingOK(d)
    BY <1>3, <1>4, <1>5, SlabStarts DEF AnswerInv, Positions
  <1>10. At(e, prompt, start) /\ RingOf(e.ring, prompt, start)
    BY <1>7, <1>8, <1>9, RestoreResumes
  <1>11. device'[i] = e /\ \A j \in Slots \ {i} : device'[j] = device[j]
    <2>1. device = [j \in Slots |-> device[j]]
      BY DEF AnswerInv, Positions
    <2>2. device' = [device EXCEPT ![i] = e]
      BY <1>3, <1>5, <1>7
    <2> QED BY <1>4, <2>1, <2>2
  <1>12. ASSUME NEW j \in Slots, j # i PROVE SlotMem(j)'
    <2>1. Quiet(j)
      BY <1>2, <1>3, <1>11, <1>12 DEF Quiet, SamePlace
    <2> QED BY <2>1, QuietSlot DEF MemInv
  <1>13. SlotMem(i)'
    <2>1. PICK l, w, p : l = Listed(i)' /\ w = Working(i)' /\ p = job'.p
      OBVIOUS
    <2>2. ~l /\ w /\ p = start
      BY <1>3, <1>5, <2>1
    <2>3. Counters(pos, fed, Len(prompt), Len(tokens), l \/ w)
      BY <1>8, <2>2 DEF Counters
    <2>4. /\ slots'[i].req # None /\ ~slots'[i].resident /\ slots'[i].pos = pos
          /\ slots'[i].prefillPos = fed /\ slots'[i].prefillStart = start
          /\ slots'[i].residentTokens = rt /\ req'[slots'[i].req].prompt = prompt
          /\ req'[slots'[i].req].tokens = tokens
      BY <1>2, <1>3, <1>5, <1>6, <1>8 DEF Occupied
    <2>5. w => At(e, prompt, p) /\ RingOf(e.ring, prompt, p)
      BY <1>10, <2>2
    <2>6. /\ l => Resumable(e, prompt, start)
          /\ ~l /\ ~w => Serves(e, Base(pos, fed, Len(tokens)), rt, prompt, tokens)
      BY <2>2
    <2> QED BY <1>4, <1>11, <2>1, <2>3, <2>4, <2>5, <2>6, SlotFilled
  <1>14. (\A j \in Slots : SlotMem(j))'
    <2>1. \A j \in Slots : SlotMem(j)'
      BY <1>12, <1>13
    <2> QED BY <2>1 DEF Slots
  <1> QED BY <1>2, <1>14 DEF MemInv, StoreFits

(* Where a chunk's forward, checkpoint and snapshot bring the memory.      *)
ChunkDone(d, i) == At(d, PromptAt(i), ChunkEnd) /\ RingOf(d.ring, PromptAt(i), ChunkEnd)

(* A chunk brings its slot's memory there, and stores only an image of the *)
(* prefix it has ingested.                                                 *)
LEMMA ChunkMemory ==
    ASSUME BatcherInv, AnswerInv, PinInv, MemInv, job.active
    PROVE  /\ ChunkDone(ChunkDevice[job.slot], job.slot)
           /\ \A j \in Slots \ {job.slot} : ChunkDevice[j] = device[j]
           /\ Accounts(ChunkStore) /\ StoreFits(ChunkStore)
  <1>1. PICK i : i = job.slot
    OBVIOUS
  <1>2. PICK r : r = slots[i].req
    OBVIOUS
  <1>3. PICK prompt, n, c, m, d : /\ prompt = req[r].prompt /\ n = job.p /\ c = ChunkLen
                                  /\ m = ChunkEnd /\ d = device[i]
    OBVIOUS
  <1>4. /\ i \in Occupied /\ Working(i) /\ PrefillChunk > 0
        /\ n \in Nat /\ c \in Nat /\ m \in Nat /\ m = n + c /\ m <= PromptLen(i)
    BY <1>1, <1>3, ChunkNumbers
  <1>5. prompt = PromptAt(i) /\ PromptLen(i) = Len(prompt)
    BY <1>2, <1>3 DEF PromptAt, PromptLen, Owner
  <1>6. prompt \in Seq(Nat) /\ Len(prompt) \in Nat /\ Len(prompt) < MaxContext /\ n < Len(prompt)
    <2>1. HandleOK(req[r]) /\ req[r].st = "open" /\ Len(prompt) \in Nat
      BY <1>2, <1>3, <1>4, SlotNumbers
    <2>2. req[r].prompt \in Seq(Nat) /\ Len(req[r].prompt) < MaxContext
      BY <2>1, Zenon DEF HandleOK
    <2>3. PICK pos, fed, start, L, k, ran, told, l, w :
             /\ pos = slots[i].pos /\ fed = slots[i].prefillPos /\ start = slots[i].prefillStart
             /\ L = Len(req[r].prompt) /\ k = Len(req[r].tokens)
             /\ ran = req[r].ran /\ told = req[r].prefillSet
             /\ l = Listed(i) /\ w = Working(i)
      OBVIOUS
    <2>4. StandsAt(pos, fed, start, L, k, ran, told, l, w, job.p)
      BY <1>2, <1>4, <2>3, SlotNumbers
    <2>5. job.p < L
      BY <1>4, <2>3, <2>4, Zenon DEF StandsAt
    <2> QED BY <1>3, <2>1, <2>2, <2>3, <2>5
  <1>7. c > 0
    <2>1. Len(prompt) - n \in Nat /\ Len(prompt) - n > 0
      BY <1>4, <1>6
    <2>2. c = Min({PrefillChunk, Len(prompt) - n})
      BY <1>1, <1>3, <1>5 DEF ChunkLen
    <2>3. c = IF PrefillChunk <= Len(prompt) - n THEN PrefillChunk ELSE Len(prompt) - n
      BY <2>1, <2>2, Sizes, MinTwo
    <2> QED BY <1>4, <2>1, <2>3
  <1>8. At(d, prompt, n) /\ RingOf(d.ring, prompt, n)
    BY <1>2, <1>3, <1>4, SlotParts
  <1>9. i \in Slots /\ RingOK(d) /\ device = [j \in Slots |-> device[j]]
    BY <1>3, <1>4 DEF Occupied, AnswerInv, Positions
  <1>10. PICK toks : toks = SubSeq(prompt, n + 1, n + c)
    OBVIOUS
  <1>11. Continues(toks, prompt, n, c) /\ n + c <= Len(prompt) /\ n + c <= MaxContext
    BY <1>4, <1>5, <1>6, <1>10, PartContinues, Sizes
  <1>12. PICK e : e = PrefillForward(d, toks, n)
    OBVIOUS
  <1>13. At(e, prompt, m) /\ e.ring = d.ring
    <2>1. DeviceRec(d)
      BY <1>9 DEF RingOK, DeviceRec
    <2> QED BY <1>4, <1>6, <1>8, <1>11, <1>12, <2>1, ForwardAdvances
  <1>14. RingOK(e)
    BY <1>9, <1>12, ForwardKeepsRing
  <1>15. PICK d2 : d2 = IF WarmSlot THEN CaptureCkpt(e, m) ELSE e
    OBVIOUS
  <1>16. At(d2, prompt, m) /\ RingOf(d2.ring, prompt, m)
    <2>1. n < m /\ m > 0
      BY <1>4, <1>7
    <2>2. CASE WarmSlot
      <3>1. ~Slab
        BY <2>2, BatcherAssumption
      <3>2. Spells(e.ssm, prompt, m)
        BY <1>13, <2>1, <3>1 DEF At, StateOf
      <3>3. RingOf(e.ring, prompt, n)
        BY <1>8, <1>13
      <3>4. d2 = CaptureCkpt(e, m)
        BY <1>15, <2>2
      <3>5. /\ RingOf(d2.ring, prompt, m) /\ d2.kv = e.kv /\ d2.ssm = e.ssm /\ d2.len = e.len
        BY <1>4, <1>14, <2>1, <3>2, <3>3, <3>4, CaptureFits
      <3> QED BY <1>13, <3>5 DEF At, StateOf
    <2>3. CASE ~WarmSlot
      <3>1. d2 = e
        BY <1>15, <2>3
      <3>2. Ring(d.ring) /\ n <= m
        BY <1>9, <2>1, <1>4 DEF RingOK, Ring
      <3>3. RingOf(d.ring, prompt, m)
        BY <1>4, <1>8, <3>2, RingGrows
      <3> QED BY <1>13, <3>1, <3>3
    <2> QED BY <2>2, <2>3
  <1>17. ChunkDevice = [device EXCEPT ![i] = d2]
    <2>1. ChunkTokens = toks
      BY <1>1, <1>3, <1>4, <1>5, <1>10 DEF ChunkTokens
    <2> QED BY <1>1, <1>3, <1>12, <1>15, <2>1 DEF ChunkDevice
  <1>18. ChunkDevice[i] = d2 /\ \A j \in Slots \ {i} : ChunkDevice[j] = device[j]
    BY <1>9, <1>17
  <1>19. ChunkDone(ChunkDevice[i], i)
    BY <1>3, <1>5, <1>16, <1>18 DEF ChunkDone
  <1>20. Accounts(ChunkStore) /\ StoreFits(ChunkStore)
    <2>1. Accounts(store) /\ StoreFits(store)
      BY DEF PinInv, Pinned, MemInv
    <2>2. PICK deepest : deepest = (PromptLen(i) \div PrefillChunk) * PrefillChunk
      OBVIOUS
    <2>3. CASE XSlot /\ m = deepest
      <3>1. PICK key, img : key = SubSeq(prompt, 1, m) /\ img = ImageOf(d2, m)
        OBVIOUS
      <3>2. ChunkStore = Snapshot(store, key, img)
        BY <1>1, <1>3, <1>5, <1>18, <2>2, <2>3, <3>1 DEF ChunkStore
      <3>3. ~Slab /\ m > 0 /\ m <= Len(prompt)
        BY <1>4, <1>5, <1>7, <2>3, BatcherAssumption
      <3>4. ImageFits(img, key)
        BY <1>4, <1>6, <1>16, <3>1, <3>3, ImageTaken
      <3>5. Accounts(Snapshot(store, key, img))
        BY <2>1, SnapshotCounts DEF Snapped
      <3> QED BY <2>1, <3>2, <3>4, <3>5, SnapshotFits
    <2>4. CASE ~(XSlot /\ m = deepest)
      <3>1. ChunkStore = store
        BY <1>1, <1>3, <2>2, <2>4 DEF ChunkStore
      <3> QED BY <2>1, <3>1
    <2> QED BY <2>3, <2>4
  <1> QED BY <1>1, <1>18, <1>19, <1>20

(* A chunk that is not the last.                                           *)
LEMMA ChunkMem ==
    ASSUME BatcherInv, AnswerInv, PinInv, MemInv, PrefillChunkStep
    PROVE  MemInv'
  <1>1. /\ job.active /\ slots' = slots /\ device' = ChunkDevice /\ store' = ChunkStore
        /\ req' = ChunkReq /\ job' = [job EXCEPT !.p = ChunkEnd] /\ toPrefill' = toPrefill
    BY DEF PrefillChunkStep
  <1>2. PICK i : i = job.slot
    OBVIOUS
  <1>3. PICK r : r = slots[i].req
    OBVIOUS
  <1>4. i \in Occupied /\ i \in Slots /\ Working(i) /\ ~Listed(i)
    BY <1>1, <1>2, ChunkNumbers DEF Occupied
  <1>5. job'.active /\ job'.slot = i /\ job'.p = ChunkEnd
    BY <1>1, <1>2 DEF BatcherInv, Works
  <1>6. /\ \A j : Listed(j)' <=> Listed(j)
        /\ \A j : Working(j)' <=> j = i
        /\ \A j : Working(j) <=> j = i
    BY <1>1, <1>2, <1>5 DEF Listed, Working
  <1>7. /\ \A q \in Reqs \ {r} : req'[q] = req[q]
        /\ req'[r].prompt = req[r].prompt /\ req'[r].tokens = req[r].tokens
    BY <1>1, <1>2, <1>3, ChunkReqFacts
  <1>8. /\ ChunkDone(ChunkDevice[i], i) /\ StoreFits(ChunkStore)
        /\ \A j \in Slots \ {i} : ChunkDevice[j] = device[j]
    BY <1>1, <1>2, ChunkMemory
  <1>9. ASSUME NEW j \in Slots, j # i PROVE SlotMem(j)'
    <2>1. slots[j].req # None => req'[slots[j].req] = req[slots[j].req]
      <3>1. slots[j].req # None => j \in Occupied /\ slots[j].req \in Reqs
        BY DEF Occupied, BatcherInv, Places
      <3>2. slots[j].req # None => slots[j].req # r
        BY <1>3, <1>4, <1>9, <3>1, OtherOwner
      <3> QED BY <1>7, <3>1, <3>2
    <2>2. SamePlace(j)
      BY <1>6, <1>9 DEF SamePlace
    <2>3. Quiet(j)
      BY <1>1, <1>8, <1>9, <2>1, <2>2 DEF Quiet
    <2> QED BY <2>3, QuietSlot DEF MemInv
  <1>10. SlotMem(i)'
    <2>1. PICK prompt, tokens, pos, fed, rt, start, d2 :
             /\ prompt = req[r].prompt /\ tokens = req[r].tokens /\ pos = slots[i].pos
             /\ fed = slots[i].prefillPos /\ rt = slots[i].residentTokens
             /\ start = slots[i].prefillStart /\ d2 = ChunkDevice[i]
      OBVIOUS
    <2>2. PICK l, w, p : l = Listed(i)' /\ w = Working(i)' /\ p = job'.p
      OBVIOUS
    <2>3. ~l /\ w /\ p = ChunkEnd
      BY <1>4, <1>5, <1>6, <2>2
    <2>4. /\ ~slots[i].resident
          /\ Counters(pos, fed, Len(prompt), Len(tokens), Listed(i) \/ Working(i))
      BY <1>3, <1>4, <2>1, SlotParts
    <2>5. Counters(pos, fed, Len(prompt), Len(tokens), l \/ w)
      BY <1>4, <2>3, <2>4 DEF Counters
    <2>6. w => At(d2, prompt, p) /\ RingOf(d2.ring, prompt, p)
      BY <1>3, <1>8, <2>1, <2>3 DEF ChunkDone, PromptAt, Owner
    <2>7. /\ slots'[i].req # None /\ ~slots'[i].resident /\ slots'[i].pos = pos
          /\ slots'[i].prefillPos = fed /\ slots'[i].prefillStart = start
          /\ slots'[i].residentTokens = rt /\ req'[slots'[i].req].prompt = prompt
          /\ req'[slots'[i].req].tokens = tokens /\ device'[i] = d2
      BY <1>1, <1>3, <1>4, <1>7, <2>1, <2>4 DEF Occupied
    <2>8. /\ l => Resumable(d2, prompt, start)
          /\ ~l /\ ~w => Serves(d2, Base(pos, fed, Len(tokens)), rt, prompt, tokens)
      BY <2>3
    <2> QED BY <1>4, <2>2, <2>5, <2>6, <2>7, <2>8, SlotFilled
  <1>11. (\A j \in Slots : SlotMem(j))'
    <2>1. \A j \in Slots : SlotMem(j)'
      BY <1>9, <1>10
    <2> QED BY <2>1 DEF Slots
  <1> QED BY <1>1, <1>8, <1>11 DEF MemInv, StoreFits

(* A chunk that throws.                                                    *)
LEMMA ChunkFailMem ==
    ASSUME BatcherInv, AnswerInv, PinInv, MemInv, PrefillFail
    PROVE  MemInv'
  <1>1. /\ job.active /\ FailSlots({job.slot}, ChunkDevice) /\ job' = NoJob
        /\ toPrefill' = toPrefill
    BY DEF PrefillFail
  <1>2. PICK i : i = job.slot
    OBVIOUS
  <1>3. PICK F, after : F = {i} /\ after = ChunkDevice
    OBVIOUS
  <1>4. i \in Occupied /\ F \in SUBSET Occupied /\ FailSlots(F, after)
    BY <1>1, <1>2, <1>3, ChunkNumbers
  <1>5. \A j \in Slots \ {i} : after[j] = device[j]
    BY <1>1, <1>2, <1>3, ChunkMemory
  <1>6. \A j \in Occupied \ F : SamePlace(j) /\ after[j] = device[j]
    <2>1. \A j \in Occupied \ {i} : SamePlace(j)
      BY <1>1, <1>2, LetGo
    <2> QED BY <1>3, <1>5, <2>1 DEF Occupied
  <1>7. \A j \in Slots \ Occupied : slots[j].resident => Spares(after[j], device[j])
    BY <1>4, <1>5 DEF Spares
  <1> QED BY <1>4, <1>6, <1>7, FailMem

(* A slot that retireSlot freed, with the prompt it may keep.              *)
LEMMA RetiredSlot ==
    ASSUME NEW i \in Slots, NEW s, NEW d, NEW gone, RetiredTo(i, s, d, gone), i \in gone,
           WarmSlot /\ s.residentTokens # <<>> => Keeps(d, s.residentTokens)
    PROVE  SlotMem(i)'
  <1>1. i \notin Occupied'
    BY DEF RetiredTo, Occupied
  <1>2. slots'[i].resident => WarmSlot /\ Keeps(device'[i], slots'[i].residentTokens)
    BY DEF RetiredTo
  <1> QED BY <1>1, <1>2 DEF SlotMem

(* Generated tokens are tokens.                                            *)
LEMMA AnswerNats ==
    ASSUME NEW tokens \in Seq(GenTokens)
    PROVE  tokens \in Seq(Nat)
  <1>1. GenTokens \subseteq Nat
    BY BatcherAssumption
  <1>2. PICK n \in Nat : n = Len(tokens)
    OBVIOUS
  <1>3. tokens = [k \in 1 .. n |-> tokens[k]] /\ \A k \in 1 .. n : tokens[k] \in GenTokens
    BY <1>2
  <1>4. \A k \in 1 .. n : tokens[k] \in Nat
    BY <1>1, <1>3
  <1>5. tokens \in [1 .. n -> Nat]
    BY <1>3, <1>4, Zenon
  <1> QED BY <1>5

(* A prompt and what was generated after it.                               *)
LEMMA PromptExtends ==
    ASSUME NEW prompt \in Seq(Nat), NEW tokens \in Seq(GenTokens)
    PROVE  prompt \o tokens \in Seq(Nat) /\ Extends(prompt, prompt \o tokens)
  <1>1. tokens \in Seq(Nat)
    BY AnswerNats
  <1>2. PICK t \in Seq(Nat) : t = tokens
    BY <1>1
  <1>3. PICK u : u = prompt \o t
    OBVIOUS
  <1>4. /\ u \in Seq(Nat) /\ Len(u) = Len(prompt) + Len(t)
        /\ \A k \in 1 .. Len(prompt) : u[k] = prompt[k]
    BY <1>3, ConcatFacts
  <1>5. Len(prompt) \in Nat /\ Len(t) \in Nat
    OBVIOUS
  <1>6. Extends(prompt, u)
    BY <1>4, <1>5 DEF Extends
  <1> QED BY <1>2, <1>3, <1>4, <1>6

(* A slot whose whole prompt was prefilled.                                *)
Filled(d, i) == /\ At(d, PromptAt(i), PromptLen(i))
                /\ RingOf(d.ring, PromptAt(i), PromptLen(i))

(* A commit: the slots that go on start to decode, the others may keep     *)
(* their prompt.                                                           *)
LEMMA CommitMem ==
    ASSUME BatcherInv, AnswerInv, MemInv, PrefillChunk > 0,
           NEW B \in SUBSET Occupied, NEW tk, NEW dv, NEW st, NEW rq,
           Commit(B, tk, dv, st, rq), \A i \in B : tk[i] \in GenTokens,
           \A r \in Reqs : rq[r] = [f \in ReqFields |-> rq[r][f]],
           \A r \in Reqs : (\A i \in B : slots[i].req # r) => rq[r] = req[r],
           \A i \in B : Ready(slots[i].req, rq),
           Accounts(st), StoreFits(st),
           \A i \in B : ~Listed(i)' /\ ~Working(i)',
           \A i \in Occupied \ B : SamePlace(i),
           \A i \in Slots \ B : dv[i] = device[i],
           \A i \in B : Filled(dv[i], i)
    PROVE  MemInv'
  <1>1. Shape /\ Places
    BY DEF BatcherInv
  <1>2. /\ \A r \in Reqs : (\A i \in B : slots[i].req # r) => req'[r] = rq[r]
        /\ \A i \in Slots \ B : slots'[i] = slots[i]
        /\ \A i \in B : CommitTold(i, slots[i].req, tk[i], rq)
    BY <1>1, CommitTells
  <1> DEFINE cold == {i \in B : Cancelled(i)}
             warm == {i \in B \ cold : Stops(tk[i], 1, PromptLen(i))}
  <1>3. PICK sl : sl = [i \in Slots |-> IF i \in B THEN Ingested(i) ELSE slots[i]]
    OBVIOUS
  <1>4. RetireSlots(sl, dv, st, cold, warm)
    BY <1>3 DEF Commit
  <1>5. PICK gone : gone = cold \cup warm
    OBVIOUS
  <1>6. gone \subseteq B
    BY <1>5
  <1> HIDE DEF cold, warm
  <1>7. ASSUME NEW i \in Slots
        PROVE  /\ sl[i] = [f \in SlotFields |-> sl[i][f]]
               /\ i \in B => /\ sl[i].resident = slots[i].resident
                             /\ sl[i].residentTokens = IF WarmSlot THEN PromptAt(i)
                                                       ELSE slots[i].residentTokens
    <2>1. PICK s, L, key : s = slots[i] /\ L = PromptLen(i) /\ key = PromptAt(i)
      OBVIOUS
    <2>2. s = [f \in SlotFields |-> s[f]]
      BY <1>1, <2>1 DEF Shape
    <2>3. CASE i \in B
      <3>1. sl[i] = [s EXCEPT !.pos = L, !.prefillPos = L,
                              !.residentTokens = IF WarmSlot THEN key ELSE @]
        BY <1>3, <2>1, <2>3 DEF Ingested
      <3>2. /\ sl[i] = [f \in SlotFields |-> sl[i][f]] /\ sl[i].resident = s.resident
            /\ sl[i].residentTokens = IF WarmSlot THEN key ELSE s.residentTokens
        BY <2>2, <3>1 DEF SlotFields
      <3> QED BY <2>1, <3>2
    <2>4. CASE i \notin B
      <3>1. sl[i] = s
        BY <1>3, <2>1, <2>4
      <3> QED BY <2>2, <2>4, <3>1
    <2> QED BY <2>3, <2>4
  <1>8. \A i \in Slots : sl[i] = [f \in SlotFields |-> sl[i][f]]
    BY <1>7
  <1>9. (\A i \in Slots : RetiredTo(i, sl[i], dv[i], gone)) /\ StoreFits(store')
    <2>1. /\ \A i \in Slots : RetiredTo(i, sl[i], dv[i], cold \cup warm)
          /\ StoreFits(store')
      BY <1>4, <1>8, RetireHolds
    <2> QED BY <1>5, <2>1
  <1>10. ASSUME NEW i \in Slots, i \notin B PROVE SlotMem(i)'
    <2>1. slots'[i] = slots[i] /\ device'[i] = device[i]
      BY <1>2, <1>6, <1>9, <1>10 DEF RetiredTo
    <2>2. CASE i \in Occupied
      <3>1. slots[i].req \in Reqs
        BY <1>1, <2>2 DEF Places, Occupied
      <3>2. \A j \in B : slots[j].req # slots[i].req
        BY <1>10, <2>2, OtherOwner
      <3>3. req'[slots[i].req] = req[slots[i].req]
        BY <1>2, <3>1, <3>2
      <3>4. Quiet(i)
        BY <1>10, <2>1, <2>2, <3>3 DEF Quiet
      <3> QED BY <3>4, QuietSlot DEF MemInv
    <2>3. CASE i \notin Occupied
      BY <2>1, <2>3, IdleSlot DEF MemInv, Spares
    <2> QED BY <2>2, <2>3
  <1>11. ASSUME NEW i \in B PROVE SlotMem(i)'
    <2>1. i \in Occupied /\ i \in Slots
      BY DEF Occupied
    <2>2. PICK r, d, s : r = slots[i].req /\ d = dv[i] /\ s = sl[i]
      OBVIOUS
    <2>3. PICK prompt, L : prompt = req[r].prompt /\ L = Len(prompt)
      OBVIOUS
    <2>4. /\ PromptAt(i) = prompt /\ PromptLen(i) = L
          /\ prompt \in Seq(Nat) /\ L \in Nat /\ L > 0 /\ L < MaxContext
      <3>1. HandleOK(req[r]) /\ req[r].st = "open" /\ L \in Nat /\ L > 0
        BY <2>1, <2>2, <2>3, SlotNumbers
      <3>2. req[r].prompt \in Seq(Nat) /\ Len(req[r].prompt) < MaxContext
        BY <3>1, Zenon DEF HandleOK
      <3> QED BY <2>2, <2>3, <3>1, <3>2 DEF PromptAt, PromptLen, Owner
    <2>5. At(d, prompt, L) /\ RingOf(d.ring, prompt, L)
      BY <2>2, <2>4 DEF Filled
    <2>6. RetiredTo(i, s, d, gone)
      BY <1>9, <2>1, <2>2
    <2>7. /\ s.resident = slots[i].resident
          /\ s.residentTokens = IF WarmSlot THEN prompt ELSE slots[i].residentTokens
      BY <1>7, <2>1, <2>2, <2>4
    <2>8. CASE i \in gone
      <3>1. WarmSlot => Keeps(d, s.residentTokens)
        BY <2>3, <2>4, <2>5, <2>7 DEF Keeps, At
      <3> QED BY <2>1, <2>6, <2>8, <3>1, RetiredSlot
    <2>9. CASE i \notin gone
      <3>1. slots'[i] = s /\ device'[i] = d
        BY <2>6, <2>9 DEF RetiredTo
      <3>2. PICK t \in GenTokens : t = tk[i]
        OBVIOUS
      <3>3. PICK old : old = req[r].tokens
        OBVIOUS
      <3>4. old \in Seq(GenTokens) /\ Len(old) = 0
        <4>1. HandleOK(req[r])
          BY <2>1, <2>2, SlotNumbers
        <4> QED BY <2>2, <3>3, <4>1, HandleTypes DEF Ready
      <3>5. PICK tokens : tokens = Append(old, t)
        OBVIOUS
      <3>6. tokens \in Seq(GenTokens) /\ Len(tokens) = 1
        <4>1. tokens \in Seq(GenTokens) /\ Len(tokens) = Len(old) + 1
          BY <3>4, <3>5, AppendFacts
        <4> QED BY <3>4, <4>1
      <3>7. slots[i].req # None
        BY <2>1 DEF Occupied
      <3>8. s.req = r
        BY <1>3, <1>1, <2>1, <2>2 DEF Ingested, Shape, SlotFields
      <3>9. CommitTold(i, r, tk[i], rq)
        BY <1>2, <2>2
      <3>10. ~CommitGone(i, tk[i])
        <4>1. slots'[i].req # None
          BY <2>2, <3>1, <3>7, <3>8
        <4> QED BY <3>9, <4>1 DEF CommitTold
      <3>11. ~Cancelled(i)
        BY <3>10 DEF CommitGone
      <3>12. /\ req'[r].tokens = Append(rq[r].tokens, tk[i]) /\ req'[r].prompt = rq[r].prompt
             /\ slots'[i].pos = PromptLen(i) /\ slots'[i].prefillPos = PromptLen(i)
        BY <3>9, <3>10, <3>11, Zenon DEF CommitTold
      <3>13. req'[r].tokens = tokens /\ req'[r].prompt = prompt
        <4>1. rq[r].tokens = old /\ rq[r].prompt = prompt
          BY <2>2, <2>3, <3>3 DEF Ready
        <4> QED BY <3>2, <3>5, <3>12, <4>1
      <3>14. ~slots[i].resident
        BY <2>1, SlotParts
      <3>15. PICK l, w, p : l = Listed(i)' /\ w = Working(i)' /\ p = job'.p
        OBVIOUS
      <3>16. ~l /\ ~w
        BY <3>15
      <3>17. Counters(L, L, Len(prompt), Len(tokens), l \/ w)
        BY <2>3, <2>4, <3>6, <3>16 DEF Counters
      <3>18. Serves(d, Base(L, L, Len(tokens)), s.residentTokens, prompt, tokens)
        <4>1. Base(L, L, Len(tokens)) = L
          BY DEF Base
        <4>2. At(d, prompt \o tokens, L)
          <5>1. Extends(prompt, prompt \o tokens)
            BY <2>4, <3>6, PromptExtends
          <5> QED BY <2>3, <2>4, <2>5, <5>1, AtExtends
        <4>3. WarmSlot => s.residentTokens \in {<<>>, prompt}
          BY <2>7
        <4> QED BY <2>3, <2>4, <2>5, <4>1, <4>2, <4>3 DEF Serves
      <3>19. PICK start, rt : start = s.prefillStart /\ rt = s.residentTokens
        OBVIOUS
      <3>20. /\ slots'[i].req # None /\ ~slots'[i].resident /\ slots'[i].pos = L
             /\ slots'[i].prefillPos = L /\ slots'[i].prefillStart = start
             /\ slots'[i].residentTokens = rt /\ req'[slots'[i].req].prompt = prompt
             /\ req'[slots'[i].req].tokens = tokens /\ device'[i] = d
        BY <2>2, <2>4, <2>7, <3>1, <3>7, <3>8, <3>12, <3>13, <3>14, <3>19
      <3>21. /\ l => Resumable(d, prompt, start)
             /\ w => At(d, prompt, p) /\ RingOf(d.ring, prompt, p)
             /\ ~l /\ ~w => Serves(d, Base(L, L, Len(tokens)), rt, prompt, tokens)
        BY <3>16, <3>18, <3>19
      <3> QED BY <2>1, <3>15, <3>17, <3>20, <3>21, SlotFilled
    <2> QED BY <2>8, <2>9
  <1>12. (\A j \in Slots : SlotMem(j))'
    <2>1. \A j \in Slots : SlotMem(j)'
      BY <1>10, <1>11
    <2> QED BY <2>1 DEF Slots
  <1> QED BY <1>9, <1>12 DEF MemInv, StoreFits

(* The last chunk fills its slot with the whole prompt.                    *)
LEMMA LastChunkMem ==
    ASSUME BatcherInv, AnswerInv, PinInv, MemInv, NEW tok \in GenTokens, PrefillLastChunk(tok)
    PROVE  MemInv'
  <1>1. /\ job.active /\ ChunkEnd = PromptLen(job.slot) /\ job' = NoJob
        /\ toPrefill' = toPrefill
    BY DEF PrefillLastChunk
  <1>2. PICK i : i = job.slot
    OBVIOUS
  <1>3. PICK B, tk, dv, st, rq :
           /\ B = {i} /\ tk = [j \in {i} |-> tok] /\ dv = ChunkDevice
           /\ st = DrainFrees(ChunkStore) /\ rq = ChunkReq
    OBVIOUS
  <1>4. Commit(B, tk, dv, st, rq)
    BY <1>2, <1>3 DEF PrefillLastChunk
  <1>5. /\ i \in Occupied /\ B \in SUBSET Occupied /\ PrefillChunk > 0
        /\ \A j \in B : tk[j] \in GenTokens
    BY <1>1, <1>2, <1>3, ChunkNumbers
  <1>6. ReadyFor(B, rq)
    BY <1>1, <1>2, <1>3, LastReadies
  <1>7. /\ \A j \in B : ~Listed(j)' /\ ~Working(j)'
        /\ \A j \in Occupied \ B : SamePlace(j)
    <2>1. ~Listed(i)' /\ ~Working(i)' /\ \A j \in Occupied \ {i} : SamePlace(j)
      BY <1>1, <1>2, LetGo
    <2> QED BY <1>3, <2>1
  <1>8. /\ ChunkDone(dv[i], i) /\ Accounts(ChunkStore) /\ StoreFits(ChunkStore)
        /\ \A j \in Slots \ {i} : dv[j] = device[j]
    BY <1>1, <1>2, <1>3, ChunkMemory
  <1>9. Accounts(st) /\ StoreFits(st)
    <2>1. SameCounts(ChunkStore, st)
      BY <1>3, <1>8, DrainCounts
    <2> QED BY <1>8, <2>1, SameFits DEF SameCounts
  <1>10. /\ \A j \in B : Filled(dv[j], j)
         /\ \A j \in Slots \ B : dv[j] = device[j]
    BY <1>1, <1>2, <1>3, <1>8 DEF ChunkDone, Filled
  <1> QED BY <1>4, <1>5, <1>6, <1>7, <1>9, <1>10, CommitMem DEF ReadyFor

(* The batched prefill writes only to its slots, each the whole prompt.    *)
LEMMA BatchMemory ==
    ASSUME BatcherInv, AnswerInv, MemInv, PrefillBatch \/ PrefillBatchFail
    PROVE  /\ \A i \in BatchSlots : Filled(BatchDevice[i], i)
           /\ \A i \in Slots \ BatchSlots : BatchDevice[i] = device[i]
           /\ PrefillChunk > 0
  <1>1. \A i \in Slots \ BatchSlots : BatchDevice[i] = device[i]
    BY DEF BatchDevice
  <1>2. ASSUME NEW i \in BatchSlots PROVE Filled(BatchDevice[i], i)
    <2>1. i \in Occupied /\ i \in Slots /\ Listed(i)
      BY BatchPlaces DEF Occupied
    <2>2. PICK r, d : r = slots[i].req /\ d = device[i]
      OBVIOUS
    <2>3. PICK prompt, L, start : /\ prompt = req[r].prompt /\ L = Len(req[r].prompt)
                                  /\ start = slots[i].prefillStart
      OBVIOUS
    <2>4. /\ PromptAt(i) = prompt /\ PromptLen(i) = L /\ L = Len(prompt)
          /\ prompt \in Seq(Nat) /\ L \in Nat /\ L < MaxContext
      <3>1. HandleOK(req[r]) /\ req[r].st = "open" /\ L \in Nat
        BY <2>1, <2>2, <2>3, SlotNumbers
      <3>2. req[r].prompt \in Seq(Nat) /\ Len(req[r].prompt) < MaxContext
        BY <3>1, Zenon DEF HandleOK
      <3> QED BY <2>2, <2>3, <3>1, <3>2 DEF PromptAt, PromptLen, Owner
    <2>5. start \in Nat /\ start < L
      <3>1. PICK pos, fed, k, ran, told, l, w :
               /\ pos = slots[i].pos /\ fed = slots[i].prefillPos
               /\ k = Len(req[r].tokens) /\ ran = req[r].ran /\ told = req[r].prefillSet
               /\ l = Listed(i) /\ w = Working(i)
        OBVIOUS
      <3>2. StandsAt(pos, fed, start, L, k, ran, told, l, w, job.p)
        BY <2>1, <2>2, <2>3, <3>1, SlotNumbers
      <3> QED BY <3>2, Zenon DEF StandsAt
    <2>6. RingOf(d.ring, prompt, start)
      BY <2>1, <2>2, <2>3, SlotParts DEF Resumable
    <2>7. RingOK(d) /\ DeviceRec(d) /\ Ring(d.ring)
      BY <2>1, <2>2 DEF AnswerInv, Positions, RingOK, DeviceRec, Ring
    <2>8. RingOf(d.ring, prompt, L)
      BY <2>4, <2>5, <2>6, <2>7, RingGrows
    <2>9. PICK e : e = PrefillForward(d, prompt, 0)
      OBVIOUS
    <2>10. At(e, prompt, L) /\ e.ring = d.ring
      <3>1. Continues(prompt, prompt, 0, L)
        BY <2>4 DEF Continues
      <3>2. At(d, prompt, 0)
        BY DEF At, RowsOf, StateOf
      <3>3. 0 + L <= Len(prompt) /\ 0 + L <= MaxContext /\ 0 + L = L
        BY <2>4, Sizes
      <3>4. /\ At(PrefillForward(d, prompt, 0), prompt, 0 + L)
            /\ PrefillForward(d, prompt, 0).ring = d.ring
        BY <2>4, <2>7, <3>1, <3>2, <3>3, ForwardAdvances
      <3> QED BY <2>9, <3>3, <3>4
    <2>11. BatchDevice[i] = e
      BY <2>1, <2>2, <2>4, <2>9 DEF BatchDevice
    <2> QED BY <2>4, <2>8, <2>10, <2>11 DEF Filled
  <1>3. PrefillChunk > 0
    <2>1. Batched
      BY DEF PrefillBatch, PrefillBatchFail, BatchReady
    <2> QED BY <2>1, BatcherAssumption DEF Batched
  <1> QED BY <1>1, <1>2, <1>3

(* So a batched prefill keeps the invariant, whether or not it throws.     *)
LEMMA BatchMem ==
    ASSUME BatcherInv, AnswerInv, PinInv, MemInv, PrefillBatch \/ PrefillBatchFail
    PROVE  MemInv'
  <1>1. PICK B, dv, st : B = BatchSlots /\ dv = BatchDevice /\ st = store
    OBVIOUS
  <1>2. /\ B \in SUBSET Occupied
        /\ \A i \in B : ~Listed(i)' /\ ~Working(i)'
        /\ \A i \in Occupied \ B : SamePlace(i)
    BY <1>1, BatchPlaces
  <1>3. /\ \A i \in B : Filled(dv[i], i)
        /\ \A i \in Slots \ B : dv[i] = device[i]
        /\ PrefillChunk > 0
    BY <1>1, BatchMemory
  <1>4. CASE PrefillBatchFail
    <2>1. FailSlots(B, dv)
      BY <1>1, <1>4 DEF PrefillBatchFail
    <2>2. \A i \in Occupied \ B : SamePlace(i) /\ dv[i] = device[i]
      BY <1>2, <1>3 DEF Occupied
    <2>3. \A i \in Slots \ Occupied : slots[i].resident => Spares(dv[i], device[i])
      BY <1>2, <1>3 DEF Spares
    <2> QED BY <1>2, <2>1, <2>2, <2>3, FailMem
  <1>5. CASE PrefillBatch
    <2>1. PICK tk, rq : /\ Commit(B, tk, dv, st, rq) /\ ReadyFor(B, rq)
                        /\ \A i \in B : tk[i] \in GenTokens
      BY <1>1, <1>5, BatchReadies
    <2>2. Accounts(st) /\ StoreFits(st)
      BY <1>1 DEF PinInv, Pinned, MemInv
    <2> QED BY <1>2, <1>3, <2>1, <2>2, CommitMem DEF ReadyFor
  <1> QED BY <1>4, <1>5

-----------------------------------------------------------------------------
(* The step of an iteration                                                *)

(* A slot that is kept warm may be a hole of the batch: the dummy row      *)
(* spares its checkpoints.  With one slot there is no hole.                *)
LEMMA KeptOut ==
    ASSUME AnswerInv, MemInv, NEW i \in Slots, i \notin Occupied, slots[i].resident
    PROVE  Spares(MixedForward(i), device[i]) /\ Spares(DecodeForward(i), device[i])
  <1>1. WarmSlot /\ ~Slab
    BY BatcherAssumption DEF MemInv, SlotMem
  <1>2. i \notin Prefilling
    BY DEF Prefilling
  <1>3. CASE i \notin ActivePrefix
    BY <1>2, <1>3 DEF MixedForward, DecodeForward, Spares
  <1>4. CASE i \in ActivePrefix
    <2>1. ~RowsKept
      BY <1>1, <1>4, NoHole DEF RowsKept
    <2>2. PICK d, toks : d = device[i] /\ toks = <<Dummy>>
      OBVIOUS
    <2>3. /\ MixedForward(i) = PagedForward(d, toks, 0)
          /\ DecodeForward(i) = PagedForward(d, toks, 0)
      BY <1>1, <1>2, <1>4, <2>2 DEF MixedForward, DecodeForward, PrefillForward, StepForward
    <2>4. DeviceRec(d)
      BY <2>2 DEF AnswerInv, Positions, RingOK, DeviceRec
    <2>5. PagedForward(d, toks, 0).ring = d.ring
      BY <2>4, PagedFields
    <2> QED BY <2>1, <2>2, <2>3, <2>5 DEF Spares
  <1> QED BY <1>3, <1>4

(* What a decode step leaves of a slot: its own forward, and rows written  *)
(* over it only where slabs can be overrun.                                *)
LEMMA DecodeLeaves ==
    ASSUME AnswerInv, NEW dv \in DecodeDevices, NEW i \in Slots
    PROVE  /\ ~Slab => dv[i] = DecodeForward(i)
           /\ dv[i].ring = DecodeForward(i).ring
           /\ dv[i].len = DecodeForward(i).len
  <1>1. CASE dv = [j \in Slots |-> DecodeForward(j)]
    BY <1>1
  <1>2. CASE dv # [j \in Slots |-> DecodeForward(j)]
    <2>1. PICK k \in Overrunning, hit \in SUBSET (Slots \X Rows) :
             dv = [j \in Slots |-> Overwritten(DecodeForward(j),
                                               {n \in Rows : <<j, n>> \in hit},
                                               StrayToken(k))]
      BY <1>2 DEF DecodeDevices
    <2>2. Slab
      BY DEF Overrunning, Full
    <2>3. PICK d, rows, t : d = DecodeForward(i) /\ dv[i] = Overwritten(d, rows, t)
      BY <2>1
    <2>4. DeviceRec(d)
      <3>1. RingOK(device[i])
        BY DEF AnswerInv, Positions
      <3>2. \A u, p : RingOK(StepForward(device[i], u, p))
        BY <3>1, ForwardKeepsRing
      <3>3. RingOK(d)
        BY <2>3, <3>1, <3>2 DEF DecodeForward
      <3> QED BY <3>3 DEF RingOK, DeviceRec
    <2>5. PICK e : e = Overwritten(d, rows, t)
      OBVIOUS
    <2>6. e.ring = d.ring /\ e.len = d.len
      BY <2>4, <2>5 DEF DeviceRec, DeviceFields, Overwritten
    <2> QED BY <2>2, <2>3, <2>5, <2>6
  <1> QED BY <1>1, <1>2

(* A slot that is kept warm, after a decode step.                          *)
LEMMA KeptOutOfDecode ==
    ASSUME AnswerInv, MemInv, NEW dv \in DecodeDevices, NEW i \in Slots, i \notin Occupied,
           slots[i].resident
    PROVE  Spares(dv[i], device[i])
  <1>1. ~Slab
    BY BatcherAssumption DEF MemInv, SlotMem
  <1>2. dv[i] = DecodeForward(i)
    BY <1>1, DecodeLeaves
  <1> QED BY <1>2, KeptOut

(* A step whose forward throws.                                            *)
LEMMA StepFailMem ==
    ASSUME BatcherInv, AnswerInv, MemInv, MixedStepFail \/ DecodeFail
    PROVE  MemInv'
  <1>1. PICK F, mixed : F = Occupied /\ mixed = [i \in Slots |-> MixedForward(i)]
    OBVIOUS
  <1>2. PICK after : FailSlots(F, after) /\ (after = mixed \/ after \in DecodeDevices)
    BY <1>1 DEF MixedStepFail, DecodeFail
  <1>3. \A i \in Slots \ Occupied : slots[i].resident => Spares(after[i], device[i])
    BY <1>1, <1>2, KeptOut, KeptOutOfDecode
  <1>4. F \in SUBSET Occupied /\ Occupied \ F = {}
    BY <1>1
  <1> QED BY <1>2, <1>3, <1>4, FailMem

(* The text of a slot, and the text with one more token.                   *)
LEMMA TextGrows ==
    ASSUME NEW prompt \in Seq(Nat), NEW tokens \in Seq(GenTokens), NEW t \in GenTokens
    PROVE  Extends(prompt \o tokens, prompt \o Append(tokens, t))
  <1>1. PICK a, b, more : a = prompt \o tokens /\ more = Append(tokens, t) /\ b = prompt \o more
    OBVIOUS
  <1>2. PICK L \in Nat, n \in Nat : L = Len(prompt) /\ n = Len(tokens)
    OBVIOUS
  <1>3. /\ more \in Seq(GenTokens) /\ Len(more) = n + 1
        /\ \A k \in 1 .. n : more[k] = tokens[k]
    BY <1>1, <1>2, AppendFacts
  <1>4. tokens \in Seq(Nat) /\ more \in Seq(Nat)
    BY <1>3, AnswerNats
  <1>5. /\ a \in Seq(Nat) /\ Len(a) = L + n
        /\ \A k \in 1 .. L : a[k] = prompt[k]
        /\ \A k \in 1 .. n : a[L + k] = tokens[k]
    BY <1>1, <1>2, <1>4, ConcatFacts
  <1>6. /\ b \in Seq(Nat) /\ Len(b) = L + (n + 1)
        /\ \A k \in 1 .. L : b[k] = prompt[k]
        /\ \A k \in 1 .. n : b[L + k] = more[k]
    <2>1. /\ b \in Seq(Nat) /\ Len(b) = Len(prompt) + Len(more)
          /\ \A k \in 1 .. Len(prompt) : b[k] = prompt[k]
          /\ \A k \in 1 .. Len(more) : b[Len(prompt) + k] = more[k]
      BY <1>1, <1>4, ConcatFacts, Zenon
    <2> QED BY <1>2, <1>3, <2>1
  <1>7. ASSUME NEW k \in 1 .. L + n PROVE b[k] = a[k]
    <2>1. CASE k <= L
      BY <1>5, <1>6, <2>1
    <2>2. CASE k > L
      <3>1. k - L \in 1 .. n /\ L + (k - L) = k
        BY <2>2
      <3> QED BY <1>3, <1>5, <1>6, <3>1, ZenonT(40)
    <2> QED BY <2>1, <2>2
  <1>8. Extends(a, b)
    BY <1>5, <1>6, <1>7 DEF Extends
  <1> QED BY <1>1, <1>8

(* What a step serves: a slot that the eager prefill is done with.         *)
LEMMA StepServes ==
    ASSUME BatcherInv, AnswerInv, MemInv, pc \in {"step", "push"}, StepFrame, NEW i \in Occupied,
           NEW r, r = slots[i].req
    PROVE  /\ ~slots[i].resident
           /\ Counters(slots[i].pos, slots[i].prefillPos, Len(req[r].prompt), Len(req[r].tokens),
                       FALSE)
           /\ Serves(device[i], Base(slots[i].pos, slots[i].prefillPos, Len(req[r].tokens)),
                     slots[i].residentTokens, req[r].prompt, req[r].tokens)
           /\ req[r].prompt \in Seq(Nat) /\ req[r].tokens \in Seq(GenTokens)
           /\ 0 < Len(req[r].prompt) /\ Len(req[r].prompt) < MaxContext
           /\ RingOK(device[i]) /\ DeviceRec(device[i])
  <1>1. ~Listed(i) /\ ~Working(i)
    BY StepAlone
  <1>2. Counters(slots[i].pos, slots[i].prefillPos, Len(req[r].prompt), Len(req[r].tokens), FALSE)
    <2>1. Counters(slots[i].pos, slots[i].prefillPos, Len(req[r].prompt), Len(req[r].tokens),
                   Listed(i) \/ Working(i))
      BY SlotParts
    <2> QED BY <1>1, <2>1 DEF Counters
  <1>3. HandleOK(req[r]) /\ req[r].st = "open"
    BY SlotNumbers
  <1>4. /\ req[r].prompt \in Seq(Nat) /\ req[r].tokens \in Seq(GenTokens)
        /\ 0 < Len(req[r].prompt) /\ Len(req[r].prompt) < MaxContext
    BY <1>3, Zenon DEF HandleOK
  <1>5. RingOK(device[i]) /\ DeviceRec(device[i])
    BY DEF Occupied, AnswerInv, Positions, RingOK, DeviceRec
  <1> QED BY <1>1, <1>2, <1>4, <1>5, SlotParts

(* A slot that goes on after a step.                                       *)
LEMMA SlotGoesOn ==
    ASSUME NEW i \in Slots, slots'[i].req # None, ~slots'[i].resident,
           ~Listed(i)', ~Working(i)',
           NEW d, NEW pos, NEW fed, NEW rt, NEW prompt, NEW tokens,
           device'[i] = d, slots'[i].pos = pos, slots'[i].prefillPos = fed,
           slots'[i].residentTokens = rt,
           req'[slots'[i].req].prompt = prompt, req'[slots'[i].req].tokens = tokens,
           Counters(pos, fed, Len(prompt), Len(tokens), FALSE),
           Serves(d, Base(pos, fed, Len(tokens)), rt, prompt, tokens)
    PROVE  SlotMem(i)'
  <1>1. PICK start, l, w, p : /\ start = slots'[i].prefillStart /\ l = Listed(i)'
                              /\ w = Working(i)' /\ p = job'.p
    OBVIOUS
  <1>2. ~l /\ ~w
    BY <1>1
  <1>3. Counters(pos, fed, Len(prompt), Len(tokens), l \/ w)
    BY <1>2 DEF Counters
  <1>4. /\ l => Resumable(d, prompt, start)
        /\ w => At(d, prompt, p) /\ RingOf(d.ring, prompt, p)
        /\ ~l /\ ~w => Serves(d, Base(pos, fed, Len(tokens)), rt, prompt, tokens)
    BY <1>2
  <1> QED BY <1>1, <1>3, <1>4, SlotFilled

(* The token a decode step feeds is the next of the slot's text, and its   *)
(* row brings the memory one token further.                                *)
LEMMA DecodeMemory ==
    ASSUME BatcherInv, AnswerInv, MemInv, DecodeTurn, StepFrame, NEW i \in Occupied,
           NEW r, r = slots[i].req, NEW dv \in DecodeDevices
    PROVE  /\ At(dv[i], req[r].prompt \o req[r].tokens, slots[i].pos + 1)
           /\ dv[i].ring = device[i].ring
  <1>1. PICK pos, fed, start, L, n, ran, told :
           /\ pos = slots[i].pos /\ fed = slots[i].prefillPos /\ start = slots[i].prefillStart
           /\ L = Len(req[r].prompt) /\ n = Len(req[r].tokens)
           /\ ran = req[r].ran /\ told = req[r].prefillSet
    OBVIOUS
  <1>2. DecodesAt(pos, fed, start, L, n, ran, told)
    BY <1>1, DecodeStands
  <1>3. /\ L \in Nat /\ n \in Nat /\ pos \in Nat
        /\ \/ n > 0 /\ pos + 1 = L + n
           \/ PrefillChunk = 0 /\ n = 0 /\ pos < L
    BY <1>2, Zenon DEF DecodesAt
  <1>4. PICK d, prompt, tokens, rt : /\ d = device[i] /\ prompt = req[r].prompt
                                     /\ tokens = req[r].tokens /\ rt = slots[i].residentTokens
    OBVIOUS
  <1>5. /\ Serves(d, Base(pos, fed, n), rt, prompt, tokens)
        /\ prompt \in Seq(Nat) /\ tokens \in Seq(GenTokens) /\ L > 0 /\ DeviceRec(d)
    BY <1>1, <1>4, StepServes DEF DecodeTurn
  <1>6. Base(pos, fed, n) = pos
    BY <1>3 DEF Base
  <1>7. PICK text : text = prompt \o tokens
    OBVIOUS
  <1>8. At(d, text, pos) /\ pos < MaxContext
    BY <1>5, <1>6, <1>7 DEF Serves
  <1>9. tokens \in Seq(Nat) /\ L = Len(prompt) /\ n = Len(tokens)
    BY <1>1, <1>4, <1>5, AnswerNats
  <1>10. /\ text \in Seq(Nat) /\ Len(text) = L + n
         /\ \A k \in 1 .. L : text[k] = prompt[k]
         /\ \A k \in 1 .. n : text[L + k] = tokens[k]
    BY <1>5, <1>7, <1>9, ConcatFacts
  <1>11. StepToken(i) = text[pos + 1]
    <2>1. StepToken(i) = IF pos < L THEN prompt[pos + 1] ELSE Last(tokens)
      BY <1>1, <1>4 DEF StepToken, PromptLen, PromptAt, LastTok, Owner
    <2>2. CASE pos < L
      <3>1. pos + 1 \in 1 .. L
        BY <1>3, <2>2
      <3> QED BY <1>10, <2>1, <2>2, <3>1
    <2>3. CASE ~(pos < L)
      <3>1. n > 0 /\ n \in 1 .. n /\ pos + 1 = L + n
        BY <1>3, <2>3
      <3>2. Last(tokens) = tokens[n]
        BY <1>9 DEF Last
      <3> QED BY <1>10, <2>1, <2>3, <3>1, <3>2
    <2> QED BY <2>2, <2>3
  <1>12. DecodeForward(i) = StepForward(d, text[pos + 1], pos)
    BY <1>1, <1>4, <1>11 DEF DecodeForward
  <1>13. pos + 1 <= Len(text) /\ pos + 1 <= MaxContext /\ (Slab => pos > 0)
    <2>1. Slab => PrefillChunk # 0
      BY BatcherAssumption
    <2> QED BY <1>3, <1>5, <1>8, <1>10, <2>1, Sizes
  <1>14. /\ At(StepForward(d, text[pos + 1], pos), text, pos + 1)
         /\ StepForward(d, text[pos + 1], pos).ring = d.ring
    BY <1>3, <1>5, <1>8, <1>10, <1>13, StepAdvances
  <1>15. PICK e, f : e = dv[i] /\ f = DecodeForward(i)
    OBVIOUS
  <1>16. At(f, text, pos + 1) /\ f.ring = d.ring
    BY <1>12, <1>14, <1>15
  <1>17. (~Slab => e = f) /\ e.ring = f.ring /\ e.len = f.len
    <2>1. i \in Slots
      BY DEF Occupied
    <2> QED BY <1>15, <2>1, DecodeLeaves
  <1>18. At(e, text, pos + 1)
    <2>1. CASE ~Slab
      BY <1>16, <1>17, <2>1
    <2>2. CASE Slab
      BY <1>16, <1>17, <2>2 DEF At, RowsOf, RowsKept, StateOf
    <2> QED BY <2>1, <2>2
  <1> QED BY <1>1, <1>4, <1>7, <1>15, <1>16, <1>17, <1>18

(* A decode step.                                                          *)
LEMMA DecodeMem ==
    ASSUME BatcherInv, AnswerInv, PinInv, MemInv, DecodeStep
    PROVE  MemInv'
  <1>1. Shape /\ Places /\ DecodeTurn /\ StepFrame /\ pc = "push"
    BY DEF BatcherInv, DecodeStep, DecodeTurn
  <1>2. PICK tk : \A i \in Occupied : DecodeTold(i, slots[i].req, tk[i])
    BY <1>1, DecodeTells
  <1>3. \A i \in Slots \ Occupied : slots'[i] = slots[i]
    BY <1>1, DecodeTells
  <1>4. PICK sl, dv, st, cold, warm :
           /\ RetireSlots(sl, dv, st, cold, warm) /\ st = store
           /\ cold \cup warm \subseteq Occupied
           /\ dv \in DecodeDevices
           /\ \A i \in Slots : sl[i] \in {[slots[i] EXCEPT !.pos = @ + 1], slots[i]}
    <2> DEFINE cold == {i \in Occupied : FoundCancelled(i)}
               gens == {i \in Occupied \ cold : slots[i].pos + 1 >= PromptLen(i)}
               stops(t) == {i \in gens :
                    Stops(t[i], Len(req[Owner(i)].tokens) + 1, slots[i].pos + 1)}
               sl(t) == [i \in Slots |-> IF i \in Occupied \ (cold \cup stops(t))
                                         THEN [slots[i] EXCEPT !.pos = @ + 1]
                                         ELSE slots[i]]
    <2>1. PICK t \in [gens -> GenTokens], d \in DecodeDevices :
             RetireSlots(sl(t), d, store, cold, stops(t))
      BY Zenon DEF DecodeStep
    <2>2. \A i \in Slots : sl(t)[i] \in {[slots[i] EXCEPT !.pos = @ + 1], slots[i]}
      OBVIOUS
    <2>3. cold \cup stops(t) \subseteq Occupied
      OBVIOUS
    <2> HIDE DEF sl, cold, stops
    <2> QED BY <2>1, <2>2, <2>3
  <1>5. ASSUME NEW i \in Slots
        PROVE  /\ sl[i] = [f \in SlotFields |-> sl[i][f]] /\ sl[i].req = slots[i].req
               /\ sl[i].resident = slots[i].resident
               /\ sl[i].residentTokens = slots[i].residentTokens
    <2>1. PICK s, s0 : s = sl[i] /\ s0 = slots[i]
      OBVIOUS
    <2>2. s0 = [f \in SlotFields |-> s0[f]]
      BY <1>1, <2>1 DEF Shape
    <2>3. s = [s0 EXCEPT !.pos = @ + 1] \/ s = s0
      BY <1>4, <2>1
    <2>4. /\ s = [f \in SlotFields |-> s[f]] /\ s.req = s0.req
          /\ s.resident = s0.resident /\ s.residentTokens = s0.residentTokens
      BY <2>2, <2>3 DEF SlotFields
    <2> QED BY <2>1, <2>4
  <1>6. PICK gone : gone = cold \cup warm
    OBVIOUS
  <1>7. (\A i \in Slots : RetiredTo(i, sl[i], dv[i], gone)) /\ StoreFits(store')
    <2>1. Accounts(st) /\ StoreFits(st)
      BY <1>4 DEF PinInv, Pinned, MemInv
    <2>2. \A i \in Slots : sl[i] = [f \in SlotFields |-> sl[i][f]]
      BY <1>5
    <2>3. /\ \A i \in Slots : RetiredTo(i, sl[i], dv[i], cold \cup warm)
          /\ StoreFits(store')
      BY <1>4, <2>1, <2>2, RetireHolds
    <2> QED BY <1>6, <2>3
  <1>8. ASSUME NEW i \in Slots \ Occupied PROVE SlotMem(i)'
    <2>1. slots'[i] = slots[i] /\ device'[i] = dv[i]
      BY <1>3, <1>4, <1>6, <1>7 DEF RetiredTo
    <2>2. slots[i].resident => Spares(device'[i], device[i])
      BY <1>4, <2>1, KeptOutOfDecode
    <2> QED BY <2>1, <2>2, IdleSlot DEF MemInv
  <1>9. ASSUME NEW i \in Occupied PROVE SlotMem(i)'
    <2>1. PICK r, t, e, s, rt : /\ r = slots[i].req /\ t = tk[i] /\ e = dv[i] /\ s = sl[i]
                                /\ rt = slots[i].residentTokens
      OBVIOUS
    <2>2. PICK pos, fed, start, L, n, ran, told :
             /\ pos = slots[i].pos /\ fed = slots[i].prefillPos /\ start = slots[i].prefillStart
             /\ L = Len(req[r].prompt) /\ n = Len(req[r].tokens)
             /\ ran = req[r].ran /\ told = req[r].prefillSet
      OBVIOUS
    <2>3. DecodesAt(pos, fed, start, L, n, ran, told)
      BY <1>1, <2>1, <2>2, DecodeStands
    <2>4. /\ L \in Nat /\ n \in Nat /\ pos \in Nat /\ fed \in Nat
          /\ \/ n > 0 /\ pos + 1 = L + n
             \/ PrefillChunk = 0 /\ n = 0 /\ pos < L
      BY <2>3, Zenon DEF DecodesAt
    <2>5. PICK d, prompt, tokens : d = device[i] /\ prompt = req[r].prompt /\ tokens = req[r].tokens
      OBVIOUS
    <2>6. /\ ~slots[i].resident /\ Counters(pos, fed, L, n, FALSE)
          /\ Serves(d, Base(pos, fed, n), rt, prompt, tokens)
          /\ prompt \in Seq(Nat) /\ tokens \in Seq(GenTokens) /\ L > 0 /\ L < MaxContext
      BY <1>1, <2>1, <2>2, <2>5, StepServes
    <2>7. i \in Slots /\ slots[i].req # None
      BY DEF Occupied
    <2>8. At(e, prompt \o tokens, pos + 1) /\ e.ring = d.ring
      BY <1>1, <1>4, <2>1, <2>2, <2>5, <2>7, DecodeMemory
    <2>9. /\ RingOf(d.ring, prompt, Len(prompt)) /\ (WarmSlot => rt \in {<<>>, prompt})
      BY <2>6 DEF Serves
    <2>10. RetiredTo(i, s, e, gone)
      BY <1>7, <2>1, <2>7
    <2>11. /\ s.req = r /\ ~s.resident /\ s.residentTokens = rt
      BY <1>5, <2>1, <2>6, <2>7
    <2>12. CASE i \in gone
      <3>1. WarmSlot /\ rt # <<>> => Keeps(e, rt)
        <4>1. SUFFICES ASSUME WarmSlot, rt # <<>> PROVE Keeps(e, rt)
          OBVIOUS
        <4>2. rt = prompt /\ PrefillChunk # 0
          BY <2>9, <4>1, BatcherAssumption
        <4>3. L <= pos + 1 /\ L = Len(prompt)
          <5>1. L = Len(prompt)
            BY <2>2, <2>5
          <5>2. L <= pos + 1
            BY <2>4, <4>2
          <5> QED BY <5>1, <5>2
        <4>4. RowsOf(e.kv, prompt, L)
          <5>1. PICK text, kv : text = prompt \o tokens /\ kv = e.kv
            OBVIOUS
          <5>2. RowsKept => \A k \in 0 .. (pos + 1) - 1 : kv[k] = text[k + 1]
            BY <2>8, <5>1 DEF At, RowsOf
          <5>3. \A k \in 1 .. L : text[k] = prompt[k]
            BY <2>6, <4>3, <5>1, PromptExtends DEF Extends
          <5>4. \A k \in 0 .. L - 1 : k \in 0 .. (pos + 1) - 1 /\ k + 1 \in 1 .. L
            BY <2>4, <4>3
          <5> QED BY <5>1, <5>2, <5>3, <5>4 DEF RowsOf
        <4> QED BY <2>6, <2>8, <2>9, <4>2, <4>3, <4>4 DEF Keeps
      <3>2. WarmSlot /\ s.residentTokens # <<>> => Keeps(e, s.residentTokens)
        BY <2>11, <3>1
      <3> QED BY <2>7, <2>10, <2>12, <3>2, RetiredSlot
    <2>13. CASE i \notin gone
      <3>1. slots'[i] = s /\ device'[i] = e
        BY <2>10, <2>13 DEF RetiredTo
      <3>2. DecodeTold(i, r, t)
        BY <1>2, <2>1
      <3>3. PICK emits, out : emits = DecodeEmits(i) /\ out = DecodeGone(i, t)
        OBVIOUS
      <3>4. ~out
        <4>1. slots'[i].req # None
          BY <2>1, <2>7, <2>11, <3>1
        <4> QED BY <3>2, <3>3, <4>1 DEF DecodeTold
      <3>5. PromptLen(i) = L
        BY <2>1, <2>2 DEF PromptLen, PromptAt, Owner
      <3>6. /\ ~FoundCancelled(i) /\ (emits <=> pos + 1 >= L)
            /\ emits => ~Stops(t, n + 1, pos + 1)
        BY <2>1, <2>2, <3>3, <3>4, <3>5, Zenon DEF DecodeGone, DecodeEmits
      <3>7. /\ emits => t \in GenTokens
            /\ req'[r].tokens = IF emits THEN Append(tokens, t) ELSE tokens
            /\ req'[r].prompt = prompt
            /\ slots'[i].pos = pos + 1 /\ slots'[i].prefillPos = fed
        BY <2>2, <2>5, <3>2, <3>3, <3>4, Zenon DEF DecodeTold
      <3>8. PICK more : more = IF emits THEN Append(tokens, t) ELSE tokens
        OBVIOUS
      <3>9. PICK m : m = IF emits THEN n + 1 ELSE n
        OBVIOUS
      <3>10. Len(more) = m /\ Extends(prompt \o tokens, prompt \o more)
        <4>1. CASE emits
          <5>1. PICK u \in GenTokens : u = t
            BY <3>7, <4>1
          <5>2. more = Append(tokens, u)
            BY <3>8, <4>1, <5>1
          <5>3. Len(more) = Len(tokens) + 1
            BY <2>6, <5>2, AppendFacts
          <5>4. Extends(prompt \o tokens, prompt \o more)
            BY <2>6, <5>2, TextGrows
          <5> QED BY <2>2, <2>5, <3>9, <4>1, <5>3, <5>4
        <4>2. CASE ~emits
          <5>1. prompt \o tokens \in Seq(Nat)
            BY <2>6, PromptExtends
          <5>2. PICK text \in Seq(Nat) : text = prompt \o tokens
            BY <5>1
          <5>3. Len(text) \in Nat
            OBVIOUS
          <5>4. Extends(text, text)
            BY <5>3 DEF Extends
          <5> QED BY <2>2, <2>5, <3>8, <3>9, <4>2, <5>2, <5>4
        <4> QED BY <4>1, <4>2
      <3>11. pos + 1 <= Len(prompt \o tokens) /\ pos + 1 \in Nat
        <4>1. tokens \in Seq(Nat)
          BY <2>6, AnswerNats
        <4>2. Len(prompt \o tokens) = Len(prompt) + Len(tokens)
          BY <2>6, <4>1, ConcatFacts
        <4>3. Len(prompt \o tokens) = L + n
          BY <2>2, <2>5, <4>2
        <4> QED BY <2>4, <4>3
      <3>12. At(e, prompt \o more, pos + 1)
        BY <2>8, <3>10, <3>11, AtExtends
      <3>13. ~emits => PrefillChunk = 0 /\ n = 0 /\ pos + 1 < L
        BY <2>4, <3>6
      <3>14. pos + 1 < MaxContext
        <4>1. CASE emits
          <5>1. ~((pos + 1) + 1 >= MaxContext)
            BY <3>6, <4>1 DEF Stops
          <5> QED BY <2>4, <5>1, Sizes
        <4>2. CASE ~emits
          BY <2>4, <2>6, <3>13, <4>2, Sizes
        <4> QED BY <4>1, <4>2
      <3>15. Base(pos + 1, fed, m) = pos + 1
        BY <2>4, <3>9, <3>13 DEF Base
      <3>16. Serves(e, Base(pos + 1, fed, m), rt, prompt, more)
        BY <2>8, <2>9, <3>12, <3>14, <3>15 DEF Serves
      <3>17. Counters(pos + 1, fed, L, m, FALSE)
        <4>1. fed <= L /\ (PrefillChunk = 0 => fed = 0)
          BY <2>6 DEF Counters
        <4> QED BY <2>4, <3>9, <3>13, <4>1 DEF Counters
      <3>18. ~Listed(i)' /\ ~Working(i)'
        BY <1>1, StepAlone
      <3>19. /\ slots'[i].req # None /\ ~slots'[i].resident /\ slots'[i].residentTokens = rt
             /\ req'[slots'[i].req].prompt = prompt /\ req'[slots'[i].req].tokens = more
        BY <2>1, <2>7, <2>11, <3>1, <3>7, <3>8
      <3>20. /\ Counters(pos + 1, fed, Len(prompt), Len(more), FALSE)
             /\ Serves(e, Base(pos + 1, fed, Len(more)), rt, prompt, more)
        BY <2>2, <2>5, <3>10, <3>16, <3>17
      <3> QED BY <2>7, <3>1, <3>7, <3>18, <3>19, <3>20, SlotGoesOn
    <2> QED BY <2>12, <2>13
  <1>10. (\A j \in Slots : SlotMem(j))'
    <2>1. \A j \in Slots : SlotMem(j)'
      BY <1>8, <1>9
    <2> QED BY <2>1 DEF Slots
  <1> QED BY <1>7, <1>10 DEF MemInv, StoreFits

(* The forward of a mixed step brings a slot that is ingested in band one  *)
(* chunk further, and a decoding one a token.                              *)
LEMMA MixedMemory ==
    ASSUME BatcherInv, AnswerInv, MemInv, MixedTurn, StepFrame, NEW i \in Occupied,
           NEW r, r = slots[i].req
    PROVE  /\ i \in Prefilling => At(MixedForward(i), req[r].prompt \o req[r].tokens,
                                     slots[i].prefillPos + MixedChunk(i))
           /\ i \notin Prefilling => At(MixedForward(i), req[r].prompt \o req[r].tokens,
                                        slots[i].pos + 1)
           /\ MixedForward(i).ring = device[i].ring
  <1>1. PICK pos, fed, start, L, n, ran, told, inband, c :
           /\ pos = slots[i].pos /\ fed = slots[i].prefillPos /\ start = slots[i].prefillStart
           /\ L = Len(req[r].prompt) /\ n = Len(req[r].tokens)
           /\ ran = req[r].ran /\ told = req[r].prefillSet
           /\ inband = (i \in Prefilling) /\ c = MixedChunk(i)
    OBVIOUS
  <1>2. MixesAt(pos, fed, start, L, n, ran, told, inband, c)
    BY <1>1, MixedStands
  <1>3. /\ L \in Nat /\ n \in Nat /\ pos \in Nat /\ fed \in Nat
        /\ \/ ~inband /\ n > 0 /\ pos + 1 = L + n /\ fed = L
           \/ inband /\ n = 0 /\ c \in Nat /\ fed + c <= L
    BY <1>2, Zenon DEF MixesAt
  <1>4. PICK d, prompt, tokens, rt : /\ d = device[i] /\ prompt = req[r].prompt
                                     /\ tokens = req[r].tokens /\ rt = slots[i].residentTokens
    OBVIOUS
  <1>5. /\ Serves(d, Base(pos, fed, n), rt, prompt, tokens)
        /\ prompt \in Seq(Nat) /\ tokens \in Seq(GenTokens) /\ L < MaxContext /\ DeviceRec(d)
    BY <1>1, <1>4, StepServes DEF MixedTurn
  <1>6. PICK text : text = prompt \o tokens
    OBVIOUS
  <1>7. At(d, text, Base(pos, fed, n)) /\ Base(pos, fed, n) < MaxContext
    BY <1>5, <1>6 DEF Serves
  <1>8. tokens \in Seq(Nat) /\ L = Len(prompt) /\ n = Len(tokens)
    BY <1>1, <1>4, <1>5, AnswerNats
  <1>9. /\ text \in Seq(Nat) /\ Len(text) = L + n
        /\ \A k \in 1 .. L : text[k] = prompt[k]
        /\ \A k \in 1 .. n : text[L + k] = tokens[k]
    BY <1>5, <1>6, <1>8, ConcatFacts
  <1>10. MixedStep /\ PrefillChunk > 0
    BY BatcherAssumption DEF MixedTurn, InBand
  <1>11. CASE inband
    <2>1. n = 0 /\ c \in Nat /\ fed + c <= L /\ Base(pos, fed, n) = fed
      BY <1>3, <1>10, <1>11 DEF Base
    <2>2. PICK toks : toks = SubSeq(prompt, fed + 1, fed + c)
      OBVIOUS
    <2>3. Continues(toks, prompt, fed, c)
      BY <1>3, <1>5, <1>8, <2>1, <2>2, PartContinues
    <2>4. Continues(toks, text, fed, c)
      <3>1. \A k \in 1 .. c : fed + k \in 1 .. L
        BY <1>3, <2>1
      <3> QED BY <1>9, <2>3, <3>1 DEF Continues
    <2>5. MixedForward(i) = PrefillForward(d, toks, fed)
      BY <1>1, <1>4, <1>11, <2>2 DEF MixedForward, MixedStart, PromptAt, Owner
    <2>6. fed + c <= Len(text) /\ fed + c <= MaxContext
      BY <1>3, <1>5, <1>9, <2>1, Sizes
    <2>7. At(d, text, fed)
      BY <1>7, <2>1
    <2>8. /\ At(PrefillForward(d, toks, fed), text, fed + c)
          /\ PrefillForward(d, toks, fed).ring = d.ring
      BY <1>3, <1>5, <1>9, <2>1, <2>4, <2>6, <2>7, ForwardAdvances
    <2> QED BY <1>1, <1>4, <1>6, <1>11, <2>5, <2>8
  <1>12. CASE ~inband
    <2>1. n > 0 /\ pos + 1 = L + n /\ Base(pos, fed, n) = pos /\ n \in 1 .. n
      BY <1>3, <1>12 DEF Base
    <2>2. Last(tokens) = text[pos + 1]
      <3>1. Last(tokens) = tokens[n]
        BY <1>8 DEF Last
      <3> QED BY <1>9, <2>1, <3>1
    <2>3. PICK toks : toks = <<text[pos + 1]>>
      OBVIOUS
    <2>4. Continues(toks, text, pos, 1)
      <3>1. pos + 1 \in 1 .. Len(text)
        BY <1>3, <1>9, <2>1
      <3>2. text[pos + 1] \in Nat
        BY <1>9, <3>1
      <3> QED BY <2>3, <3>2 DEF Continues
    <2>5. MixedForward(i) = PrefillForward(d, toks, pos)
      BY <1>1, <1>4, <1>12, <2>2, <2>3 DEF MixedForward, MixedStart, LastTok, Owner
    <2>6. At(d, text, pos) /\ pos + 1 <= Len(text) /\ pos + 1 <= MaxContext
      BY <1>3, <1>7, <1>9, <2>1, Sizes
    <2>7. /\ At(PrefillForward(d, toks, pos), text, pos + 1)
          /\ PrefillForward(d, toks, pos).ring = d.ring
      BY <1>3, <1>5, <1>9, <2>4, <2>6, ForwardAdvances
    <2> QED BY <1>1, <1>4, <1>6, <1>12, <2>5, <2>7
  <1> QED BY <1>11, <1>12

(* A mixed step.                                                           *)
LEMMA MixedMem ==
    ASSUME BatcherInv, AnswerInv, MemInv, MixedStepRun
    PROVE  MemInv'
  <1>1. Shape /\ Places /\ MixedTurn /\ StepFrame /\ pc = "push"
    BY DEF BatcherInv, MixedStepRun, MixedTurn
  <1>2. PICK tk : \A i \in Occupied : MixedTold(i, slots[i].req, tk[i])
    BY <1>1, MixedTells
  <1>3. \A i \in Slots \ Occupied : slots'[i] = slots[i]
    BY <1>1, MixedTells
  <1>4. /\ \A i \in Slots : device'[i] = MixedForward(i)
        /\ store' = store
    BY DEF MixedStepRun
  <1>5. ASSUME NEW i \in Slots \ Occupied PROVE SlotMem(i)'
    <2>1. slots'[i] = slots[i] /\ (slots[i].resident => Spares(device'[i], device[i]))
      BY <1>3, <1>4, KeptOut
    <2> QED BY <2>1, IdleSlot DEF MemInv
  <1>6. ASSUME NEW i \in Occupied PROVE SlotMem(i)'
    <2>1. PICK r, t, e, rt : /\ r = slots[i].req /\ t = tk[i] /\ e = MixedForward(i)
                             /\ rt = slots[i].residentTokens
      OBVIOUS
    <2>2. PICK pos, fed, start, L, n, ran, told, inband, c :
             /\ pos = slots[i].pos /\ fed = slots[i].prefillPos /\ start = slots[i].prefillStart
             /\ L = Len(req[r].prompt) /\ n = Len(req[r].tokens)
             /\ ran = req[r].ran /\ told = req[r].prefillSet
             /\ inband = (i \in Prefilling) /\ c = MixedChunk(i)
      OBVIOUS
    <2>3. MixesAt(pos, fed, start, L, n, ran, told, inband, c)
      BY <1>1, <2>1, <2>2, MixedStands
    <2>4. /\ L \in Nat /\ n \in Nat /\ pos \in Nat /\ fed \in Nat
          /\ \/ ~inband /\ n > 0 /\ pos + 1 = L + n /\ fed = L
             \/ inband /\ n = 0 /\ c \in Nat /\ fed + c <= L
      BY <2>3, Zenon DEF MixesAt
    <2>5. PICK d, prompt, tokens : d = device[i] /\ prompt = req[r].prompt /\ tokens = req[r].tokens
      OBVIOUS
    <2>6. /\ ~slots[i].resident /\ Counters(pos, fed, L, n, FALSE)
          /\ Serves(d, Base(pos, fed, n), rt, prompt, tokens)
          /\ prompt \in Seq(Nat) /\ tokens \in Seq(GenTokens) /\ L > 0 /\ L < MaxContext
      BY <1>1, <2>1, <2>2, <2>5, StepServes
    <2>7. i \in Slots /\ slots[i].req # None /\ device'[i] = e
      BY <1>4, <2>1 DEF Occupied
    <2>8. PICK at : at = IF inband THEN fed + c ELSE pos + 1
      OBVIOUS
    <2>9. At(e, prompt \o tokens, at) /\ e.ring = d.ring
      <3>1. /\ inband => At(e, prompt \o tokens, fed + c)
            /\ ~inband => At(e, prompt \o tokens, pos + 1)
            /\ e.ring = d.ring
        BY <1>1, <2>1, <2>2, <2>5, MixedMemory
      <3> QED BY <2>8, <3>1
    <2>10. RingOf(d.ring, prompt, Len(prompt)) /\ (WarmSlot => rt \in {<<>>, prompt})
      BY <2>6 DEF Serves
    <2>11. MixedTold(i, r, t)
      BY <1>2, <2>1
    <2>12. PICK emits, last, next, out :
              /\ emits = MixedEmits(i) /\ last = MixedLast(i) /\ next = MixedNext(i)
              /\ out = MixedGone(i, t)
      OBVIOUS
    <2>13. /\ slots'[i].req = (IF out THEN None ELSE r)
           /\ slots'[i].residentTokens = rt /\ ~slots'[i].resident
      BY <2>1, <2>6, <2>11, <2>12 DEF MixedTold
    <2>14. CASE out
      <3>1. slots'[i].req = None /\ slots'[i].resident = slots[i].resident
        BY <2>11, <2>12, <2>14 DEF MixedTold
      <3> QED BY <2>7, <3>1, FreedSlot DEF MemInv
    <2>15. CASE ~out
      <3>1. PromptLen(i) = L
        BY <2>1, <2>2 DEF PromptLen, PromptAt, Owner
      <3>2. /\ last <=> inband /\ fed + c = L
            /\ emits <=> ~FoundCancelled(i) /\ (inband => last)
            /\ next = IF last THEN L ELSE pos + 1
        BY <2>2, <2>12, <3>1, Zenon DEF MixedEmits, MixedLast, MixedNext
      <3>3. /\ ~FoundCancelled(i) /\ (emits => ~Stops(t, n + 1, next))
        BY <2>1, <2>2, <2>12, <2>15, Zenon DEF MixedGone
      <3>4. /\ emits => t \in GenTokens
            /\ req'[r].tokens = IF emits THEN Append(tokens, t) ELSE tokens
            /\ req'[r].prompt = prompt
            /\ slots'[i].pos = IF emits THEN next ELSE pos
            /\ slots'[i].prefillPos = IF inband THEN fed + c ELSE fed
        BY <2>2, <2>5, <2>11, <2>12, <2>15, Zenon DEF MixedTold
      <3>5. PICK more, m, pos2, fed2 : /\ more = (IF emits THEN Append(tokens, t) ELSE tokens)
                                       /\ m = (IF emits THEN n + 1 ELSE n)
                                       /\ pos2 = (IF emits THEN next ELSE pos)
                                       /\ fed2 = (IF inband THEN fed + c ELSE fed)
        OBVIOUS
      <3>6. Len(more) = m /\ Extends(prompt \o tokens, prompt \o more)
        <4>1. CASE emits
          <5>1. PICK u \in GenTokens : u = t
            BY <3>4, <4>1
          <5>2. more = Append(tokens, u)
            BY <3>5, <4>1, <5>1
          <5>3. Len(more) = Len(tokens) + 1
            BY <2>6, <5>2, AppendFacts
          <5>4. Extends(prompt \o tokens, prompt \o more)
            BY <2>6, <5>2, TextGrows
          <5> QED BY <2>2, <2>5, <3>5, <4>1, <5>3, <5>4
        <4>2. CASE ~emits
          <5>1. prompt \o tokens \in Seq(Nat)
            BY <2>6, PromptExtends
          <5>2. PICK text \in Seq(Nat) : text = prompt \o tokens
            BY <5>1
          <5>3. Len(text) \in Nat
            OBVIOUS
          <5>4. Extends(text, text)
            BY <5>3 DEF Extends
          <5> QED BY <2>2, <2>5, <3>5, <4>2, <5>2, <5>4
        <4> QED BY <4>1, <4>2
      <3>7. at <= Len(prompt \o tokens) /\ at \in Nat
        <4>1. tokens \in Seq(Nat)
          BY <2>6, AnswerNats
        <4>2. Len(prompt \o tokens) = Len(prompt) + Len(tokens)
          BY <2>6, <4>1, ConcatFacts
        <4>3. Len(prompt \o tokens) = L + n
          BY <2>2, <2>5, <4>2
        <4> QED BY <2>4, <2>8, <4>3
      <3>8. At(e, prompt \o more, at)
        BY <2>9, <3>6, <3>7, AtExtends
      <3>9. MixedStep /\ PrefillChunk > 0
        BY <1>1, BatcherAssumption DEF MixedTurn, InBand
      <3>10. PrefillChunk # 0 /\ (n = 0 => pos = 0)
        <4>1. PrefillChunk > 0 /\ n = 0 => pos = 0
          BY <2>6 DEF Counters
        <4> QED BY <3>9, <4>1
      <3>11. /\ Base(pos2, fed2, m) = at /\ at < MaxContext
             /\ Counters(pos2, fed2, L, m, FALSE)
        <4>1. CASE inband /\ last
          <5>1. emits /\ pos2 = L /\ fed2 = L /\ m = n + 1 /\ at = L /\ m # 0 /\ m \in Nat
            BY <2>4, <2>8, <3>2, <3>3, <3>5, <4>1
          <5> QED BY <2>4, <2>6, <3>10, <5>1 DEF Base, Counters
        <4>2. CASE inband /\ ~last
          <5>1. /\ ~emits /\ pos2 = pos /\ fed2 = fed + c /\ m = n /\ n = 0 /\ at = fed + c
                /\ at \in Nat /\ at <= L
            BY <2>4, <2>8, <3>2, <3>5, <4>2
          <5>2. at < MaxContext
            BY <2>4, <2>6, <5>1, Sizes
          <5> QED BY <3>9, <3>10, <5>1, <5>2 DEF Base, Counters
        <4>3. CASE ~inband
          <5>1. /\ emits /\ ~last /\ pos2 = pos + 1 /\ fed2 = L /\ m = n + 1 /\ at = pos + 1
                /\ m # 0
            BY <2>4, <2>8, <3>2, <3>3, <3>5, <4>3
          <5>2. ~((pos + 1) + 1 >= MaxContext)
            BY <3>2, <3>3, <5>1 DEF Stops
          <5>3. at < MaxContext
            BY <2>4, <5>1, <5>2, Sizes
          <5> QED BY <2>4, <3>10, <5>1, <5>3 DEF Base, Counters
        <4> QED BY <4>1, <4>2, <4>3
      <3>12. Serves(e, Base(pos2, fed2, m), rt, prompt, more)
        BY <2>9, <2>10, <3>8, <3>11 DEF Serves
      <3>13. ~Listed(i)' /\ ~Working(i)'
        BY <1>1, StepAlone
      <3>14. /\ slots'[i].req # None /\ slots'[i].pos = pos2 /\ slots'[i].prefillPos = fed2
             /\ req'[slots'[i].req].prompt = prompt /\ req'[slots'[i].req].tokens = more
        BY <2>1, <2>7, <2>13, <2>15, <3>4, <3>5
      <3>15. /\ Counters(pos2, fed2, Len(prompt), Len(more), FALSE)
             /\ Serves(e, Base(pos2, fed2, Len(more)), rt, prompt, more)
        BY <2>2, <2>5, <3>6, <3>11, <3>12
      <3> QED BY <2>7, <2>13, <3>13, <3>14, <3>15, SlotGoesOn
    <2> QED BY <2>14, <2>15
  <1>7. (\A j \in Slots : SlotMem(j))'
    <2>1. \A j \in Slots : SlotMem(j)'
      BY <1>5, <1>6
    <2> QED BY <2>1 DEF Slots
  <1> QED BY <1>4, <1>7 DEF MemInv, StoreFits

-----------------------------------------------------------------------------
(* The theorems on device memory                                           *)

(* No slot is in use or kept warm at the start, and the store has no image. *)
LEMMA InitMem == Init => MemInv
  <1> SUFFICES ASSUME Init PROVE MemInv
    OBVIOUS
  <1>1. slots = [i \in Slots |-> FreshSlot] /\ store = EmptyStore
    BY DEF Init
  <1>2. FreshSlot.req = None /\ FreshSlot.resident = FALSE
    BY DEF FreshSlot
  <1>3. ASSUME NEW i \in Slots PROVE SlotMem(i)
    <2>1. slots[i].req = None /\ ~slots[i].resident
      BY <1>1, <1>2
    <2> QED BY <2>1 DEF SlotMem, Occupied
  <1>4. DOMAIN store.images = {}
    BY <1>1 DEF EmptyStore
  <1> QED BY <1>3, <1>4 DEF MemInv, StoreFits

(* Every step keeps what slots and images hold.                            *)
LEMMA NextMem ==
    ASSUME BatcherInv, AnswerInv, PinInv, MemInv, [Next]_vars
    PROVE  MemInv'
  <1>1. CASE \/ BeginIteration \/ EndWarm \/ SkipCross \/ EndCross \/ EndAdmission
             \/ Wake \/ PrefillDone \/ CheckCancelled \/ Stop \/ Quiescent \/ UNCHANGED vars
    BY <1>1, ControlMem
  <1>2. ASSUME NEW r \in Reqs, \/ \E p \in Prompts, t \in Tenants : Submit(r, p, t)
                               \/ Cancel(r)
        PROVE  MemInv'
    BY <1>2, ClientMem
  <1>3. CASE AdmitWarm \/ AdmitCross \/ AdmitCold
    BY <1>3, AdmitWarmMem, AdmitCrossMem, AdmitColdMem
  <1>4. CASE PrefillBegin \/ PrefillChunkStep \/ PrefillFail
    BY <1>4, BeginMem, ChunkMem, ChunkFailMem
  <1>5. ASSUME NEW tok \in GenTokens, PrefillLastChunk(tok) PROVE MemInv'
    BY <1>5, LastChunkMem
  <1>6. CASE PrefillBatch \/ PrefillBatchFail
    BY <1>6, BatchMem
  <1>7. CASE MixedStepRun \/ DecodeStep
    BY <1>7, MixedMem, DecodeMem
  <1>8. CASE MixedStepFail \/ DecodeFail
    BY <1>8, StepFailMem
  <1>9. CASE Shutdown
    BY <1>9, ShutdownMem
  <1> QED BY <1>1, <1>2, <1>3, <1>4, <1>5, <1>6, <1>7, <1>8, <1>9 DEF Next, Worker, Client

(* MemInv is an invariant of the batcher, with the others: every slot's    *)
(* recurrent state and checkpoints, every image and, where RowsKept, every *)
(* row is that of the tokens it stands for.                                *)
THEOREM MemInvariance == Spec => [](BatcherInv /\ AnswerInv /\ PinInv /\ MemInv)
  <1>1. Init => MemInv
    BY InitMem
  <1>2. BatcherInv /\ AnswerInv /\ PinInv /\ MemInv /\ [Next]_vars => MemInv'
    BY NextMem
  <1> QED BY <1>1, <1>2, AnswerInvariance, PinInvariance, PTL DEF Spec

(* The greater of two numbers.                                             *)
LEMMA MaxTwo ==
    ASSUME NEW a \in Nat, NEW b \in Nat
    PROVE  Max({a, b}) = IF a >= b THEN a ELSE b
  <1>1. PICK c \in Nat : a <= c /\ b <= c
    <2>1. a + b \in Nat /\ a <= a + b /\ b <= a + b
      OBVIOUS
    <2> QED BY <2>1
  <1>2. {a, b} \in SUBSET (0 .. c) /\ {a, b} # {}
    BY <1>1
  <1>3. PICK m : m = Max({a, b})
    OBVIOUS
  <1>4. m \in {a, b} /\ \A x \in {a, b} : m >= x
    BY <1>2, <1>3, BoundedMax
  <1> QED BY <1>3, <1>4

(* What the next forward of slot i, whose prompt and answer have L and n   *)
(* tokens, builds upon.                                                    *)
BuildsAt(i, b, L, n) ==
    /\ L \in Nat /\ L < MaxContext /\ n \in Nat /\ b \in Nat /\ b <= L + n
    /\ Resumes(i) => Listed(i)
    /\ Listed(i) => b < L /\ b = (IF Resumes(i) THEN slots[i].prefillStart ELSE 0)
    /\ Listed(i) => slots[i].prefillStart \in Nat /\ slots[i].prefillStart < L
    /\ Working(i) => ~Listed(i) /\ b = job.p /\ b < L
    /\ ~Listed(i) /\ ~Working(i) => b = Base(slots[i].pos, slots[i].prefillPos, n)

(* Every slot in use builds upon as much as its place says.                *)
LEMMA Builds ==
    ASSUME BatcherInv, AnswerInv, MemInv, NEW i \in Occupied
    PROVE  BuildsAt(i, BuildsOn(i), Len(req[slots[i].req].prompt), Len(req[slots[i].req].tokens))
  <1>1. PICK r, L, n, b : /\ r = slots[i].req /\ L = Len(req[r].prompt)
                          /\ n = Len(req[r].tokens) /\ b = BuildsOn(i)
    OBVIOUS
  <1>2. PICK pos, fed, start, ran, told, l, w, p :
           /\ pos = slots[i].pos /\ fed = slots[i].prefillPos /\ start = slots[i].prefillStart
           /\ ran = req[r].ran /\ told = req[r].prefillSet
           /\ l = Listed(i) /\ w = Working(i) /\ p = job.p
    OBVIOUS
  <1>3. StandsAt(pos, fed, start, L, n, ran, told, l, w, p)
    BY <1>1, <1>2, SlotNumbers
  <1>4. Counters(pos, fed, L, n, l \/ w)
    BY <1>1, <1>2, SlotParts
  <1>5. L \in Nat /\ n \in Nat /\ L < MaxContext
    <2>1. HandleOK(req[r]) /\ req[r].st = "open" /\ L \in Nat /\ n \in Nat
      BY <1>1, SlotNumbers
    <2>2. Len(req[r].prompt) < MaxContext
      BY <2>1, Zenon DEF HandleOK
    <2> QED BY <1>1, <2>1, <2>2
  <1>6. pos \in Nat /\ fed \in Nat /\ start \in Nat
    BY <1>3, Zenon DEF StandsAt
  <1>7. PICK m : m = Max({pos, fed})
    OBVIOUS
  <1>8. m = IF pos >= fed THEN pos ELSE fed
    BY <1>6, <1>7, MaxTwo
  <1>9. Resumes(i) => l
    BY <1>2 DEF Resumes, Listed
  <1>10. w => ~l
    BY <1>2, ChunkNumbers DEF Working
  <1>11. b = IF Resumes(i) THEN start ELSE IF w THEN p ELSE m
    BY <1>1, <1>2, <1>7 DEF BuildsOn, Working
  <1> DEFINE Built == /\ b \in Nat /\ b <= L + n
                      /\ l => b < L /\ start < L /\ b = (IF Resumes(i) THEN start ELSE 0)
                      /\ w => b < L /\ b = p
                      /\ ~l /\ ~w => b = Base(pos, fed, n)
  <1>12. ASSUME l PROVE Built
    <2>1. start < L /\ PrefillChunk > 0 /\ n = 0
      BY <1>3, <1>12, Zenon DEF StandsAt
    <2>2. pos = 0 /\ fed = 0
      BY <1>4, <1>12, <2>1 DEF Counters
    <2>3. b = (IF Resumes(i) THEN start ELSE 0) /\ b \in Nat /\ b < L /\ b <= L + n
      <3>1. b = IF Resumes(i) THEN start ELSE m
        BY <1>10, <1>11, <1>12
      <3>2. m = 0
        BY <1>8, <2>2
      <3> QED BY <1>5, <1>6, <2>1, <3>1, <3>2
    <2> QED BY <1>10, <1>12, <2>1, <2>3
  <1>13. ASSUME ~l, w PROVE Built
    <2>1. p \in Nat /\ p < L
      BY <1>3, <1>13, Zenon DEF StandsAt
    <2>2. b = p /\ b \in Nat /\ b < L /\ b <= L + n
      <3>1. b = p
        BY <1>9, <1>11, <1>13
      <3> QED BY <1>5, <2>1, <3>1
    <2> QED BY <1>13, <2>2
  <1>14. ASSUME ~l, ~w PROVE Built
    <2>1. \/ n > 0 /\ pos + 1 = L + n
          \/ PrefillChunk = 0 /\ n = 0 /\ pos < L
          \/ MixedStep /\ n = 0
      BY <1>3, <1>14, Zenon DEF StandsAt
    <2>2. /\ fed <= L /\ (PrefillChunk = 0 => fed = 0)
          /\ PrefillChunk > 0 /\ n = 0 => pos = 0
      BY <1>4, Zenon DEF Counters
    <2>3. MixedStep => PrefillChunk > 0
      BY BatcherAssumption
    <2>4. m = Base(pos, fed, n) /\ m \in Nat /\ m <= L + n
      <3>1. CASE n > 0
        <4>1. pos + 1 = L + n
          BY <2>1, <3>1, <1>5
        <4> QED BY <1>5, <1>6, <1>8, <2>2, <3>1, <4>1 DEF Base
      <3>2. CASE n = 0 /\ PrefillChunk = 0
        <4>1. pos < L
          BY <2>1, <2>3, <3>2
        <4> QED BY <1>5, <1>6, <1>8, <2>2, <3>2, <4>1 DEF Base
      <3>3. CASE n = 0 /\ PrefillChunk > 0
        BY <1>5, <1>6, <1>8, <2>2, <3>3 DEF Base
      <3> QED BY <1>5, <3>1, <3>2, <3>3, Sizes
    <2>5. b = m /\ ~Resumes(i)
      BY <1>9, <1>11, <1>14
    <2> QED BY <1>14, <2>4, <2>5
  <1>15. Built
    BY <1>12, <1>13, <1>14, Zenon
  <1>16. BuildsAt(i, b, L, n)
    BY <1>2, <1>5, <1>6, <1>9, <1>10, <1>15, Zenon DEF BuildsAt
  <1> QED BY <1>1, <1>16

(* The memory of a slot in use holds the first b tokens of text; the live  *)
(* state is rebuilt from a checkpoint if the slot resumes.                 *)
HoldsText(d, text, b, resumes) ==
    /\ text \in Seq(Nat) /\ b \in Nat /\ b <= Len(text) /\ b < MaxContext
    /\ RowsOf(d.kv, text, b) /\ (~resumes => StateOf(d, text, b))

(* Every slot in use holds what its next forward builds upon.              *)
LEMMA SlotHoldsText ==
    ASSUME BatcherInv, AnswerInv, MemInv, NEW i \in Occupied
    PROVE  HoldsText(device[i], Fed(i), BuildsOn(i), Resumes(i))
  <1>1. PICK r, d, b : r = slots[i].req /\ d = device[i] /\ b = BuildsOn(i)
    OBVIOUS
  <1>2. PICK prompt, tokens, start : /\ prompt = req[r].prompt /\ tokens = req[r].tokens
                                     /\ start = slots[i].prefillStart
    OBVIOUS
  <1>3. prompt \in Seq(Nat) /\ tokens \in Seq(GenTokens)
    <2>1. HandleOK(req[r])
      BY <1>1, SlotNumbers
    <2> QED BY <1>2, <2>1, Zenon DEF HandleOK
  <1>4. PICK text : text = prompt \o tokens
    OBVIOUS
  <1>5. text \in Seq(Nat) /\ Extends(prompt, text) /\ Fed(i) = text
    BY <1>1, <1>2, <1>3, <1>4, PromptExtends DEF Fed, PromptAt, Owner
  <1>6. Len(text) = Len(prompt) + Len(tokens)
    <2>1. tokens \in Seq(Nat)
      BY <1>3, AnswerNats
    <2> QED BY <1>3, <1>4, <2>1, ConcatFacts
  <1>7. BuildsAt(i, b, Len(prompt), Len(tokens))
    BY <1>1, <1>2, Builds
  <1>8. b \in Nat /\ b <= Len(text)
    BY <1>6, <1>7, Zenon DEF BuildsAt
  <1>9. CASE Listed(i)
    <2>1. b < Len(prompt) /\ b = (IF Resumes(i) THEN start ELSE 0)
      BY <1>2, <1>7, <1>9, Zenon DEF BuildsAt
    <2>2. Resumable(d, prompt, start)
      BY <1>1, <1>2, <1>9, SlotParts
    <2>3. RowsOf(d.kv, prompt, b)
      BY <2>1, <2>2 DEF Resumable, RowsOf
    <2>4. RowsOf(d.kv, text, b)
      <3>1. \A k \in 1 .. b : text[k] = prompt[k]
        BY <1>3, <1>5, <1>8, <2>1 DEF Extends
      <3>2. \A k \in 0 .. b - 1 : k + 1 \in 1 .. b
        BY <1>8
      <3> QED BY <2>3, <3>1, <3>2 DEF RowsOf
    <2>5. ~Resumes(i) => StateOf(d, text, b)
      BY <2>1 DEF StateOf
    <2>6. b < MaxContext
      <3>1. Len(prompt) \in Nat /\ Len(prompt) < MaxContext
        BY <1>7, Zenon DEF BuildsAt
      <3> QED BY <1>8, <2>1, <3>1, Sizes
    <2> QED BY <1>1, <1>5, <1>8, <2>4, <2>5, <2>6 DEF HoldsText
  <1>10. CASE ~Listed(i) /\ Working(i)
    <2>1. b < Len(prompt) /\ b = job.p
      BY <1>7, <1>10, Zenon DEF BuildsAt
    <2>2. At(d, prompt, b)
      BY <1>1, <1>2, <1>10, <2>1, SlotParts
    <2>3. At(d, text, b)
      BY <1>3, <1>5, <1>8, <2>1, <2>2, AtExtends
    <2>4. b < MaxContext
      <3>1. Len(prompt) \in Nat /\ Len(prompt) < MaxContext
        BY <1>7, Zenon DEF BuildsAt
      <3> QED BY <1>8, <2>1, <3>1, Sizes
    <2> QED BY <1>1, <1>5, <1>8, <2>3, <2>4 DEF HoldsText, At
  <1>11. CASE ~Listed(i) /\ ~Working(i)
    <2>1. b = Base(slots[i].pos, slots[i].prefillPos, Len(tokens))
      BY <1>7, <1>11, Zenon DEF BuildsAt
    <2>2. Serves(d, b, slots[i].residentTokens, prompt, tokens)
      BY <1>1, <1>2, <1>11, <2>1, SlotParts
    <2>3. b < MaxContext /\ At(d, text, b)
      BY <1>4, <2>2 DEF Serves
    <2> QED BY <1>1, <1>5, <1>8, <2>3 DEF HoldsText, At
  <1> QED BY <1>9, <1>10, <1>11

(* KvFaithful: on the paged pool, every KV row that the next forward of a  *)
(* slot attends to was computed from its own request's tokens, through     *)
(* warm resumption, shared images, all the prefill paths and both step     *)
(* loops.  The two hypotheses are what the code does not ensure: a slab    *)
(* that overruns (SlabsWithinBounds) and a hole on a warm slot.            *)
THEOREM KvFaithfulHolds ==
    ASSUME ~Slab, WarmSlot => MaxBatch = 1
    PROVE  Spec => []KvFaithful
  <1>1. BatcherInv /\ AnswerInv /\ PinInv /\ MemInv => KvFaithful
    <2> SUFFICES ASSUME BatcherInv, AnswerInv, MemInv, NEW i \in Occupied
                 PROVE  /\ BuildsOn(i) < MaxContext
                        /\ \A k \in 0 .. BuildsOn(i) - 1 : device[i].kv[k] = Fed(i)[k + 1]
      BY DEF KvFaithful
    <2> QED BY SlotHoldsText DEF HoldsText, RowsOf, RowsKept
  <1> QED BY <1>1, MemInvariance, PTL

(* A slab in use is as long as its slot's position says and has room for   *)
(* the next row: the slabs that SlabsWithinBounds finds overrun lie idle.  *)
BusySlabsFit ==
    \A i \in Occupied : Slab /\ ~Resumes(i) /\ BuildsOn(i) > 0 =>
                          device[i].len = BuildsOn(i) /\ device[i].len < MaxContext

(* BusySlabsFit: KvCache::commit keeps a slab's length equal to the slot's *)
(* position through prefill and decoding, and a slot retires before its    *)
(* slab is full.                                                           *)
THEOREM BusySlabsFitHolds == Spec => []BusySlabsFit
  <1>1. BatcherInv /\ AnswerInv /\ PinInv /\ MemInv => BusySlabsFit
    <2> SUFFICES ASSUME BatcherInv, AnswerInv, MemInv, NEW i \in Occupied,
                        Slab, ~Resumes(i), BuildsOn(i) > 0
                 PROVE  device[i].len = BuildsOn(i) /\ device[i].len < MaxContext
      BY DEF BusySlabsFit
    <2>1. StateOf(device[i], Fed(i), BuildsOn(i)) /\ BuildsOn(i) < MaxContext
      BY SlotHoldsText DEF HoldsText
    <2> QED BY <2>1 DEF StateOf
  <1> QED BY <1>1, MemInvariance, PTL

(* SsmFaithful: the recurrent state of a slot in use has absorbed exactly  *)
(* the tokens below its position.                                          *)
THEOREM SsmFaithfulHolds == Spec => []SsmFaithful
  <1>1. BatcherInv /\ AnswerInv /\ PinInv /\ MemInv => SsmFaithful
    <2> SUFFICES ASSUME BatcherInv, AnswerInv, MemInv, NEW i \in Occupied,
                        BuildsOn(i) > 0, ~Slab, ~Resumes(i)
                 PROVE  device[i].ssm = SubSeq(Fed(i), 1, BuildsOn(i))
      BY DEF SsmFaithful
    <2>1. PICK text, b : text = Fed(i) /\ b = BuildsOn(i)
      OBVIOUS
    <2>2. /\ text \in Seq(Nat) /\ b \in Nat /\ b <= Len(text) /\ StateOf(device[i], text, b)
      BY <2>1, SlotHoldsText DEF HoldsText
    <2>3. Spells(device[i].ssm, text, b)
      BY <2>1, <2>2 DEF StateOf
    <2>4. device[i].ssm = SubSeq(text, 1, b)
      BY <2>2, <2>3, SpellsPrefix
    <2> QED BY <2>1, <2>4
  <1> QED BY <1>1, MemInvariance, PTL

(* The checkpoints of a slot in use are of its prompt.                     *)
LEMMA SlotHoldsRing ==
    ASSUME BatcherInv, AnswerInv, MemInv, NEW i \in Occupied
    PROVE  PromptAt(i) \in Seq(Nat) /\ RingOf(device[i].ring, PromptAt(i), Len(PromptAt(i)))
  <1>1. PICK r, d, b : r = slots[i].req /\ d = device[i] /\ b = BuildsOn(i)
    OBVIOUS
  <1>2. PICK prompt, tokens, start : /\ prompt = req[r].prompt /\ tokens = req[r].tokens
                                     /\ start = slots[i].prefillStart
    OBVIOUS
  <1>3. prompt \in Seq(Nat)
    <2>1. HandleOK(req[r])
      BY <1>1, SlotNumbers
    <2> QED BY <1>2, <2>1, Zenon DEF HandleOK
  <1>4. BuildsAt(i, b, Len(prompt), Len(tokens))
    BY <1>1, <1>2, Builds
  <1>5. Ring(d.ring)
    BY <1>1 DEF Occupied, AnswerInv, Positions, RingOK, Ring
  <1>6. RingOf(d.ring, prompt, Len(prompt))
    <2>1. CASE Listed(i)
      <3>1. start \in Nat /\ Len(prompt) \in Nat /\ start < Len(prompt)
        BY <1>2, <1>4, <2>1, Zenon DEF BuildsAt
      <3>2. RingOf(d.ring, prompt, start)
        BY <1>1, <1>2, <2>1, SlotParts DEF Resumable
      <3> QED BY <1>5, <3>1, <3>2, RingGrows
    <2>2. CASE ~Listed(i) /\ Working(i)
      <3>1. b \in Nat /\ Len(prompt) \in Nat /\ b < Len(prompt) /\ b = job.p
        BY <1>4, <2>2, Zenon DEF BuildsAt
      <3>2. RingOf(d.ring, prompt, b)
        BY <1>1, <1>2, <2>2, <3>1, SlotParts
      <3> QED BY <1>5, <3>1, <3>2, RingGrows
    <2>3. CASE ~Listed(i) /\ ~Working(i)
      BY <1>1, <1>2, <2>3, SlotParts DEF Serves
    <2> QED BY <2>1, <2>2, <2>3
  <1> QED BY <1>1, <1>2, <1>3, <1>6 DEF PromptAt, Owner

(* RingFaithful: the checkpoints of a slot in use or kept warm are the     *)
(* states of prefixes of its own key, ascending and at most kMaxPerSlot.   *)
THEOREM RingFaithfulHolds == Spec => []RingFaithful
  <1>1. BatcherInv /\ AnswerInv /\ PinInv /\ MemInv => RingFaithful
    <2> DEFINE Key(i) == IF i \in Occupied THEN PromptAt(i) ELSE slots[i].residentTokens
               Fits(ring, key) ==
                   /\ \A k \in DOMAIN ring : /\ ring[k].pos <= Len(key)
                                             /\ ring[k].ssm = SubSeq(key, 1, ring[k].pos)
                   /\ \A k \in 2 .. Len(ring) : ring[k - 1].pos < ring[k].pos
                   /\ Len(ring) <= RingCap
    <2> SUFFICES ASSUME BatcherInv, AnswerInv, MemInv, NEW i \in Slots,
                        i \in Occupied \/ slots[i].resident
                 PROVE  Fits(device[i].ring, Key(i))
      BY Zenon DEF RingFaithful
    <2>0. PICK key, ring : key = Key(i) /\ ring = device[i].ring
      OBVIOUS
    <2>1. key \in Seq(Nat) /\ RingOf(ring, key, Len(key))
      <3>1. CASE i \in Occupied
        BY <2>0, <3>1, SlotHoldsRing
      <3>2. CASE i \notin Occupied
        BY <2>0, <3>2 DEF MemInv, SlotMem, Keeps
      <3> QED BY <3>1, <3>2
    <2> HIDE DEF Key
    <2>2. /\ Len(ring) \in Nat /\ DOMAIN ring = 1 .. Len(ring)
          /\ \A k \in DOMAIN ring : ring[k].pos \in Nat
      <3>1. Ring(ring)
        BY <2>0 DEF AnswerInv, Positions, RingOK, Ring
      <3> QED BY <3>1, RingNumbers
    <2>3. /\ \A k \in DOMAIN ring : ring[k].pos <= Len(key) /\ Spells(ring[k].ssm, key, ring[k].pos)
          /\ \A j, k \in DOMAIN ring : j < k => ring[j].pos < ring[k].pos
          /\ Len(ring) <= RingCap
      BY <2>1 DEF RingOf
    <2>4. ASSUME NEW k \in DOMAIN ring PROVE ring[k].ssm = SubSeq(key, 1, ring[k].pos)
      <3>1. PICK p, u : p = ring[k].pos /\ u = ring[k].ssm
        OBVIOUS
      <3>2. p \in Nat /\ p <= Len(key) /\ Spells(u, key, p)
        BY <2>2, <2>3, <3>1
      <3>3. u = SubSeq(key, 1, p)
        BY <2>1, <3>2, SpellsPrefix
      <3> QED BY <3>1, <3>3
    <2>5. ASSUME NEW k \in 2 .. Len(ring) PROVE ring[k - 1].pos < ring[k].pos
      <3>1. k - 1 \in DOMAIN ring /\ k \in DOMAIN ring /\ k - 1 < k
        BY <2>2
      <3> QED BY <2>3, <3>1
    <2>6. Fits(ring, key)
      BY <2>3, <2>4, <2>5
    <2> QED BY <2>0, <2>6
  <1> QED BY <1>1, MemInvariance, PTL

(* StoreFaithful: an image of the cross-slot store is the state of exactly *)
(* the tokens it is keyed by, and the images, the index entries and the    *)
(* images waiting to be freed account for each other.  The constructor     *)
(* turns the store off on slabs; a hole on a warm slot is excluded.        *)
THEOREM StoreFaithfulHolds ==
    ASSUME ~Slab, WarmSlot => MaxBatch = 1
    PROVE  Spec => []StoreFaithful
  <1>1. BatcherInv /\ AnswerInv /\ PinInv /\ MemInv => StoreFaithful
    <2> SUFFICES ASSUME PinInv, MemInv PROVE StoreFaithful
      OBVIOUS
    <2>1. Accounts(store) /\ StoreFits(store)
      BY DEF PinInv, Pinned, MemInv
    <2>2. /\ DOMAIN store.images = Payloads(store.index)
          /\ DOMAIN store.images \cap store.pendingFree = {}
      BY <2>1 DEF Accounts
    <2>3. ASSUME NEW id \in DOMAIN store.images, NEW key, NEW img,
                 key = store.index.tok[id], img = store.images[id]
          PROVE  /\ img.pos = Len(key) /\ img.ssm = key
                 /\ \A k \in 0 .. img.pos - 1 : img.kv[k] = key[k + 1]
      BY <2>1, <2>3 DEF StoreFits, ImageFits, RowsOf, RowsKept
    <2> QED BY <2>2, <2>3 DEF StoreFaithful
  <1> QED BY <1>1, MemInvariance, PTL
=============================================================================
