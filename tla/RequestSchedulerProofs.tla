----------------------- MODULE RequestSchedulerProofs -----------------------
(***************************************************************************)
(* Proofs about RequestScheduler, for any pool, block size, budget, caps   *)
(* and number of requests:                                                 *)
(*   - the blocks of the pool are conserved (BlocksConserved);             *)
(*   - service is in order of admission (NoOvertaking);                    *)
(*   - every keyed block hashes its whole prefix (HashChained);            *)
(*   - the sequences hold what the counters say (KvInSync).                *)
(***************************************************************************)
EXTENDS RequestScheduler, FiniteSetTheorems, WellFoundedInduction, TLAPS

KvTypes ==
    /\ free \in SUBSET Blocks
    /\ ref \in [Blocks -> Nat]
    /\ table \in [Owners -> Seq(Blocks)]

(* BlocksConserved is inductive once the tables are typed. *)
BlocksInv == KvTypes /\ BlocksConserved

(* A block of a well-typed table is a block of the pool. *)
LEMMA TableEntry ==
    ASSUME KvTypes, NEW r \in Owners, NEW i \in 1..Len(table[r])
    PROVE  table[r][i] \in Blocks
<1>1. table[r] \in Seq(Blocks)
  BY DEF KvTypes
<1> QED BY <1>1

(* Appending to a table adds one place, at the end. *)
LEMMA AppendPlaces ==
    ASSUME NEW s \in Seq(Blocks), NEW b \in Blocks
    PROVE  /\ Append(s, b) \in Seq(Blocks)
           /\ Len(Append(s, b)) = Len(s) + 1
           /\ \A i \in 1..Len(s) : Append(s, b)[i] = s[i]
           /\ Append(s, b)[Len(s) + 1] = b
  OBVIOUS

(* There are finitely many requests.                                       *)
LEMMA OwnersFinite == IsFiniteSet(Owners) /\ Owners \subseteq Nat
<1>1. Owners = 1..MaxRequests /\ MaxRequests \in Nat
  BY SchedulerAssumption
<1> QED BY <1>1, FS_Interval

(* Under BlocksInv a block has at most one holder. *)
LEMMA OneHolder ==
    ASSUME BlocksInv, NEW R \in SUBSET Owners, NEW b \in Blocks
    PROVE  Holders(R, b) = IF \E r \in R : b \in BlocksOf(r) THEN 1 ELSE 0
<1> DEFINE H == {r \in R : b \in BlocksOf(r)}
<1>1. CASE \E r \in R : b \in BlocksOf(r)
  <2>1. PICK r \in R : b \in BlocksOf(r)
    BY <1>1
  <2>2. ASSUME NEW q \in R, b \in BlocksOf(q)
        PROVE  q = r
    <3>1. PICK i \in 1..Len(table[r]) : table[r][i] = b
      BY <2>1 DEF BlocksOf
    <3>2. PICK j \in 1..Len(table[q]) : table[q][j] = b
      BY <2>2 DEF BlocksOf
    <3> QED BY <3>1, <3>2 DEF BlocksInv, BlocksConserved
  <2>3. H = {r}
    BY <2>1, <2>2
  <2> QED BY <2>3, <1>1, FS_Singleton DEF Holders
<1>2. CASE ~ \E r \in R : b \in BlocksOf(r)
  <2>1. H = {}
    BY <1>2
  <2> QED BY <2>1, <1>2, FS_EmptySet DEF Holders
<1> QED BY <1>1, <1>2

(* A block of the pool has one reference or none. *)
LEMMA RefZeroOne ==
    ASSUME BlocksInv, NEW b \in Blocks
    PROVE  /\ ref[b] = IF b \in free THEN 0 ELSE 1
           /\ (\E r \in Owners : b \in BlocksOf(r)) <=> b \notin free
<1>1. ASSUME NEW r \in Owners, b \in BlocksOf(r)
      PROVE  ref[b] = 1
  BY <1>1 DEF BlocksInv, BlocksConserved, BlocksOf
<1>2. b \notin free => \E r \in Owners : b \in BlocksOf(r)
  BY DEF BlocksInv, BlocksConserved
<1>3. b \in free <=> ref[b] = 0
  BY DEF BlocksInv, BlocksConserved
<1> QED BY <1>1, <1>2, <1>3

(* reset() and the destructor give back exactly the blocks they held. *)
LEMMA ReleaseBlocks ==
    ASSUME BlocksInv, NEW R \in SUBSET Owners, ReleaseAll(R)
    PROVE  BlocksInv'
<1> DEFINE Held(b) == \E r \in R : b \in BlocksOf(r)
<1>1. ASSUME NEW b \in Blocks
      PROVE  RefAfter(R, b) = IF b \in free \/ Held(b) THEN 0 ELSE 1
  <2>1. Holders(R, b) = IF Held(b) THEN 1 ELSE 0
    BY OneHolder
  <2>2. ref[b] = IF b \in free THEN 0 ELSE 1
    BY RefZeroOne
  <2>3. Held(b) => b \notin free
    BY RefZeroOne
  <2> QED BY <2>1, <2>2, <2>3 DEF RefAfter
<1>2. ref' = [b \in Blocks |-> IF b \in free \/ Held(b) THEN 0 ELSE 1]
  BY <1>1 DEF ReleaseAll
<1>3. free' = {b \in Blocks : b \in free \/ Held(b)}
  BY <1>1 DEF ReleaseAll
<1>4. table' = [r \in Owners |-> IF r \in R THEN <<>> ELSE table[r]]
  BY DEF ReleaseAll
<1>5. \A r \in Owners \ R : table'[r] = table[r]
  BY <1>4
<1>6. \A r \in R : table'[r] = <<>> /\ Len(table'[r]) = 0
  BY <1>4
<1>7. KvTypes'
  <2>1. table' \in [Owners -> Seq(Blocks)]
    BY <1>4 DEF BlocksInv, KvTypes
  <2>2. ref' \in [Blocks -> Nat]
    BY <1>2
  <2> QED BY <2>1, <2>2, <1>3 DEF KvTypes
<1>8. ASSUME NEW r \in Owners, NEW i \in 1..Len(table'[r])
      PROVE  /\ r \notin R /\ i \in 1..Len(table[r])
             /\ table'[r][i] = table[r][i]
             /\ table[r][i] \in Blocks
  <2>1. r \notin R
    BY <1>6
  <2>2. table'[r] = table[r]
    BY <2>1, <1>5
  <2> QED BY <2>1, <2>2, TableEntry DEF BlocksInv
<1>9. BlocksConserved'
  <2>1. \A b \in Blocks : b \in free' <=> ref'[b] = 0
    BY <1>2, <1>3
  <2>2. ASSUME NEW b \in Blocks, b \notin free'
        PROVE  \E r \in Owners : \E i \in 1..Len(table'[r]) : table'[r][i] = b
    <3>1. b \notin free /\ ~Held(b)
      BY <2>2, <1>3
    <3>2. PICK r \in Owners : b \in BlocksOf(r)
      BY <3>1, RefZeroOne
    <3>3. r \notin R
      BY <3>1, <3>2
    <3>4. table'[r] = table[r]
      BY <3>3, <1>5
    <3> QED BY <3>2, <3>4 DEF BlocksOf
  <2>3. ASSUME NEW r \in Owners, NEW i \in 1..Len(table'[r])
        PROVE  ref'[table'[r][i]] = 1
    <3> DEFINE b == table[r][i]
    <3>1. /\ r \notin R /\ i \in 1..Len(table[r]) /\ table'[r][i] = b /\ b \in Blocks
      BY <1>8
    <3>2. b \in BlocksOf(r)
      BY <3>1 DEF BlocksOf
    <3>3. b \notin free
      BY <3>1, <3>2, RefZeroOne
    <3>4. ~Held(b)
      <4>1. SUFFICES ASSUME NEW q \in R, b \in BlocksOf(q)
                     PROVE  FALSE
        OBVIOUS
      <4>2. PICK j \in 1..Len(table[q]) : table[q][j] = b
        BY <4>1 DEF BlocksOf
      <4>3. q = r
        BY <4>2, <3>1 DEF BlocksInv, BlocksConserved
      <4> QED BY <4>3, <3>1
    <3> QED BY <3>1, <3>3, <3>4, <1>2
  <2>4. ASSUME NEW r \in Owners, NEW q \in Owners,
               NEW i \in 1..Len(table'[r]), NEW j \in 1..Len(table'[q]),
               table'[r][i] = table'[q][j]
        PROVE  r = q /\ i = j
    <3>1. i \in 1..Len(table[r]) /\ j \in 1..Len(table[q]) /\ table[r][i] = table[q][j]
      BY <1>8, <2>4
    <3> QED BY <3>1 DEF BlocksInv, BlocksConserved
  <2> QED BY <2>1, <2>2, <2>3, <2>4 DEF BlocksConserved, BlocksOf
<1> QED BY <1>7, <1>9 DEF BlocksInv

(* appendToken takes a free block or none. *)
LEMMA AppendBlocks ==
    ASSUME BlocksInv, NEW r \in Owners, AppendToken(r)
    PROVE  BlocksInv'
<1> USE DEF BlocksInv
<1>1. CASE UNCHANGED <<free, ref>> /\ table' = [table EXCEPT ![r] = table[r]]
  <2>1. table' = table
    BY <1>1 DEF KvTypes
  <2>2. free' = free /\ ref' = ref
    BY <1>1
  <2> QED BY <2>1, <2>2 DEF KvTypes, BlocksConserved, BlocksOf
<1>2. ASSUME NEW b \in free, free' = free \ {b}, ref' = [ref EXCEPT ![b] = 1],
             table' = [table EXCEPT ![r] = Append(table[r], b)]
      PROVE  BlocksInv'
  <2>1. b \in Blocks /\ table[r] \in Seq(Blocks)
    BY DEF KvTypes
  <2>2. /\ table'[r] \in Seq(Blocks) /\ Len(table'[r]) = Len(table[r]) + 1
        /\ \A i \in 1..Len(table[r]) : table'[r][i] = table[r][i]
        /\ table'[r][Len(table[r]) + 1] = b
    BY <2>1, <1>2, AppendPlaces DEF KvTypes
  <2>3. \A q \in Owners \ {r} : table'[q] = table[q]
    BY <1>2 DEF KvTypes
  <2>4. KvTypes'
    <3>1. table' \in [Owners -> Seq(Blocks)]
      BY <1>2, <2>1, AppendPlaces DEF KvTypes
    <3> QED BY <1>2, <3>1 DEF KvTypes
  <2>5. ASSUME NEW q \in Owners, NEW i \in 1..Len(table'[q])
        PROVE  \/ i \in 1..Len(table[q]) /\ table'[q][i] = table[q][i]
                    /\ table[q][i] \in Blocks /\ table[q][i] # b
               \/ q = r /\ i = Len(table[r]) + 1 /\ table'[q][i] = b
    <3>1. CASE i \in 1..Len(table[q])
      <4>1. table'[q][i] = table[q][i]
        BY <3>1, <2>2, <2>3
      <4>2. ref[table[q][i]] = 1 /\ table[q][i] \in Blocks
        BY <3>1, TableEntry DEF BlocksConserved
      <4>3. ref[b] = 0
        BY <2>1 DEF BlocksConserved
      <4> QED BY <3>1, <4>1, <4>2, <4>3
    <3>2. CASE i \notin 1..Len(table[q])
      <4>1. q = r
        BY <3>2, <2>3
      <4>2. i = Len(table[r]) + 1
        BY <4>1, <3>2, <2>1, <2>2
      <4> QED BY <4>1, <4>2, <2>2
    <3> QED BY <3>1, <3>2
  <2>6. \A c \in Blocks : c \in free' <=> ref'[c] = 0
    BY <1>2, <2>1 DEF KvTypes, BlocksConserved
  <2>7. ASSUME NEW c \in Blocks, c \notin free'
        PROVE  \E q \in Owners : \E i \in 1..Len(table'[q]) : table'[q][i] = c
    <3>1. CASE c = b
      <4>1. Len(table[r]) + 1 \in 1..Len(table'[r])
        BY <2>1, <2>2
      <4> QED BY <3>1, <4>1, <2>2
    <3>2. CASE c # b
      <4>1. c \notin free
        BY <3>2, <2>7, <1>2
      <4>2. PICK q \in Owners : c \in BlocksOf(q)
        BY <4>1 DEF BlocksConserved
      <4>3. PICK i \in 1..Len(table[q]) : table[q][i] = c
        BY <4>2 DEF BlocksOf
      <4>4. i \in 1..Len(table'[q]) /\ table'[q][i] = c
        BY <4>3, <2>1, <2>2, <2>3
      <4> QED BY <4>4
    <3> QED BY <3>1, <3>2
  <2>8. ASSUME NEW q \in Owners, NEW i \in 1..Len(table'[q])
        PROVE  ref'[table'[q][i]] = 1
    <3>1. CASE i \in 1..Len(table[q]) /\ table'[q][i] = table[q][i]
                 /\ table[q][i] \in Blocks /\ table[q][i] # b
      BY <3>1, <1>2 DEF KvTypes, BlocksConserved
    <3>2. CASE table'[q][i] = b
      BY <3>2, <1>2, <2>1 DEF KvTypes
    <3> QED BY <2>5, <3>1, <3>2
  <2>9. ASSUME NEW p \in Owners, NEW q \in Owners,
               NEW i \in 1..Len(table'[p]), NEW j \in 1..Len(table'[q]),
               table'[p][i] = table'[q][j]
        PROVE  p = q /\ i = j
    BY <2>5, <2>9 DEF BlocksConserved
  <2> QED BY <2>4, <2>6, <2>7, <2>8, <2>9 DEF BlocksConserved, BlocksOf
<1> QED BY <1>1, <1>2 DEF AppendToken, Appended

(* The pool's accounting survives every step. *)
LEMMA BlocksStep ==
    ASSUME BlocksInv, [Next]_vars
    PROVE  BlocksInv'
<1>1. CASE UNCHANGED kvVars
  BY <1>1 DEF BlocksInv, KvTypes, BlocksConserved, BlocksOf, kvVars
<1>2. ASSUME NEW p \in PromptLengths, NEW m \in MaxTokens, Admit(p, m)
      PROVE  BlocksInv'
  BY <1>1, <1>2 DEF Admit
<1>3. CASE Tick
  BY <1>1, <1>3 DEF Tick
<1>4. ASSUME PreemptOne
      PROVE  BlocksInv'
  <2>1. PICK v \in Active : ReleaseAll({v})
    BY <1>4 DEF PreemptOne
  <2>2. {v} \in SUBSET Owners
    BY <2>1 DEF Active, ActiveIn, InState
  <2> QED BY <2>1, <2>2, ReleaseBlocks
<1>5. CASE PolicyPreempt
  BY <1>4, <1>5 DEF PolicyPreempt
<1>6. CASE Launch
  BY <1>1, <1>6 DEF Launch
<1>7. CASE Commit
  BY <1>1, <1>7 DEF Commit
<1>8. ASSUME NEW r \in Owners, Feed(r)
      PROVE  BlocksInv'
  BY <1>8, AppendBlocks DEF Feed
<1>9. ASSUME NEW r \in Owners, FeedFails(r)
      PROVE  BlocksInv'
  BY <1>4, <1>9 DEF FeedFails
<1>10. CASE DrainCompleted
  <2>1. InState(state, {"Completed"}) \in SUBSET Owners
    BY DEF InState
  <2> QED BY <1>10, <2>1, ReleaseBlocks DEF DrainCompleted
<1>11. CASE UNCHANGED vars
  BY <1>1, <1>11 DEF vars
<1> QED BY <1>2, <1>3, <1>5, <1>6, <1>7, <1>8, <1>9, <1>10, <1>11 DEF Next, Loop

(* The blocks of the pool are conserved in every behaviour, whatever the   *)
(* pool and the policy: nothing leaks and nothing is freed twice           *)
(* (PagedKvBlockAllocator, through preemptOne, the feeds and               *)
(* drainCompleted).                                                        *)
THEOREM BlocksConservedHolds == Spec => []BlocksConserved
<1>1. Init => BlocksInv
  <2>1. SUFFICES ASSUME Init PROVE BlocksInv
    OBVIOUS
  <2>2. table = [r \in Owners |-> <<>>] /\ free = Blocks /\ ref = [b \in Blocks |-> 0]
    BY <2>1 DEF Init, KvInit
  <2>3. \A r \in Owners : Len(table[r]) = 0
    BY <2>2
  <2>4. \A r \in Owners : 1..Len(table[r]) = {}
    BY <2>3
  <2>5. KvTypes
    BY <2>2 DEF KvTypes
  <2> QED BY <2>2, <2>4, <2>5 DEF BlocksInv, BlocksConserved, BlocksOf
<1>2. BlocksInv /\ [Next]_vars => BlocksInv'
  BY BlocksStep
<1>3. BlocksInv => BlocksConserved
  BY DEF BlocksInv
<1> QED BY <1>1, <1>2, <1>3, PTL DEF Spec
-----------------------------------------------------------------------------
(* Types of the request table, and: only admitted requests have a state. *)
OrderInv ==
    /\ state \in [Owners -> States]
    /\ nextId \in Nat \ {0}
    /\ \A r \in Owners : r >= nextId => state[r] = "Absent"
    /\ NoOvertaking

(* Service stays in order through every step. *)
LEMMA OrderStep ==
    ASSUME OrderInv, [Next]_vars
    PROVE  OrderInv'
<1> USE DEF OrderInv
<1>1. ASSUME NEW p \in PromptLengths, NEW m \in MaxTokens, Admit(p, m)
      PROVE  OrderInv'
  <2>1. p \in Nat /\ m \in Nat
    BY SchedulerAssumption
  <2>2. nextId \in Nat /\ nextId' = nextId + 1
    BY <1>1 DEF Admit
  <2>3. Owners \subseteq Nat
    BY OwnersFinite
  <2>4. /\ \A r \in Owners \ {nextId} : state'[r] = state[r]
        /\ nextId \in Owners => state'[nextId] = "Waiting"
    BY <1>1 DEF Admit
  <2>5. state' \in [Owners -> States]
    BY <1>1, <2>1 DEF Admit, States
  <2>6. \A r \in Owners : r >= nextId' => state'[r] = "Absent"
    BY <2>2, <2>3, <2>4
  <2>7. ASSUME NEW a \in Active', NEW w \in InState(state, {"Waiting", "Preempted"})'
        PROVE  a < w
    <3>1. a # nextId /\ a \in Owners /\ w \in Owners
      BY <2>4, <2>7 DEF Active, ActiveIn, InState
    <3>2. a \in Active
      BY <3>1, <2>4 DEF Active, ActiveIn, InState
    <3>3. a < nextId
      BY <3>1, <3>2, <2>2, <2>3 DEF Active, ActiveIn, InState
    <3>4. CASE w = nextId
      BY <3>3, <3>4
    <3>5. CASE w # nextId
      BY <3>1, <3>2, <3>5, <2>4 DEF NoOvertaking, InState
    <3> QED BY <3>4, <3>5
  <2> QED BY <2>2, <2>5, <2>6, <2>7 DEF NoOvertaking
<1>2. CASE Tick
  <2> DEFINE q == Reenqueued
             waiting == InState(q, {"Waiting"})
             room(r) == Cardinality(ActiveIn(q)) + Cardinality(Before(waiting, r)) < MaxActive
  <2>1. q \in [Owners -> States]
    BY DEF Reenqueued, States
  <2>2. \A r \in Owners : q[r] = IF state[r] = "Preempted" THEN "Waiting"
                                                                      ELSE state[r]
    BY DEF Reenqueued
  <2>3. state' = [r \in Owners |->
            IF r \in waiting /\ room(r)
            THEN IF req'[r].pending > 0 THEN "Prefilling" ELSE "Decoding"
            ELSE q[r]]
    BY <1>2 DEF Tick, Promoted
  <2>4. nextId' = nextId
    BY <1>2 DEF Tick
  <2> HIDE DEF q
  <2>5. \A r \in Owners : /\ (r \in waiting /\ room(r)) => state'[r] \in {"Prefilling", "Decoding"}
                          /\ ~(r \in waiting /\ room(r)) => state'[r] = q[r]
    BY <2>1, <2>3
  <2>6. state' \in [Owners -> States]
    BY <2>1, <2>3 DEF States
  <2>7. \A r \in Owners : r >= nextId' => state'[r] = "Absent"
    BY <2>2, <2>4, <2>5 DEF InState
  <2>8. ASSUME NEW a \in waiting, room(a), NEW w \in waiting, ~room(w)
        PROVE  a < w
    <3>1. a \in Nat /\ w \in Nat /\ IsFiniteSet(waiting) /\ IsFiniteSet(ActiveIn(q))
      BY OwnersFinite, FS_Subset DEF InState, ActiveIn
    <3>2. SUFFICES ASSUME w <= a PROVE FALSE
      BY <3>1
    <3>3. Before(waiting, w) \subseteq Before(waiting, a)
      <4>1. \A s \in waiting : s \in Nat
        BY OwnersFinite DEF InState
      <4>2. ASSUME NEW s \in waiting, s < w PROVE s < a
        BY <3>1, <3>2, <4>1, <4>2
      <4> QED BY <4>2 DEF Before
    <3>4. IsFiniteSet(Before(waiting, a))
      BY <3>1, FS_Subset DEF Before
    <3>5. IsFiniteSet(Before(waiting, w)) /\
          Cardinality(Before(waiting, w)) <= Cardinality(Before(waiting, a))
      BY <3>3, <3>4, FS_Subset
    <3>6. /\ Cardinality(ActiveIn(q)) \in Nat
          /\ Cardinality(Before(waiting, w)) \in Nat /\ Cardinality(Before(waiting, a)) \in Nat
          /\ MaxActive \in Nat
      BY <3>1, <3>4, <3>5, FS_CardinalityType, SchedulerAssumption
    <3> QED BY <3>5, <3>6, <2>8
  <2>9. ASSUME NEW a \in Active', NEW w \in InState(state, {"Waiting", "Preempted"})'
        PROVE  a < w
    <3>1. a \in Owners /\ w \in Owners
      BY <2>9 DEF Active, ActiveIn, InState
    <3>2. w \in waiting /\ ~room(w)
      BY <2>2, <2>5, <2>9, <3>1 DEF InState
    <3>3. CASE a \in waiting /\ room(a)
      BY <3>2, <3>3, <2>8
    <3>4. CASE ~(a \in waiting /\ room(a))
      <4>1. a \in Active
        BY <2>2, <2>5, <2>9, <3>1, <3>4 DEF Active, ActiveIn, InState
      <4>2. w \in InState(state, {"Waiting", "Preempted"})
        BY <2>2, <3>1, <3>2 DEF InState
      <4> QED BY <4>1, <4>2 DEF NoOvertaking
    <3> QED BY <3>3, <3>4
  <2> QED BY <2>4, <2>6, <2>7, <2>9 DEF NoOvertaking
<1>3. ASSUME PreemptOne, nextId' = nextId
      PROVE  OrderInv'
  <2>1. PICK v \in Active : /\ \A r \in Active : r <= v
                            /\ state' = [state EXCEPT ![v] = "Preempted"]
    BY <1>3 DEF PreemptOne
  <2>2. v \in Owners /\ Owners \subseteq Nat
    BY <2>1, OwnersFinite DEF Active, ActiveIn, InState
  <2>3. /\ \A r \in Owners \ {v} : state'[r] = state[r]
        /\ state'[v] = "Preempted"
    BY <2>1, <2>2
  <2>4. state' \in [Owners -> States]
    BY <2>1, <2>2 DEF States
  <2>5. state[v] # "Absent"
    BY <2>1 DEF Active, ActiveIn, InState
  <2>6. \A r \in Owners : r >= nextId' => state'[r] = "Absent"
    BY <1>3, <2>2, <2>3, <2>5
  <2>7. ASSUME NEW a \in Active', NEW w \in InState(state, {"Waiting", "Preempted"})'
        PROVE  a < w
    <3>1. a \in Owners /\ w \in Owners /\ a # v /\ a \in Active
      BY <2>3, <2>7 DEF Active, ActiveIn, InState
    <3>2. CASE w = v
      BY <2>1, <2>2, <3>1, <3>2
    <3>3. CASE w # v
      BY <2>3, <2>7, <3>1, <3>3 DEF NoOvertaking, InState
    <3> QED BY <3>2, <3>3
  <2> QED BY <1>3, <2>4, <2>6, <2>7 DEF NoOvertaking
<1>4. CASE PolicyPreempt
  BY <1>3, <1>4 DEF PolicyPreempt
<1>5. ASSUME state' = state, nextId' = nextId
      PROVE  OrderInv'
  BY <1>5 DEF NoOvertaking, Active, ActiveIn, InState
<1>6. CASE Launch
  BY <1>5, <1>6 DEF Launch
<1>7. CASE Commit
  <2>1. PICK eos \in SUBSET sched.decodes : state' = [r \in Owners |-> StateAfter(r, eos)]
    BY <1>7 DEF Commit
  <2>2. ASSUME NEW r \in Owners
        PROVE  /\ \/ StateAfter(r, eos) = state[r]
                  \/ /\ state[r] \in {"Prefilling", "Decoding"}
                     /\ StateAfter(r, eos) \in {"Decoding", "Completed"}
               /\ StateAfter(r, eos) \in States
    <3>1. \/ StateAfter(r, eos) = state[r]
          \/ state[r] = "Prefilling" /\ StateAfter(r, eos) = "Decoding"
          \/ state[r] = "Decoding" /\ StateAfter(r, eos) = "Completed"
      BY Zenon DEF StateAfter
    <3>2. state[r] \in States
      OBVIOUS
    <3>3. "Decoding" \in States /\ "Completed" \in States
      BY DEF States
    <3> QED BY <3>1, <3>2, <3>3
  <2>3. \A r \in Owners : state'[r] = StateAfter(r, eos)
    BY <2>1
  <2> QED BY <1>7, <2>2, <2>3 DEF Commit, NoOvertaking, Active, ActiveIn, InState
<1>8. ASSUME NEW r \in Owners, Feed(r)
      PROVE  OrderInv'
  BY <1>5, <1>8 DEF Feed
<1>9. ASSUME NEW r \in Owners, FeedFails(r)
      PROVE  OrderInv'
  BY <1>3, <1>9 DEF FeedFails
<1>10. CASE DrainCompleted
  <2>1. /\ \A r \in Owners : state'[r] = IF state[r] = "Completed" THEN "Drained"
                                                                            ELSE state[r]
        /\ nextId' = nextId
    BY <1>10 DEF DrainCompleted, InState
  <2> QED BY <2>1, <1>10 DEF NoOvertaking, Active, ActiveIn, InState, DrainCompleted, States
<1>11. CASE UNCHANGED vars
  BY <1>5, <1>11 DEF vars
<1> QED BY <1>1, <1>2, <1>4, <1>6, <1>7, <1>8, <1>9, <1>10, <1>11 DEF Next, Loop

(* Nobody has been admitted by the constructor. *)
LEMMA OrderInit ==
    ASSUME Init
    PROVE  OrderInv
  BY DEF Init, OrderInv, NoOvertaking, Active, ActiveIn, InState, States

(* Nobody who is active was admitted after somebody who waits or was       *)
(* preempted, for any cap, budget and policy (preemptOne against           *)
(* promoteWaitingToActive).                                                *)
THEOREM NoOvertakingHolds == Spec => []NoOvertaking
<1>1. Init => OrderInv
  BY OrderInit
<1>2. OrderInv /\ [Next]_vars => OrderInv'
  BY OrderStep
<1>3. OrderInv => NoOvertaking
  BY DEF OrderInv
<1> QED BY <1>1, <1>2, <1>3, PTL DEF Spec
-----------------------------------------------------------------------------
(* Arithmetic of block boundaries. *)
LEMMA Cancel ==
    ASSUME NEW a \in Int, NEW b \in Int, NEW c \in Int, c > 0, a * c <= b * c
    PROVE  a <= b
<1>1. SUFFICES ASSUME a >= b + 1 PROVE FALSE
  OBVIOUS
<1>2. a - (b + 1) >= 0
  BY <1>1
<1>3. (a - (b + 1)) * c >= 0
  BY <1>2
<1>4. (b + 1) * c = b * c + c
  OBVIOUS
<1> QED BY <1>3, <1>4

(* A number without remainder is a multiple.                               *)
LEMMA Multiple == ASSUME NEW n \in Int, NEW c \in Int, c > 0, n % c = 0
                  PROVE  \E k \in Int : n = c * k
  OBVIOUS

(* A multiple has no remainder.                                            *)
LEMMA NoRemainder == ASSUME NEW k \in Int, NEW c \in Int, c > 0
                     PROVE  (c * k) % c = 0
  OBVIOUS

(* The test of appendToken, _tokens.size() % blkSz == 0, holds exactly     *)
(* when the last of the len blocks is full.                                *)
LEMMA BlockFull ==
    ASSUME NEW c \in Int, c > 0, NEW len \in Int, NEW n \in Int,
           (len - 1) * c < n, n <= len * c
    PROVE  n % c = 0 <=> n = len * c
<1>1. ASSUME n % c = 0 PROVE n = len * c
  <2>1. PICK k \in Int : n = c * k
    BY <1>1, Multiple
  <2>2. k * c <= len * c /\ (len - 1) * c <= k * c
    BY <2>1
  <2>3. k <= len /\ len - 1 <= k
    BY <2>2, Cancel
  <2>4. k # len - 1
    BY <2>1
  <2> QED BY <2>1, <2>3, <2>4
<1>2. ASSUME n = len * c PROVE n % c = 0
  BY <1>2, NoRemainder
<1> QED BY <1>1, <1>2

(* The block table has just enough blocks for the tokens. *)
TablesFit ==
    \A r \in Owners : /\ (Len(table[r]) - 1) * BlockSize < ntok[r]
                       /\ ntok[r] <= Len(table[r]) * BlockSize

HashInv ==
    /\ BlocksInv
    /\ ntok \in [Owners -> Nat]
    /\ DOMAIN hash = Blocks
    /\ TablesFit
    /\ HashChained

(* One table seen alone: its blocks are distinct, its n tokens end in its  *)
(* last block, and its full blocks are chained.                            *)
Distinct(tab) == \A i, j \in 1..Len(tab) : tab[i] = tab[j] => i = j
InLast(tab, n) == (Len(tab) - 1) * BlockSize <= n /\ n < Len(tab) * BlockSize
Chained(r, tab, h, n) ==
    \A i \in 1..Len(tab) : h[tab[i]] = IF i * BlockSize <= n THEN <<r, i>> ELSE NoHash

(* The hashes after a token was put in the last block of tab. *)
HashPut(r, tab, h, n) ==
    IF (n + 1) % BlockSize = 0
    THEN [h EXCEPT ![tab[Len(tab)]] = ChainHash(r, Len(tab), tab, h)]
    ELSE h
OthersKept(tab, h, g) == \A b \in Blocks : (\A i \in 1..Len(tab) : tab[i] # b) => g[b] = h[b]

(* A token put in the last block keeps the chain. *)
LEMMA ChainedAppend ==
    ASSUME NEW r, NEW tab \in Seq(Blocks), Len(tab) > 0,
           NEW h, DOMAIN h = Blocks,
           NEW n \in Nat,
           Distinct(tab), InLast(tab, n), Chained(r, tab, h, n)
    PROVE  /\ Chained(r, tab, HashPut(r, tab, h, n), n + 1)
           /\ DOMAIN HashPut(r, tab, h, n) = Blocks
           /\ OthersKept(tab, h, HashPut(r, tab, h, n))
<1> DEFINE g == HashPut(r, tab, h, n)
<1>0. /\ \A i, j \in 1..Len(tab) : tab[i] = tab[j] => i = j
      /\ (Len(tab) - 1) * BlockSize <= n /\ n < Len(tab) * BlockSize
      /\ \A i \in 1..Len(tab) : h[tab[i]] = IF i * BlockSize <= n THEN <<r, i>> ELSE NoHash
  BY DEF Distinct, InLast, Chained
<1> DEFINE len == Len(tab)
<1>1. len \in Nat /\ len >= 1 /\ BlockSize \in Int /\ BlockSize > 0 /\ len \in 1..len
  BY PoolAssumption
<1>2. (n + 1) % BlockSize = 0 <=> n + 1 = len * BlockSize
  <2>1. (len - 1) * BlockSize < n + 1 /\ n + 1 <= len * BlockSize
    <3>1. (len - 1) * BlockSize \in Int /\ len * BlockSize \in Int
      BY <1>1
    <3> QED BY <1>0, <3>1
  <2>2. len \in Int /\ n + 1 \in Int
    BY <1>1
  <2> HIDE DEF len
  <2> QED BY <1>1, <2>1, <2>2, BlockFull
<1>3. \A i \in 1..len : i # len => i * BlockSize <= n
  <2>1. SUFFICES ASSUME NEW i \in 1..len, i # len PROVE i * BlockSize <= n
    OBVIOUS
  <2>2. i <= len - 1
    BY <1>1, <2>1
  <2>3. i * BlockSize <= (len - 1) * BlockSize
    <3>1. (len - 1 - i) * BlockSize >= 0
      BY <1>1, <2>1, <2>2
    <3>2. (len - 1 - i) * BlockSize = (len - 1) * BlockSize - i * BlockSize
      BY <1>1, <2>1
    <3>3. (len - 1) * BlockSize \in Int /\ i * BlockSize \in Int
      BY <1>1, <2>1
    <3> QED BY <3>1, <3>2, <3>3
  <2>4. (len - 1) * BlockSize \in Int /\ i * BlockSize \in Int
    BY <1>1, <2>1
  <2> QED BY <1>0, <2>3, <2>4
<1>4. ~ (len * BlockSize <= n)
  BY <1>0, <1>1
<1>5. \A i \in 1..len : tab[i] \in Blocks
  OBVIOUS
<1>6. \A i \in 1..len : i # len => h[tab[i]] = <<r, i>>
  BY <1>0, <1>3
<1>7. h[tab[len]] = NoHash
  BY <1>0, <1>1, <1>4
<1>8. ChainHash(r, len, tab, h) = <<r, len>>
  <2>1. CASE len = 1
    BY <2>1 DEF ChainHash
  <2>2. CASE len # 1
    <3>1. len - 1 \in 1..len /\ len - 1 # len
      <4> HIDE DEF len
      <4> QED BY <1>1, <2>2
    <3>2. h[tab[len - 1]] = <<r, len - 1>>
      BY <3>1, <1>6
    <3> QED BY <2>2, <3>2 DEF ChainHash
  <2> QED BY <2>1, <2>2
<1>9. CASE n + 1 = len * BlockSize
  <2>1. g = [h EXCEPT ![tab[len]] = <<r, len>>]
    BY <1>2, <1>8, <1>9 DEF HashPut
  <2>2. g[tab[len]] = <<r, len>>
    BY <2>1, <1>1, <1>5
  <2>3. \A i \in 1..len : i # len => g[tab[i]] = <<r, i>>
    BY <1>0, <2>1, <1>1, <1>5, <1>6
  <2>4. \A i \in 1..len : i * BlockSize <= n + 1
    <3>1. SUFFICES ASSUME NEW i \in 1..len PROVE i * BlockSize <= n + 1
      OBVIOUS
    <3>2. i * BlockSize \in Int
      BY <1>1
    <3>3. CASE i = len
      BY <3>3, <1>9
    <3>4. CASE i # len
      BY <3>2, <3>4, <1>3
    <3> QED BY <3>3, <3>4
  <2>5. DOMAIN g = Blocks /\ OthersKept(tab, h, g)
    BY <2>1, <1>1, <1>5 DEF OthersKept
  <2> HIDE DEF g
  <2>6. Chained(r, tab, g, n + 1)
    BY <2>2, <2>3, <2>4, <1>1 DEF Chained
  <2> QED BY <2>5, <2>6 DEF g
<1>10. CASE n + 1 # len * BlockSize
  <2>1. g = h
    BY <1>2, <1>10 DEF HashPut
  <2>2. ~ (len * BlockSize <= n + 1)
    <3>1. len * BlockSize \in Int /\ n < len * BlockSize
      BY <1>0, <1>1
    <3> QED BY <3>1, <1>10
  <2>3. \A i \in 1..len : i # len => i * BlockSize <= n + 1
    BY <1>1, <1>3
  <2>4. DOMAIN g = Blocks /\ OthersKept(tab, h, g)
    BY <2>1 DEF OthersKept
  <2>5. Chained(r, tab, h, n + 1)
    BY <2>2, <2>3, <1>1, <1>6, <1>7 DEF Chained
  <2> QED BY <2>1, <2>4, <2>5
<1> QED BY <1>9, <1>10

(* appendToken keeps every chain whole. *)
LEMMA AppendHashes ==
    ASSUME HashInv, NEW r \in Owners, AppendToken(r)
    PROVE  HashInv'
<1> DEFINE n == ntok[r]
<1>1. BlocksInv'
  BY AppendBlocks DEF HashInv
<1>2. /\ table[r] \in Seq(Blocks) /\ Len(table[r]) \in Nat /\ n \in Nat
      /\ BlockSize \in Int /\ BlockSize > 0
      /\ (Len(table[r]) - 1) * BlockSize < n /\ n <= Len(table[r]) * BlockSize
      /\ Len(table[r]) * BlockSize \in Int
  BY PoolAssumption DEF HashInv, BlocksInv, KvTypes, TablesFit
<1>3. ASSUME NEW tab \in Seq(Blocks), NEW h, DOMAIN h = Blocks, Appended(r, tab, h),
             Len(tab) > 0, InLast(tab, n), Chained(r, tab, h, n),
             \A q \in Owners \ {r} : \A i \in 1..Len(table[q]) : h[table[q][i]] = hash[table[q][i]]
      PROVE  HashInv'
  <2>1. /\ table' = [table EXCEPT ![r] = tab] /\ ntok' = [ntok EXCEPT ![r] = n + 1]
        /\ hash' = HashPut(r, tab, h, n)
    BY <1>3 DEF Appended, HashPut
  <2>2. /\ table'[r] = tab /\ ntok'[r] = n + 1
        /\ \A q \in Owners \ {r} : table'[q] = table[q] /\ ntok'[q] = ntok[q]
    BY <2>1 DEF HashInv, BlocksInv, KvTypes
  <2>3. Distinct(tab)
    <3>1. \A i \in 1..Len(table'[r]), j \in 1..Len(table'[r]) :
             table'[r][i] = table'[r][j] => i = j
      BY <1>1 DEF BlocksInv, BlocksConserved
    <3> QED BY <3>1, <2>2 DEF Distinct
  <2>4. /\ Chained(r, tab, hash', n + 1)
        /\ DOMAIN hash' = Blocks
        /\ OthersKept(tab, h, hash')
    <3>1. n \in Nat
      BY <1>2
    <3> HIDE DEF n
    <3> QED BY <1>3, <2>1, <2>3, <3>1, ChainedAppend
  <2>5. ntok' \in [Owners -> Nat]
    BY <1>2, <2>1 DEF HashInv
  <2>6. TablesFit'
    <3>1. (Len(tab) - 1) * BlockSize < n + 1 /\ n + 1 <= Len(tab) * BlockSize
      <4>1. Len(tab) \in Nat
        BY <1>3
      <4>2. (Len(tab) - 1) * BlockSize \in Int /\ Len(tab) * BlockSize \in Int
        BY <1>2, <4>1
      <4> QED BY <4>2, <1>2, <1>3 DEF InLast
    <3> QED BY <2>2, <3>1 DEF TablesFit, HashInv
  <2>7. ASSUME NEW q \in Owners, NEW i \in 1..Len(table'[q])
        PROVE  hash'[table'[q][i]] = IF i * BlockSize <= ntok'[q] THEN <<q, i>> ELSE NoHash
    <3>1. CASE q = r
      BY <3>1, <2>2, <2>4 DEF Chained
    <3>2. CASE q # r
      <4>1. table'[q] = table[q] /\ ntok'[q] = ntok[q] /\ i \in 1..Len(table[q])
        BY <3>2, <2>2
      <4>2. table[q][i] \in Blocks
        BY <4>1, TableEntry DEF HashInv, BlocksInv
      <4>3. \A j \in 1..Len(tab) : tab[j] # table[q][i]
        BY <1>1, <2>2, <3>2, <4>1 DEF BlocksInv, BlocksConserved
      <4>4. hash'[table[q][i]] = hash[table[q][i]]
        BY <2>4, <4>1, <4>2, <4>3, <3>2, <1>3 DEF OthersKept
      <4>5. hash[table[q][i]] = IF i * BlockSize <= ntok[q] THEN <<q, i>> ELSE NoHash
        BY <4>1 DEF HashInv, HashChained
      <4> QED BY <4>1, <4>4, <4>5
    <3> QED BY <3>1, <3>2
  <2> QED BY <1>1, <2>4, <2>5, <2>6, <2>7 DEF HashInv, HashChained
<1>4. CASE ~AtBoundary(r)
  <2>1. Appended(r, table[r], hash) /\ n # Len(table[r]) * BlockSize
    BY <1>4 DEF AppendToken, AtBoundary
  <2>2. Len(table[r]) > 0
    <3>1. SUFFICES ASSUME Len(table[r]) = 0 PROVE FALSE
      BY <1>2
    <3>2. n <= 0 /\ Len(table[r]) * BlockSize = 0
      BY <1>2, <3>1
    <3> QED BY <1>2, <2>1, <3>2
  <2>3. n < Len(table[r]) * BlockSize /\ (Len(table[r]) - 1) * BlockSize <= n
    <3>1. (Len(table[r]) - 1) * BlockSize \in Int
      BY <1>2
    <3> QED BY <1>2, <2>1, <3>1
  <2>4. Chained(r, table[r], hash, n) /\ InLast(table[r], n)
    BY <2>3 DEF HashInv, HashChained, Chained, InLast
  <2> QED BY <1>2, <1>3, <2>1, <2>2, <2>4 DEF HashInv
<1>5. CASE AtBoundary(r)
  <2>1. PICK b \in free : Appended(r, Append(table[r], b), [hash EXCEPT ![b] = NoHash])
    BY <1>5 DEF AppendToken
  <2> DEFINE tab == Append(table[r], b)
             h == [hash EXCEPT ![b] = NoHash]
  <2>2. n = Len(table[r]) * BlockSize /\ b \in Blocks
    BY <1>5, <2>1 DEF AtBoundary, HashInv, BlocksInv, KvTypes
  <2>3. /\ tab \in Seq(Blocks) /\ Len(tab) = Len(table[r]) + 1
        /\ \A i \in 1..Len(table[r]) : tab[i] = table[r][i]
        /\ tab[Len(table[r]) + 1] = b
    BY <1>2, <2>2, AppendPlaces
  <2>4. \A q \in Owners : \A i \in 1..Len(table[q]) :
           table[q][i] \in Blocks /\ table[q][i] # b
    <3>1. ref[b] = 0
      BY <2>2 DEF HashInv, BlocksInv, BlocksConserved
    <3> QED BY <3>1, TableEntry DEF HashInv, BlocksInv, BlocksConserved
  <2>5. DOMAIN h = Blocks /\ h[b] = NoHash /\ \A c \in Blocks : c # b => h[c] = hash[c]
    BY <2>2 DEF HashInv
  <2> HIDE DEF h
  <2>6. /\ Len(tab) > 0 /\ (Len(tab) - 1) * BlockSize <= n
        /\ Len(tab) * BlockSize = n + BlockSize /\ n < Len(tab) * BlockSize
    <3> HIDE DEF tab
    <3>1. (Len(table[r]) + 1) * BlockSize = Len(table[r]) * BlockSize + BlockSize
      BY <1>2
    <3>2. Len(tab) - 1 = Len(table[r])
      BY <1>2, <2>3
    <3> QED BY <1>2, <2>2, <2>3, <3>1, <3>2, SMTT(30)
  <2>7. ASSUME NEW i \in 1..Len(tab)
        PROVE  h[tab[i]] = IF i * BlockSize <= n THEN <<r, i>> ELSE NoHash
    <3>1. CASE i = Len(table[r]) + 1
      <4>1. ~ (i * BlockSize <= n)
        BY <1>2, <2>3, <2>6, <3>1
      <4> QED BY <4>1, <3>1, <2>3, <2>5
    <3>2. CASE i # Len(table[r]) + 1
      <4>1. i \in 1..Len(table[r])
        <5> HIDE DEF tab
        <5> QED BY <1>2, <2>3, <3>2
      <4>2. h[tab[i]] = hash[table[r][i]]
        BY <4>1, <2>3, <2>4, <2>5
      <4> QED BY <4>1, <4>2 DEF HashInv, HashChained
    <3> QED BY <3>1, <3>2
  <2>8. \A q \in Owners \ {r} : \A i \in 1..Len(table[q]) : h[table[q][i]] = hash[table[q][i]]
    BY <2>4, <2>5
  <2>9. Appended(r, tab, h)
    BY <2>1 DEF h
  <2>10. Chained(r, tab, h, n) /\ InLast(tab, n)
    BY <2>6, <2>7 DEF Chained, InLast
  <2> HIDE DEF tab
  <2> QED BY <1>3, <2>3, <2>5, <2>6, <2>8, <2>9, <2>10
<1> QED BY <1>4, <1>5

(* Releasing sequences leaves the chains of the others alone. *)
LEMMA ReleaseHashes ==
    ASSUME HashInv, NEW R \in SUBSET Owners, ReleaseAll(R)
    PROVE  HashInv'
<1>1. BlocksInv'
  BY ReleaseBlocks DEF HashInv
<1>2. /\ table' = [r \in Owners |-> IF r \in R THEN <<>> ELSE table[r]]
      /\ ntok' = [r \in Owners |-> IF r \in R THEN 0 ELSE ntok[r]]
      /\ hash' = [b \in Blocks |-> IF ref'[b] = 0 THEN NoHash ELSE hash[b]]
  BY DEF ReleaseAll
<1>3. ntok' \in [Owners -> Nat] /\ DOMAIN hash' = Blocks
  BY <1>2 DEF HashInv
<1>4. ASSUME NEW r \in Owners
      PROVE  /\ (Len(table'[r]) - 1) * BlockSize < ntok'[r]
             /\ ntok'[r] <= Len(table'[r]) * BlockSize
  <2>1. CASE r \in R
    <3>1. Len(table'[r]) = 0 /\ ntok'[r] = 0
      BY <1>2, <2>1
    <3>2. (0 - 1) * BlockSize < 0 /\ 0 <= 0 * BlockSize
      BY PoolAssumption
    <3> QED BY <3>1, <3>2
  <2>2. CASE r \notin R
    BY <1>2, <2>2 DEF HashInv, TablesFit
  <2> QED BY <2>1, <2>2
<1>5. ASSUME NEW r \in Owners, NEW i \in 1..Len(table'[r])
      PROVE  hash'[table'[r][i]] = IF i * BlockSize <= ntok'[r] THEN <<r, i>> ELSE NoHash
  <2>1. r \notin R
    <3>1. SUFFICES ASSUME r \in R PROVE FALSE
      OBVIOUS
    <3>2. Len(table'[r]) = 0
      BY <1>2, <3>1
    <3> QED BY <3>2
  <2>2. table'[r] = table[r] /\ ntok'[r] = ntok[r]
    BY <1>2, <2>1
  <2>3. ref'[table'[r][i]] = 1
    BY <1>1 DEF BlocksInv, BlocksConserved
  <2>4. table[r][i] \in Blocks
    BY <2>2, TableEntry DEF HashInv, BlocksInv
  <2>5. hash'[table'[r][i]] = hash[table[r][i]]
    BY <1>2, <2>2, <2>3, <2>4
  <2> QED BY <2>2, <2>5 DEF HashInv, HashChained
<1> QED BY <1>1, <1>3, <1>4, <1>5 DEF HashInv, TablesFit, HashChained

(* The chains survive every step. *)
LEMMA HashStep ==
    ASSUME HashInv, [Next]_vars
    PROVE  HashInv'
<1>1. ASSUME UNCHANGED kvVars PROVE HashInv'
  BY <1>1 DEF HashInv, BlocksInv, KvTypes, BlocksConserved, BlocksOf, TablesFit, HashChained, kvVars
<1>2. ASSUME NEW p \in PromptLengths, NEW m \in MaxTokens, Admit(p, m)
      PROVE  HashInv'
  BY <1>1, <1>2 DEF Admit
<1>3. CASE Tick
  BY <1>1, <1>3 DEF Tick
<1>4. ASSUME PreemptOne
      PROVE  HashInv'
  <2>1. PICK v \in Active : ReleaseAll({v})
    BY <1>4 DEF PreemptOne
  <2>2. {v} \in SUBSET Owners
    BY <2>1 DEF Active, ActiveIn, InState
  <2> QED BY <2>1, <2>2, ReleaseHashes
<1>5. CASE PolicyPreempt
  BY <1>4, <1>5 DEF PolicyPreempt
<1>6. CASE Launch
  BY <1>1, <1>6 DEF Launch
<1>7. CASE Commit
  BY <1>1, <1>7 DEF Commit
<1>8. ASSUME NEW r \in Owners, Feed(r)
      PROVE  HashInv'
  BY <1>8, AppendHashes DEF Feed
<1>9. ASSUME NEW r \in Owners, FeedFails(r)
      PROVE  HashInv'
  BY <1>4, <1>9 DEF FeedFails
<1>10. CASE DrainCompleted
  <2>1. InState(state, {"Completed"}) \in SUBSET Owners
    BY DEF InState
  <2> QED BY <1>10, <2>1, ReleaseHashes DEF DrainCompleted
<1>11. CASE UNCHANGED vars
  BY <1>1, <1>11 DEF vars
<1> QED BY <1>2, <1>3, <1>5, <1>6, <1>7, <1>8, <1>9, <1>10, <1>11 DEF Next, Loop

(* The constructors leave an empty pool. *)
LEMMA HashInit ==
    ASSUME Init
    PROVE  HashInv
<1>2. /\ table = [r \in Owners |-> <<>>] /\ free = Blocks /\ ref = [b \in Blocks |-> 0]
      /\ ntok = [r \in Owners |-> 0] /\ hash = [b \in Blocks |-> NoHash]
  BY DEF Init, KvInit
<1>3. \A r \in Owners : Len(table[r]) = 0 /\ ntok[r] = 0
  BY <1>2
<1>4. \A r \in Owners : 1..Len(table[r]) = {}
  BY <1>3
<1>5. KvTypes
  BY <1>2 DEF KvTypes
<1>6. (0 - 1) * BlockSize < 0 /\ 0 <= 0 * BlockSize
  BY PoolAssumption
<1>7. TablesFit
  BY <1>3, <1>6 DEF TablesFit
<1>8. BlocksInv
  BY <1>2, <1>4, <1>5 DEF BlocksInv, BlocksConserved, BlocksOf
<1>9. ntok \in [Owners -> Nat] /\ DOMAIN hash = Blocks
  BY <1>2
<1> QED BY <1>4, <1>7, <1>8, <1>9 DEF HashInv, HashChained

(* A full block always carries the hash of the whole prefix it ends and a  *)
(* block that is being filled carries none, for any block size: recycled   *)
(* blocks bring no stale hash into a chain (appendToken, release).         *)
THEOREM HashChainedHolds == Spec => []HashChained
<1>1. Init => HashInv
  BY HashInit
<1>2. HashInv /\ [Next]_vars => HashInv'
  BY HashStep
<1>3. HashInv => HashChained
  BY DEF HashInv
<1> QED BY <1>1, <1>2, <1>3, PTL DEF Spec
-----------------------------------------------------------------------------
(* A nonempty set of naturals has a least element. *)
LEMMA LeastNat ==
    ASSUME NEW S \in SUBSET Nat, S # {}
    PROVE  \E m \in S : \A y \in S : m <= y
  <1> DEFINE R == {ss \in Nat \X Nat : ss[1] < ss[2]}
  <1>2. PICK m \in S : \A y \in S : ~(<<y, m>> \in R)
    <2>1. IsWellFoundedOn(R, Nat)
      BY NatLessThanWellFounded, Zenon DEF OpToRel
    <2> HIDE DEF R
    <2> QED BY <2>1, WFMin
  <1>3. \A y \in S : m <= y
    <2>1. m \in Nat /\ \A y \in S : y \in Nat
      BY <1>2
    <2>2. \A y \in Nat : y < m => <<y, m>> \in R
      BY <2>1
    <2> HIDE DEF R
    <2>3. ASSUME NEW y \in S PROVE ~(y < m)
      BY <2>1, <2>2, <2>3, <1>2
    <2> QED BY <2>1, <2>3
  <1> QED BY <1>2, <1>3

(* What the requests in S have pending. *)
PendingSum(q, S) == MapThenSumSet(LAMBDA s : q[s].pending, S)

(* A sum over a finite set is a number.  The library defines the sum by a  *)
(* recursive function on the subsets of S: that one exists is shown by the *)
(* least size of a subset for which it would not.                          *)
LEMMA SumNat ==
    ASSUME NEW S, IsFiniteSet(S), NEW q, \A s \in S : q[s].pending \in Nat
    PROVE  PendingSum(q, S) \in Nat
  <1> DEFINE ch(s) == CHOOSE x \in s : TRUE
             body(g) == [s \in SUBSET S |-> IF s = {} THEN 0 ELSE q[ch(s)].pending + g[s \ {ch(s)}]]
             fold == CHOOSE g : g = body(g)
  <1>1. PendingSum(q, S) = fold[S]
    BY DEF PendingSum, MapThenSumSet, MapThenFoldSet
  <1> DEFINE Solves(g, n) ==
                 \A s \in SUBSET S : Cardinality(s) <= n =>
                     g[s] = IF s = {} THEN 0 ELSE q[ch(s)].pending + g[s \ {ch(s)}]
  <1>2. \A s \in SUBSET S : IsFiniteSet(s) /\ Cardinality(s) \in Nat
    BY FS_Subset, FS_CardinalityType
  <1>3. ASSUME NEW s \in SUBSET S, s # {}
        PROVE  /\ ch(s) \in S /\ s \ {ch(s)} \in SUBSET S
               /\ Cardinality(s \ {ch(s)}) = Cardinality(s) - 1
    <2>1. ch(s) \in s
      BY <1>3
    <2> HIDE DEF ch
    <2> QED BY <1>2, <2>1, FS_RemoveElement
  <1>4. \A s \in SUBSET S : Cardinality(s) = 0 => s = {}
    BY <1>2, FS_EmptySet
  <1> HIDE DEF ch
  <1>5. \A n \in Nat : \E g : Solves(g, n)
    <2> DEFINE Bad == {n \in Nat : ~ \E g : Solves(g, n)}
    <2>1. SUFFICES ASSUME Bad # {} PROVE FALSE
      OBVIOUS
    <2>2. PICK m \in Bad : \A y \in Bad : m <= y
      BY <2>1, LeastNat
    <2>3. Solves([s \in SUBSET S |-> 0], 0)
      <3>1. ASSUME NEW s \in SUBSET S, Cardinality(s) <= 0 PROVE s = {}
        BY <1>2, <1>4, <3>1
      <3>2. \A s \in SUBSET S : [x \in SUBSET S |-> 0][s] = 0
        OBVIOUS
      <3> QED BY <3>1, <3>2, Zenon
    <2>4. m # 0 /\ m \in Nat
      <3>1. m \in Nat /\ ~ \E g : Solves(g, m)
        BY <2>2
      <3> HIDE DEF Solves
      <3> QED BY <2>3, <3>1
    <2>5. m - 1 \in Nat /\ m - 1 \notin Bad
      <3> HIDE DEF Bad
      <3> QED BY <2>2, <2>4
    <2>6. PICK g : Solves(g, m - 1)
      BY <2>5
    <2> DEFINE h == [s \in SUBSET S |->
                       IF Cardinality(s) <= m - 1 THEN g[s]
                       ELSE q[ch(s)].pending + g[s \ {ch(s)}]]
    <2>7. ASSUME NEW s \in SUBSET S, Cardinality(s) <= m
          PROVE  h[s] = IF s = {} THEN 0 ELSE q[ch(s)].pending + h[s \ {ch(s)}]
      <3>1. CASE s = {}
        <4>1. Cardinality(s) = 0
          BY <3>1, FS_EmptySet
        <4>2. Cardinality(s) <= m - 1
          BY <2>5, <4>1
        <4>4. g[s] = 0
          BY <2>6, <3>1, <4>2, Zenon
        <4>3. h[s] = g[s]
          BY <2>5, <4>1
        <4> QED BY <3>1, <4>3, <4>4, Zenon
      <3>2. CASE s # {}
        <4>1. s \ {ch(s)} \in SUBSET S /\ Cardinality(s \ {ch(s)}) <= m - 1
          BY <1>2, <1>3, <2>4, <2>7, <3>2
        <4>2. h[s \ {ch(s)}] = g[s \ {ch(s)}]
          BY <4>1
        <4>3. CASE Cardinality(s) <= m - 1
          BY <2>6, <3>2, <4>2, <4>3
        <4>4. CASE ~(Cardinality(s) <= m - 1)
          BY <3>2, <4>2, <4>4
        <4> QED BY <4>3, <4>4
      <3> QED BY <3>1, <3>2
    <2>8. Solves(h, m)
      BY <2>7
    <2> QED BY <2>2, <2>8
  <1>6. fold = body(fold)
    <2>1. PICK g : Solves(g, Cardinality(S))
      BY <1>2, <1>5
    <2> DEFINE h == [s \in SUBSET S |-> g[s]]
    <2>2. ASSUME NEW s \in SUBSET S
          PROVE  h[s] = IF s = {} THEN 0 ELSE q[ch(s)].pending + h[s \ {ch(s)}]
      <3>1. Cardinality(s) <= Cardinality(S)
        BY FS_Subset
      <3> QED BY <2>1, <3>1
    <2>3. h = body(h)
      BY <2>2
    <2> HIDE DEF body, h
    <2> QED BY <2>3
  <1>7. ASSUME NEW s \in SUBSET S
        PROVE  fold[s] = IF s = {} THEN 0 ELSE q[ch(s)].pending + fold[s \ {ch(s)}]
    <2> HIDE DEF fold
    <2> QED BY <1>6
  <1> HIDE DEF fold
  <1> DEFINE Bad == {n \in Nat : \E s \in SUBSET S : Cardinality(s) = n /\ fold[s] \notin Nat}
  <1>8. ASSUME Bad # {} PROVE FALSE
    <2>1. PICK m \in Bad : \A y \in Bad : m <= y
      BY <1>8, LeastNat
    <2>2. PICK s \in SUBSET S : Cardinality(s) = m /\ fold[s] \notin Nat
      BY <2>1
    <2>3. s # {}
      <3>1. s = {} => fold[s] = 0
        BY <1>7, Zenon
      <3> QED BY <2>2, <3>1
    <2>4. Cardinality(s \ {ch(s)}) \notin Bad
      BY <1>2, <1>3, <2>1, <2>2, <2>3
    <2>5. fold[s \ {ch(s)}] \in Nat
      BY <1>2, <1>3, <2>3, <2>4
    <2>6. fold[s] = q[ch(s)].pending + fold[s \ {ch(s)}]
      BY <1>7, <2>3
    <2>7. q[ch(s)].pending \in Nat
      BY <1>3, <2>3
    <2> QED BY <2>2, <2>5, <2>6, <2>7
  <1>9. fold[S] \in Nat
    <2>1. Cardinality(S) \in Nat /\ S \in SUBSET S
      BY <1>2
    <2>2. fold[S] \notin Nat => Cardinality(S) \in Bad
      BY <2>1
    <2> QED BY <1>8, <2>2
  <1> QED BY <1>1, <1>9
-----------------------------------------------------------------------------
(* Tokens of the sequence of r that the counters account for. *)
Done(r) == (req[r].prompt - req[r].pending) + req[r].decoded

SyncTypes ==
    /\ req \in [Owners -> [prompt : Nat, pending : Nat, decoded : Nat, max : Nat]]
    /\ phase \in Phases
    /\ sched \in [decodes : SUBSET Owners, chunk : [Owners -> Nat]]

(* What the schedule in execution may say about r: it was made for the     *)
(* state r was in at the tick, which only a preemption has changed since.  *)
SchedAt(r) ==
    /\ sched.chunk[r] <= req[r].pending
    /\ sched.chunk[r] > 0 => state[r] \in {"Prefilling", "Preempted"}
    /\ r \in sched.decodes => state[r] \in {"Decoding", "Preempted"}
    /\ phase = "idle" => sched.chunk[r] = 0 /\ r \notin sched.decodes

SyncAt(r) ==
    /\ req[r].pending <= req[r].prompt
    /\ state[r] \in {"Absent", "Waiting", "Drained"} => ntok[r] = 0 /\ Done(r) = 0
    /\ state[r] = "Preempted" => ntok[r] = 0
    /\ state[r] = "Completed" => ntok[r] = Done(r)
    /\ state[r] \in {"Prefilling", "Decoding"} =>
          IF phase = "feeding" THEN Done(r) <= ntok[r] /\ ntok[r] <= Target(r)
          ELSE ntok[r] = Done(r)

SyncInv ==
    /\ HashInv /\ OrderInv /\ SyncTypes
    /\ \A r \in Owners : SchedAt(r) /\ SyncAt(r)

(* The parts of a typed state, and the numbers made of them. *)
LEMMA SyncParts ==
    ASSUME SyncInv, NEW r \in Owners
    PROVE  /\ req[r].prompt \in Nat /\ req[r].pending \in Nat /\ req[r].decoded \in Nat
           /\ req[r] \in [prompt : Nat, pending : Nat, decoded : Nat, max : Nat]
           /\ sched.chunk[r] \in Nat /\ ntok[r] \in Nat /\ state[r] \in States
           /\ Done(r) \in Int /\ Target(r) \in Int
           /\ Target(r) = Done(r) + sched.chunk[r] + (IF r \in sched.decodes THEN 1 ELSE 0)
<1>1. /\ req[r] \in [prompt : Nat, pending : Nat, decoded : Nat, max : Nat]
      /\ sched.chunk \in [Owners -> Nat] /\ ntok \in [Owners -> Nat]
      /\ state \in [Owners -> States]
  BY DEF SyncInv, SyncTypes, HashInv, OrderInv
<1> QED BY <1>1 DEF Done, Target

(* Nothing of r but the phase changes, and that not across a commit. *)
LEMMA SyncKept ==
    ASSUME SyncInv, NEW r \in Owners, state'[r] = state[r], req'[r] = req[r],
           ntok'[r] = ntok[r], sched' = sched,
           phase' = phase \/ (phase = "ticked" /\ phase' = "feeding")
    PROVE  SchedAt(r)' /\ SyncAt(r)'
<1>1. Done(r)' = Done(r) /\ Target(r)' = Target(r)
  BY DEF Done, Target
<1>2. SchedAt(r) /\ SyncAt(r)
  BY DEF SyncInv
<1>3. SchedAt(r)'
  BY <1>2 DEF SchedAt
<1>4. Done(r) <= Target(r)
  BY SyncParts
<1>5. ntok[r] \in Nat /\ Done(r) \in Int /\ Target(r) \in Int
  BY SyncParts
<1> QED BY <1>1, <1>2, <1>3, <1>4, <1>5 DEF SyncAt

(* preemptOne: the victim's sequence is empty, the others are as before.   *)
LEMMA SyncPreempt ==
    ASSUME SyncInv, PreemptOne, req' = req, sched' = sched,
           phase' = phase \/ (phase = "ticked" /\ phase' = "feeding"),
           phase # "idle"
    PROVE  \A r \in Owners : SchedAt(r)' /\ SyncAt(r)'
<1>1. PICK v \in Active : /\ state' = [state EXCEPT ![v] = "Preempted"]
                          /\ ReleaseAll({v})
  BY DEF PreemptOne
<1>2. v \in Owners /\ state[v] \in {"Prefilling", "Decoding"}
  BY <1>1 DEF Active, ActiveIn, InState
<1>3. state \in [Owners -> States] /\ ntok' = [r \in Owners |-> IF r \in {v} THEN 0 ELSE ntok[r]]
  BY <1>1 DEF SyncInv, OrderInv, ReleaseAll
<1>4. /\ \A r \in Owners \ {v} : state'[r] = state[r] /\ ntok'[r] = ntok[r]
      /\ state'[v] = "Preempted" /\ ntok'[v] = 0
  BY <1>1, <1>2, <1>3
<1>5. \A r \in Owners \ {v} : SchedAt(r)' /\ SyncAt(r)'
  BY <1>4, SyncKept
<1>6. SchedAt(v) /\ SyncAt(v)
  BY <1>2 DEF SyncInv
<1>7. SchedAt(v)'
  BY <1>2, <1>4, <1>6 DEF SchedAt
<1>8. SyncAt(v)'
  BY <1>4, <1>6 DEF SyncAt
<1> QED BY <1>5, <1>7, <1>8

(* The chunk ChunkedPrefillScheduler gives a request is a number, at most  *)
(* what is pending, and only prefilling requests get one.                  *)
LEMMA ScheduleTyped ==
    ASSUME NEW st \in [Owners -> States], NEW q, \A r \in Owners : q[r].pending \in Nat
    PROVE  /\ Schedule(st, q) \in [decodes : SUBSET Owners, chunk : [Owners -> Nat]]
           /\ \A r \in Owners : /\ Schedule(st, q).chunk[r] <= q[r].pending
                                /\ Schedule(st, q).chunk[r] > 0 => st[r] = "Prefilling"
                                /\ r \in Schedule(st, q).decodes => st[r] = "Decoding"
<1> DEFINE decoding   == InState(st, {"Decoding"})
           prefilling == InState(st, {"Prefilling"})
           decodes == {r \in decoding : Cardinality(Before(decoding, r)) < TokenBudget}
           ahead(r) == MapThenSumSet(LAMBDA s : q[s].pending, Before(prefilling, r))
           left(r) == TokenBudget - Cardinality(decodes) - ahead(r)
           chunk(r) == IF r \in prefilling /\ left(r) > 0
                       THEN IF left(r) < q[r].pending THEN left(r) ELSE q[r].pending
                       ELSE 0
<1>1. decodes \subseteq Owners /\ prefilling \subseteq Owners
  BY DEF InState
<1>2. Cardinality(decodes) \in Nat
  BY <1>1, OwnersFinite, FS_Subset, FS_CardinalityType
<1>3. ASSUME NEW r \in Owners PROVE left(r) \in Int
  <2>1. Before(prefilling, r) \subseteq Owners
    BY <1>1 DEF Before
  <2>2. IsFiniteSet(Before(prefilling, r))
    BY <2>1, OwnersFinite, FS_Subset
  <2>3. \A s \in Before(prefilling, r) : q[s].pending \in Nat
    BY <2>1
  <2>4. ahead(r) \in Nat
    <3>1. PendingSum(q, Before(prefilling, r)) \in Nat
      BY <2>2, <2>3, SumNat
    <3> QED BY <3>1 DEF PendingSum
  <2> HIDE DEF ahead, decodes
  <2> QED BY <1>2, <2>4, SchedulerAssumption
<1>4. Schedule(st, q) = [decodes |-> decodes, chunk |-> [r \in Owners |-> chunk(r)]]
  BY DEF Schedule
<1> HIDE DEF left
<1>5. ASSUME NEW r \in Owners
      PROVE  /\ chunk(r) \in Nat /\ chunk(r) <= q[r].pending
             /\ chunk(r) > 0 => r \in prefilling
  BY <1>3
<1>6. \A r \in Owners : /\ r \in prefilling => st[r] = "Prefilling"
                        /\ r \in decodes => st[r] = "Decoding"
  BY DEF InState
<1> HIDE DEF chunk, decodes, prefilling
<1> QED BY <1>1, <1>4, <1>5, <1>6

(* tick: a request that starts, or starts again, has computed nothing.     *)
LEMMA SyncTick ==
    ASSUME SyncInv, Tick
    PROVE  SyncTypes' /\ \A r \in Owners : SchedAt(r)' /\ SyncAt(r)'
<1>1. /\ req' = Restarted /\ phase' = "ticked" /\ phase = "idle" /\ ntok' = ntok
      /\ sched' = Schedule(state', req')
  BY DEF Tick, kvVars
<1>2. ASSUME NEW r \in Owners
      PROVE  /\ req'[r] \in [prompt : Nat, pending : Nat, decoded : Nat, max : Nat]
             /\ req'[r].pending <= req'[r].prompt
             /\ state[r] = "Preempted" => Done(r)' = 0 /\ ntok[r] = 0
             /\ state[r] # "Preempted" => req'[r] = req[r]
  <2>1. req'[r] = IF state[r] = "Preempted"
                  THEN [req[r] EXCEPT !.pending = req[r].prompt, !.decoded = 0] ELSE req[r]
    BY <1>1 DEF Restarted
  <2>2. /\ req[r] \in [prompt : Nat, pending : Nat, decoded : Nat, max : Nat]
        /\ SyncAt(r)
    BY SyncParts DEF SyncInv
  <2>3. CASE state[r] = "Preempted"
    <3>1. req'[r].prompt = req[r].prompt /\ req'[r].pending = req[r].prompt /\ req'[r].decoded = 0
      BY <2>1, <2>2, <2>3
    <3>2. Done(r)' = (req'[r].prompt - req'[r].pending) + req'[r].decoded
      BY DEF Done
    <3>3. Done(r)' = 0
      BY <2>2, <3>1, <3>2
    <3>4. req'[r] \in [prompt : Nat, pending : Nat, decoded : Nat, max : Nat]
      <4>1. req[r].prompt \in Nat /\ 0 \in Nat
        BY <2>2
      <4>2. req'[r] = [req[r] EXCEPT !.pending = req[r].prompt, !.decoded = 0]
        BY <2>1, <2>3
      <4> QED BY <2>2, <4>1, <4>2, Zenon
    <3> QED BY <2>2, <2>3, <3>1, <3>3, <3>4 DEF SyncAt
  <2>4. CASE state[r] # "Preempted"
    BY <2>1, <2>2, <2>4 DEF SyncAt
  <2> QED BY <2>3, <2>4
<1>3. req' \in [Owners -> [prompt : Nat, pending : Nat, decoded : Nat, max : Nat]]
  BY <1>1, <1>2 DEF Restarted
<1>4. /\ state' \in [Owners -> States]
      /\ \A r \in Owners : \/ state'[r] = state[r] /\ state[r] # "Preempted"
                           \/ /\ state[r] \in {"Waiting", "Preempted"}
                              /\ state'[r] \in {"Waiting", "Prefilling", "Decoding"}
  <2>1. OrderInv'
    BY OrderStep DEF SyncInv, Next, Loop
  <2>2. ASSUME NEW r \in Owners
        PROVE  Reenqueued[r] = IF state[r] = "Preempted" THEN "Waiting" ELSE state[r]
    BY DEF Reenqueued
  <2>3. ASSUME NEW r \in Owners
        PROVE  \/ state'[r] = Reenqueued[r]
               \/ Reenqueued[r] = "Waiting" /\ state'[r] \in {"Prefilling", "Decoding"}
    BY DEF Tick, Promoted, InState
  <2> QED BY <2>1, <2>2, <2>3 DEF OrderInv
<1>5. /\ sched' \in [decodes : SUBSET Owners, chunk : [Owners -> Nat]]
      /\ \A r \in Owners : /\ sched'.chunk[r] <= req'[r].pending
                           /\ sched'.chunk[r] > 0 => state'[r] = "Prefilling"
                           /\ r \in sched'.decodes => state'[r] = "Decoding"
  BY <1>1, <1>2, <1>4, ScheduleTyped
<1>6. SyncTypes'
  BY <1>1, <1>3, <1>5 DEF SyncTypes, Phases
<1>7. ASSUME NEW r \in Owners PROVE SchedAt(r)' /\ SyncAt(r)'
  <2>1. SchedAt(r)'
    BY <1>1, <1>5 DEF SchedAt
  <2>2. SyncAt(r)
    BY DEF SyncInv
  <2>3. CASE state'[r] = state[r] /\ state[r] # "Preempted"
    <3>1. Done(r)' = Done(r)
      BY <1>2, <2>3 DEF Done
    <3> QED BY <1>1, <1>2, <2>1, <2>2, <2>3, <3>1 DEF SyncAt
  <2>4. CASE /\ state[r] \in {"Waiting", "Preempted"}
             /\ state'[r] \in {"Waiting", "Prefilling", "Decoding"}
    <3>1. Done(r)' = 0 /\ ntok'[r] = 0
      <4>1. CASE state[r] = "Preempted"
        BY <1>1, <1>2, <4>1
      <4>2. CASE state[r] = "Waiting"
        BY <1>1, <1>2, <2>2, <4>2 DEF Done, SyncAt
      <4> QED BY <2>4, <4>1, <4>2
    <3> QED BY <1>1, <1>2, <2>1, <2>4, <3>1 DEF SyncAt
  <2> QED BY <1>4, <2>1, <2>3, <2>4
<1> QED BY <1>6, <1>7

(* commitProgress: what was fed is what the counters are advanced by.      *)
LEMMA SyncCommit ==
    ASSUME SyncInv, Commit
    PROVE  SyncTypes' /\ \A r \in Owners : SchedAt(r)' /\ SyncAt(r)'
<1>1. PICK eos \in SUBSET sched.decodes : state' = [r \in Owners |-> StateAfter(r, eos)]
  BY DEF Commit
<1>2. /\ phase = "feeding" /\ ToFeed = {} /\ req' = [r \in Owners |-> Advanced(r)]
      /\ phase' = "idle" /\ sched' = NoSchedule /\ ntok' = ntok
  BY DEF Commit, kvVars
<1>3. /\ sched' \in [decodes : SUBSET Owners, chunk : [Owners -> Nat]]
      /\ \A r \in Owners : sched'.chunk[r] = 0 /\ r \notin sched'.decodes
  BY <1>2 DEF NoSchedule
<1>4. ASSUME NEW r \in Owners
      PROVE  /\ req'[r] \in [prompt : Nat, pending : Nat, decoded : Nat, max : Nat]
             /\ SyncAt(r)' /\ SchedAt(r)'
  <2>1. req'[r] = Advanced(r) /\ state'[r] = StateAfter(r, eos) /\ ntok'[r] = ntok[r]
    BY <1>1, <1>2
  <2>2. SchedAt(r) /\ SyncAt(r)
    BY DEF SyncInv
  <2>3. /\ req[r].prompt \in Nat /\ req[r].pending \in Nat /\ req[r].decoded \in Nat
        /\ req[r] \in [prompt : Nat, pending : Nat, decoded : Nat, max : Nat]
        /\ sched.chunk[r] \in Nat /\ ntok[r] \in Nat
        /\ Done(r) \in Int /\ Target(r) \in Int
        /\ Target(r) = Done(r) + sched.chunk[r] + (IF r \in sched.decodes THEN 1 ELSE 0)
    BY SyncParts
  <2>4. state[r] \in {"Prefilling", "Decoding"} => ntok[r] = Target(r)
    <3>1. state[r] \in {"Prefilling", "Decoding"} => ~(ntok[r] < Target(r))
      BY <1>2 DEF ToFeed, Active, ActiveIn, InState
    <3> QED BY <1>2, <2>2, <2>3, <3>1 DEF SyncAt
  <2>5. CASE state[r] = "Prefilling"
    <3>1. r \notin sched.decodes /\ sched.chunk[r] <= req[r].pending
      BY <2>2, <2>5 DEF SchedAt
    <3>2. req'[r] = [req[r] EXCEPT !.pending = req[r].pending - sched.chunk[r]]
      <4>1. CASE sched.chunk[r] >= req[r].pending
        <5>1. req[r].pending - sched.chunk[r] = 0
          BY <2>3, <3>1, <4>1
        <5> QED BY <2>1, <2>5, <4>1, <5>1 DEF Advanced
      <4>2. CASE ~(sched.chunk[r] >= req[r].pending)
        BY <2>1, <2>5, <4>2 DEF Advanced
      <4> QED BY <4>1, <4>2
    <3>3. /\ req'[r].prompt = req[r].prompt /\ req'[r].decoded = req[r].decoded
          /\ req'[r].pending = req[r].pending - sched.chunk[r]
          /\ req[r].pending - sched.chunk[r] \in Nat
      BY <2>3, <3>1, <3>2
    <3>4. state'[r] \in {"Prefilling", "Decoding"}
      BY <2>1, <2>5 DEF StateAfter
    <3>5. Done(r)' = Target(r) /\ req'[r].pending <= req'[r].prompt
      BY <2>2, <2>3, <3>1, <3>3 DEF Done, SyncAt
    <3>6. req'[r] \in [prompt : Nat, pending : Nat, decoded : Nat, max : Nat]
      BY <2>3, <3>2, <3>3
    <3>7. SchedAt(r)'
      BY <1>2, <1>3, <3>3 DEF SchedAt
    <3>8. SyncAt(r)'
      BY <1>2, <2>1, <2>4, <2>5, <3>4, <3>5 DEF SyncAt
    <3> QED BY <3>6, <3>7, <3>8
  <2>6. CASE state[r] = "Decoding" /\ r \in sched.decodes
    <3>1. sched.chunk[r] = 0
      BY <2>2, <2>3, <2>6 DEF SchedAt
    <3>2. req'[r] = [req[r] EXCEPT !.decoded = @ + 1]
      BY <2>1, <2>6 DEF Advanced
    <3>3. /\ req'[r].prompt = req[r].prompt /\ req'[r].decoded = req[r].decoded + 1
          /\ req'[r].pending = req[r].pending
      BY <2>3, <3>2
    <3>4. state'[r] \in {"Decoding", "Completed"}
      BY <2>1, <2>6 DEF StateAfter
    <3>5. Done(r)' = Target(r) /\ req'[r].pending <= req'[r].prompt
      BY <2>2, <2>3, <2>6, <3>1, <3>3 DEF Done, SyncAt
    <3>6. req'[r] \in [prompt : Nat, pending : Nat, decoded : Nat, max : Nat]
      BY <2>3, <3>2
    <3>7. SchedAt(r)'
      BY <1>2, <1>3, <2>3, <3>3 DEF SchedAt
    <3>8. SyncAt(r)'
      BY <1>2, <2>1, <2>4, <2>6, <3>4, <3>5 DEF SyncAt
    <3> QED BY <3>6, <3>7, <3>8
  <2>7. CASE state[r] # "Prefilling" /\ ~(state[r] = "Decoding" /\ r \in sched.decodes)
    <3>1. req'[r] = req[r] /\ state'[r] = state[r]
      BY <2>1, <2>7 DEF Advanced, StateAfter
    <3>2. Done(r)' = Done(r)
      BY <3>1 DEF Done
    <3>3. state[r] = "Decoding" => Target(r) = Done(r)
      BY <2>2, <2>3, <2>7 DEF SchedAt
    <3>4. SchedAt(r)'
      BY <1>2, <1>3, <2>3, <3>1 DEF SchedAt
    <3>5. SyncAt(r)'
      BY <1>2, <2>1, <2>2, <2>4, <2>7, <3>1, <3>2, <3>3 DEF SyncAt
    <3> QED BY <2>3, <3>1, <3>4, <3>5
  <2> QED BY <2>5, <2>6, <2>7
<1>5. req' \in [Owners -> [prompt : Nat, pending : Nat, decoded : Nat, max : Nat]]
  BY <1>2, <1>4
<1>6. SyncTypes'
  BY <1>2, <1>3, <1>5 DEF SyncTypes, Phases
<1> QED BY <1>4, <1>6

(* The counters and the sequences stay in step through every step.         *)
LEMMA SyncStep ==
    ASSUME SyncInv, [Next]_vars
    PROVE  SyncInv'
<1>1. HashInv' /\ OrderInv'
  BY HashStep, OrderStep DEF SyncInv
<1>2. SyncTypes /\ \A r \in Owners : SchedAt(r) /\ SyncAt(r)
  BY DEF SyncInv
<1> SUFFICES SyncTypes' /\ \A x \in Owners : SchedAt(x)' /\ SyncAt(x)'
  BY <1>1 DEF SyncInv
<1>3. ASSUME NEW p \in PromptLengths, NEW m \in MaxTokens, Admit(p, m)
      PROVE  SyncTypes' /\ \A x \in Owners : SchedAt(x)' /\ SyncAt(x)'
  <2>0. PICK n : n = nextId
    OBVIOUS
  <2>1. /\ p \in Nat /\ m \in Nat /\ n \in Owners /\ n = nextId
        /\ state[n] = "Absent" /\ state \in [Owners -> States]
    <3>1. p \in Nat /\ m \in Nat /\ nextId \in Nat
      BY SchedulerAssumption DEF SyncInv, OrderInv
    <3>2. nextId # 0
      BY DEF SyncInv, OrderInv
    <3> QED BY <1>3, <2>0, <3>1, <3>2, SchedulerAssumption DEF Admit, SyncInv, OrderInv
  <2>2. /\ req' = [req EXCEPT ![n] =
                     [prompt |-> p, pending |-> p, decoded |-> 0, max |-> m]]
        /\ state' = [state EXCEPT ![n] = "Waiting"]
        /\ phase' = phase /\ sched' = sched /\ ntok' = ntok
    BY <1>3, <2>0 DEF Admit, kvVars
  <2>3. SyncTypes'
    BY <1>2, <2>1, <2>2 DEF SyncTypes
  <2>4. \A r \in Owners \ {n} : state'[r] = state[r] /\ req'[r] = req[r] /\ ntok'[r] = ntok[r]
    BY <1>2, <2>1, <2>2 DEF SyncTypes
  <2>5. \A r \in Owners \ {n} : SchedAt(r)' /\ SyncAt(r)'
    BY <2>2, <2>4, SyncKept
  <2>6. /\ state'[n] = "Waiting" /\ req'[n].prompt = p
        /\ req'[n].pending = p /\ req'[n].decoded = 0
    BY <1>2, <2>1, <2>2 DEF SyncTypes
  <2>7. SchedAt(n) /\ SyncAt(n) /\ sched.chunk[n] \in Nat
    BY <1>2, <2>1, SyncParts
  <2>8. sched.chunk[n] = 0 /\ n \notin sched.decodes
    BY <2>1, <2>7 DEF SchedAt
  <2>9. SchedAt(n)'
    BY <2>1, <2>2, <2>6, <2>8 DEF SchedAt
  <2>10. SyncAt(n)'
    BY <2>1, <2>2, <2>6, <2>7 DEF SyncAt, Done
  <2> QED BY <2>3, <2>5, <2>9, <2>10
<1>4. CASE Tick
  BY <1>4, SyncTick
<1>5. CASE PolicyPreempt
  <2>1. /\ PreemptOne /\ req' = req /\ sched' = sched
        /\ phase = "ticked" /\ phase' = "feeding"
    BY <1>5 DEF PolicyPreempt
  <2> QED BY <1>2, <2>1, SyncPreempt DEF SyncTypes, Phases
<1>6. CASE Launch
  <2>1. /\ state' = state /\ req' = req /\ sched' = sched /\ ntok' = ntok
        /\ phase = "ticked" /\ phase' = "feeding"
    BY <1>6 DEF Launch, kvVars
  <2> QED BY <1>2, <2>1, SyncKept DEF SyncTypes, Phases
<1>7. CASE Commit
  BY <1>7, SyncCommit
<1>8. ASSUME NEW r \in Owners, Feed(r)
      PROVE  SyncTypes' /\ \A x \in Owners : SchedAt(x)' /\ SyncAt(x)'
  <2>1. /\ state' = state /\ req' = req /\ sched' = sched /\ phase' = phase
        /\ phase = "feeding" /\ r \in ToFeed /\ ntok' = [ntok EXCEPT ![r] = @ + 1]
    BY <1>8 DEF Feed, AppendToken, Appended
  <2>2. ntok \in [Owners -> Nat]
    BY DEF SyncInv, HashInv
  <2>3. SyncTypes'
    BY <1>2, <2>1 DEF SyncTypes
  <2>4. \A x \in Owners \ {r} : SchedAt(x)' /\ SyncAt(x)'
    BY <2>1, <2>2, SyncKept
  <2>5. SchedAt(r) /\ SyncAt(r) /\ ntok[r] < Target(r) /\ state[r] \in {"Prefilling", "Decoding"}
    BY <1>2, <2>1 DEF ToFeed, Active, ActiveIn, InState
  <2>6. Done(r)' = Done(r) /\ Target(r)' = Target(r) /\ ntok'[r] = ntok[r] + 1
    BY <2>1, <2>2 DEF Done, Target
  <2>7. SchedAt(r)'
    BY <2>1, <2>5 DEF SchedAt
  <2>8. ntok[r] \in Nat /\ Done(r) \in Int /\ Target(r) \in Int
    BY SyncParts
  <2>9. SyncAt(r)'
    BY <2>1, <2>5, <2>6, <2>8 DEF SyncAt
  <2> QED BY <2>3, <2>4, <2>7, <2>9
<1>9. ASSUME NEW r \in Owners, FeedFails(r)
      PROVE  SyncTypes' /\ \A x \in Owners : SchedAt(x)' /\ SyncAt(x)'
  <2>1. PreemptOne /\ req' = req /\ sched' = sched /\ phase = "feeding" /\ phase' = phase
    BY <1>9 DEF FeedFails
  <2> QED BY <1>2, <2>1, SyncPreempt DEF SyncTypes
<1>10. CASE DrainCompleted
  <2> DEFINE R == InState(state, {"Completed"})
  <2>1. /\ state' = [r \in Owners |-> IF r \in R THEN "Drained" ELSE state[r]]
        /\ req' = [r \in Owners |-> IF r \in R THEN NoRequest ELSE req[r]]
        /\ ntok' = [r \in Owners |-> IF r \in R THEN 0 ELSE ntok[r]]
        /\ phase' = phase /\ sched' = sched
    BY <1>10 DEF DrainCompleted, ReleaseAll
  <2>2. \A r \in R : r \in Owners /\ state[r] = "Completed"
    BY DEF InState
  <2> HIDE DEF R
  <2>3. SyncTypes'
    BY <1>2, <2>1 DEF SyncTypes, NoRequest
  <2>4. ASSUME NEW r \in Owners \ R PROVE SchedAt(r)' /\ SyncAt(r)'
    BY <2>1, SyncKept
  <2>5. ASSUME NEW r \in R PROVE SchedAt(r)' /\ SyncAt(r)'
    <3>1. /\ state'[r] = "Drained" /\ ntok'[r] = 0 /\ req'[r] = NoRequest /\ r \in Owners
      BY <2>1, <2>2
    <3>2. SchedAt(r) /\ sched.chunk[r] \in Nat
      BY <1>2, <2>2, SyncParts
    <3>3. sched.chunk[r] = 0 /\ r \notin sched.decodes
      BY <2>2, <3>2 DEF SchedAt
    <3>4. SchedAt(r)'
      BY <2>1, <3>1, <3>3 DEF SchedAt, NoRequest
    <3>5. SyncAt(r)'
      BY <3>1 DEF SyncAt, Done, NoRequest
    <3> QED BY <3>4, <3>5
  <2> QED BY <2>3, <2>4, <2>5
<1>11. CASE UNCHANGED vars
  <2>1. /\ state' = state /\ req' = req /\ sched' = sched /\ ntok' = ntok /\ phase' = phase
    BY <1>11 DEF vars, kvVars
  <2> QED BY <1>2, <2>1, SyncKept DEF SyncTypes
<1> QED BY <1>3, <1>4, <1>5, <1>6, <1>7, <1>8, <1>9, <1>10, <1>11 DEF Next, Loop

(* Through partial feeds, preemption in the middle of an executed schedule *)
(* and recompute, the sequence of a request holds what the scheduler's     *)
(* counters say, in just enough blocks, for any budget, block size and     *)
(* number of requests (feedPrefillTokens against commitProgress).          *)
THEOREM KvInSyncHolds == Spec => []KvInSync
<1>1. Init => SyncInv
  <2>1. SUFFICES ASSUME Init PROVE SyncInv
    OBVIOUS
  <2>2. HashInv /\ OrderInv
    BY <2>1, HashInit, OrderInit
  <2>3. /\ req = [r \in Owners |-> NoRequest] /\ state = [r \in Owners |-> "Absent"]
        /\ ntok = [r \in Owners |-> 0] /\ sched = NoSchedule /\ phase = "idle"
    BY <2>1 DEF Init, KvInit
  <2>4. SyncTypes
    BY <2>3 DEF SyncTypes, NoRequest, NoSchedule, Phases
  <2>5. \A r \in Owners : SchedAt(r) /\ SyncAt(r)
    BY <2>3 DEF SchedAt, SyncAt, Done, NoRequest, NoSchedule
  <2> QED BY <2>2, <2>4, <2>5 DEF SyncInv
<1>2. SyncInv /\ [Next]_vars => SyncInv'
  BY SyncStep
<1>3. SyncInv => KvInSync
  <2>1. SUFFICES ASSUME SyncInv, NEW r \in Owners
                 PROVE  LET done == (req[r].prompt - req[r].pending) + req[r].decoded
                            reached == IF r \in Active /\ phase # "idle" THEN Target(r) ELSE done
                        IN  IF state[r] = "Preempted" THEN ntok[r] = 0
                            ELSE ntok[r] \in done..reached
    BY DEF KvInSync, SyncInv, HashInv, TablesFit
  <2>2. SyncAt(r) /\ Done(r) <= Target(r) /\ state[r] \in States
    BY <2>1, SyncParts DEF SyncInv
  <2>3. ntok[r] \in Nat /\ Done(r) \in Int /\ Target(r) \in Int
    BY <2>1, SyncParts
  <2>4. r \in Active <=> state[r] \in {"Prefilling", "Decoding"}
    BY DEF Active, ActiveIn, InState
  <2>5. phase \in {"idle", "ticked", "feeding"}
    BY <2>1 DEF SyncInv, SyncTypes, Phases
  <2>6. state[r] # "Preempted" =>
           /\ Done(r) <= ntok[r]
           /\ ntok[r] <= IF r \in Active /\ phase # "idle" THEN Target(r) ELSE Done(r)
    BY <2>2, <2>3, <2>4, <2>5 DEF SyncAt, States
  <2>7. state[r] = "Preempted" => ntok[r] = 0
    BY <2>2 DEF SyncAt
  <2> QED BY <2>3, <2>6, <2>7 DEF Done
<1> QED BY <1>1, <1>2, <1>3, PTL DEF Spec
=============================================================================
