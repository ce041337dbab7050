---------------------- MODULE ContinuousBatcherProofs ----------------------
(***************************************************************************)
(* Theorems about ContinuousBatcher, for every number of slots, requests   *)
(* and prompts and every setting of the switches: a request owed an answer *)
(* is in exactly one place, the in-flight bound holds, the prefill work    *)
(* list only ever names occupied slots, and the worker never sleeps on     *)
(* work.                                                                   *)
(*                                                                         *)
(* Only slots[i].req, waiting, req[r].st and the work list matter to the   *)
(* first three.  Every action does one of five things to them, so the      *)
(* proof has one lemma for each of the five, and then sorts the actions.   *)
(***************************************************************************)
EXTENDS ContinuousBatcher, FiniteSetTheorems, WellFoundedInduction, TLAPS

SlotFields == {"req", "pos", "prefillPos", "prefillStart", "resident",
               "residentTokens", "tick", "pin"}
ReqFields == {"st", "err", "cancelled", "prompt", "tenant", "tokens",
              "prefillSet", "cachedTokens", "ran"}

(* Slots and request handles are records; what is in most of their fields  *)
(* does not matter here.                                                   *)
Shape ==
    /\ slots = [i \in Slots |-> slots[i]]
    /\ \A i \in Slots : slots[i] = [f \in SlotFields |-> slots[i][f]]
    /\ req = [r \in Reqs |-> req[r]]
    /\ \A r \in Reqs : req[r] = [f \in ReqFields |-> req[r][f]]

Places ==
    /\ waiting \in Seq(Reqs)
    /\ \A i \in Slots : slots[i].req \in Reqs \cup {None}
    /\ Placement
    /\ InflightBounded

Works ==
    /\ toPrefill \in Seq(Slots)
    /\ job = [f \in {"slot", "p", "active"} |-> job[f]]
    /\ job.slot \in Slots
    /\ WorkList

(* The iterator of the cross-slot pass is a position.                      *)
Cursor == scan \in Nat \ {0}

(* The inductive invariant.                                                *)
BatcherInv == Shape /\ Places /\ Works /\ Cursor

-----------------------------------------------------------------------------
(* What the five kinds of step do to slots and requests                    *)

(* The owner of every slot and the status of every request stay.           *)
SameOwners == \A i \in Slots : slots'[i].req = slots[i].req
SameStatus == \A r \in Reqs : req'[r].st = req[r].st

(* The slots in G are freed and their requests ended.                      *)
Ends(G) ==
    /\ \A i \in Slots : slots'[i].req = IF i \in G THEN None ELSE slots[i].req
    /\ \A r \in Reqs : req'[r].st = IF \E i \in G : slots[i].req = r
                                    THEN "done" ELSE req[r].st

(* Entry k of the queue is taken out.                                      *)
Dequeued(k) ==
    /\ waiting' \in Seq(Reqs)
    /\ Len(waiting') = Len(waiting) - 1
    /\ \A j \in 1 .. Len(waiting) - 1 :
          waiting'[j] = IF j < k THEN waiting[j] ELSE waiting[j + 1]

(* Taking an element out of a sequence.                                    *)
LEMMA RemoveAtFacts ==
    ASSUME NEW S, NEW s \in Seq(S), NEW k \in 1 .. Len(s)
    PROVE  /\ RemoveAt(s, k) \in Seq(S)
           /\ Len(RemoveAt(s, k)) = Len(s) - 1
           /\ \A j \in 1 .. Len(s) - 1 :
                 RemoveAt(s, k)[j] = IF j < k THEN s[j] ELSE s[j + 1]
  <1> DEFINE a == SubSeq(s, 1, k - 1)
             b == SubSeq(s, k + 1, Len(s))
  <1>1. /\ a \in Seq(S) /\ Len(a) = k - 1
        /\ \A j \in 1 .. k - 1 : a[j] = s[j]
    OBVIOUS
  <1>2. /\ b \in Seq(S) /\ Len(b) = Len(s) - k
        /\ \A j \in 1 .. Len(s) - k : b[j] = s[k + j]
    OBVIOUS
  <1>3. RemoveAt(s, k) = a \o b
    BY DEF RemoveAt
  <1> HIDE DEF a, b
  <1>4. /\ a \o b \in Seq(S) /\ Len(a \o b) = Len(s) - 1
        /\ \A j \in 1 .. Len(s) - 1 :
              (a \o b)[j] = IF j <= k - 1 THEN a[j] ELSE b[j - (k - 1)]
    BY <1>1, <1>2
  <1>5. \A j \in 1 .. Len(s) - 1 :
           (a \o b)[j] = IF j < k THEN s[j] ELSE s[j + 1]
    BY <1>1, <1>2, <1>4
  <1> QED BY <1>3, <1>4, <1>5

(* The occupied slots are finitely many.                                   *)
LEMMA OccupiedFinite ==
    /\ IsFiniteSet(Occupied) /\ Cardinality(Occupied) \in Nat
    /\ IsFiniteSet(Occupied') /\ Cardinality(Occupied') \in Nat
  <1>1. IsFiniteSet(Slots)
    BY FS_Interval, BatcherAssumption DEF Slots
  <1>2. Occupied \subseteq Slots /\ Occupied' \subseteq Slots
    BY DEF Occupied, Slots
  <1> QED BY <1>1, <1>2, FS_Subset, FS_CardinalityType

-----------------------------------------------------------------------------
(* Each kind of step keeps every request in its one place                  *)

(* A step that moves no request (a prefill chunk, a Cancel, a Wake) keeps  *)
(* every request in its one place.                                         *)
LEMMA StayKeepsPlaces ==
    ASSUME Places, SameOwners, SameStatus, waiting' = waiting
    PROVE  Places'
  <1>1. Occupied' = Occupied
    BY DEF SameOwners, Occupied, Slots
  <1>2. Waiting' = Waiting
    BY DEF Waiting
  <1>3. \A i \in Occupied : Owner(i)' = Owner(i)
    BY DEF Owner, SameOwners, Occupied
  <1>4. Placement'
    BY <1>1, <1>2, <1>3 DEF Places, Placement, SameStatus
  <1>5. InflightBounded'
    BY <1>1 DEF Places, InflightBounded, InFlight, MaxInflight
  <1> QED BY <1>4, <1>5 DEF Places, SameOwners

(* A Submit that refuses (full, stopped, bad prompt) ends its request      *)
(* without placing it anywhere.                                            *)
LEMMA RefuseKeepsPlaces ==
    ASSUME Places, SameOwners, waiting' = waiting, NEW r \in Reqs,
           req[r].st = "new",
           \A q \in Reqs : req'[q].st = IF q = r THEN "done" ELSE req[q].st
    PROVE  Places'
  <1>1. Occupied' = Occupied
    BY DEF SameOwners, Occupied, Slots
  <1>2. Waiting' = Waiting
    BY DEF Waiting
  <1>3. \A i \in Occupied : Owner(i)' = Owner(i)
    BY DEF Owner, SameOwners, Occupied
  <1>4. Placement'
    BY <1>1, <1>2, <1>3 DEF Places, Placement
  <1>5. InflightBounded'
    BY <1>1 DEF Places, InflightBounded, InFlight, MaxInflight
  <1> QED BY <1>4, <1>5 DEF Places, SameOwners

(* A Submit below the in-flight bound places its request at the tail of    *)
(* the waiting queue, and nowhere else.                                    *)
LEMMA AcceptKeepsPlaces ==
    ASSUME Places, SameOwners, NEW r \in Reqs, req[r].st = "new",
           InFlight < MaxInflight, waiting' = Append(waiting, r),
           \A q \in Reqs : req'[q].st = IF q = r THEN "open" ELSE req[q].st
    PROVE  Places'
  <1> None \notin Reqs BY BatcherAssumption
  <1>1. Occupied' = Occupied
    BY DEF SameOwners, Occupied, Slots
  <1>2. /\ waiting' \in Seq(Reqs) /\ Len(waiting') = Len(waiting) + 1
        /\ \A k \in DOMAIN waiting : waiting'[k] = waiting[k]
        /\ waiting'[Len(waiting) + 1] = r
    BY DEF Places
  <1>3. DOMAIN waiting = 1 .. Len(waiting) /\ DOMAIN waiting' = 1 .. Len(waiting) + 1
        /\ Len(waiting) \in Nat
    BY <1>2 DEF Places
  <1>4. Waiting' = Waiting \cup {r}
    BY <1>2, <1>3 DEF Waiting
  <1>5. r \notin Waiting /\ \A i \in Occupied : Owner(i) # r
    BY DEF Places, Placement
  <1>6. InflightBounded'
    BY <1>1, <1>2, <1>3, OccupiedFinite, BatcherAssumption
       DEF InflightBounded, InFlight, MaxInflight
  <1>7. \A i \in Occupied : Owner(i)' = Owner(i)
    BY DEF Owner, SameOwners, Occupied
  <1>8. \A k \in DOMAIN waiting : waiting[k] # r
    BY <1>5 DEF Waiting
  <1>9. \A k, l \in DOMAIN waiting' : waiting'[k] = waiting'[l] => k = l
    BY <1>2, <1>3, <1>8 DEF Places, Placement
  <1>10. Placement'
    BY <1>1, <1>4, <1>5, <1>7, <1>9 DEF Places, Placement
  <1> QED BY <1>2, <1>6, <1>10 DEF Places, SameOwners

(* Finishing the requests of a set of slots, by commit, retire or failure, *)
(* frees exactly those slots.                                              *)
LEMMA EndKeepsPlaces ==
    ASSUME Places, NEW G \in SUBSET Occupied, Ends(G), waiting' = waiting
    PROVE  Places'
  <1> None \notin Reqs BY BatcherAssumption
  <1>1. Occupied' = Occupied \ G
    BY DEF Ends, Occupied, Slots
  <1>2. \A i \in Occupied' : Owner(i)' = Owner(i)
    BY <1>1 DEF Ends, Owner, Occupied
  <1>3. Waiting' = Waiting
    BY DEF Waiting
  <1>4. Cardinality(Occupied') <= Cardinality(Occupied)
    BY <1>1, OccupiedFinite, FS_Subset
  <1>5. InflightBounded'
    BY <1>4, OccupiedFinite, BatcherAssumption
       DEF Places, InflightBounded, InFlight, MaxInflight
  <1>6. \A i \in G : Owner(i) \in Reqs /\ Owner(i) \notin Waiting
    BY DEF Places, Placement, Occupied, Owner
  <1>7. \A r \in Reqs : (req'[r].st = "open")
           <=> (r \in Waiting' \/ \E i \in Occupied' : Owner(i)' = r)
    <2> TAKE r \in Reqs
    <2>1. CASE \E i \in G : Owner(i) = r
      BY <2>1, <1>1, <1>2, <1>3, <1>6 DEF Ends, Owner, Places, Placement
    <2>2. CASE ~ \E i \in G : Owner(i) = r
      BY <2>2, <1>1, <1>2, <1>3 DEF Ends, Owner, Places, Placement
    <2> QED BY <2>1, <2>2
  <1>8. Placement'
    BY <1>1, <1>2, <1>3, <1>7 DEF Places, Placement
  <1> QED BY <1>5, <1>8 DEF Places, Ends

(* Admission takes one request out of the queue into one free slot; the    *)
(* queue gets shorter by it, so it is not in both.                         *)
LEMMA AdmitKeepsPlaces ==
    ASSUME Places, NEW i \in Slots, slots[i].req = None,
           NEW k \in DOMAIN waiting, Dequeued(k), SameStatus,
           \A j \in Slots : slots'[j].req = IF j = i THEN waiting[k] ELSE slots[j].req
    PROVE  Places'
  <1> DEFINE r == waiting[k]
  <1> None \notin Reqs BY BatcherAssumption
  <1>1. /\ Len(waiting) \in Nat /\ DOMAIN waiting = 1 .. Len(waiting)
        /\ DOMAIN waiting' = 1 .. Len(waiting) - 1 /\ k \in 1 .. Len(waiting)
        /\ r \in Reqs
    BY DEF Places, Dequeued
  <1>2. Occupied' = Occupied \cup {i} /\ i \notin Occupied
    BY <1>1 DEF Occupied, Slots
  <1>3. Owner(i)' = r /\ \A j \in Occupied : Owner(j)' = Owner(j)
    BY <1>2 DEF Owner, Occupied
  <1>4. \A a, b \in DOMAIN waiting : waiting[a] = waiting[b] => a = b
    BY DEF Places, Placement
  <1>5. Waiting' = Waiting \ {r}
    <2>1. ASSUME NEW j \in DOMAIN waiting' PROVE waiting'[j] \in Waiting \ {r}
      <3>1. PICK l \in DOMAIN waiting : l # k /\ waiting'[j] = waiting[l]
        <4>1. CASE j < k
          BY <4>1, <1>1 DEF Dequeued
        <4>2. CASE ~(j < k)
          <5>1. /\ j + 1 \in DOMAIN waiting /\ j + 1 # k
                /\ waiting'[j] = waiting[j + 1]
            BY <4>2, <1>1 DEF Dequeued
          <5> QED BY <5>1
        <4> QED BY <4>1, <4>2
      <3>2. waiting[l] # r
        BY <3>1, <1>4
      <3> QED BY <3>1, <3>2 DEF Waiting
    <2>2. ASSUME NEW j \in DOMAIN waiting, waiting[j] # r
          PROVE  \E l \in DOMAIN waiting' : waiting'[l] = waiting[j]
      <3>1. CASE j < k
        BY <3>1, <1>1 DEF Dequeued
      <3>2. CASE j > k
        <4>1. j - 1 \in DOMAIN waiting' /\ waiting'[j - 1] = waiting[j]
          BY <3>2, <1>1 DEF Dequeued
        <4> QED BY <4>1
      <3> QED BY <2>2, <3>1, <3>2, <1>1
    <2> QED BY <2>1, <2>2 DEF Waiting
  <1>6. \A a, b \in DOMAIN waiting' : waiting'[a] = waiting'[b] => a = b
    BY <1>1, <1>4, SMTT(30) DEF Dequeued
  <1>7. InflightBounded'
    <2>1. Cardinality(Occupied') = Cardinality(Occupied) + 1
      BY <1>2, OccupiedFinite, FS_AddElement
    <2> QED BY <2>1, <1>1, OccupiedFinite, BatcherAssumption
            DEF Places, InflightBounded, InFlight, MaxInflight, Dequeued
  <1>8. r \in Waiting /\ \A j \in Occupied : Owner(j) # r
    BY DEF Places, Placement, Waiting
  <1>9. Placement'
    BY <1>2, <1>3, <1>5, <1>6, <1>8 DEF Places, Placement, SameStatus
  <1>10. \A j \in Slots : slots'[j].req \in Reqs \cup {None}
    BY <1>1 DEF Places
  <1> QED BY <1>7, <1>9, <1>10 DEF Places, Dequeued

-----------------------------------------------------------------------------
(* What the operators that free slots do                                   *)

(* A batch is a nonempty initial part of the work list; more than one slot *)
(* of it only if they fit together.                                        *)
LEMMA BatchSizeChosen ==
    ASSUME toPrefill \in Seq(Slots), toPrefill # <<>>
    PROVE  BatchSize \in {1} \cup {k \in 2 .. Len(toPrefill) : BatchFits(k)}
  <1> DEFINE n == Len(toPrefill)
             S == {1} \cup {k \in 2 .. n : BatchFits(k)}
             T == {n - k : k \in S}
             R == {ss \in Nat \X Nat : ss[1] < ss[2]}
  <1>1. n \in Nat \ {0}
    OBVIOUS
  <1>2. S \subseteq 1 .. n /\ 1 \in S
    BY <1>1
  <1>3. T \subseteq Nat /\ T # {}
    BY <1>1, <1>2
  <1>4. PICK m \in T : \A y \in T : ~(<<y, m>> \in R)
    <2>1. IsWellFoundedOn(R, Nat)
      BY NatLessThanWellFounded, Zenon DEF OpToRel
    <2> HIDE DEF R, T
    <2> QED BY <2>1, <1>3, WFMin
  <1>5. m \in Nat /\ \A y \in T : y \in Nat /\ m <= y
    <2> HIDE DEF T
    <2>1. m \in Nat /\ \A y \in T : y \in Nat
      BY <1>3, <1>4
    <2>2. \A y \in Nat : y < m => <<y, m>> \in R
      BY <2>1
    <2> HIDE DEF R
    <2>3. ASSUME NEW y \in T PROVE ~(y < m)
      BY <2>1, <2>2, <2>3, <1>4
    <2> QED BY <2>1, <2>3
  <1>6. PICK k \in S : m = n - k
    OBVIOUS
  <1>7. \A x \in S : k >= x
    <2>1. \A x \in S : n - x \in T
      OBVIOUS
    <2> HIDE DEF S, T
    <2> QED BY <1>1, <1>2, <1>5, <1>6, <2>1
  <1>8. Max(S) \in S
    <2> HIDE DEF S
    <2> QED BY <1>7 DEF Max
  <1>9. BatchSize = Max(S)
    BY Zenon DEF BatchSize
  <1> QED BY <1>8, <1>9, Zenon

LEMMA BatchSizeType ==
    ASSUME toPrefill \in Seq(Slots), toPrefill # <<>>
    PROVE  BatchSize \in 1 .. Len(toPrefill)
  <1>1. Len(toPrefill) \in Nat \ {0}
    OBVIOUS
  <1> QED BY <1>1, BatchSizeChosen

LEMMA BatchSizeFits ==
    ASSUME toPrefill \in Seq(Slots), toPrefill # <<>>, BatchSize # 1
    PROVE  BatchFits(BatchSize)
  BY BatchSizeChosen

(* SlotOf finds the slot that runs a request.                              *)
LEMMA SlotOfOwner ==
    ASSUME Places, NEW i \in Occupied
    PROVE  SlotOf(slots[i].req) = i
  BY DEF SlotOf, Places, Placement, Owner

(* The error path of a forward ends the requests of the slots it names.    *)
LEMMA FailEnds ==
    ASSUME Shape, NEW F \in SUBSET Occupied, NEW after, FailSlots(F, after)
    PROVE  Shape' /\ Ends(F)
  <1>1. Shape'
    BY DEF Shape, FailSlots, DoneReq, Freed, SlotFields, ReqFields
  <1>2. Ends(F)
    BY DEF Shape, FailSlots, DoneReq, Freed, SlotFields, ReqFields, Ends, Owner
  <1> QED BY <1>1, <1>2

(* retireSlot releases the slots it retires, cold or warm, and no other.   *)
LEMMA RetireFrees ==
    ASSUME NEW sl, NEW dv, NEW st, NEW cold, NEW warm,
           RetireSlots(sl, dv, st, cold, warm),
           \A i \in Slots : /\ sl[i] = [f \in SlotFields |-> sl[i][f]]
                            /\ sl[i].req = slots[i].req
    PROVE  /\ slots' = [i \in Slots |-> slots'[i]]
           /\ \A i \in Slots : slots'[i] = [f \in SlotFields |-> slots'[i][f]]
           /\ \A i \in Slots : slots'[i].req = IF i \in cold \cup warm THEN None
                                               ELSE slots[i].req
  BY DEF RetireSlots, SlotFields

(* A commit ends some of the slots it commits, and keeps the rest.         *)
LEMMA CommitEnds ==
    ASSUME Shape, Places, NEW B \in SUBSET Occupied, NEW tk, NEW dv, NEW st, NEW rq,
           Commit(B, tk, dv, st, rq),
           \A r \in Reqs : /\ rq[r] = [f \in ReqFields |-> rq[r][f]]
                           /\ rq[r].st = req[r].st
    PROVE  Shape' /\ \E G \in SUBSET B : Ends(G)
  <1> DEFINE cold == {i \in B : Cancelled(i)}
             warm == {i \in B \ cold : Stops(tk[i], 1, PromptLen(i))}
             sl == [i \in Slots |-> IF i \in B THEN Ingested(i) ELSE slots[i]]
             Told(r, i) == [rq[r] EXCEPT
                 !.prefillSet = TRUE, !.cachedTokens = slots[i].prefillStart,
                 !.tokens = IF i \in cold THEN @ ELSE Append(@, tk[i]),
                 !.st = IF i \in cold \cup warm THEN "done" ELSE @]
  <1>1. /\ req' = [r \in Reqs |-> IF \E i \in B : Owner(i) = r THEN Told(r, SlotOf(r))
                                  ELSE rq[r]]
        /\ RetireSlots(sl, dv, st, cold, warm)
    BY DEF Commit
  <1>2. \A i \in Slots : /\ sl[i] = [f \in SlotFields |-> sl[i][f]]
                         /\ sl[i].req = slots[i].req
    BY ZenonT(40) DEF Shape, Ingested, SlotFields
  <1>3. cold \cup warm \in SUBSET B
    OBVIOUS
  <1>4. \A r \in Reqs, i \in Slots :
           /\ Told(r, i) = [f \in ReqFields |-> Told(r, i)[f]]
           /\ Told(r, i).st = IF i \in cold \cup warm THEN "done" ELSE req[r].st
    <2> HIDE DEF cold, warm
    <2> TAKE r \in Reqs, i \in Slots
    <2>1. rq[r] = [f \in ReqFields |-> rq[r][f]] /\ rq[r].st = req[r].st
      OBVIOUS
    <2> QED BY <2>1 DEF ReqFields
  <1> HIDE DEF cold, warm, sl, Told
  <1>5. /\ slots' = [i \in Slots |-> slots'[i]]
        /\ \A i \in Slots : slots'[i] = [f \in SlotFields |-> slots'[i][f]]
        /\ \A i \in Slots : slots'[i].req = IF i \in cold \cup warm THEN None
                                            ELSE slots[i].req
    BY <1>1, <1>2, RetireFrees
  <1>6. \A i \in B : i \in Slots /\ SlotOf(slots[i].req) = i
    BY SlotOfOwner DEF Occupied
  <1>7. ASSUME NEW r \in Reqs
        PROVE  /\ req'[r] = [f \in ReqFields |-> req'[r][f]]
               /\ req'[r].st = IF \E i \in cold \cup warm : slots[i].req = r
                               THEN "done" ELSE req[r].st
    <2>1. CASE \E i \in B : Owner(i) = r
      <3>1. PICK i \in B : slots[i].req = r
        BY <2>1 DEF Owner
      <3>2. SlotOf(r) = i /\ i \in Slots /\ req'[r] = Told(r, i)
        BY <3>1, <1>1, <1>6, <2>1
      <3>3. \A j \in B : slots[j].req = r => j = i
        BY <3>1, <1>6
      <3>4. /\ Told(r, i) = [f \in ReqFields |-> Told(r, i)[f]]
            /\ Told(r, i).st = IF i \in cold \cup warm THEN "done" ELSE req[r].st
        BY <3>2, <1>4
      <3>5. (\E j \in cold \cup warm : slots[j].req = r) <=> i \in cold \cup warm
        BY <3>1, <3>3, <1>3
      <3> QED BY <3>2, <3>4, <3>5
    <2>2. CASE ~ \E i \in B : Owner(i) = r
      BY <2>2, <1>1, <1>3 DEF Owner
    <2> QED BY <2>1, <2>2
  <1>8. req' = [r \in Reqs |-> req'[r]]
    BY <1>1
  <1>9. Shape'
    BY <1>5, <1>7, <1>8 DEF Shape
  <1>10. Ends(cold \cup warm)
    BY <1>5, <1>7 DEF Ends
  <1> QED BY <1>3, <1>9, <1>10

(* A mixed step ends some of the occupied slots, and keeps the rest.       *)
LEMMA MixedEnds ==
    ASSUME Shape, Places, MixedStepRun
    PROVE  Shape' /\ \E G \in SUBSET Occupied : Ends(G)
  <1> DEFINE dead == {i \in Occupied : FoundCancelled(i)}
             ends == {i \in Prefilling : slots[i].prefillPos + MixedChunk(i) = PromptLen(i)}
             emits == (ends \cup (Occupied \ Prefilling)) \ dead
             NextPos(i) == IF i \in ends THEN PromptLen(i) ELSE slots[i].pos + 1
             Ran(i) == IF i \in Prefilling THEN MixedChunk(i) ELSE 0
             stops(tk) == {i \in emits :
                    Stops(tk[i], Len(req[Owner(i)].tokens) + 1, NextPos(i))}
             Told(tk, r, i) == [req[r] EXCEPT
                    !.ran = @ + Ran(i),
                    !.tokens = IF i \in emits THEN Append(@, tk[i]) ELSE @,
                    !.st = IF i \in stops(tk) \cup dead THEN "done" ELSE @]
             Stepped(i) == [slots[i] EXCEPT
                    !.prefillPos = IF i \in Prefilling THEN @ + MixedChunk(i) ELSE @,
                    !.pos = IF i \in emits THEN NextPos(i) ELSE @]
  <1>1. PICK tk \in [emits -> GenTokens] :
           /\ req' = [r \in Reqs |-> IF \E i \in Occupied : Owner(i) = r
                                     THEN Told(tk, r, SlotOf(r)) ELSE req[r]]
           /\ slots' = [i \in Slots |-> IF i \notin Occupied THEN slots[i]
                                        ELSE IF i \in stops(tk) \cup dead
                                             THEN Freed(slots[i])
                                        ELSE Stepped(i)]
    BY DEF MixedStepRun
  <1> DEFINE gone == stops(tk) \cup dead
  <1>2. gone \in SUBSET Occupied
    BY DEF Prefilling
  <1>3. \A r \in Reqs, i \in Slots :
           /\ Told(tk, r, i) = [f \in ReqFields |-> Told(tk, r, i)[f]]
           /\ Told(tk, r, i).st = IF i \in gone THEN "done" ELSE req[r].st
    <2> HIDE DEF dead, emits, stops, Ran
    <2> TAKE r \in Reqs, i \in Slots
    <2>1. req[r] = [f \in ReqFields |-> req[r][f]]
      BY DEF Shape
    <2> QED BY <2>1 DEF ReqFields
  <1>4. \A i \in Slots :
           /\ Stepped(i) = [f \in SlotFields |-> Stepped(i)[f]]
           /\ Stepped(i).req = slots[i].req
           /\ Freed(slots[i]) = [f \in SlotFields |-> Freed(slots[i])[f]]
           /\ Freed(slots[i]).req = None
    <2> HIDE DEF emits, NextPos
    <2> QED BY DEF Shape, SlotFields, Freed
  <1>5. /\ req' = [r \in Reqs |-> IF \E i \in Occupied : Owner(i) = r
                                  THEN Told(tk, r, SlotOf(r)) ELSE req[r]]
        /\ slots' = [i \in Slots |-> IF i \notin Occupied THEN slots[i]
                                     ELSE IF i \in gone THEN Freed(slots[i])
                                     ELSE Stepped(i)]
    BY <1>1
  <1> HIDE DEF dead, ends, emits, NextPos, Ran, stops, Told, Stepped, gone
  <1>6. \A i \in Occupied : i \in Slots /\ SlotOf(slots[i].req) = i
    BY SlotOfOwner DEF Occupied
  <1>7. ASSUME NEW r \in Reqs
        PROVE  /\ req'[r] = [f \in ReqFields |-> req'[r][f]]
               /\ req'[r].st = IF \E i \in gone : slots[i].req = r
                               THEN "done" ELSE req[r].st
    <2>1. CASE \E i \in Occupied : Owner(i) = r
      <3>1. PICK i \in Occupied : slots[i].req = r
        BY <2>1 DEF Owner
      <3>2. SlotOf(r) = i /\ i \in Slots /\ req'[r] = Told(tk, r, i)
        BY <3>1, <1>5, <1>6, <2>1
      <3>3. \A j \in Occupied : slots[j].req = r => j = i
        BY <3>1, <1>6
      <3>4. /\ Told(tk, r, i) = [f \in ReqFields |-> Told(tk, r, i)[f]]
            /\ Told(tk, r, i).st = IF i \in gone THEN "done" ELSE req[r].st
        BY <3>2, <1>3
      <3>5. (\E j \in gone : slots[j].req = r) <=> i \in gone
        BY <3>1, <3>3, <1>2
      <3> QED BY <3>2, <3>4, <3>5
    <2>2. CASE ~ \E i \in Occupied : Owner(i) = r
      BY <2>2, <1>2, <1>5 DEF Owner, Shape
    <2> QED BY <2>1, <2>2
  <1>8. ASSUME NEW i \in Slots
        PROVE  /\ slots'[i] = [f \in SlotFields |-> slots'[i][f]]
               /\ slots'[i].req = IF i \in gone THEN None ELSE slots[i].req
    BY <1>2, <1>4, <1>5 DEF Shape
  <1>9. Shape'
    BY <1>5, <1>7, <1>8 DEF Shape
  <1>10. Ends(gone)
    BY <1>7, <1>8 DEF Ends
  <1> QED BY <1>2, <1>9, <1>10

(* A decode step ends some of the occupied slots, and keeps the rest.      *)
LEMMA DecodeEnds ==
    ASSUME Shape, Places, DecodeStep
    PROVE  Shape' /\ \E G \in SUBSET Occupied : Ends(G)
  <1> DEFINE cold == {i \in Occupied : FoundCancelled(i)}
             gens == {i \in Occupied \ cold : slots[i].pos + 1 >= PromptLen(i)}
             stops(tk) == {i \in gens :
                    Stops(tk[i], Len(req[Owner(i)].tokens) + 1, slots[i].pos + 1)}
             Ran(i) == IF slots[i].pos < PromptLen(i) THEN 1 ELSE 0
             Told(tk, r, i) == [req[r] EXCEPT
                    !.ran = @ + Ran(i),
                    !.tokens = IF i \in gens THEN Append(@, tk[i]) ELSE @,
                    !.st = IF i \in stops(tk) \cup cold THEN "done" ELSE @]
             sl(tk) == [i \in Slots |-> IF i \in Occupied \ (cold \cup stops(tk))
                                        THEN [slots[i] EXCEPT !.pos = @ + 1]
                                        ELSE slots[i]]
  <1>1. PICK tk \in [gens -> GenTokens], dv \in DecodeDevices :
           /\ req' = [r \in Reqs |-> IF \E i \in Occupied : Owner(i) = r
                                     THEN Told(tk, r, SlotOf(r)) ELSE req[r]]
           /\ RetireSlots(sl(tk), dv, store, cold, stops(tk))
    BY DEF DecodeStep
  <1> DEFINE gone == cold \cup stops(tk)
  <1>2. gone \in SUBSET Occupied
    OBVIOUS
  <1>3. \A r \in Reqs, i \in Slots :
           /\ Told(tk, r, i) = [f \in ReqFields |-> Told(tk, r, i)[f]]
           /\ Told(tk, r, i).st = IF i \in gone THEN "done" ELSE req[r].st
    <2> HIDE DEF cold, gens, stops, Ran
    <2> TAKE r \in Reqs, i \in Slots
    <2>1. req[r] = [f \in ReqFields |-> req[r][f]]
      BY DEF Shape
    <2> QED BY <2>1 DEF ReqFields
  <1>4. \A i \in Slots : /\ sl(tk)[i] = [f \in SlotFields |-> sl(tk)[i][f]]
                         /\ sl(tk)[i].req = slots[i].req
    <2> HIDE DEF cold, gens, stops
    <2> QED BY DEF Shape, SlotFields
  <1> HIDE DEF cold, gens, stops, Ran, Told, sl
  <1>5. /\ slots' = [i \in Slots |-> slots'[i]]
        /\ \A i \in Slots : slots'[i] = [f \in SlotFields |-> slots'[i][f]]
        /\ \A i \in Slots : slots'[i].req = IF i \in gone THEN None
                                            ELSE slots[i].req
    BY <1>1, <1>4, RetireFrees
  <1> HIDE DEF gone
  <1>6. \A i \in Occupied : i \in Slots /\ SlotOf(slots[i].req) = i
    BY SlotOfOwner DEF Occupied
  <1>7. ASSUME NEW r \in Reqs
        PROVE  /\ req'[r] = [f \in ReqFields |-> req'[r][f]]
               /\ req'[r].st = IF \E i \in gone : slots[i].req = r
                               THEN "done" ELSE req[r].st
    <2>1. CASE \E i \in Occupied : Owner(i) = r
      <3>1. PICK i \in Occupied : slots[i].req = r
        BY <2>1 DEF Owner
      <3>2. SlotOf(r) = i /\ i \in Slots /\ req'[r] = Told(tk, r, i)
        BY <3>1, <1>1, <1>6, <2>1
      <3>3. \A j \in Occupied : slots[j].req = r => j = i
        BY <3>1, <1>6
      <3>4. /\ Told(tk, r, i) = [f \in ReqFields |-> Told(tk, r, i)[f]]
            /\ Told(tk, r, i).st = IF i \in gone THEN "done" ELSE req[r].st
        BY <3>2, <1>3
      <3>5. (\E j \in gone : slots[j].req = r) <=> i \in gone
        BY <3>1, <3>3, <1>2
      <3> QED BY <3>2, <3>4, <3>5
    <2>2. CASE ~ \E i \in Occupied : Owner(i) = r
      BY <2>2, <1>1, <1>2 DEF Owner, Shape
    <2> QED BY <2>1, <2>2
  <1>8. req' = [r \in Reqs |-> req'[r]]
    BY <1>1
  <1>9. Shape'
    BY <1>5, <1>7, <1>8 DEF Shape
  <1>10. Ends(gone)
    BY <1>5, <1>7 DEF Ends
  <1> QED BY <1>2, <1>9, <1>10

-----------------------------------------------------------------------------
(* The work list                                                           *)

(* A step that frees only slots outside the work list keeps it.            *)
LEMMA EndKeepsWorks ==
    ASSUME Works, Places, NEW G \in SUBSET Occupied, Ends(G),
           toPrefill' \in Seq(Slots),
           NEW d \in Nat, Len(toPrefill') + d = Len(toPrefill),
           \A k \in 1 .. Len(toPrefill') : toPrefill'[k] = toPrefill[k + d],
           \A k \in 1 .. Len(toPrefill') : toPrefill'[k] \notin G,
           job' = NoJob \/ (job' = job /\ ~job.active),
           pc' = pc \/ (pc \in {"step", "push"} /\ pc' = "top")
    PROVE  Works'
  <1>1. Occupied' = Occupied \ G
    BY DEF Ends, Occupied, Slots
  <1>2. /\ Len(toPrefill) \in Nat /\ DOMAIN toPrefill = 1 .. Len(toPrefill)
        /\ Len(toPrefill') \in Nat /\ DOMAIN toPrefill' = 1 .. Len(toPrefill')
        /\ \A k \in DOMAIN toPrefill' : k + d \in DOMAIN toPrefill
    BY DEF Works
  <1>3. \A k \in DOMAIN toPrefill' : toPrefill'[k] \in Occupied'
    BY <1>1, <1>2 DEF Works, WorkList
  <1>4. \A k, l \in DOMAIN toPrefill' : toPrefill'[k] = toPrefill'[l] => k = l
    <2> TAKE k, l \in DOMAIN toPrefill'
    <2>1. k + d \in DOMAIN toPrefill /\ l + d \in DOMAIN toPrefill
      BY <1>2
    <2>2. toPrefill'[k] = toPrefill[k + d] /\ toPrefill'[l] = toPrefill[l + d]
      BY <1>2
    <2>3. toPrefill[k + d] = toPrefill[l + d] => k + d = l + d
      BY <2>1 DEF Works, WorkList
    <2>4. k \in Nat /\ l \in Nat
      BY <1>2
    <2> QED BY <2>2, <2>3, <2>4
  <1>5. 0 \in Slots
    BY BatcherAssumption DEF Slots
  <1>6. /\ job' = [f \in {"slot", "p", "active"} |-> job'[f]]
        /\ job'.slot \in Slots /\ ~job'.active
    BY <1>5 DEF NoJob, Works
  <1>7. pc' \in {"top", "step", "idle", "exited"} => toPrefill' = <<>>
    <2> SUFFICES ASSUME pc' \in {"top", "step", "idle", "exited"}
                 PROVE  Len(toPrefill') = 0
      BY <1>2
    <2>1. toPrefill = <<>>
      BY DEF Works, WorkList
    <2> QED BY <2>1, <1>2
  <1> QED BY <1>3, <1>4, <1>6, <1>7 DEF Works, WorkList

(* A step that frees and admits nobody and leaves the work list alone      *)
(* keeps it.                                                               *)
LEMMA StayKeepsWorks ==
    ASSUME Works, SameOwners, toPrefill' = toPrefill,
           job' = [job EXCEPT !.p = job'.p],
           \/ pc' = pc
           \/ pc' \in {"warm", "cross", "cold"} /\ ~job.active
           \/ pc' = "prefill" /\ ~job.active
           \/ toPrefill = <<>> /\ ~job.active
    PROVE  Works'
  <1>1. Occupied' = Occupied
    BY DEF SameOwners, Occupied, Slots
  <1>2. /\ job' = [f \in {"slot", "p", "active"} |-> job'[f]]
        /\ job'.slot = job.slot /\ job'.active = job.active
    BY DEF Works
  <1> QED BY <1>1, <1>2 DEF Works, WorkList

(* An admission appends the slot it fills.                                 *)
LEMMA AdmitKeepsWorks ==
    ASSUME Works, NEW i \in Slots \ Occupied, ~job.active, job' = job,
           toPrefill' \in {toPrefill, Append(toPrefill, i)},
           Occupied' = Occupied \cup {i},
           pc' = pc, pc \in {"warm", "cross", "cold"}
    PROVE  Works'
  <1>1. CASE toPrefill' = toPrefill
    BY <1>1 DEF Works, WorkList
  <1>2. CASE toPrefill' = Append(toPrefill, i)
    <2>1. /\ toPrefill' \in Seq(Slots) /\ Len(toPrefill) \in Nat
          /\ DOMAIN toPrefill = 1 .. Len(toPrefill)
          /\ DOMAIN toPrefill' = 1 .. Len(toPrefill) + 1
          /\ \A k \in DOMAIN toPrefill : toPrefill'[k] = toPrefill[k]
          /\ toPrefill'[Len(toPrefill) + 1] = i
      BY <1>2 DEF Works
    <2>2. \A k \in DOMAIN toPrefill : toPrefill[k] \in Occupied /\ toPrefill[k] # i
      BY DEF Works, WorkList
    <2>3. \A k \in DOMAIN toPrefill' : toPrefill'[k] \in Occupied'
      BY <2>1, <2>2
    <2>4. \A k, l \in DOMAIN toPrefill' : toPrefill'[k] = toPrefill'[l] => k = l
      BY <2>1, <2>2 DEF Works, WorkList
    <2> QED BY <2>1, <2>3, <2>4 DEF Works, WorkList
  <1> QED BY <1>1, <1>2

-----------------------------------------------------------------------------
(* The actions                                                             *)

(* The three admission passes share what they do to slots and queue.       *)
LEMMA AdmitKeepsInv ==
    ASSUME BatcherInv, NEW i \in Slots \ Occupied, NEW k \in DOMAIN waiting,
           NEW start, NEW pin, NEW eager, AdmitTo(i, waiting[k], start, pin, eager),
           Dequeued(k), pc' = pc, pc \in {"warm", "cross", "cold"}, scan' = scan
    PROVE  BatcherInv'
  <1>1. slots[i].req = None
    BY DEF Occupied
  <1>2. Shape'
    BY DEF BatcherInv, Shape, AdmitTo, SlotFields
  <1>3. /\ SameStatus
        /\ \A j \in Slots : slots'[j].req = IF j = i THEN waiting[k] ELSE slots[j].req
    BY DEF BatcherInv, Shape, AdmitTo, SlotFields, SameStatus
  <1>4. Places'
    BY <1>1, <1>3, AdmitKeepsPlaces DEF BatcherInv
  <1>5. waiting[k] # None
    BY BatcherAssumption DEF BatcherInv, Places
  <1>6. Occupied' = Occupied \cup {i}
    BY <1>3, <1>5 DEF Occupied, Slots
  <1>7. ~job.active /\ job' = job /\ toPrefill' \in {toPrefill, Append(toPrefill, i)}
    BY DEF AdmitTo, BatcherInv, Works, WorkList
  <1>8. Works'
    BY <1>6, <1>7, AdmitKeepsWorks DEF BatcherInv
  <1> QED BY <1>2, <1>4, <1>8 DEF BatcherInv, Cursor

(* A step that moves no request keeps the invariant.                       *)
LEMMA StayKeepsInv ==
    ASSUME BatcherInv, slots' = slots, waiting' = waiting, SameStatus,
           req' = [r \in Reqs |-> req'[r]],
           \A r \in Reqs : req'[r] = [f \in ReqFields |-> req'[r][f]],
           toPrefill' = toPrefill, job' = [job EXCEPT !.p = job'.p],
           \/ pc' = pc
           \/ pc' \in {"warm", "cross", "cold"} /\ ~job.active
           \/ pc' = "prefill" /\ ~job.active
           \/ toPrefill = <<>> /\ ~job.active,
           scan' \in {1, scan, scan + 1}
    PROVE  BatcherInv'
  <1>1. SameOwners
    BY DEF SameOwners
  <1>2. Shape'
    BY DEF BatcherInv, Shape
  <1>3. Places'
    BY <1>1, StayKeepsPlaces DEF BatcherInv
  <1>4. Works'
    BY <1>1, StayKeepsWorks DEF BatcherInv
  <1> QED BY <1>2, <1>3, <1>4 DEF BatcherInv, Cursor

(* The constructor's state satisfies the inductive invariant.              *)
LEMMA InitInv == Init => BatcherInv
  <1> SUFFICES ASSUME Init PROVE BatcherInv
    OBVIOUS
  <1>1. Shape
    BY DEF Init, Shape, FreshSlot, FreshReq, SlotFields, ReqFields
  <1>2. Occupied = {} /\ Waiting = {} /\ Len(waiting) = 0
    BY DEF Init, Occupied, Waiting, FreshSlot
  <1>3. Placement
    <2>1. \A r \in Reqs : req[r].st = "new"
      BY DEF Init, FreshReq
    <2>2. DOMAIN waiting = {}
      BY DEF Init
    <2> QED BY <1>2, <2>1, <2>2 DEF Placement
  <1>4. InflightBounded
    BY <1>2, FS_EmptySet, BatcherAssumption DEF InflightBounded, InFlight, MaxInflight
  <1>5. Works
    <2>1. 0 \in Slots
      BY BatcherAssumption DEF Slots
    <2> QED BY <2>1 DEF Init, Works, WorkList, NoJob
  <1>6. waiting \in Seq(Reqs) /\ \A i \in Slots : slots[i].req \in Reqs \cup {None}
    BY DEF Init, FreshSlot
  <1> QED BY <1>1, <1>3, <1>4, <1>5, <1>6 DEF BatcherInv, Places, Cursor, Init

(* The client's calls (submit, cancel, the destructor) keep the invariant. *)
LEMMA ClientInv ==
    ASSUME BatcherInv, Client \/ Quiescent
    PROVE  BatcherInv'
  <1>1. ASSUME NEW r \in Reqs, NEW p \in Prompts, NEW t \in Tenants, Submit(r, p, t)
        PROVE  BatcherInv'
    <2> USE <1>1
    <2>1. SameOwners /\ req[r].st = "new"
      BY DEF Submit, SameOwners
    <2>2. Shape'
      <3> DEFINE handle == [FreshReq EXCEPT !.prompt = p, !.tenant = t]
                 open == [handle EXCEPT !.st = "open"]
                 refused == [handle EXCEPT !.st = "done", !.err = SubmitOutcome(p, t),
                                           !.cancelled = (SubmitOutcome(p, t) = "stopped")]
      <3>1. /\ open = [f \in ReqFields |-> open[f]]
            /\ refused = [f \in ReqFields |-> refused[f]]
        BY DEF FreshReq, ReqFields
      <3>2. slots' = slots /\ \/ req' = [req EXCEPT ![r] = open]
                              \/ req' = [req EXCEPT ![r] = refused]
        BY DEF Submit
      <3> HIDE DEF open, refused
      <3> QED BY <3>1, <3>2 DEF BatcherInv, Shape
    <2>3. Works'
      <3>1. job' = [job EXCEPT !.p = job'.p]
        BY DEF Submit, workerVars, BatcherInv, Works
      <3> QED BY <2>1, <3>1, StayKeepsWorks DEF BatcherInv, Submit, workerVars
    <2>4. Cursor'
      BY DEF Submit, workerVars, BatcherInv, Cursor
    <2>5. CASE SubmitOutcome(p, t) = "accepted"
      <3>1. /\ waiting' = Append(waiting, r)
            /\ \A q \in Reqs : req'[q].st = IF q = r THEN "open" ELSE req[q].st
        BY <2>5 DEF Submit, FreshReq, BatcherInv, Shape
      <3>2. ~(InFlight >= MaxInflight)
        BY <2>5, SMTT(30) DEF SubmitOutcome
      <3>3. InFlight < MaxInflight
        BY <3>2, OccupiedFinite, BatcherAssumption
           DEF InFlight, MaxInflight, BatcherInv, Places
      <3>4. Places'
        BY <2>1, <3>1, <3>3, AcceptKeepsPlaces DEF BatcherInv
      <3> QED BY <2>2, <2>3, <2>4, <3>4 DEF BatcherInv
    <2>6. CASE SubmitOutcome(p, t) # "accepted"
      <3>1. /\ waiting' = waiting
            /\ \A q \in Reqs : req'[q].st = IF q = r THEN "done" ELSE req[q].st
        BY <2>6, ZenonT(40) DEF Submit, FreshReq, BatcherInv, Shape
      <3>2. Places'
        BY <2>1, <3>1, RefuseKeepsPlaces DEF BatcherInv
      <3> QED BY <2>2, <2>3, <2>4, <3>2 DEF BatcherInv
    <2> QED BY <2>5, <2>6
  <1>2. ASSUME NEW r \in Reqs, Cancel(r) PROVE BatcherInv'
    <2>1. /\ req' = [q \in Reqs |-> req'[q]]
          /\ \A q \in Reqs : req'[q] = [f \in ReqFields |-> req'[q][f]]
          /\ SameStatus
      BY <1>2 DEF Cancel, BatcherInv, Shape, ReqFields, SameStatus
    <2>2. job' = [job EXCEPT !.p = job'.p]
      BY <1>2 DEF Cancel, workerVars, BatcherInv, Works
    <2> QED BY <1>2, <2>1, <2>2, StayKeepsInv DEF Cancel, workerVars
  <1>3. ASSUME Stop \/ Quiescent PROVE BatcherInv'
    <2>1. /\ req' = req /\ slots' = slots /\ waiting' = waiting
          /\ toPrefill' = toPrefill /\ job' = job /\ pc' = pc /\ scan' = scan
      BY <1>3 DEF Stop, Quiescent, workerVars, vars
    <2>2. /\ req' = [q \in Reqs |-> req'[q]]
          /\ \A q \in Reqs : req'[q] = [f \in ReqFields |-> req'[q][f]]
          /\ SameStatus
      BY <2>1 DEF BatcherInv, Shape, SameStatus
    <2>3. job' = [job EXCEPT !.p = job'.p]
      BY <2>1 DEF BatcherInv, Works
    <2> QED BY <2>1, <2>2, <2>3, StayKeepsInv
  <1> QED BY <1>1, <1>2, <1>3 DEF Client

(* The admission passes.                                                   *)
LEMMA AdmissionInv ==
    ASSUME BatcherInv, AdmitWarm \/ AdmitCross \/ AdmitCold
    PROVE  BatcherInv'
  <1> waiting \in Seq(Reqs)
    BY DEF BatcherInv, Places
  <1>1. CASE AdmitWarm
    <2>1. PICK k \in WarmHits : \E i \in FindWarmSlot(req[waiting[k]].prompt) :
             /\ AdmitTo(i, waiting[k], WarmPos(i, req[waiting[k]].prompt), NoPayload, TRUE)
             /\ waiting' = RemoveAt(waiting, k)
      BY <1>1 DEF AdmitWarm
    <2>2. PICK i \in FindWarmSlot(req[waiting[k]].prompt) :
             AdmitTo(i, waiting[k], WarmPos(i, req[waiting[k]].prompt), NoPayload, TRUE)
      BY <2>1
    <2>3. k \in DOMAIN waiting
      BY DEF WarmHits
    <2>4. i \in Slots \ Occupied
      <3>1. i \in Slots /\ WarmPos(i, req[waiting[k]].prompt) > 0
        BY DEF FindWarmSlot, WarmFor
      <3> QED BY <3>1 DEF WarmPos
    <2>5. Dequeued(k)
      BY <2>1, <2>3, RemoveAtFacts, SMTT(30) DEF Dequeued
    <2> QED BY <1>1, <2>2, <2>3, <2>4, <2>5, AdmitKeepsInv DEF AdmitWarm
  <1>2. CASE AdmitCross
    <2>1. PICK i \in PickColdSlot : \E img \in {store.images[CrossId]} :
             AdmitTo(i, waiting[scan], img.pos, CrossId, TRUE)
      BY <1>2 DEF AdmitCross
    <2>2. scan \in DOMAIN waiting
      BY <1>2 DEF AdmitCross, CrossMore, BatcherInv, Cursor
    <2>3. i \in Slots \ Occupied
      BY DEF PickColdSlot
    <2>4. waiting' = RemoveAt(waiting, scan)
      BY <1>2 DEF AdmitCross
    <2>5. Dequeued(scan)
      BY <2>2, <2>4, RemoveAtFacts DEF Dequeued
    <2>6. pc' = pc /\ pc = "cross" /\ scan' = scan
      BY <1>2 DEF AdmitCross
    <2> QED BY <2>1, <2>2, <2>3, <2>5, <2>6, AdmitKeepsInv
  <1>3. CASE AdmitCold
    <2>1. PICK i \in PickColdSlot :
             AdmitTo(i, Head(waiting), 0, NoPayload,
                     ~MixedStep \/ (PressureGate /\ ~pressure))
      BY <1>3 DEF AdmitCold
    <2>2. /\ 1 \in DOMAIN waiting /\ Head(waiting) = waiting[1]
          /\ waiting' = Tail(waiting)
      BY <1>3 DEF AdmitCold, ColdMore
    <2>3. i \in Slots \ Occupied
      BY DEF PickColdSlot
    <2>4. Dequeued(1)
      BY <2>2 DEF Dequeued
    <2> QED BY <1>3, <2>1, <2>2, <2>3, <2>4, AdmitKeepsInv DEF AdmitCold
  <1> QED BY <1>1, <1>2, <1>3

(* The steps that only move the worker along.                              *)
LEMMA ControlInv ==
    ASSUME BatcherInv,
           \/ BeginIteration \/ EndWarm \/ SkipCross \/ EndCross \/ EndAdmission
           \/ Wake \/ PrefillDone \/ CheckCancelled
    PROVE  BatcherInv'
  <1>1. /\ req' = req /\ slots' = slots /\ waiting' = waiting /\ job' = job
        /\ scan' \in {1, scan, scan + 1}
    BY DEF BeginIteration, EndWarm, SkipCross, EndCross, EndAdmission, Wake, PrefillDone,
       CheckCancelled
  <1>2. /\ req' = [q \in Reqs |-> req'[q]]
        /\ \A q \in Reqs : req'[q] = [f \in ReqFields |-> req'[q][f]]
        /\ SameStatus
    BY <1>1 DEF BatcherInv, Shape, SameStatus
  <1>3. job' = [job EXCEPT !.p = job'.p]
    BY <1>1 DEF BatcherInv, Works
  <1>4. toPrefill \in Seq(Slots) /\ WorkList
    BY DEF BatcherInv, Works
  <1>5. CASE BeginIteration
    <2>1. toPrefill' = toPrefill /\ pc' = "warm" /\ ~job.active
      BY <1>4, <1>5 DEF BeginIteration, WorkList
    <2> QED BY <1>1, <1>2, <1>3, <2>1, StayKeepsInv
  <1>6. CASE EndWarm \/ SkipCross \/ EndCross
    <2>1. /\ toPrefill' = toPrefill /\ ~job.active
          /\ pc' = pc \/ pc' \in {"warm", "cross", "cold"}
      BY <1>4, <1>6 DEF EndWarm, SkipCross, EndCross, WorkList
    <2> QED BY <1>1, <1>2, <1>3, <2>1, StayKeepsInv
  <1>7. CASE EndAdmission
    <2>1. toPrefill' = toPrefill /\ ~job.active
          /\ pc' = IF Occupied = {} THEN "idle" ELSE "prefill"
      BY <1>4, <1>7 DEF EndAdmission, WorkList
    <2>2. Occupied = {} => toPrefill = <<>>
      BY <1>4 DEF WorkList
    <2> QED BY <1>1, <1>2, <1>3, <2>1, <2>2, StayKeepsInv
  <1>8. CASE Wake \/ PrefillDone \/ CheckCancelled
    <2>1. toPrefill' = toPrefill /\ ~job.active /\ toPrefill = <<>>
      BY <1>4, <1>8 DEF Wake, PrefillDone, CheckCancelled, WorkList
    <2> QED BY <1>1, <1>2, <1>3, <2>1, StayKeepsInv
  <1> QED BY <1>5, <1>6, <1>7, <1>8

(* Eager prefill of one slot.                                              *)
LEMMA PrefillInv ==
    ASSUME BatcherInv,
           \/ PrefillBegin \/ PrefillChunkStep \/ PrefillFail
           \/ \E tok \in GenTokens : PrefillLastChunk(tok)
    PROVE  BatcherInv'
  <1>1. toPrefill \in Seq(Slots) /\ WorkList /\ job.slot \in Slots
        /\ job = [f \in {"slot", "p", "active"} |-> job[f]]
    BY DEF BatcherInv, Works
  <1>2. \A r \in Reqs : /\ ChunkReq[r] = [f \in ReqFields |-> ChunkReq[r][f]]
                        /\ ChunkReq[r].st = req[r].st
    BY DEF BatcherInv, Shape, ChunkReq, ReqFields
  <1>3. ASSUME job.active, NEW G \in SUBSET {job.slot}, Ends(G), Shape',
               job' = NoJob, waiting' = waiting, pc' = pc, toPrefill' = toPrefill,
               scan' = scan
        PROVE  BatcherInv'
    <2>1. job.slot \in Occupied /\ \A k \in DOMAIN toPrefill : toPrefill[k] # job.slot
      BY <1>1, <1>3 DEF WorkList
    <2>2. Places'
      BY <1>3, <2>1, EndKeepsPlaces DEF BatcherInv
    <2>3. /\ Len(toPrefill') + 0 = Len(toPrefill)
          /\ \A k \in 1 .. Len(toPrefill') : /\ toPrefill'[k] = toPrefill[k + 0]
                                             /\ toPrefill'[k] \notin G
      BY <1>1, <1>3, <2>1
    <2>4. Works'
      BY <1>1, <1>3, <2>1, <2>3, EndKeepsWorks DEF BatcherInv
    <2> QED BY <1>3, <2>2, <2>4 DEF BatcherInv, Cursor
  <1>4. CASE PrefillBegin
    <2>1. /\ slots' = slots /\ req' = req /\ waiting' = waiting /\ pc' = pc
          /\ pc = "prefill" /\ toPrefill # <<>> /\ toPrefill' = RestOfList(1)
          /\ job'.slot = Head(toPrefill) /\ job'.active = TRUE /\ scan' = scan
          /\ job' = [f \in {"slot", "p", "active"} |-> job'[f]]
      BY <1>4 DEF PrefillBegin
    <2>2. SameOwners /\ SameStatus /\ Occupied' = Occupied
      BY <2>1 DEF SameOwners, SameStatus, Occupied
    <2>3. Places' /\ Shape'
      BY <2>1, <2>2, StayKeepsPlaces DEF BatcherInv, Shape
    <2>4. /\ toPrefill' \in Seq(Slots) /\ Head(toPrefill) = toPrefill[1]
          /\ DOMAIN toPrefill = 1 .. Len(toPrefill) /\ Len(toPrefill) \in Nat \ {0}
          /\ DOMAIN toPrefill' = 1 .. Len(toPrefill) - 1
          /\ \A k \in DOMAIN toPrefill' : toPrefill'[k] = toPrefill[k + 1]
      BY <1>1, <2>1 DEF RestOfList
    <2>5. \A k \in DOMAIN toPrefill' : k + 1 \in DOMAIN toPrefill /\ k + 1 # 1
      BY <2>4
    <2>6. job'.slot \in Occupied /\ \A k \in DOMAIN toPrefill' :
             toPrefill'[k] \in Occupied /\ toPrefill'[k] # job'.slot
      BY <1>1, <2>1, <2>4, <2>5 DEF WorkList
    <2>7. \A k, l \in DOMAIN toPrefill' : toPrefill'[k] = toPrefill'[l] => k = l
      BY <1>1, <2>4, <2>5 DEF WorkList
    <2>8. Works'
      BY <2>1, <2>2, <2>4, <2>6, <2>7 DEF Works, WorkList, Occupied
    <2> QED BY <2>1, <2>3, <2>8 DEF BatcherInv, Cursor
  <1>5. CASE PrefillChunkStep
    <2>1. /\ slots' = slots /\ req' = ChunkReq /\ waiting' = waiting /\ pc' = pc
          /\ toPrefill' = toPrefill /\ scan' = scan /\ job' = [job EXCEPT !.p = ChunkEnd]
      BY <1>5 DEF PrefillChunkStep
    <2>2. SameStatus /\ req' = [r \in Reqs |-> req'[r]]
      BY <1>2, <2>1 DEF SameStatus, ChunkReq, BatcherInv, Shape
    <2>3. job' = [job EXCEPT !.p = job'.p]
      BY <1>1, <2>1
    <2> QED BY <1>2, <2>1, <2>2, <2>3, StayKeepsInv
  <1>6. CASE PrefillFail
    <2>1. /\ job.active /\ FailSlots({job.slot}, ChunkDevice) /\ job' = NoJob
          /\ waiting' = waiting /\ pc' = pc /\ toPrefill' = toPrefill /\ scan' = scan
      BY <1>6 DEF PrefillFail
    <2>2. {job.slot} \in SUBSET Occupied
      BY <1>1, <2>1 DEF WorkList
    <2>3. Shape' /\ Ends({job.slot})
      BY <2>1, <2>2, FailEnds DEF BatcherInv
    <2> QED BY <1>3, <2>1, <2>3
  <1>7. ASSUME NEW tok \in GenTokens, PrefillLastChunk(tok) PROVE BatcherInv'
    <2>1. /\ job.active /\ job' = NoJob
          /\ waiting' = waiting /\ pc' = pc /\ toPrefill' = toPrefill /\ scan' = scan
      BY <1>7 DEF PrefillLastChunk
    <2>2. {job.slot} \in SUBSET Occupied
      BY <1>1, <2>1 DEF WorkList
    <2> DEFINE B == {job.slot}
               tk == [i \in {job.slot} |-> tok]
    <2>3. PICK dv, st : Commit(B, tk, dv, st, ChunkReq)
      BY <1>7 DEF PrefillLastChunk
    <2>4. Shape' /\ \E G \in SUBSET B : Ends(G)
      <3> HIDE DEF B, tk
      <3>1. B \in SUBSET Occupied
        BY <2>2 DEF B
      <3> QED BY <1>2, <2>3, <3>1, CommitEnds DEF BatcherInv
    <2> QED BY <1>3, <2>1, <2>4
  <1> QED BY <1>4, <1>5, <1>6, <1>7

(* The batched prefill.                                                    *)
LEMMA BatchInv ==
    ASSUME BatcherInv, PrefillBatch \/ PrefillBatchFail
    PROVE  BatcherInv'
  <1> DEFINE n == BatchSize
  <1>1. /\ toPrefill \in Seq(Slots) /\ WorkList /\ toPrefill # <<>> /\ ~job.active
        /\ toPrefill' = SubSeq(toPrefill, n + 1, Len(toPrefill))
        /\ job' = job /\ waiting' = waiting /\ pc' = pc /\ scan' = scan
    BY DEF BatcherInv, Works, PrefillBatch, PrefillBatchFail, BatchReady, RestOfList
  <1>2. n \in 1 .. Len(toPrefill) /\ Len(toPrefill) \in Nat
    BY <1>1, BatchSizeType
  <1> HIDE DEF n
  <1>3. BatchSlots = {toPrefill[k] : k \in 1 .. n}
    BY DEF BatchSlots, n
  <1>4. BatchSlots \in SUBSET Occupied
    BY <1>1, <1>2, <1>3 DEF WorkList
  <1>5. Shape' /\ \E G \in SUBSET BatchSlots : Ends(G)
    <2>1. CASE PrefillBatchFail
      <3>1. FailSlots(BatchSlots, BatchDevice)
        BY <2>1 DEF PrefillBatchFail
      <3> QED BY <3>1, <1>4, FailEnds DEF BatcherInv
    <2>2. CASE PrefillBatch
      <3> DEFINE rq == [r \in Reqs |-> IF \E i \in BatchSlots : Owner(i) = r
                              THEN [req[r] EXCEPT !.ran = @ + Len(req[r].prompt)]
                              ELSE req[r]]
      <3>1. PICK tk : Commit(BatchSlots, tk, BatchDevice, store, rq)
        BY <2>2 DEF PrefillBatch
      <3>2. \A r \in Reqs : /\ rq[r] = [f \in ReqFields |-> rq[r][f]]
                            /\ rq[r].st = req[r].st
        BY DEF BatcherInv, Shape, ReqFields
      <3> HIDE DEF rq
      <3> QED BY <3>1, <3>2, <1>4, CommitEnds DEF BatcherInv
    <2> QED BY <2>1, <2>2
  <1>6. PICK G \in SUBSET BatchSlots : Ends(G)
    BY <1>5
  <1>7. /\ toPrefill' \in Seq(Slots) /\ Len(toPrefill') + n = Len(toPrefill)
        /\ Len(toPrefill') \in Nat
        /\ \A k \in 1 .. Len(toPrefill') : toPrefill'[k] = toPrefill[k + n]
    BY <1>1, <1>2
  <1>8. ASSUME NEW k \in 1 .. Len(toPrefill') PROVE toPrefill'[k] \notin BatchSlots
    <2>1. k + n \in DOMAIN toPrefill /\ k + n > n
      BY <1>1, <1>2, <1>7
    <2>2. \A l \in 1 .. n : l \in DOMAIN toPrefill /\ l # k + n
      BY <1>1, <1>2, <1>7
    <2>3. \A l \in 1 .. n : toPrefill[l] # toPrefill[k + n]
      BY <1>1, <2>1, <2>2 DEF WorkList
    <2> QED BY <1>3, <1>7, <2>3
  <1>9. Places'
    BY <1>1, <1>4, <1>6, EndKeepsPlaces DEF BatcherInv
  <1>10. G \in SUBSET Occupied /\ n \in Nat
         /\ \A k \in 1 .. Len(toPrefill') : toPrefill'[k] \notin G
    BY <1>2, <1>4, <1>6, <1>8
  <1>11. Works'
    BY <1>1, <1>6, <1>7, <1>10, EndKeepsWorks DEF BatcherInv
  <1> QED BY <1>1, <1>5, <1>9, <1>11 DEF BatcherInv, Cursor

(* The step of an iteration.                                               *)
LEMMA StepInv ==
    ASSUME BatcherInv, MixedStepRun \/ MixedStepFail \/ DecodeStep \/ DecodeFail
    PROVE  BatcherInv'
  <1>1. StepFrame /\ pc \in {"step", "push"}
    BY DEF MixedStepRun, MixedStepFail, DecodeStep, DecodeFail, MixedTurn, DecodeTurn
  <1>2. toPrefill \in Seq(Slots) /\ toPrefill = <<>> /\ ~job.active
    BY <1>1 DEF BatcherInv, Works, WorkList
  <1>3. Shape' /\ \E G \in SUBSET Occupied : Ends(G)
    <2>1. CASE MixedStepRun
      BY <2>1, MixedEnds DEF BatcherInv
    <2>2. CASE DecodeStep
      BY <2>2, DecodeEnds DEF BatcherInv
    <2>3. CASE MixedStepFail \/ DecodeFail
      <3>1. PICK after : FailSlots(Occupied, after)
        BY <2>3 DEF MixedStepFail, DecodeFail
      <3> QED BY <3>1, FailEnds DEF BatcherInv
    <2> QED BY <2>1, <2>2, <2>3
  <1>4. PICK G \in SUBSET Occupied : Ends(G)
    BY <1>3
  <1>5. Places'
    BY <1>1, <1>4, EndKeepsPlaces DEF BatcherInv, StepFrame
  <1>6. /\ toPrefill' = toPrefill /\ Len(toPrefill') = 0 /\ Len(toPrefill) = 0
        /\ \A k \in 1 .. Len(toPrefill') : FALSE
    BY <1>1, <1>2 DEF StepFrame
  <1>7. Works'
    BY <1>1, <1>2, <1>4, <1>6, EndKeepsWorks DEF BatcherInv, StepFrame
  <1> QED BY <1>1, <1>3, <1>5, <1>7 DEF BatcherInv, Cursor, StepFrame

(* The shutdown ends whatever is in the queue or in a slot.                *)
LEMMA ShutdownInv ==
    ASSUME BatcherInv, Shutdown
    PROVE  BatcherInv'
  <1>1. /\ waiting' = <<>> /\ pc' = "exited" /\ pc = "top"
        /\ toPrefill' = toPrefill /\ job' = job /\ scan' = scan
    BY DEF Shutdown
  <1>2. Shape'
    BY DEF BatcherInv, Shape, Shutdown, Freed, DoneReq, SlotFields, ReqFields
  <1>3. \A i \in Slots : slots'[i].req = None
    BY DEF BatcherInv, Shape, Shutdown, Freed, SlotFields, Occupied
  <1>4. Occupied' = {} /\ Waiting' = {}
    BY <1>1, <1>3 DEF Occupied, Waiting
  <1>5. \A r \in Reqs : req'[r].st =
           IF r \in Waiting \/ \E i \in Occupied : Owner(i) = r THEN "done"
           ELSE req[r].st
    BY DEF BatcherInv, Shape, Shutdown, DoneReq, ReqFields
  <1>6. \A r \in Reqs : req'[r].st # "open"
    BY <1>5 DEF BatcherInv, Places, Placement
  <1>7. Placement'
    BY <1>1, <1>4, <1>6 DEF Placement
  <1>8. InflightBounded'
    BY <1>1, <1>4, FS_EmptySet, BatcherAssumption DEF InflightBounded, InFlight, MaxInflight
  <1>9. Places'
    BY <1>1, <1>3, <1>7, <1>8 DEF Places
  <1>10. Works'
    BY <1>1, <1>4 DEF BatcherInv, Works, WorkList
  <1> QED BY <1>1, <1>2, <1>9, <1>10 DEF BatcherInv, Cursor

-----------------------------------------------------------------------------
(* The worker's sleep                                                      *)

(* What is known while the worker is inside its lock or asleep: a counted  *)
(* admission has filled a slot, so a worker that leaves the passes with    *)
(* every slot free was not stopped by the cap, and the queue is empty.     *)
Admitting == pc \in {"warm", "cross", "cold"}

SleepInv ==
    /\ Admitting => running /\ admitted \in Nat /\ (admitted > 0 => Occupied # {})
    /\ pc = "idle" => Occupied = {} /\ (~signal => waiting = <<>> /\ running)

(* Every step keeps what is known about the sleeping worker.               *)
LEMMA NextSleep == BatcherInv /\ SleepInv /\ [Next]_vars => SleepInv'
  <1> SUFFICES ASSUME BatcherInv, SleepInv, [Next]_vars PROVE SleepInv'
    OBVIOUS
  <1>1. CASE UNCHANGED vars \/ Quiescent
    BY <1>1 DEF vars, Quiescent, SleepInv, Admitting, LockHeld, Occupied
  <1>2. ASSUME NEW r \in Reqs, NEW p \in Prompts, NEW t \in Tenants, Submit(r, p, t)
        PROVE  SleepInv'
    <2>1. /\ slots' = slots /\ running' = running /\ pc' = pc /\ admitted' = admitted
          /\ ~LockHeld
      BY <1>2 DEF Submit, workerVars
    <2>2. \/ waiting' = waiting /\ signal' = signal
          \/ signal' = (signal \/ pc = "idle")
      BY <1>2 DEF Submit, NotifyWorker
    <2> QED BY <2>1, <2>2 DEF SleepInv, Admitting, LockHeld, Occupied
  <1>3. ASSUME NEW r \in Reqs, Cancel(r) PROVE SleepInv'
    BY <1>3 DEF Cancel, NotifyWorker, workerVars, SleepInv, Admitting, LockHeld, Occupied
  <1>4. CASE Stop
    BY <1>4 DEF Stop, NotifyWorker, workerVars, SleepInv, Admitting, LockHeld, Occupied
  <1>5. CASE BeginIteration
    BY <1>5 DEF BeginIteration, SleepInv, Admitting, LockHeld
  <1>6. CASE EndWarm \/ SkipCross \/ EndCross
    BY <1>6 DEF EndWarm, SkipCross, EndCross, SleepInv, Admitting, LockHeld, Occupied
  <1>7. ASSUME NEW i \in Slots, NEW r \in Reqs, NEW start, NEW pin, NEW eager,
               AdmitTo(i, r, start, pin, eager), Admitting, pc' = pc
        PROVE  SleepInv'
    <2>1. slots'[i].req = r
      BY <1>7 DEF AdmitTo, BatcherInv, Shape, SlotFields
    <2>2. Occupied' # {}
      BY <1>7, <2>1, BatcherAssumption DEF Occupied
    <2>3. admitted' = admitted + 1 /\ running' = running
      BY <1>7 DEF AdmitTo
    <2> QED BY <1>7, <2>2, <2>3 DEF SleepInv, Admitting, LockHeld
  <1>8. CASE AdmitWarm
    <2>1. PICK k \in DOMAIN waiting : \E i \in FindWarmSlot(req[waiting[k]].prompt) :
             AdmitTo(i, waiting[k], WarmPos(i, req[waiting[k]].prompt), NoPayload, TRUE)
      BY <1>8 DEF AdmitWarm, WarmHits
    <2>2. waiting[k] \in Reqs /\ \A p : FindWarmSlot(p) \subseteq Slots
      BY DEF BatcherInv, Places, FindWarmSlot, WarmFor
    <2> QED BY <1>7, <1>8, <2>1, <2>2 DEF AdmitWarm, Admitting
  <1>9. CASE AdmitCross
    <2>1. PICK i \in PickColdSlot : \E img \in {store.images[CrossId]} :
             AdmitTo(i, waiting[scan], img.pos, CrossId, TRUE)
      BY <1>9 DEF AdmitCross
    <2>2. scan \in DOMAIN waiting /\ i \in Slots
      BY <1>9 DEF AdmitCross, CrossMore, BatcherInv, Cursor, Places, PickColdSlot
    <2>3. waiting[scan] \in Reqs
      BY <2>2 DEF BatcherInv, Places
    <2> QED BY <1>7, <1>9, <2>1, <2>2, <2>3 DEF AdmitCross, Admitting
  <1>10. CASE AdmitCold
    <2>1. PICK i \in PickColdSlot :
             AdmitTo(i, Head(waiting), 0, NoPayload,
                     ~MixedStep \/ (PressureGate /\ ~pressure))
      BY <1>10 DEF AdmitCold
    <2>2. Head(waiting) \in Reqs /\ i \in Slots
      BY <1>10 DEF AdmitCold, ColdMore, BatcherInv, Places, PickColdSlot
    <2> QED BY <1>7, <1>10, <2>1, <2>2 DEF AdmitCold, Admitting
  <1>11. CASE EndAdmission
    <2>1. /\ pc = "cold" /\ ~ColdMore /\ slots' = slots /\ waiting' = waiting
          /\ running' = running /\ pc' = IF Occupied = {} THEN "idle" ELSE "prefill"
      BY <1>11 DEF EndAdmission
    <2>2. 0 \in Slots
      BY BatcherAssumption DEF Slots
    <2>3. ASSUME Occupied = {} PROVE waiting = <<>> /\ running
      <3>1. admitted \in Nat /\ ~(admitted > 0) /\ running
        BY <2>1, <2>3 DEF SleepInv, Admitting, LockHeld
      <3>2. MayAdmit
        BY <3>1, BatcherAssumption DEF MayAdmit
      <3> QED BY <2>1, <2>2, <2>3, <3>1, <3>2 DEF ColdMore
    <2> QED BY <2>1, <2>3 DEF SleepInv, Admitting, LockHeld, Occupied
  <1>12. CASE Wake
    BY <1>12 DEF Wake, WakePredicate, SleepInv, Admitting, LockHeld, Occupied
  <1>13. CASE Shutdown
    BY <1>13 DEF Shutdown, SleepInv, Admitting, LockHeld
  <1>14. ASSUME pc = "prefill", pc' \in {"prefill", "top", "step"} PROVE SleepInv'
    BY <1>14 DEF SleepInv, Admitting, LockHeld
  <1>15. ASSUME pc' = "top" PROVE SleepInv'
    BY <1>15 DEF SleepInv, Admitting, LockHeld
  <1>16. CASE \/ PrefillBegin \/ PrefillChunkStep \/ PrefillFail
              \/ \E tok \in GenTokens : PrefillLastChunk(tok)
              \/ PrefillBatch \/ PrefillBatchFail \/ PrefillDone
    BY <1>14, <1>16 DEF PrefillBegin, PrefillChunkStep, PrefillFail, PrefillLastChunk,
       PrefillBatch, PrefillBatchFail, PrefillDone, BatchReady
  <1>18. CASE CheckCancelled
    BY <1>18 DEF CheckCancelled, SleepInv, Admitting
  <1>17. CASE MixedStepRun \/ MixedStepFail \/ DecodeStep \/ DecodeFail
    BY <1>15, <1>17 DEF MixedStepRun, MixedStepFail, DecodeStep, DecodeFail, StepFrame
  <1> QED BY <1>1, <1>2, <1>3, <1>4, <1>5, <1>6, <1>8, <1>9, <1>10, <1>11, <1>12, <1>13,
             <1>16, <1>17, <1>18 DEF Next, Worker, Client

-----------------------------------------------------------------------------
(* Theorems                                                                *)

(* BatcherInv is inductive.                                                *)
LEMMA NextInv == BatcherInv /\ [Next]_vars => BatcherInv'
  <1> SUFFICES ASSUME BatcherInv, [Next]_vars PROVE BatcherInv'
    OBVIOUS
  <1>1. CASE Client \/ Quiescent
    BY <1>1, ClientInv
  <1>2. CASE Worker
    BY <1>2, AdmissionInv, ControlInv, PrefillInv, BatchInv, StepInv, ShutdownInv
       DEF Worker
  <1>3. CASE UNCHANGED vars
    <2>1. /\ req' = req /\ slots' = slots /\ waiting' = waiting /\ scan' = scan
          /\ toPrefill' = toPrefill /\ job' = job /\ pc' = pc
      BY <1>3 DEF vars
    <2>2. /\ req' = [q \in Reqs |-> req'[q]]
          /\ \A q \in Reqs : req'[q] = [f \in ReqFields |-> req'[q][f]]
          /\ SameStatus
      BY <2>1 DEF BatcherInv, Shape, SameStatus
    <2>3. job' = [job EXCEPT !.p = job'.p]
      BY <2>1 DEF BatcherInv, Works
    <2> QED BY <2>1, <2>2, <2>3, StayKeepsInv
  <1> QED BY <1>1, <1>2, <1>3 DEF Next

(* Wherever the worker is, its threads of control keep the whole           *)
(* invariant: what the three theorems below are read from.                 *)
THEOREM Invariance == Spec => []BatcherInv
  BY InitInv, NextInv, PTL DEF Spec

(* Every request that is owed an answer, and no other, is in exactly one   *)
(* place: submit, the three admission passes, the commits, the failures    *)
(* and the shutdown lose none, run none twice and hold on to none.         *)
THEOREM PlacementHolds == Spec => []Placement
  <1>1. BatcherInv => Placement
    BY DEF BatcherInv, Places
  <1> QED BY <1>1, Invariance, PTL

(* The capacity check of submit bounds queue and slots together, for every *)
(* maxInflight and every number of slots.                                  *)
THEOREM InflightBoundedHolds == Spec => []InflightBounded
  <1>1. BatcherInv => InflightBounded
    BY DEF BatcherInv, Places
  <1> QED BY <1>1, Invariance, PTL

(* The eager prefill never runs for a slot that is free or listed twice:   *)
(* the guards commitPrefilledSlot calls defensive are never needed.        *)
THEOREM WorkListHolds == Spec => []WorkList
  <1>1. BatcherInv => WorkList
    BY DEF BatcherInv, Works
  <1> QED BY <1>1, Invariance, PTL

(* The worker never sleeps on work: a submit, a cancel or the destructor   *)
(* that comes after the worker decided to sleep has left it a wake-up, and *)
(* before that it has seen the request, whatever AdmitPerIter allows.      *)
THEOREM NoLostWakeupHolds == Spec => []NoLostWakeup
  <1>1. Init => SleepInv
    BY DEF Init, SleepInv, Admitting, LockHeld
  <1>2. SleepInv => NoLostWakeup
    BY DEF SleepInv, NoLostWakeup
  <1> QED BY <1>1, <1>2, NextSleep, Invariance, PTL DEF Spec
=============================================================================
