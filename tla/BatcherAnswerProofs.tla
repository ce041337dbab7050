------------------------- MODULE BatcherAnswerProofs -------------------------
(***************************************************************************)
(* Theorems about what the clients of ContinuousBatcher see, for every     *)
(* number of slots, requests and prompts and every setting of the          *)
(* switches: answers are whole, no prompt token is run twice, the reported *)
(* usage adds up, and the batcher implements RequestLifecycle.             *)
(*                                                                         *)
(* A step does one of six things to a handle (the moves below), and which  *)
(* of them it may do depends on how far the slot that runs the request has *)
(* come: still listed for prefill, under the chunk loop, ingested in band, *)
(* ingested token by token, or decoding.                                   *)
(***************************************************************************)
EXTENDS ContinuousBatcherProofs

(* Where slot i stands in the eager prefill.                               *)
Listed(i) == \E k \in DOMAIN toPrefill : toPrefill[k] = i
Working(i) == job.active /\ job.slot = i

(* What AnswerWhole says of one handle.                                    *)
Whole(q) ==
    LET n == Len(q.tokens)
    IN /\ n <= MaxNew
       /\ \A k \in 1 .. n - 1 : q.tokens[k] \notin StopTokens
       /\ q.st = "done" /\ q.err = "" /\ ~q.cancelled =>
             /\ n > 0
             /\ \/ q.tokens[n] \in StopTokens \/ n = MaxNew
                \/ Len(q.prompt) + n >= MaxContext
       /\ q.st = "open" /\ n > 0 => q.tokens[n] \notin StopTokens /\ n < MaxNew

(* No forward has run for the request.                                     *)
Untouched(q) == q.tokens = <<>> /\ q.ran = 0 /\ ~q.prefillSet

(* The prompt tokens counted are tokens of the prompt.                     *)
Counted(q) == q.ran \in Nat /\ q.prefillSet \in BOOLEAN /\ q.ran <= Len(q.prompt)

HandleOK(q) ==
    /\ q.prompt \in Seq(Nat) /\ q.tokens \in Seq(GenTokens)
    /\ q.cancelled \in BOOLEAN
    /\ q.st \in {"new", "open", "done"}
    /\ q.st = "new" => Untouched(q) /\ ~q.cancelled
    /\ q.st = "open" => q.err = "" /\ 0 < Len(q.prompt) /\ Len(q.prompt) < MaxContext
    /\ Whole(q) /\ Counted(q)

(* How far a slot has come: its three positions, the lengths of its        *)
(* request's prompt and answer, the tokens run and whether the prefill was *)
(* reported, and its place in the eager prefill, whose chunk loop is at p. *)
(* Outside the eager prefill the slot is decoding, or ingests its prompt   *)
(* token by token, or in band.                                             *)
StandsAt(pos, fed, start, L, n, ran, told, listed, working, p) ==
    /\ pos \in Nat /\ fed \in Nat /\ start \in Nat /\ start < L
    /\ ~WarmSlot /\ ~XSlot => start = 0
    /\ listed => PrefillChunk > 0 /\ n = 0 /\ ran = 0 /\ ~told
    /\ working => /\ PrefillChunk > 0 /\ n = 0 /\ ~told
                  /\ p \in Nat /\ p < L /\ start + ran = p
    /\ ~listed /\ ~working =>
          \/ n > 0 /\ pos + 1 = L + n /\ (MixedStep => fed = L)
          \/ PrefillChunk = 0 /\ n = 0 /\ ran = pos /\ ~told /\ pos < L
          \/ MixedStep /\ n = 0 /\ ~told /\ ran = fed /\ ran < L

SlotOK(s, q, listed, working, p) ==
    StandsAt(s.pos, s.prefillPos, s.prefillStart, Len(q.prompt), Len(q.tokens),
             q.ran, q.prefillSet, listed, working, p)

DeviceFields == {"kv", "ssm", "ring", "len"}
StoreFields == {"index", "images", "pendingFree", "nextId"}

(* Checkpoints and images are taken at positions.                          *)
RingOK(d) ==
    /\ d = [f \in DeviceFields |-> d[f]]
    /\ \E S : d.ring \in Seq(S) /\ \A c \in S : c.pos \in Nat

ImagesOK(st) ==
    /\ st = [f \in StoreFields |-> st[f]]
    /\ \A id \in DOMAIN st.images : st.images[id].pos \in Nat

Handles == \A r \in Reqs : HandleOK(req[r])
Queue == \A k \in DOMAIN waiting : Untouched(req[waiting[k]])
Progress == \A i \in Occupied :
                SlotOK(slots[i], req[slots[i].req], Listed(i), Working(i), job.p)
Positions == /\ device = [i \in Slots |-> device[i]] /\ \A i \in Slots : RingOK(device[i])
             /\ \A i \in Slots : slots[i].residentTokens \in Seq(Nat)
             /\ ImagesOK(store)

(* The slots the step loop has found not cancelled are occupied, and the   *)
(* request of every other one was cancelled; outside the loop there are    *)
(* none.                                                                   *)
Passing == /\ passed \subseteq Occupied
           /\ pc # "push" => passed = {}
           /\ pc = "push" => \A i \in Occupied \ passed : req[slots[i].req].cancelled

(* The inductive invariant, next to BatcherInv.                            *)
AnswerInv == Handles /\ Queue /\ Progress /\ Positions /\ Passing

-----------------------------------------------------------------------------
(* Numbers                                                                 *)

(* A nonempty set of numbers has a least one.                              *)
LEMMA LeastNat ==
    ASSUME NEW S \in SUBSET Nat, S # {}
    PROVE  \E m \in S : \A y \in S : m <= y
  <1> DEFINE R == {ss \in Nat \X Nat : ss[1] < ss[2]}
  <1>1. PICK m \in S : \A y \in S : ~(<<y, m>> \in R)
    <2>1. IsWellFoundedOn(R, Nat)
      BY NatLessThanWellFounded, Zenon DEF OpToRel
    <2> HIDE DEF R
    <2> QED BY <2>1, WFMin
  <1>2. \A y \in S : m <= y
    <2>1. m \in Nat /\ \A y \in S : y \in Nat
      BY <1>1
    <2>2. \A y \in Nat : y < m => <<y, m>> \in R
      BY <2>1
    <2> HIDE DEF R
    <2>3. ASSUME NEW y \in S PROVE ~(y < m)
      BY <2>1, <2>2, <2>3, <1>1
    <2> QED BY <2>1, <2>3
  <1> QED BY <1>1, <1>2

(* A nonempty bounded one has a greatest.                                  *)
LEMMA BoundedMax ==
    ASSUME NEW b \in Nat, NEW S \in SUBSET (0 .. b), S # {}
    PROVE  Max(S) \in S /\ \A x \in S : Max(S) >= x
  <1> DEFINE T == {b - k : k \in S}
  <1>1. \A k \in S : k \in Nat /\ k <= b /\ b - k \in Nat
    OBVIOUS
  <1>2. T \in SUBSET Nat /\ T # {}
    BY <1>1
  <1>3. PICK m \in T : \A y \in T : m <= y
    <2> HIDE DEF T
    <2> QED BY <1>2, LeastNat
  <1>4. PICK k \in S : m = b - k
    OBVIOUS
  <1>5. \A x \in S : b - x \in T
    OBVIOUS
  <1> HIDE DEF T
  <1>6. \A x \in S : k >= x
    BY <1>3, <1>4, <1>5
  <1> QED BY <1>6 DEF Max

(* The smaller of two.                                                     *)
LEMMA MinTwo ==
    ASSUME NEW a \in Nat, NEW b \in Nat
    PROVE  Min({a, b}) \in Nat /\ Min({a, b}) = IF a <= b THEN a ELSE b
  <1>1. \E x \in {a, b} : \A y \in {a, b} : x <= y
    OBVIOUS
  <1>2. Min({a, b}) \in {a, b} /\ \A y \in {a, b} : Min({a, b}) <= y
    BY <1>1 DEF Min
  <1> QED BY <1>2

(* The common prefix of two texts is no longer than the first.             *)
LEMMA LCPType ==
    ASSUME NEW a \in Seq(Nat), NEW b \in Seq(Nat)
    PROVE  LCP(a, b) \in Nat
  <1> DEFINE S == {n \in 0 .. Len(a) : n <= Len(b) /\ SubSeq(a, 1, n) = SubSeq(b, 1, n)}
  <1>1. Len(a) \in Nat /\ Len(b) \in Nat
    OBVIOUS
  <1>2. SubSeq(a, 1, 0) = SubSeq(b, 1, 0)
    OBVIOUS
  <1>3. 0 \in S /\ S \in SUBSET (0 .. Len(a))
    BY <1>1, <1>2
  <1>4. LCP(a, b) = Max(S)
    BY DEF LCP
  <1> HIDE DEF S
  <1>5. Max(S) \in S
    BY <1>1, <1>3, BoundedMax
  <1>6. Max(S) \in 0 .. Len(a)
    BY <1>3, <1>5, Zenon
  <1>7. LCP(a, b) \in 0 .. Len(a)
    BY <1>4, <1>6, Zenon
  <1> QED BY <1>1, <1>7

-----------------------------------------------------------------------------
(* The device                                                              *)

(* findWarmSlot resumes inside the prompt.                                 *)
LEMMA WarmPosType ==
    ASSUME Positions, NEW i \in Slots, NEW prompt \in Seq(Nat), prompt # <<>>
    PROVE  WarmPos(i, prompt) \in Nat /\ WarmPos(i, prompt) < Len(prompt)
  <1> DEFINE lcp == LCP(slots[i].residentTokens, prompt)
             best == CkptBestPos(device[i], lcp)
             S == {0} \cup {p \in CkptPositions(device[i]) : p <= lcp}
  <1>1. lcp \in Nat
    BY LCPType DEF Positions
  <1>2. CkptPositions(device[i]) \subseteq Nat
    <2>1. PICK C : device[i].ring \in Seq(C) /\ \A c \in C : c.pos \in Nat
      BY DEF Positions, RingOK
    <2>2. \A k \in DOMAIN device[i].ring : device[i].ring[k] \in C
      BY <2>1
    <2> QED BY <2>1, <2>2 DEF CkptPositions
  <1>3. best = Max(S)
    BY DEF CkptBestPos
  <1>4. (WarmPos(i, prompt) = best /\ best < Len(prompt)) \/ WarmPos(i, prompt) = 0
    BY DEF WarmPos
  <1> HIDE DEF lcp, best
  <1>5. 0 \in S /\ S \in SUBSET (0 .. lcp)
    <2>1. ASSUME NEW x \in S PROVE x \in 0 .. lcp
      BY <1>1, <1>2, <2>1
    <2> QED BY <2>1
  <1> HIDE DEF S
  <1>6. best \in Nat
    <2>1. Max(S) \in S
      BY <1>1, <1>5, BoundedMax
    <2>2. best \in 0 .. lcp
      BY <1>3, <1>5, <2>1, Zenon
    <2> QED BY <1>1, <2>2
  <1>7. Len(prompt) \in Nat /\ 0 < Len(prompt)
    OBVIOUS
  <1> QED BY <1>4, <1>6, <1>7

(* K[n] is what pruning at m keeps of the first n checkpoints of the ring. *)
Prunes(K, ring, m) ==
    /\ K[0] = <<>>
    /\ \A n \in 1 .. Len(ring) :
          K[n] = IF ring[n].pos <= m THEN Append(K[n - 1], ring[n]) ELSE K[n - 1]

(* The recursive function the kept checkpoints are collected by exists: it *)
(* is shown by the least length at which it would not.                     *)
LEMMA PruneUnfolds ==
    ASSUME NEW d, RingOK(d), NEW m
    PROVE  \E K : /\ PruneCkpts(d, m) = [d EXCEPT !.ring = K[Len(d.ring)]]
                  /\ Prunes(K, d.ring, m)
  <1>1. PICK C : d.ring \in Seq(C) /\ \A c \in C : c.pos \in Nat
    BY DEF RingOK
  <1>2. PICK ring \in Seq(C) : ring = d.ring
    BY <1>1
  <1>3. PICK N \in Nat : N = Len(ring)
    OBVIOUS
  <1> DEFINE Next1(e, n) == IF ring[n].pos <= m THEN Append(e, ring[n]) ELSE e
             Body(g) == [n \in 0 .. N |-> IF n = 0 THEN <<>> ELSE Next1(g[n - 1], n)]
             Kept == CHOOSE g : g = Body(g)
  <1>4. PruneCkpts(d, m) = [d EXCEPT !.ring = Kept[N]]
    BY <1>2, <1>3, Zenon DEF PruneCkpts
  <1>5. \A e, n : Next1(e, n) = IF ring[n].pos <= m THEN Append(e, ring[n]) ELSE e
    OBVIOUS
  <1> HIDE DEF Next1
  <1> DEFINE Solves(g, n) == \A k \in 0 .. n : g[k] = IF k = 0 THEN <<>> ELSE Next1(g[k - 1], k)
  <1>6. \A n \in Nat : \E g : Solves(g, n)
    <2> DEFINE Bad == {n \in Nat : ~ \E g : Solves(g, n)}
    <2>1. SUFFICES ASSUME Bad # {} PROVE FALSE
      OBVIOUS
    <2>2. PICK b \in Bad : \A y \in Bad : b <= y
      BY <2>1, LeastNat
    <2>3. Solves([n \in 0 .. 0 |-> <<>>], 0)
      <3>1. \A k \in 0 .. 0 : k = 0 /\ [n \in 0 .. 0 |-> <<>>][k] = <<>>
        OBVIOUS
      <3> QED BY <3>1, Zenon
    <2>4. b # 0 /\ b \in Nat
      <3>1. b \in Nat /\ ~ \E g : Solves(g, b)
        BY <2>2
      <3> HIDE DEF Solves
      <3> QED BY <2>3, <3>1
    <2>5. b - 1 \in Nat /\ b - 1 \notin Bad
      <3> HIDE DEF Bad
      <3> QED BY <2>2, <2>4
    <2>6. PICK g : Solves(g, b - 1)
      BY <2>5
    <2> DEFINE h == [k \in 0 .. b |-> IF k = b THEN Next1(g[b - 1], b) ELSE g[k]]
    <2>7. ASSUME NEW k \in 0 .. b
          PROVE  h[k] = IF k = 0 THEN <<>> ELSE Next1(h[k - 1], k)
      <3>1. CASE k = b
        <4>1. h[b] = Next1(g[b - 1], b)
          BY <2>4
        <4>2. b - 1 \in 0 .. b /\ b - 1 # b
          BY <2>4
        <4>3. h[b - 1] = g[b - 1]
          BY <4>2
        <4> QED BY <2>4, <3>1, <4>1, <4>3, Zenon
      <3>2. CASE k # b
        <4>1. k \in 0 .. b - 1 /\ h[k] = g[k]
          BY <2>4, <3>2
        <4>2. g[k] = IF k = 0 THEN <<>> ELSE Next1(g[k - 1], k)
          BY <2>6, <4>1, Zenon
        <4>3. CASE k = 0
          BY <4>1, <4>2, <4>3, Zenon
        <4>4. CASE k # 0
          <5>1. k - 1 \in 0 .. b /\ k - 1 # b
            BY <2>4, <4>1, <4>4
          <5>2. h[k - 1] = g[k - 1]
            BY <5>1
          <5> QED BY <4>1, <4>2, <4>4, <5>2, Zenon
        <4> QED BY <4>3, <4>4
      <3> QED BY <3>1, <3>2
    <2>8. Solves(h, b)
      BY <2>7, Zenon
    <2> QED BY <2>2, <2>8
  <1>7. Kept = Body(Kept)
    <2>1. PICK g : Solves(g, N)
      BY <1>6
    <2> DEFINE h == [n \in 0 .. N |-> g[n]]
    <2>2. ASSUME NEW n \in 0 .. N
          PROVE  h[n] = IF n = 0 THEN <<>> ELSE Next1(h[n - 1], n)
      <3>1. h[n] = g[n] /\ g[n] = IF n = 0 THEN <<>> ELSE Next1(g[n - 1], n)
        BY <2>1, Zenon
      <3>2. CASE n = 0
        BY <3>1, <3>2, Zenon
      <3>3. CASE n # 0
        <4>1. n - 1 \in 0 .. N
          BY <3>3
        <4>2. h[n - 1] = g[n - 1]
          BY <4>1
        <4> QED BY <3>1, <3>3, <4>2, Zenon
      <3> QED BY <3>2, <3>3
    <2>3. h = Body(h)
      <3>1. Body(h) = [n \in 0 .. N |-> h[n]]
        BY <2>2, Zenon
      <3>2. h = [n \in 0 .. N |-> h[n]]
        OBVIOUS
      <3> QED BY <3>1, <3>2, Zenon
    <2> HIDE DEF h, Body
    <2> QED BY <2>3, Zenon
  <1> HIDE DEF Kept
  <1>8. ASSUME NEW n \in 0 .. N
        PROVE  Kept[n] = IF n = 0 THEN <<>> ELSE Next1(Kept[n - 1], n)
    <2>1. Body(Kept)[n] = IF n = 0 THEN <<>> ELSE Next1(Kept[n - 1], n)
      BY Zenon
    <2> HIDE DEF Body
    <2> QED BY <1>7, <2>1, Zenon
  <1>9. Prunes(Kept, ring, m)
    <2>1. Kept[0] = <<>>
      BY <1>3, <1>8
    <2>2. ASSUME NEW n \in 1 .. N
          PROVE  Kept[n] = IF ring[n].pos <= m THEN Append(Kept[n - 1], ring[n])
                           ELSE Kept[n - 1]
      <3>1. n \in 0 .. N /\ n # 0
        BY <1>3
      <3> QED BY <1>5, <1>8, <3>1, Zenon
    <2> QED BY <1>3, <2>1, <2>2, Zenon DEF Prunes
  <1> QED BY <1>2, <1>3, <1>4, <1>9, Zenon

(* Pruning keeps some of the checkpoints.                                  *)
LEMMA PruneKeepsRing ==
    ASSUME NEW d, RingOK(d), NEW m
    PROVE  RingOK(PruneCkpts(d, m))
  <1>1. PICK C : d.ring \in Seq(C) /\ \A c \in C : c.pos \in Nat
    BY DEF RingOK
  <1>2. PICK ring \in Seq(C) : ring = d.ring
    BY <1>1
  <1>3. PICK N \in Nat : N = Len(ring)
    OBVIOUS
  <1>4. PICK K : PruneCkpts(d, m) = [d EXCEPT !.ring = K[N]] /\ Prunes(K, ring, m)
    BY <1>2, <1>3, PruneUnfolds, Zenon
  <1>5. \A n \in 0 .. N : K[n] \in Seq(C)
    <2> DEFINE Bad == {n \in 0 .. N : K[n] \notin Seq(C)}
    <2>1. SUFFICES ASSUME Bad # {} PROVE FALSE
      OBVIOUS
    <2>2. Bad \in SUBSET Nat
      OBVIOUS
    <2>3. PICK b \in Bad : \A y \in Bad : b <= y
      BY <2>1, <2>2, LeastNat
    <2>4. b \in 0 .. N /\ K[b] \notin Seq(C)
      BY <2>3
    <2>5. b # 0
      <3>1. <<>> \in Seq(C) /\ K[0] = <<>>
        BY <1>4 DEF Prunes
      <3> QED BY <2>4, <3>1, Zenon
    <2>6. b - 1 \in 0 .. N /\ b \in 1 .. N /\ ~(b <= b - 1)
      BY <2>4, <2>5
    <2>7. K[b - 1] \in Seq(C)
      <3>1. b - 1 \notin Bad
        <4> HIDE DEF Bad
        <4> QED BY <2>3, <2>6
      <3> QED BY <2>6, <3>1
    <2>8. K[b] = Append(K[b - 1], ring[b]) \/ K[b] = K[b - 1]
      BY <1>3, <1>4, <2>6 DEF Prunes
    <2>9. Append(K[b - 1], ring[b]) \in Seq(C)
      BY <1>3, <2>6, <2>7
    <2> QED BY <2>4, <2>7, <2>8, <2>9, Zenon
  <1>6. K[N] \in Seq(C)
    BY <1>3, <1>5
  <1> QED BY <1>1, <1>4, <1>6 DEF RingOK, DeviceFields

-----------------------------------------------------------------------------
(* The moves of a handle                                                   *)

(* Nothing a client sees changes, but for the cancel flag of a request     *)
(* that is open.                                                           *)
StillMove(q, q2) ==
    /\ q2.st = q.st /\ q2.tokens = q.tokens /\ q2.err = q.err /\ q2.prompt = q.prompt
    /\ q2.cancelled \in BOOLEAN /\ (q.cancelled => q2.cancelled)
    /\ q.st # "open" => q2 = q

EmitMove(q, q2) ==
    /\ q.st = "open"
    /\ q2.cancelled = q.cancelled /\ q2.prompt = q.prompt /\ q2.err = q.err
    /\ \E t \in GenTokens :
          /\ q2.tokens = Append(q.tokens, t)
          /\ q2.st = IF Stops(t, Len(q.tokens) + 1, Len(q.prompt) + Len(q.tokens))
                     THEN "done" ELSE "open"

DropMove(q, q2) ==
    /\ q.st = "open" /\ q.cancelled /\ q2.st = "done"
    /\ q2.cancelled = q.cancelled /\ q2.prompt = q.prompt /\ q2.err = q.err
    /\ q2.tokens = q.tokens

FailMove(q, q2) ==
    /\ q.st = "open" /\ q2.st = "done" /\ q2.err # ""
    /\ q2.prompt = q.prompt /\ q2.tokens = q.tokens
    /\ q2.cancelled \in BOOLEAN /\ (q.cancelled => q2.cancelled)

AcceptMove(q, q2) ==
    /\ q.st = "new" /\ q2.st = "open" /\ q2.err = "" /\ ~q2.cancelled
    /\ q2.cancelled \in BOOLEAN /\ q2.prompt \in Seq(Nat) /\ Untouched(q2)
    /\ 0 < Len(q2.prompt) /\ Len(q2.prompt) < MaxContext

RejectMove(q, q2) ==
    /\ q.st = "new" /\ q2.st = "done" /\ q2.err # ""
    /\ q2.cancelled \in BOOLEAN /\ q2.prompt \in Seq(Nat) /\ Untouched(q2)

Move(q, q2) ==
    /\ \/ StillMove(q, q2) \/ EmitMove(q, q2) \/ DropMove(q, q2) \/ FailMove(q, q2)
       \/ AcceptMove(q, q2) \/ RejectMove(q, q2)
    /\ Counted(q2)

(* The sizes are numbers.                                                  *)
LEMMA Sizes ==
    /\ MaxNew \in Nat /\ MaxNew > 0 /\ MaxContext \in Nat /\ MaxContext > 0
    /\ PrefillChunk \in Nat /\ PrefillMaxRows \in Nat /\ MaxBatch \in Nat /\ MaxBatch > 0
  BY BatcherAssumption, MaxContextAssumption

(* Appending to a text.                                                    *)
LEMMA AppendFacts ==
    ASSUME NEW T, NEW s \in Seq(T), NEW t \in T
    PROVE  /\ Len(s) \in Nat /\ Append(s, t) \in Seq(T) /\ Len(Append(s, t)) = Len(s) + 1
           /\ Append(s, t)[Len(s) + 1] = t
           /\ \A k \in 1 .. Len(s) : Append(s, t)[k] = s[k]
  OBVIOUS

(* Prompt and answer are texts.                                            *)
LEMMA HandleTypes ==
    ASSUME NEW q, HandleOK(q)
    PROVE  /\ q.prompt \in Seq(Nat) /\ q.tokens \in Seq(GenTokens)
           /\ Len(q.prompt) \in Nat /\ Len(q.tokens) \in Nat
  <1>1. q.prompt \in Seq(Nat) /\ q.tokens \in Seq(GenTokens)
    BY Zenon DEF HandleOK
  <1> QED BY <1>1

(* Every move keeps what is known of a handle.                             *)
LEMMA MoveKeepsHandle ==
    ASSUME NEW q, NEW q2, HandleOK(q), Move(q, q2)
    PROVE  HandleOK(q2)
  <1>1. CASE StillMove(q, q2)
    <2>1. CASE q.st = "open"
      BY <1>1, <2>1 DEF StillMove, Whole, Move, HandleOK
    <2>2. CASE q.st # "open"
      BY <1>1, <2>2 DEF StillMove
    <2> QED BY <2>1, <2>2
  <1>2. CASE EmitMove(q, q2)
    <2>1. PICK t \in GenTokens :
             /\ q2.tokens = Append(q.tokens, t)
             /\ q2.st = IF Stops(t, Len(q.tokens) + 1, Len(q.prompt) + Len(q.tokens))
                        THEN "done" ELSE "open"
      BY <1>2 DEF EmitMove
    <2>2. PICK n : n = Len(q.tokens)
      OBVIOUS
    <2>3. q.tokens \in Seq(GenTokens) /\ q.prompt \in Seq(Nat) /\ Len(q.prompt) \in Nat
      BY HandleTypes
    <2>4. /\ n \in Nat /\ q2.tokens \in Seq(GenTokens) /\ Len(q2.tokens) = n + 1
          /\ q2.tokens[n + 1] = t
          /\ \A k \in 1 .. n : q2.tokens[k] = q.tokens[k]
      BY <2>1, <2>2, <2>3, AppendFacts
    <2>5. n < MaxNew /\ \A k \in 1 .. n : q.tokens[k] \notin StopTokens
      <3>1. q.st = "open" /\ Whole(q)
        BY <1>2 DEF EmitMove, HandleOK
      <3>2. n <= MaxNew /\ (\A k \in 1 .. n - 1 : q.tokens[k] \notin StopTokens)
            /\ (n > 0 => q.tokens[n] \notin StopTokens /\ n < MaxNew)
        BY <3>1, <2>2, Zenon DEF Whole
      <3> QED BY <2>4, <3>2, Sizes
    <2>10. q2.st = IF \/ t \in StopTokens \/ n + 1 >= MaxNew
                     \/ (Len(q.prompt) + n) + 1 >= MaxContext THEN "done" ELSE "open"
      BY <2>1, <2>2, Zenon DEF Stops
    <2>6. q2.st = "done" => t \in StopTokens \/ n + 1 = MaxNew
                              \/ Len(q.prompt) + (n + 1) >= MaxContext
      <3>1. /\ n + 1 >= MaxNew => n + 1 = MaxNew
            /\ (Len(q.prompt) + n) + 1 >= MaxContext => Len(q.prompt) + (n + 1) >= MaxContext
        <4>1. PICK l : l = Len(q.prompt)
          OBVIOUS
        <4>2. l \in Nat /\ n \in Nat /\ n < MaxNew
          BY <2>3, <2>4, <2>5, <4>1
        <4>3. n + 1 >= MaxNew => n + 1 = MaxNew
          BY <4>2, Sizes
        <4>4. (l + n) + 1 >= MaxContext => l + (n + 1) >= MaxContext
          BY <4>2, Sizes
        <4> QED BY <4>1, <4>3, <4>4, Zenon
      <3>2. "open" # "done"
        OBVIOUS
      <3> QED BY <2>10, <3>1, <3>2, Zenon
    <2>7. q2.st = "open" => t \notin StopTokens /\ n + 1 < MaxNew
      BY <2>3, <2>4, <2>5, <2>10, Sizes
    <2>8. /\ q2.st \in {"open", "done"} /\ q2.prompt = q.prompt /\ q2.cancelled = q.cancelled
          /\ q2.err = q.err /\ q.st = "open"
      BY <1>2, <2>1 DEF EmitMove
    <2>9. Whole(q2)
      <3>1. n + 1 <= MaxNew
        BY <2>4, <2>5, Sizes
      <3>2. \A k \in 1 .. (n + 1) - 1 : q2.tokens[k] \notin StopTokens
        <4>1. (n + 1) - 1 = n
          BY <2>4
        <4> QED BY <2>4, <2>5, <4>1
      <3>3. n + 1 > 0
        BY <2>4
      <3> QED BY <2>4, <2>6, <2>7, <2>8, <3>1, <3>2, <3>3, Zenon DEF Whole
    <2> QED BY <2>3, <2>4, <2>8, <2>9 DEF Move, HandleOK
  <1>3. CASE DropMove(q, q2) \/ FailMove(q, q2)
    BY <1>3 DEF DropMove, FailMove, Whole, Move, HandleOK
  <1>4. CASE AcceptMove(q, q2) \/ RejectMove(q, q2)
    <2>0. q2.tokens = <<>>
      BY <1>4, Zenon DEF AcceptMove, RejectMove, Untouched
    <2>1. q2.tokens = <<>> /\ Len(q2.tokens) = 0 /\ q2.tokens \in Seq(GenTokens)
      BY <2>0
    <2>3. 0 <= MaxNew /\ ~(0 > 0) /\ \A k \in 1 .. 0 - 1 : FALSE
      BY Sizes
    <2>4. (q2.st = "done" /\ q2.err # "") \/ q2.st = "open"
      BY <1>4, Zenon DEF AcceptMove, RejectMove
    <2>5. q2.st = "open" => q2.st # "done"
      BY Zenon
    <2>2. Whole(q2)
      BY <2>1, <2>3, <2>4, <2>5, Zenon DEF Whole
    <2> QED BY <1>4, <2>1, <2>2 DEF AcceptMove, RejectMove, Move, HandleOK
  <1> QED BY <1>1, <1>2, <1>3, <1>4 DEF Move

-----------------------------------------------------------------------------
(* The rows of a mixed step                                                *)

(* A sum over a finite set is a number, and no summand exceeds it.  The    *)
(* library defines the sum by a recursive function on the subsets of S:    *)
(* that one exists is shown by the least size of a subset for which it     *)
(* would not.                                                              *)
LEMMA SumNat ==
    ASSUME NEW f, NEW S, IsFiniteSet(S), \A s \in S : f[s] \in Nat
    PROVE  /\ SumFunctionOnSet(f, S) \in Nat
           /\ \A s \in S : f[s] <= SumFunctionOnSet(f, S)
  <1> DEFINE ch(s) == CHOOSE x \in s : TRUE
             body(g) == [s \in SUBSET S |-> IF s = {} THEN 0 ELSE f[ch(s)] + g[s \ {ch(s)}]]
             fold == CHOOSE g : g = body(g)
  <1>1. SumFunctionOnSet(f, S) = fold[S]
    BY DEF SumFunctionOnSet, FoldFunctionOnSet, MapThenFoldSet
  <1> DEFINE Solves(g, n) ==
                 \A s \in SUBSET S : Cardinality(s) <= n =>
                     g[s] = IF s = {} THEN 0 ELSE f[ch(s)] + g[s \ {ch(s)}]
  <1>2. \A s \in SUBSET S : IsFiniteSet(s) /\ Cardinality(s) \in Nat
    BY FS_Subset, FS_CardinalityType
  <1>3. ASSUME NEW s \in SUBSET S, s # {}
        PROVE  /\ ch(s) \in S /\ s \ {ch(s)} \in SUBSET S
               /\ Cardinality(s \ {ch(s)}) = Cardinality(s) - 1
    <2>1. ch(s) \in s
      BY <1>3
    <2> HIDE DEF ch
    <2> QED BY <1>2, <2>1, FS_RemoveElement
  <1>4. \A s \in SUBSET S : Cardinality(s) = 0 => s = {}
    BY <1>2, FS_EmptySet
  <1> HIDE DEF ch
  <1>5. \A n \in Nat : \E g : Solves(g, n)
    <2> DEFINE Bad == {n \in Nat : ~ \E g : Solves(g, n)}
    <2>1. SUFFICES ASSUME Bad # {} PROVE FALSE
      OBVIOUS
    <2>2. PICK m \in Bad : \A y \in Bad : m <= y
      BY <2>1, LeastNat
    <2>3. Solves([s \in SUBSET S |-> 0], 0)
      <3>1. ASSUME NEW s \in SUBSET S, Cardinality(s) <= 0 PROVE s = {}
        BY <1>2, <1>4, <3>1
      <3>2. \A s \in SUBSET S : [x \in SUBSET S |-> 0][s] = 0
        OBVIOUS
      <3> QED BY <3>1, <3>2, Zenon
    <2>4. m # 0 /\ m \in Nat
      <3>1. m \in Nat /\ ~ \E g : Solves(g, m)
        BY <2>2
      <3> HIDE DEF Solves
      <3> QED BY <2>3, <3>1
    <2>5. m - 1 \in Nat /\ m - 1 \notin Bad
      <3> HIDE DEF Bad
      <3> QED BY <2>2, <2>4
    <2>6. PICK g : Solves(g, m - 1)
      BY <2>5
    <2> DEFINE h == [s \in SUBSET S |->
                       IF Cardinality(s) <= m - 1 THEN g[s]
                       ELSE f[ch(s)] + g[s \ {ch(s)}]]
    <2>7. ASSUME NEW s \in SUBSET S, Cardinality(s) <= m
          PROVE  h[s] = IF s = {} THEN 0 ELSE f[ch(s)] + h[s \ {ch(s)}]
      <3>1. CASE s = {}
        <4>1. Cardinality(s) = 0
          BY <3>1, FS_EmptySet
        <4>2. Cardinality(s) <= m - 1
          BY <2>5, <4>1
        <4>4. g[s] = 0
          BY <2>6, <3>1, <4>2, Zenon
        <4>3. h[s] = g[s]
          BY <2>5, <4>1
        <4> QED BY <3>1, <4>3, <4>4, Zenon
      <3>2. CASE s # {}
        <4>1. s \ {ch(s)} \in SUBSET S /\ Cardinality(s \ {ch(s)}) <= m - 1
          BY <1>2, <1>3, <2>4, <2>7, <3>2
        <4>2. h[s \ {ch(s)}] = g[s \ {ch(s)}]
          BY <4>1
        <4>3. CASE Cardinality(s) <= m - 1
          BY <2>6, <3>2, <4>2, <4>3
        <4>4. CASE ~(Cardinality(s) <= m - 1)
          BY <3>2, <4>2, <4>4
        <4> QED BY <4>3, <4>4
      <3> QED BY <3>1, <3>2
    <2>8. Solves(h, m)
      BY <2>7
    <2> QED BY <2>2, <2>8
  <1>6. fold = body(fold)
    <2>1. PICK g : Solves(g, Cardinality(S))
      BY <1>2, <1>5
    <2> DEFINE h == [s \in SUBSET S |-> g[s]]
    <2>2. ASSUME NEW s \in SUBSET S
          PROVE  h[s] = IF s = {} THEN 0 ELSE f[ch(s)] + h[s \ {ch(s)}]
      <3>1. Cardinality(s) <= Cardinality(S)
        BY FS_Subset
      <3> QED BY <2>1, <3>1
    <2>3. h = body(h)
      BY <2>2
    <2> HIDE DEF body, h
    <2> QED BY <2>3
  <1>7. ASSUME NEW s \in SUBSET S
        PROVE  fold[s] = IF s = {} THEN 0 ELSE f[ch(s)] + fold[s \ {ch(s)}]
    <2> HIDE DEF fold
    <2> QED BY <1>6
  <1> HIDE DEF fold
  <1> DEFINE Fine(s) == fold[s] \in Nat /\ \A x \in s : f[x] <= fold[s]
             Bad == {n \in Nat : \E s \in SUBSET S : Cardinality(s) = n /\ ~Fine(s)}
  <1>8. ASSUME Bad # {} PROVE FALSE
    <2>1. PICK m \in Bad : \A y \in Bad : m <= y
      BY <1>8, LeastNat
    <2>2. PICK s \in SUBSET S : Cardinality(s) = m /\ ~Fine(s)
      BY <2>1
    <2>3. s # {}
      <3>1. s = {} => fold[s] = 0
        BY <1>7, Zenon
      <3> QED BY <2>2, <3>1
    <2>4. Cardinality(s \ {ch(s)}) \notin Bad
      <3> HIDE DEF Fine
      <3> QED BY <1>2, <1>3, <2>1, <2>2, <2>3
    <2>5. Fine(s \ {ch(s)})
      <3> HIDE DEF Fine
      <3> QED BY <1>2, <1>3, <2>3, <2>4
    <2>6. PICK a, b : a = f[ch(s)] /\ b = fold[s \ {ch(s)}]
      OBVIOUS
    <2>7. a \in Nat /\ b \in Nat /\ fold[s] = a + b
      BY <1>3, <1>7, <2>3, <2>5, <2>6
    <2>8. ASSUME NEW x \in s PROVE f[x] <= fold[s]
      <3>1. CASE x = ch(s)
        BY <2>6, <2>7, <3>1
      <3>2. CASE x # ch(s)
        <4>1. f[x] \in Nat /\ f[x] <= b
          BY <2>5, <2>6, <3>2
        <4> QED BY <2>7, <4>1
      <3> QED BY <3>1, <3>2
    <2> QED BY <2>2, <2>7, <2>8
  <1>9. Fine(S)
    <2>1. Cardinality(S) \in Nat /\ S \in SUBSET S
      BY <1>2
    <2>2. ~Fine(S) => Cardinality(S) \in Bad
      BY <2>1
    <2> QED BY <1>8, <2>2
  <1> QED BY <1>1, <1>9

(* The active prefix ends at a slot.                                       *)
LEMMA ActivePrefixSize == Cardinality(ActivePrefix) \in Nat
  <1>1. CASE Occupied = {}
    BY <1>1, FS_EmptySet DEF ActivePrefix
  <1>2. CASE Occupied # {}
    <2>1. MaxBatch - 1 \in Nat /\ Occupied \in SUBSET (0 .. MaxBatch - 1)
      BY Sizes DEF Occupied, Slots
    <2>2. Max(Occupied) \in Occupied
      BY <1>2, <2>1, BoundedMax
    <2>3. Max(Occupied) \in 0 .. MaxBatch - 1
      BY <2>1, <2>2, Zenon
    <2>4. Max(Occupied) \in Int /\ 0 \in Int
      BY <2>1, <2>3
    <2>5. IsFiniteSet(0 .. Max(Occupied))
      BY <2>4, FS_Interval
    <2> QED BY <1>2, <2>5, FS_CardinalityType DEF ActivePrefix
  <1> QED BY <1>1, <1>2

(* A prefilling slot gets at least a row, and not more than its prompt has *)
(* left.                                                                   *)
LEMMA MixedChunkType ==
    ASSUME MixedStep, NEW i \in Prefilling,
           \A j \in Prefilling : slots[j].prefillPos \in Nat /\ PromptLen(j) \in Nat
    PROVE  /\ MixedChunk(i) \in Nat /\ MixedChunk(i) > 0
           /\ slots[i].prefillPos + MixedChunk(i) <= PromptLen(i)
  <1>1. PrefillChunk \in Nat /\ PrefillChunk > 0 /\ PrefillMaxRows \in Nat
    BY BatcherAssumption
  <1>2. ASSUME NEW j \in Prefilling
        PROVE  /\ Wanted(j) \in Nat /\ Wanted(j) > 0 /\ Wanted(j) - 1 \in Nat
               /\ slots[j].prefillPos + Wanted(j) <= PromptLen(j)
    <2>1. PICK a, b : a = slots[j].prefillPos /\ b = PromptLen(j)
      OBVIOUS
    <2>2. a \in Nat /\ b \in Nat /\ a < b
      BY <1>2, <2>1 DEF Prefilling
    <2>3. b - a \in Nat /\ b - a > 0
      BY <2>2
    <2>4. Wanted(j) = Min({PrefillChunk, b - a})
      BY <2>1 DEF Wanted
    <2>5. Wanted(j) \in Nat /\ Wanted(j) = IF PrefillChunk <= b - a THEN PrefillChunk ELSE b - a
      BY <1>1, <2>3, <2>4, MinTwo
    <2>6. Wanted(j) > 0 /\ a + Wanted(j) <= b
      BY <1>1, <2>2, <2>3, <2>5
    <2> QED BY <2>1, <2>5, <2>6
  <1> DEFINE rows == Cardinality(ActivePrefix)
             extra == IF PrefillMaxRows > rows THEN PrefillMaxRows - rows ELSE 0
             S == {j \in Prefilling : j < i}
             more == [j \in Prefilling |-> Wanted(j) - 1]
             sum == SumFunctionOnSet(more, S)
             left == IF extra > sum THEN extra - sum ELSE 0
  <1>3. MixedChunk(i) = 1 + Min({Wanted(i) - 1, left})
    BY DEF MixedChunk
  <1>4. rows \in Nat
    BY ActivePrefixSize
  <1>5. sum \in Nat
    <2>1. S \in SUBSET Occupied
      BY DEF Prefilling
    <2>2. IsFiniteSet(S)
      BY <2>1, OccupiedFinite, FS_Subset
    <2>3. \A j \in S : more[j] \in Nat
      BY <1>2
    <2> HIDE DEF S, more
    <2> QED BY <2>2, <2>3, SumNat
  <1> HIDE DEF rows, sum
  <1>6. left \in Nat
    BY <1>1, <1>4, <1>5
  <1> HIDE DEF left
  <1>7. PICK w \in Nat : w = Wanted(i)
    BY <1>2
  <1>8. Wanted(i) - 1 = w - 1 /\ w > 0
    BY <1>2, <1>7
  <1>9. /\ Min({Wanted(i) - 1, left}) \in Nat
        /\ Min({Wanted(i) - 1, left}) = IF Wanted(i) - 1 <= left THEN Wanted(i) - 1 ELSE left
    BY <1>2, <1>6, MinTwo
  <1>10. MixedChunk(i) \in Nat /\ MixedChunk(i) > 0 /\ MixedChunk(i) <= w
    BY <1>3, <1>6, <1>7, <1>8, <1>9
  <1>11. PICK a \in Nat, b \in Nat : a = slots[i].prefillPos /\ b = PromptLen(i)
    OBVIOUS
  <1>12. a + w <= b
    BY <1>2, <1>7, <1>11
  <1>13. a + MixedChunk(i) <= b
    BY <1>10, <1>11, <1>12, <1>7
  <1> QED BY <1>10, <1>11, <1>13

-----------------------------------------------------------------------------
(* What the steps that hand out tokens, or fail, tell the handles          *)

(* The commit of a prefill in slot i ends the request.                     *)
CommitGone(i, t) == Cancelled(i) \/ Stops(t, 1, PromptLen(i))

(* What a commit with t in slot i tells its request r, whose handle was rq *)
(* when the prefill was counted.                                           *)
CommitTold(i, r, t, rq) ==
    /\ req'[r].st = IF CommitGone(i, t) THEN "done" ELSE rq[r].st
    /\ req'[r].tokens = IF Cancelled(i) THEN rq[r].tokens ELSE Append(rq[r].tokens, t)
    /\ req'[r].prefillSet = TRUE
    /\ req'[r].cachedTokens = slots[i].prefillStart
    /\ req'[r].ran = rq[r].ran /\ req'[r].prompt = rq[r].prompt
    /\ req'[r].err = rq[r].err /\ req'[r].cancelled = rq[r].cancelled
    /\ slots'[i].req = IF CommitGone(i, t) THEN None ELSE slots[i].req
    /\ ~CommitGone(i, t) =>
          /\ slots'[i].pos = PromptLen(i) /\ slots'[i].prefillPos = PromptLen(i)
          /\ slots'[i].prefillStart = slots[i].prefillStart

(* A commit tells the first token to every slot it commits that was not    *)
(* cancelled, and leaves the other slots and handles alone.                *)
LEMMA CommitTells ==
    ASSUME Shape, Places, NEW B \in SUBSET Occupied, NEW tk, NEW dv, NEW st, NEW rq,
           Commit(B, tk, dv, st, rq),
           \A r \in Reqs : rq[r] = [f \in ReqFields |-> rq[r][f]]
    PROVE  /\ \A r \in Reqs : (\A i \in B : slots[i].req # r) => req'[r] = rq[r]
           /\ \A i \in Slots \ B : slots'[i] = slots[i]
           /\ \A i \in B : CommitTold(i, slots[i].req, tk[i], rq)
  <1> DEFINE cold == {i \in B : Cancelled(i)}
             warm == {i \in B \ cold : Stops(tk[i], 1, PromptLen(i))}
             sl == [i \in Slots |-> IF i \in B THEN Ingested(i) ELSE slots[i]]
             Told(r, i) == [rq[r] EXCEPT
                 !.prefillSet = TRUE, !.cachedTokens = slots[i].prefillStart,
                 !.tokens = IF i \in cold THEN @ ELSE Append(@, tk[i]),
                 !.st = IF i \in cold \cup warm THEN "done" ELSE @]
  <1>1. /\ req' = [r \in Reqs |-> IF \E i \in B : Owner(i) = r THEN Told(r, SlotOf(r))
                                  ELSE rq[r]]
        /\ RetireSlots(sl, dv, st, cold, warm)
    BY DEF Commit
  <1>2. \A i \in B : /\ i \in cold \cup warm <=> CommitGone(i, tk[i])
                     /\ i \in cold <=> Cancelled(i)
                     /\ i \in Slots /\ slots[i].req \in Reqs /\ SlotOf(slots[i].req) = i
    BY SlotOfOwner DEF CommitGone, Occupied, Places
  <1>3. \A i \in Slots : i \in cold \cup warm => i \in B
    OBVIOUS
  <1>4. ASSUME NEW r \in Reqs, NEW i
        PROVE  /\ Told(r, i).st = IF i \in cold \cup warm THEN "done" ELSE rq[r].st
               /\ Told(r, i).tokens = IF i \in cold THEN rq[r].tokens
                                      ELSE Append(rq[r].tokens, tk[i])
               /\ Told(r, i).prefillSet = TRUE
               /\ Told(r, i).cachedTokens = slots[i].prefillStart
               /\ Told(r, i).ran = rq[r].ran /\ Told(r, i).prompt = rq[r].prompt
               /\ Told(r, i).err = rq[r].err /\ Told(r, i).cancelled = rq[r].cancelled
    <2> HIDE DEF cold, warm
    <2>1. rq[r] = [f \in ReqFields |-> rq[r][f]]
      OBVIOUS
    <2> QED BY <2>1 DEF ReqFields
  <1>5. ASSUME NEW i \in Slots
        PROVE  /\ sl[i].req = slots[i].req /\ sl[i] = [f \in SlotFields |-> sl[i][f]]
               /\ i \notin B => sl[i] = slots[i]
               /\ i \in B => /\ sl[i].pos = PromptLen(i) /\ sl[i].prefillPos = PromptLen(i)
                             /\ sl[i].prefillStart = slots[i].prefillStart
    <2>1. slots[i] = [f \in SlotFields |-> slots[i][f]]
      BY DEF Shape
    <2> QED BY <2>1 DEF Ingested, SlotFields
  <1> HIDE DEF cold, warm, sl, Told
  <1>6. ASSUME NEW i \in Slots
        PROVE  /\ i \in cold \cup warm => slots'[i].req = None
               /\ i \notin cold \cup warm => slots'[i] = sl[i]
    BY <1>1, <1>5 DEF RetireSlots, SlotFields
  <1>7. ASSUME NEW i \in B PROVE req'[slots[i].req] = Told(slots[i].req, i)
    BY <1>1, <1>2, <1>7 DEF Owner
  <1>8. ASSUME NEW r \in Reqs, \A i \in B : slots[i].req # r PROVE req'[r] = rq[r]
    BY <1>1, <1>8 DEF Owner
  <1>9. ASSUME NEW i \in Slots \ B PROVE slots'[i] = slots[i]
    BY <1>3, <1>5, <1>6
  <1>10. ASSUME NEW i \in B
         PROVE  /\ slots'[i].req = IF CommitGone(i, tk[i]) THEN None ELSE slots[i].req
                /\ ~CommitGone(i, tk[i]) =>
                      /\ slots'[i].pos = PromptLen(i) /\ slots'[i].prefillPos = PromptLen(i)
                      /\ slots'[i].prefillStart = slots[i].prefillStart
    BY <1>2, <1>5, <1>6, Zenon
  <1>11. ASSUME NEW i \in B, NEW r, r = slots[i].req
         PROVE  /\ req'[r].st = IF CommitGone(i, tk[i]) THEN "done" ELSE rq[r].st
                /\ req'[r].tokens = IF Cancelled(i) THEN rq[r].tokens
                                    ELSE Append(rq[r].tokens, tk[i])
                /\ req'[r].prefillSet = TRUE
                /\ req'[r].cachedTokens = slots[i].prefillStart
                /\ req'[r].ran = rq[r].ran /\ req'[r].prompt = rq[r].prompt
                /\ req'[r].err = rq[r].err /\ req'[r].cancelled = rq[r].cancelled
    <2>1. r \in Reqs /\ req'[r] = Told(r, i)
      BY <1>2, <1>7, <1>11
    <2>2. /\ i \in cold \cup warm <=> CommitGone(i, tk[i])
          /\ i \in cold <=> Cancelled(i)
      BY <1>2
    <2>3. /\ Told(r, i).st = IF CommitGone(i, tk[i]) THEN "done" ELSE rq[r].st
          /\ Told(r, i).tokens = IF Cancelled(i) THEN rq[r].tokens
                                 ELSE Append(rq[r].tokens, tk[i])
      BY <1>4, <2>1, <2>2, ZenonT(40)
    <2>4. /\ Told(r, i).prefillSet = TRUE
          /\ Told(r, i).cachedTokens = slots[i].prefillStart
          /\ Told(r, i).ran = rq[r].ran /\ Told(r, i).prompt = rq[r].prompt
          /\ Told(r, i).err = rq[r].err /\ Told(r, i).cancelled = rq[r].cancelled
      BY <1>4, <2>1
    <2>5. PICK q2 : q2 = req'[r] /\ q2 = Told(r, i)
      BY <2>1
    <2> QED BY <2>3, <2>4, <2>5
  <1>12. ASSUME NEW i \in B PROVE CommitTold(i, slots[i].req, tk[i], rq)
    <2>1. PICK r : r = slots[i].req
      OBVIOUS
    <2>2. CommitTold(i, r, tk[i], rq)
      BY <1>10, <1>11, <2>1, ZenonT(40) DEF CommitTold
    <2> QED BY <2>1, <2>2
  <1> QED BY <1>8, <1>9, <1>12, Zenon

(* In a mixed step slot i gets the last of its prompt; it hands out a      *)
(* token; its request ends with it.                                        *)
MixedLast(i) == i \in Prefilling /\ slots[i].prefillPos + MixedChunk(i) = PromptLen(i)
MixedEmits(i) == ~FoundCancelled(i) /\ (i \in Prefilling => MixedLast(i))
MixedNext(i) == IF MixedLast(i) THEN PromptLen(i) ELSE slots[i].pos + 1
MixedGone(i, t) ==
    \/ FoundCancelled(i)
    \/ MixedEmits(i) /\ Stops(t, Len(req[slots[i].req].tokens) + 1, MixedNext(i))

(* What a mixed step that samples t in slot i tells its request r.         *)
MixedTold(i, r, t) ==
    /\ MixedEmits(i) => t \in GenTokens
    /\ req'[r].st = IF MixedGone(i, t) THEN "done" ELSE req[r].st
    /\ req'[r].tokens = IF MixedEmits(i) THEN Append(req[r].tokens, t) ELSE req[r].tokens
    /\ req'[r].ran = req[r].ran + IF i \in Prefilling THEN MixedChunk(i) ELSE 0
    /\ req'[r].prefillSet = req[r].prefillSet /\ req'[r].prompt = req[r].prompt
    /\ req'[r].cachedTokens = req[r].cachedTokens
    /\ req'[r].err = req[r].err /\ req'[r].cancelled = req[r].cancelled
    /\ slots'[i].req = IF MixedGone(i, t) THEN None ELSE slots[i].req
    /\ slots'[i].residentTokens = slots[i].residentTokens
    /\ slots'[i].resident = slots[i].resident
    /\ ~MixedGone(i, t) =>
          /\ slots'[i].pos = IF MixedEmits(i) THEN MixedNext(i) ELSE slots[i].pos
          /\ slots'[i].prefillPos = IF i \in Prefilling
                                    THEN slots[i].prefillPos + MixedChunk(i)
                                    ELSE slots[i].prefillPos
          /\ slots'[i].prefillStart = slots[i].prefillStart

(* A mixed step tells a token to every slot that is decoding or gets the   *)
(* last of its prompt, and leaves the handles without a slot alone.        *)
LEMMA MixedTells ==
    ASSUME Shape, Places, MixedStepRun
    PROVE  /\ \A r \in Reqs : (\A i \in Occupied : slots[i].req # r) => req'[r] = req[r]
           /\ \A i \in Slots \ Occupied : slots'[i] = slots[i]
           /\ \E tk : \A i \in Occupied : MixedTold(i, slots[i].req, tk[i])
  <1> DEFINE dead == {i \in Occupied : FoundCancelled(i)}
             ends == {i \in Prefilling : slots[i].prefillPos + MixedChunk(i) = PromptLen(i)}
             emits == (ends \cup (Occupied \ Prefilling)) \ dead
             NextPos(i) == IF i \in ends THEN PromptLen(i) ELSE slots[i].pos + 1
             Ran(i) == IF i \in Prefilling THEN MixedChunk(i) ELSE 0
             stops(tk) == {i \in emits :
                    Stops(tk[i], Len(req[Owner(i)].tokens) + 1, NextPos(i))}
             Told(tk, r, i) == [req[r] EXCEPT
                    !.ran = @ + Ran(i),
                    !.tokens = IF i \in emits THEN Append(@, tk[i]) ELSE @,
                    !.st = IF i \in stops(tk) \cup dead THEN "done" ELSE @]
             Stepped(i) == [slots[i] EXCEPT
                    !.prefillPos = IF i \in Prefilling THEN @ + MixedChunk(i) ELSE @,
                    !.pos = IF i \in emits THEN NextPos(i) ELSE @]
  <1>1. PICK tk \in [emits -> GenTokens] :
           /\ req' = [r \in Reqs |-> IF \E i \in Occupied : Owner(i) = r
                                     THEN Told(tk, r, SlotOf(r)) ELSE req[r]]
           /\ slots' = [i \in Slots |-> IF i \notin Occupied THEN slots[i]
                                        ELSE IF i \in stops(tk) \cup dead
                                             THEN Freed(slots[i])
                                        ELSE Stepped(i)]
    BY DEF MixedStepRun
  <1>2. ASSUME NEW i \in Occupied
        PROVE  /\ i \in dead <=> FoundCancelled(i)
               /\ i \in emits <=> MixedEmits(i)
               /\ NextPos(i) = MixedNext(i)
               /\ i \in stops(tk) \cup dead <=> MixedGone(i, tk[i])
               /\ i \in Slots /\ slots[i].req \in Reqs /\ SlotOf(slots[i].req) = i
    <2>1. i \in Slots /\ slots[i].req \in Reqs /\ SlotOf(slots[i].req) = i
      BY SlotOfOwner DEF Occupied, Places
    <2>2. i \in ends <=> MixedLast(i)
      BY DEF MixedLast
    <2>3. i \in dead <=> FoundCancelled(i)
      OBVIOUS
    <2> HIDE DEF ends, dead
    <2>4. i \in emits <=> MixedEmits(i)
      <3>1. i \in ends => i \in Prefilling
        BY <2>2 DEF MixedLast
      <3> QED BY <2>2, <2>3, <3>1 DEF MixedEmits
    <2>5. NextPos(i) = MixedNext(i)
      BY <2>2 DEF MixedNext
    <2> HIDE DEF emits, NextPos
    <2>6. i \in stops(tk) \cup dead <=> MixedGone(i, tk[i])
      BY <2>3, <2>4, <2>5 DEF MixedGone, Owner
    <2> QED BY <2>1, <2>3, <2>4, <2>5, <2>6
  <1>3. ASSUME NEW r \in Reqs, NEW i
        PROVE  /\ Told(tk, r, i).st = IF i \in stops(tk) \cup dead THEN "done" ELSE req[r].st
               /\ Told(tk, r, i).tokens = IF i \in emits THEN Append(req[r].tokens, tk[i])
                                          ELSE req[r].tokens
               /\ Told(tk, r, i).ran = req[r].ran + Ran(i)
               /\ Told(tk, r, i).prefillSet = req[r].prefillSet
               /\ Told(tk, r, i).cachedTokens = req[r].cachedTokens
               /\ Told(tk, r, i).prompt = req[r].prompt
               /\ Told(tk, r, i).err = req[r].err /\ Told(tk, r, i).cancelled = req[r].cancelled
    <2> HIDE DEF dead, emits, stops, Ran
    <2>1. req[r] = [f \in ReqFields |-> req[r][f]]
      BY DEF Shape
    <2> QED BY <2>1 DEF ReqFields
  <1>4. ASSUME NEW i \in Slots
        PROVE  /\ Stepped(i).req = slots[i].req /\ Freed(slots[i]).req = None
               /\ Stepped(i).residentTokens = slots[i].residentTokens
               /\ Freed(slots[i]).residentTokens = slots[i].residentTokens
               /\ Stepped(i).resident = slots[i].resident
               /\ Freed(slots[i]).resident = slots[i].resident
               /\ Stepped(i).pos = IF i \in emits THEN NextPos(i) ELSE slots[i].pos
               /\ Stepped(i).prefillPos =
                     IF i \in Prefilling THEN slots[i].prefillPos + MixedChunk(i)
                     ELSE slots[i].prefillPos
               /\ Stepped(i).prefillStart = slots[i].prefillStart
    <2> HIDE DEF emits, NextPos
    <2>1. slots[i] = [f \in SlotFields |-> slots[i][f]]
      BY DEF Shape
    <2> QED BY <2>1 DEF SlotFields, Freed
  <1> HIDE DEF dead, ends, emits, NextPos, stops, Told, Stepped
  <1>5. ASSUME NEW i \in Occupied
        PROVE  /\ req'[slots[i].req] = Told(tk, slots[i].req, i)
               /\ MixedGone(i, tk[i]) => slots'[i] = Freed(slots[i])
               /\ ~MixedGone(i, tk[i]) => slots'[i] = Stepped(i)
               /\ MixedEmits(i) => tk[i] \in GenTokens
    <2>1. /\ i \in Slots /\ slots[i].req \in Reqs /\ SlotOf(slots[i].req) = i
          /\ i \in stops(tk) \cup dead <=> MixedGone(i, tk[i])
          /\ i \in emits <=> MixedEmits(i)
      BY <1>2
    <2>2. \E j \in Occupied : Owner(j) = slots[i].req
      BY DEF Owner
    <2> QED BY <1>1, <2>1, <2>2
  <1>6. ASSUME NEW i \in Occupied, NEW r, r = slots[i].req
        PROVE  /\ req'[r].st = IF MixedGone(i, tk[i]) THEN "done" ELSE req[r].st
               /\ req'[r].tokens = IF MixedEmits(i) THEN Append(req[r].tokens, tk[i])
                                   ELSE req[r].tokens
               /\ req'[r].ran = req[r].ran + IF i \in Prefilling THEN MixedChunk(i) ELSE 0
               /\ req'[r].prefillSet = req[r].prefillSet /\ req'[r].prompt = req[r].prompt
               /\ req'[r].cachedTokens = req[r].cachedTokens
               /\ req'[r].err = req[r].err /\ req'[r].cancelled = req[r].cancelled
    <2>1. r \in Reqs /\ req'[r] = Told(tk, r, i)
      BY <1>2, <1>5, <1>6
    <2>2. PICK q2 : q2 = req'[r] /\ q2 = Told(tk, r, i)
      BY <2>1
    <2>3. /\ Told(tk, r, i).st = IF i \in stops(tk) \cup dead THEN "done" ELSE req[r].st
          /\ Told(tk, r, i).tokens = IF i \in emits THEN Append(req[r].tokens, tk[i])
                                     ELSE req[r].tokens
          /\ Told(tk, r, i).ran = req[r].ran + Ran(i)
          /\ Told(tk, r, i).prefillSet = req[r].prefillSet
          /\ Told(tk, r, i).cachedTokens = req[r].cachedTokens
          /\ Told(tk, r, i).prompt = req[r].prompt
          /\ Told(tk, r, i).err = req[r].err /\ Told(tk, r, i).cancelled = req[r].cancelled
      BY <1>3, <2>1
    <2>4. /\ i \in stops(tk) \cup dead <=> MixedGone(i, tk[i])
          /\ i \in emits <=> MixedEmits(i)
      BY <1>2
    <2> QED BY <2>2, <2>3, <2>4
  <1>7. ASSUME NEW i \in Occupied
        PROVE  /\ slots'[i].req = IF MixedGone(i, tk[i]) THEN None ELSE slots[i].req
               /\ slots'[i].residentTokens = slots[i].residentTokens
               /\ slots'[i].resident = slots[i].resident
               /\ ~MixedGone(i, tk[i]) =>
                     /\ slots'[i].pos = IF MixedEmits(i) THEN MixedNext(i) ELSE slots[i].pos
                     /\ slots'[i].prefillPos = IF i \in Prefilling
                                               THEN slots[i].prefillPos + MixedChunk(i)
                                               ELSE slots[i].prefillPos
                     /\ slots'[i].prefillStart = slots[i].prefillStart
    <2>1. i \in Slots /\ (i \in emits <=> MixedEmits(i)) /\ NextPos(i) = MixedNext(i)
      BY <1>2
    <2>2. CASE MixedGone(i, tk[i])
      BY <1>4, <1>5, <2>1, <2>2
    <2>3. CASE ~MixedGone(i, tk[i])
      BY <1>4, <1>5, <2>1, <2>3
    <2> QED BY <2>2, <2>3
  <1>8. ASSUME NEW r \in Reqs, \A i \in Occupied : slots[i].req # r PROVE req'[r] = req[r]
    BY <1>1, <1>8 DEF Owner
  <1>9. ASSUME NEW i \in Slots \ Occupied PROVE slots'[i] = slots[i]
    BY <1>1
  <1>10. ASSUME NEW i \in Occupied PROVE MixedTold(i, slots[i].req, tk[i])
    <2>1. PICK r : r = slots[i].req
      OBVIOUS
    <2>2. MixedTold(i, r, tk[i])
      BY <1>5, <1>6, <1>7, <2>1 DEF MixedTold
    <2> QED BY <2>1, <2>2
  <1>11. \E t : \A i \in Occupied : MixedTold(i, slots[i].req, t[i])
    BY <1>10
  <1> QED BY <1>8, <1>9, <1>11, Zenon

(* In a decode step slot i hands out a token; its request ends with it.    *)
DecodeEmits(i) == ~FoundCancelled(i) /\ slots[i].pos + 1 >= PromptLen(i)
DecodeGone(i, t) ==
    \/ FoundCancelled(i)
    \/ DecodeEmits(i) /\ Stops(t, Len(req[slots[i].req].tokens) + 1, slots[i].pos + 1)

(* What a decode step that samples t in slot i tells its request r.        *)
DecodeTold(i, r, t) ==
    /\ DecodeEmits(i) => t \in GenTokens
    /\ req'[r].st = IF DecodeGone(i, t) THEN "done" ELSE req[r].st
    /\ req'[r].tokens = IF DecodeEmits(i) THEN Append(req[r].tokens, t) ELSE req[r].tokens
    /\ req'[r].ran = req[r].ran + IF slots[i].pos < PromptLen(i) THEN 1 ELSE 0
    /\ req'[r].prefillSet = req[r].prefillSet /\ req'[r].prompt = req[r].prompt
    /\ req'[r].cachedTokens = req[r].cachedTokens
    /\ req'[r].err = req[r].err /\ req'[r].cancelled = req[r].cancelled
    /\ slots'[i].req = IF DecodeGone(i, t) THEN None ELSE slots[i].req
    /\ ~DecodeGone(i, t) =>
          /\ slots'[i].pos = slots[i].pos + 1
          /\ slots'[i].prefillPos = slots[i].prefillPos
          /\ slots'[i].prefillStart = slots[i].prefillStart

(* A decode step tells a token to every slot that is past its prompt, and  *)
(* leaves the handles without a slot alone.                                *)
LEMMA DecodeTells ==
    ASSUME Shape, Places, DecodeStep
    PROVE  /\ \A r \in Reqs : (\A i \in Occupied : slots[i].req # r) => req'[r] = req[r]
           /\ \A i \in Slots \ Occupied : slots'[i] = slots[i]
           /\ \E tk : \A i \in Occupied : DecodeTold(i, slots[i].req, tk[i])
  <1> DEFINE cold == {i \in Occupied : FoundCancelled(i)}
             gens == {i \in Occupied \ cold : slots[i].pos + 1 >= PromptLen(i)}
             stops(tk) == {i \in gens :
                    Stops(tk[i], Len(req[Owner(i)].tokens) + 1, slots[i].pos + 1)}
             Ran(i) == IF slots[i].pos < PromptLen(i) THEN 1 ELSE 0
             Told(tk, r, i) == [req[r] EXCEPT
                    !.ran = @ + Ran(i),
                    !.tokens = IF i \in gens THEN Append(@, tk[i]) ELSE @,
                    !.st = IF i \in stops(tk) \cup cold THEN "done" ELSE @]
             sl(tk) == [i \in Slots |-> IF i \in Occupied \ (cold \cup stops(tk))
                                        THEN [slots[i] EXCEPT !.pos = @ + 1]
                                        ELSE slots[i]]
  <1>1. PICK tk \in [gens -> GenTokens], dv \in DecodeDevices :
           /\ req' = [r \in Reqs |-> IF \E i \in Occupied : Owner(i) = r
                                     THEN Told(tk, r, SlotOf(r)) ELSE req[r]]
           /\ RetireSlots(sl(tk), dv, store, cold, stops(tk))
    BY DEF DecodeStep
  <1>2. ASSUME NEW i \in Occupied
        PROVE  /\ i \in gens <=> DecodeEmits(i)
               /\ i \in stops(tk) \cup cold <=> DecodeGone(i, tk[i])
               /\ i \in Slots /\ slots[i].req \in Reqs /\ SlotOf(slots[i].req) = i
    <2>1. i \in Slots /\ slots[i].req \in Reqs /\ SlotOf(slots[i].req) = i
      BY SlotOfOwner DEF Occupied, Places
    <2>2. i \in cold <=> FoundCancelled(i)
      OBVIOUS
    <2>3. i \in gens <=> DecodeEmits(i)
      BY DEF DecodeEmits
    <2> HIDE DEF gens, cold
    <2>4. i \in stops(tk) \cup cold <=> DecodeGone(i, tk[i])
      BY <2>2, <2>3 DEF DecodeGone, Owner
    <2> QED BY <2>1, <2>3, <2>4
  <1>3. ASSUME NEW r \in Reqs, NEW i
        PROVE  /\ Told(tk, r, i).st = IF i \in stops(tk) \cup cold THEN "done" ELSE req[r].st
               /\ Told(tk, r, i).tokens = IF i \in gens THEN Append(req[r].tokens, tk[i])
                                          ELSE req[r].tokens
               /\ Told(tk, r, i).ran = req[r].ran + Ran(i)
               /\ Told(tk, r, i).prefillSet = req[r].prefillSet
               /\ Told(tk, r, i).cachedTokens = req[r].cachedTokens
               /\ Told(tk, r, i).prompt = req[r].prompt
               /\ Told(tk, r, i).err = req[r].err /\ Told(tk, r, i).cancelled = req[r].cancelled
    <2> HIDE DEF cold, gens, stops, Ran
    <2>1. req[r] = [f \in ReqFields |-> req[r][f]]
      BY DEF Shape
    <2> QED BY <2>1 DEF ReqFields
  <1>4. ASSUME NEW i \in Slots
        PROVE  /\ sl(tk)[i].req = slots[i].req /\ sl(tk)[i] = [f \in SlotFields |-> sl(tk)[i][f]]
               /\ sl(tk)[i].prefillPos = slots[i].prefillPos
               /\ sl(tk)[i].prefillStart = slots[i].prefillStart
               /\ i \notin Occupied => sl(tk)[i] = slots[i]
               /\ i \in Occupied /\ i \notin stops(tk) \cup cold => sl(tk)[i].pos = slots[i].pos + 1
    <2> HIDE DEF cold, gens, stops
    <2>1. slots[i] = [f \in SlotFields |-> slots[i][f]]
      BY DEF Shape
    <2> QED BY <2>1 DEF SlotFields
  <1>5. stops(tk) \cup cold \in SUBSET Occupied
    OBVIOUS
  <1> HIDE DEF cold, gens, stops, Told, sl
  <1>6. ASSUME NEW i \in Slots
        PROVE  /\ i \in stops(tk) \cup cold => slots'[i].req = None
               /\ i \notin stops(tk) \cup cold => slots'[i] = sl(tk)[i]
    BY <1>1, <1>4 DEF RetireSlots, SlotFields
  <1>7. ASSUME NEW i \in Occupied, NEW r, r = slots[i].req
        PROVE  DecodeTold(i, r, tk[i])
    <2>1. /\ i \in Slots /\ r \in Reqs /\ SlotOf(r) = i
          /\ i \in gens <=> DecodeEmits(i)
          /\ i \in stops(tk) \cup cold <=> DecodeGone(i, tk[i])
      BY <1>2, <1>7
    <2>2. req'[r] = Told(tk, r, i)
      <3>1. \E j \in Occupied : Owner(j) = r
        BY <1>7 DEF Owner
      <3> QED BY <1>1, <2>1, <3>1
    <2>3. PICK q2 : q2 = req'[r] /\ q2 = Told(tk, r, i)
      BY <2>2
    <2>4. /\ Told(tk, r, i).st = IF i \in stops(tk) \cup cold THEN "done" ELSE req[r].st
          /\ Told(tk, r, i).tokens = IF i \in gens THEN Append(req[r].tokens, tk[i])
                                     ELSE req[r].tokens
          /\ Told(tk, r, i).ran = req[r].ran + Ran(i)
          /\ Told(tk, r, i).prefillSet = req[r].prefillSet
          /\ Told(tk, r, i).cachedTokens = req[r].cachedTokens
          /\ Told(tk, r, i).prompt = req[r].prompt
          /\ Told(tk, r, i).err = req[r].err /\ Told(tk, r, i).cancelled = req[r].cancelled
      BY <1>3, <2>1
    <2>5. DecodeEmits(i) => tk[i] \in GenTokens
      BY <1>1, <2>1
    <2>6. /\ slots'[i].req = IF DecodeGone(i, tk[i]) THEN None ELSE slots[i].req
          /\ ~DecodeGone(i, tk[i]) =>
                /\ slots'[i].pos = slots[i].pos + 1
                /\ slots'[i].prefillPos = slots[i].prefillPos
                /\ slots'[i].prefillStart = slots[i].prefillStart
      <3>1. CASE DecodeGone(i, tk[i])
        BY <1>6, <2>1, <3>1
      <3>2. CASE ~DecodeGone(i, tk[i])
        BY <1>4, <1>6, <1>7, <2>1, <3>2
      <3> QED BY <3>1, <3>2
    <2> QED BY <2>1, <2>3, <2>4, <2>5, <2>6 DEF DecodeTold
  <1>8. ASSUME NEW r \in Reqs, \A i \in Occupied : slots[i].req # r PROVE req'[r] = req[r]
    BY <1>1, <1>8 DEF Owner
  <1>9. ASSUME NEW i \in Slots \ Occupied PROVE slots'[i] = slots[i]
    BY <1>4, <1>6, <1>5
  <1>10. ASSUME NEW i \in Occupied PROVE DecodeTold(i, slots[i].req, tk[i])
    BY <1>7
  <1>11. \E t : \A i \in Occupied : DecodeTold(i, slots[i].req, t[i])
    BY <1>10
  <1> QED BY <1>8, <1>9, <1>11, Zenon

(* A failed forward tells the requests of the slots in F, and nobody else. *)
LEMMA FailTells ==
    ASSUME Shape, Places, NEW F \in SUBSET Occupied, NEW after, FailSlots(F, after)
    PROVE  /\ \A r \in Reqs : (\A i \in F : slots[i].req # r) => req'[r] = req[r]
           /\ \A i \in Slots \ F : slots'[i] = slots[i]
           /\ \A i \in F : slots'[i].req = None
           /\ \A i \in Slots : slots'[i].residentTokens = slots[i].residentTokens
           /\ \A i \in F : LET r == slots[i].req IN
                /\ req'[r].st = "done" /\ req'[r].err = "failed"
                /\ req'[r].tokens = req[r].tokens /\ req'[r].prompt = req[r].prompt
                /\ req'[r].cancelled = req[r].cancelled /\ req'[r].ran = req[r].ran
                /\ req'[r].prefillSet = req[r].prefillSet
                /\ req'[r].cachedTokens = req[r].cachedTokens
  <1>1. /\ req' = [r \in Reqs |-> IF \E i \in F : slots[i].req = r
                                  THEN DoneReq(req[r], "failed") ELSE req[r]]
        /\ slots' = [i \in Slots |-> IF i \in F THEN Freed(slots[i]) ELSE slots[i]]
    BY DEF FailSlots, Owner
  <1>2. \A i \in F : i \in Slots /\ slots[i].req \in Reqs
    BY DEF Occupied, Places
  <1>3. ASSUME NEW r \in Reqs, NEW q2, q2 = DoneReq(req[r], "failed")
        PROVE  /\ q2.st = "done" /\ q2.err = "failed"
               /\ q2.tokens = req[r].tokens /\ q2.prompt = req[r].prompt
               /\ q2.cancelled = req[r].cancelled /\ q2.ran = req[r].ran
               /\ q2.prefillSet = req[r].prefillSet
               /\ q2.cachedTokens = req[r].cachedTokens
    <2>1. req[r] = [f \in ReqFields |-> req[r][f]]
      BY DEF Shape
    <2> QED BY <1>3, <2>1 DEF DoneReq, ReqFields
  <1>4. ASSUME NEW i \in Slots
        PROVE  /\ Freed(slots[i]).req = None
               /\ Freed(slots[i]).residentTokens = slots[i].residentTokens
    <2>1. slots[i] = [f \in SlotFields |-> slots[i][f]]
      BY DEF Shape
    <2> QED BY <2>1 DEF Freed, SlotFields
  <1>5. ASSUME NEW i \in F PROVE req'[slots[i].req] = DoneReq(req[slots[i].req], "failed")
    BY <1>1, <1>2
  <1>6. \A i \in Slots : slots'[i].residentTokens = slots[i].residentTokens
    BY <1>1, <1>4
  <1>7. \A i \in F : slots'[i].req = None
    BY <1>1, <1>2, <1>4
  <1>8. \A i \in Slots \ F : slots'[i] = slots[i]
    BY <1>1
  <1>9. \A r \in Reqs : (\A i \in F : slots[i].req # r) => req'[r] = req[r]
    BY <1>1
  <1> QED BY <1>2, <1>3, <1>5, <1>6, <1>7, <1>8, <1>9, ZenonT(40)

-----------------------------------------------------------------------------
(* Checkpoints and images stay at positions                                *)

(* A forward leaves the checkpoints alone.                                 *)
LEMMA ForwardKeepsRing ==
    ASSUME NEW d, RingOK(d), NEW toks, NEW at
    PROVE  RingOK(PrefillForward(d, toks, at)) /\ RingOK(StepForward(d, toks, at))
  <1>1. ASSUME NEW e, e = [f \in DeviceFields |-> e[f]], e.ring = d.ring PROVE RingOK(e)
    BY <1>1 DEF RingOK
  <1>2. ASSUME NEW e, e = [f \in DeviceFields |-> e[f]], NEW tt, NEW p
        PROVE  /\ PagedForward(e, tt, p) = [f \in DeviceFields |-> PagedForward(e, tt, p)[f]]
               /\ PagedForward(e, tt, p).ring = e.ring
               /\ SlabAppend(e, tt) = [f \in DeviceFields |-> SlabAppend(e, tt)[f]]
               /\ SlabAppend(e, tt).ring = e.ring
    BY <1>2 DEF PagedForward, SlabAppend, DeviceFields
  <1>3. d = [f \in DeviceFields |-> d[f]]
    BY DEF RingOK
  <1>4. PICK e : e = [d EXCEPT !.len = 0]
    OBVIOUS
  <1>5. e = [f \in DeviceFields |-> e[f]] /\ e.ring = d.ring
    BY <1>3, <1>4 DEF DeviceFields
  <1>6. RingOK(PrefillForward(d, toks, at))
    <2>1. PrefillForward(d, toks, at) \in
             {SlabAppend(e, toks), SlabAppend(d, toks), PagedForward(d, toks, at)}
      BY <1>4 DEF PrefillForward
    <2> QED BY <1>1, <1>2, <1>3, <1>5, <2>1
  <1>7. RingOK(StepForward(d, toks, at))
    <2>1. StepForward(d, toks, at) \in
             {SlabAppend(d, <<toks>>), PagedForward(d, <<toks>>, at)}
      BY DEF StepForward
    <2> QED BY <1>1, <1>2, <1>3, <2>1
  <1> QED BY <1>6, <1>7

(* So do the restores; a clear drops them all.                             *)
LEMMA RestoreKeepsRing ==
    ASSUME NEW d, RingOK(d), NEW p, NEW img
    PROVE  /\ RingOK(RestoreCkpt(d, p)) /\ RingOK(RestoreImage(d, img))
           /\ RingOK(ClearCkpts(d))
  <1>1. d = [f \in DeviceFields |-> d[f]]
    BY DEF RingOK
  <1>2. RingOK(RestoreCkpt(d, p))
    <2>1. PICK s : RestoreCkpt(d, p) \in {d, [d EXCEPT !.ssm = s]}
      BY DEF RestoreCkpt
    <2>2. PICK e : e = [d EXCEPT !.ssm = s]
      OBVIOUS
    <2>3. e = [f \in DeviceFields |-> e[f]] /\ e.ring = d.ring
      BY <1>1, <2>2 DEF DeviceFields
    <2> QED BY <2>1, <2>2, <2>3 DEF RingOK
  <1>3. RingOK(RestoreImage(d, img))
    <2>1. PICK e : e = RestoreImage(d, img)
      OBVIOUS
    <2>2. e = [f \in DeviceFields |-> e[f]] /\ e.ring = d.ring
      BY <1>1, <2>1 DEF DeviceFields, RestoreImage
    <2> QED BY <2>1, <2>2 DEF RingOK
  <1>4. RingOK(ClearCkpts(d))
    <2>1. PICK e : e = ClearCkpts(d)
      OBVIOUS
    <2>2. e = [f \in DeviceFields |-> e[f]] /\ e.ring = <<>>
      BY <1>1, <2>1 DEF DeviceFields, ClearCkpts
    <2>6. PICK C : C = {}
      OBVIOUS
    <2>3. <<>> \in Seq(C) /\ \A c \in C : c.pos \in Nat
      BY <2>6
    <2>4. e.ring \in Seq(C)
      BY <2>2, <2>3
    <2>5. RingOK(e)
      BY <2>2, <2>3, <2>4, Zenon DEF RingOK
    <2> QED BY <2>1, <2>5
  <1> QED BY <1>2, <1>3, <1>4

(* A capture adds the position it is taken at.                             *)
LEMMA CaptureKeepsRing ==
    ASSUME NEW d, RingOK(d), NEW p \in Nat
    PROVE  RingOK(CaptureCkpt(d, p))
  <1>1. PICK C : d.ring \in Seq(C) /\ \A c \in C : c.pos \in Nat
    BY DEF RingOK
  <1>2. PICK c0 : c0 = [pos |-> p, ssm |-> d.ssm]
    OBVIOUS
  <1>3. PICK D : D = C \cup {c0}
    OBVIOUS
  <1>4. \A c \in D : c.pos \in Nat
    BY <1>1, <1>2, <1>3
  <1>5. PICK kept : kept = IF Len(d.ring) >= RingCap THEN Tail(d.ring) ELSE d.ring
    OBVIOUS
  <1>6. Append(kept, c0) \in Seq(D)
    <2>1. PICK ring \in Seq(C) : ring = d.ring
      BY <1>1
    <2>2. Len(ring) \in Nat /\ RingCap \in Nat /\ RingCap > 0
      BY RingCapAssumption
    <2>3. kept \in Seq(C)
      <3>1. CASE Len(ring) >= RingCap
        <4>1. ring # <<>>
          BY <2>2, <3>1
        <4> QED BY <1>5, <2>1, <3>1, <4>1
      <3>2. CASE ~(Len(ring) >= RingCap)
        BY <1>5, <2>1, <3>2
      <3> QED BY <3>1, <3>2
    <2>4. kept \in Seq(D) /\ c0 \in D
      BY <1>3, <2>3
    <2> QED BY <2>4
  <1>7. PICK e : e = CaptureCkpt(d, p)
    OBVIOUS
  <1>8. d = [f \in DeviceFields |-> d[f]]
    BY DEF RingOK
  <1>9. e = [f \in DeviceFields |-> e[f]] /\ e.ring = Append(kept, c0)
    BY <1>2, <1>5, <1>7, <1>8 DEF DeviceFields, CaptureCkpt
  <1> QED BY <1>4, <1>6, <1>7, <1>9 DEF RingOK

(* What Positions says of one device and of one slot.                      *)
DevicesOK(dv) == dv = [i \in Slots |-> dv[i]] /\ \A i \in Slots : RingOK(dv[i])
KeysOK(sl) == \A i \in Slots : sl[i].residentTokens \in Seq(Nat)

(* The images of a store stay where they were taken.                       *)
LEMMA StoreKeepsImages ==
    ASSUME NEW st, ImagesOK(st), NEW id, NEW prompt
    PROVE  ImagesOK(TouchLookup(st, prompt)) /\ ImagesOK(AcquireImage(st, id))
           /\ ImagesOK(DrainFrees(st))
  <1>1. st = [f \in StoreFields |-> st[f]]
    BY DEF ImagesOK
  <1>2. ASSUME NEW s2, s2 = [f \in StoreFields |-> s2[f]], s2.images = st.images
        PROVE  ImagesOK(s2)
    BY <1>2 DEF ImagesOK
  <1>3. ASSUME NEW x PROVE LET s2 == [st EXCEPT !.index = x]
                           IN s2 = [f \in StoreFields |-> s2[f]] /\ s2.images = st.images
    BY <1>1 DEF StoreFields
  <1>4. LET s2 == [st EXCEPT !.pendingFree = {}]
        IN s2 = [f \in StoreFields |-> s2[f]] /\ s2.images = st.images
    BY <1>1 DEF StoreFields
  <1>5. PICK x : TouchLookup(st, prompt) \in {st, [st EXCEPT !.index = x]}
    BY DEF TouchLookup
  <1>6. PICK y : AcquireImage(st, id) = [st EXCEPT !.index = y]
    BY DEF AcquireImage
  <1>7. ImagesOK([st EXCEPT !.index = x]) /\ ImagesOK([st EXCEPT !.index = y])
    BY <1>2, <1>3
  <1>8. ImagesOK(DrainFrees(st))
    BY <1>2, <1>4 DEF DrainFrees
  <1> QED BY <1>5, <1>6, <1>7, <1>8

(* A snapshot adds an image, and may drop others.                          *)
LEMMA SnapshotKeepsImages ==
    ASSUME NEW st, ImagesOK(st), NEW tokens, NEW image, image.pos \in Nat
    PROVE  ImagesOK(Snapshot(st, tokens, image))
  <1>1. PICK s2 : s2 = Snapshot(st, tokens, image)
    OBVIOUS
  <1>2. PICK id, evicted, owned :
           /\ id = st.nextId /\ evicted = InsertEvicts(st.index, tokens, id)
           /\ owned = (DOMAIN st.images \cup {id}) \ evicted
    OBVIOUS
  <1>3. /\ s2 = [f \in StoreFields |-> s2[f]]
        /\ s2.images = [p \in owned |-> IF p = id THEN image ELSE st.images[p]]
    BY <1>1, <1>2 DEF Snapshot, StoreFields
  <1>4. \A p \in DOMAIN s2.images : s2.images[p].pos \in Nat
    BY <1>2, <1>3 DEF ImagesOK
  <1> QED BY <1>1, <1>3, <1>4 DEF ImagesOK

(* retireSlot clears rings, drops keys and gives pins back.                *)
LEMMA RetireKeepsPositions ==
    ASSUME NEW sl, NEW dv, NEW st, NEW cold, NEW warm,
           RetireSlots(sl, dv, st, cold, warm),
           \A i \in Slots : sl[i] = [f \in SlotFields |-> sl[i][f]],
           KeysOK(sl), DevicesOK(dv), ImagesOK(st)
    PROVE  Positions'
  <1>1. PICK kept, gone :
           /\ slots' = [i \in Slots |-> IF i \in gone THEN [sl[i] EXCEPT
                !.req = None, !.prefillStart = 0, !.pin = NoPayload,
                !.resident = (i \in kept),
                !.residentTokens = IF i \in kept THEN @ ELSE <<>>,
                !.tick = IF i \in kept THEN warmTick + Cardinality({j \in kept : j <= i}) ELSE @]
                ELSE sl[i]]
           /\ device' = [i \in Slots |-> IF i \in gone \ kept THEN ClearCkpts(dv[i])
                                         ELSE dv[i]]
    BY DEF RetireSlots
  <1>2. ASSUME NEW i \in Slots PROVE slots'[i].residentTokens \in Seq(Nat)
    <2>1. sl[i] = [f \in SlotFields |-> sl[i][f]] /\ sl[i].residentTokens \in Seq(Nat)
      BY DEF KeysOK
    <2>2. slots'[i].residentTokens = sl[i].residentTokens \/ slots'[i].residentTokens = <<>>
      BY <1>1, <2>1 DEF SlotFields
    <2>3. <<>> \in Seq(Nat)
      OBVIOUS
    <2> QED BY <2>1, <2>2, <2>3, Zenon
  <1>3. device' = [i \in Slots |-> device'[i]] /\ \A i \in Slots : RingOK(device'[i])
    <2>1. \A i \in Slots : RingOK(dv[i]) /\ RingOK(ClearCkpts(dv[i]))
      BY RestoreKeepsRing DEF DevicesOK
    <2>2. \A i \in Slots : device'[i] \in {dv[i], ClearCkpts(dv[i])}
      BY <1>1
    <2> QED BY <1>1, <2>1, <2>2
  <1>4. ImagesOK(store')
    <2>1. PICK x : store' = [st EXCEPT !.index.ref = x]
      BY DEF RetireSlots
    <2>2. st = [f \in StoreFields |-> st[f]]
      BY DEF ImagesOK
    <2>3. store' = [f \in StoreFields |-> store'[f]] /\ store'.images = st.images
      BY <2>1, <2>2 DEF StoreFields
    <2> QED BY <2>3 DEF ImagesOK
  <1>5. ImagesOK(store)'
    BY <1>4 DEF ImagesOK
  <1>6. (\A i \in Slots : RingOK(device[i]))'
    BY <1>3 DEF RingOK
  <1> QED BY <1>2, <1>3, <1>5, <1>6 DEF Positions

-----------------------------------------------------------------------------
(* What every step does                                                    *)

(* A step moves the handle of r; a request in the queue is left as it is   *)
(* but for a cancel or the shutdown, and a submit, only, puts it there.    *)
StepOf(r) ==
    /\ Move(req[r], req'[r])
    /\ r \in Waiting => /\ StillMove(req[r], req'[r]) \/ FailMove(req[r], req'[r])
                        /\ Untouched(req'[r])
    /\ r \in Waiting' => r \in Waiting \/ AcceptMove(req[r], req'[r])
    /\ req[r].st = "new" /\ req'[r].st = "open" => r \in Waiting'

Advances == (\A r \in Reqs : StepOf(r)) /\ Progress' /\ Positions'

(* A step that moves the handles and keeps the slots in order keeps        *)
(* AnswerInv.                                                              *)
LEMMA AdvanceKeepsAnswer ==
    ASSUME BatcherInv, AnswerInv, Advances, BatcherInv', Passing'
    PROVE  AnswerInv'
  <1>1. ASSUME NEW r \in Reqs PROVE HandleOK(req'[r])
    BY MoveKeepsHandle DEF Advances, StepOf, AnswerInv, Handles
  <1>2. Handles'
    BY <1>1 DEF Handles, HandleOK, Whole, Counted, Untouched
  <1>3. ASSUME NEW r \in Reqs, r \in Waiting' PROVE Untouched(req'[r])
    <2>1. StepOf(r)
      BY DEF Advances
    <2> QED BY <1>3, <2>1 DEF StepOf, AcceptMove
  <1>4. Queue'
    <2>1. ASSUME NEW k \in DOMAIN waiting' PROVE Untouched(req'[waiting'[k]])
      <3>1. waiting'[k] \in Reqs /\ waiting'[k] \in Waiting'
        BY DEF BatcherInv, Places, Waiting
      <3> QED BY <1>3, <3>1
    <2> QED BY <2>1 DEF Queue, Untouched
  <1> QED BY <1>2, <1>4 DEF Advances, AnswerInv

(* A handle that is left alone makes a move.                               *)
LEMMA AloneMoves ==
    ASSUME NEW q, HandleOK(q)
    PROVE  Move(q, q) /\ StillMove(q, q)
  <1>1. q.cancelled \in BOOLEAN /\ Counted(q)
    BY Zenon DEF HandleOK
  <1>2. StillMove(q, q)
    BY <1>1, Zenon DEF StillMove
  <1> QED BY <1>1, <1>2, Zenon DEF Move

(* A request whose handle is left alone, and that does not enter the       *)
(* queue, makes a step.                                                    *)
LEMMA AloneSteps ==
    ASSUME AnswerInv, NEW r \in Reqs, req'[r] = req[r], r \in Waiting' => r \in Waiting
    PROVE  StepOf(r)
  <1>1. HandleOK(req[r])
    BY DEF AnswerInv, Handles
  <1>2. Move(req[r], req'[r]) /\ StillMove(req[r], req'[r])
    BY <1>1, AloneMoves
  <1>3. r \in Waiting => Untouched(req'[r])
    BY DEF AnswerInv, Queue, Waiting
  <1>4. "new" # "open"
    OBVIOUS
  <1> QED BY <1>2, <1>3, <1>4, Zenon DEF StepOf

(* A slot that keeps its request and its positions, and whose request      *)
(* keeps its prompt, its answer and its counts, stands where it stood.     *)
LEMMA SlotStays ==
    ASSUME Progress, NEW i \in Occupied,
           slots'[i].req = slots[i].req, slots'[i].pos = slots[i].pos,
           slots'[i].prefillPos = slots[i].prefillPos,
           slots'[i].prefillStart = slots[i].prefillStart,
           req'[slots[i].req].prompt = req[slots[i].req].prompt,
           req'[slots[i].req].tokens = req[slots[i].req].tokens,
           req'[slots[i].req].ran = req[slots[i].req].ran,
           req'[slots[i].req].prefillSet = req[slots[i].req].prefillSet,
           Listed(i)' <=> Listed(i), Working(i)' <=> Working(i),
           Working(i) => job'.p = job.p
    PROVE  SlotOK(slots[i], req[slots[i].req], Listed(i), Working(i), job.p)'
  <1>1. PICK pos, fed, start, L, n, ran, told :
           /\ pos = slots[i].pos /\ fed = slots[i].prefillPos /\ start = slots[i].prefillStart
           /\ L = Len(req[slots[i].req].prompt) /\ n = Len(req[slots[i].req].tokens)
           /\ ran = req[slots[i].req].ran /\ told = req[slots[i].req].prefillSet
    OBVIOUS
  <1>2. StandsAt(pos, fed, start, L, n, ran, told, Listed(i), Working(i), job.p)
    BY <1>1, Zenon DEF Progress, SlotOK
  <1>3. PICK l, w, l2, w2, p2 : /\ l = Listed(i) /\ w = Working(i) /\ p2 = job'.p
                                /\ l2 = (Listed(i))' /\ w2 = (Working(i))'
    OBVIOUS
  <1>4. (l2 <=> l) /\ (w2 <=> w) /\ (w => p2 = job.p)
    BY <1>3
  <1>5. StandsAt(pos, fed, start, L, n, ran, told, l2, w2, p2)
    <2>1. StandsAt(pos, fed, start, L, n, ran, told, l, w, job.p)
      BY <1>2, <1>3
    <2> QED BY <1>4, <2>1, Zenon DEF StandsAt
  <1>6. StandsAt(slots'[i].pos, slots'[i].prefillPos, slots'[i].prefillStart,
                 Len(req'[slots'[i].req].prompt), Len(req'[slots'[i].req].tokens),
                 req'[slots'[i].req].ran, req'[slots'[i].req].prefillSet,
                 (Listed(i))', (Working(i))', job'.p)
    BY <1>1, <1>3, <1>5, Zenon
  <1> QED BY <1>6, Zenon DEF SlotOK, StandsAt

(* A step that touches no handle, no slot and not the work list, and takes *)
(* nobody into the queue, advances.                                        *)
LEMMA IdleAdvances ==
    ASSUME AnswerInv, req' = req, slots' = slots, waiting' = waiting,
           toPrefill' = toPrefill, job' = job, device' = device, ImagesOK(store')
    PROVE  Advances
  <1>1. ASSUME NEW r \in Reqs PROVE StepOf(r)
    <2>1. r \in Waiting' => r \in Waiting
      BY DEF Waiting
    <2> QED BY <2>1, AloneSteps
  <1>2. Progress'
    <2>1. /\ Occupied' = Occupied
          /\ \A i : (Listed(i)' <=> Listed(i)) /\ (Working(i)' <=> Working(i))
      BY DEF Occupied, Listed, Working
    <2>2. ASSUME NEW i \in Occupied'
          PROVE  SlotOK(slots[i], req[slots[i].req], Listed(i), Working(i), job.p)'
      BY <2>1, SlotStays DEF AnswerInv
    <2> QED BY <2>2, Zenon DEF Progress
  <1>3. Positions'
    BY DEF AnswerInv, Positions, RingOK, ImagesOK
  <1> QED BY <1>1, <1>2, <1>3, Zenon DEF Advances

(* The steps that only move the worker along.                              *)
LEMMA ControlAdvances ==
    ASSUME BatcherInv, AnswerInv,
           \/ BeginIteration \/ EndWarm \/ SkipCross \/ EndCross \/ EndAdmission
           \/ Wake \/ PrefillDone \/ CheckCancelled \/ Stop \/ Quiescent
           \/ UNCHANGED vars
    PROVE  Advances
  <1>1. /\ req' = req /\ slots' = slots /\ waiting' = waiting /\ job' = job
        /\ device' = device
    BY DEF BeginIteration, EndWarm, SkipCross, EndCross, EndAdmission, Wake, PrefillDone,
           CheckCancelled, Stop, Quiescent, vars, workerVars
  <1>2. toPrefill' = toPrefill
    BY DEF BeginIteration, EndWarm, SkipCross, EndCross, EndAdmission, Wake, PrefillDone,
           CheckCancelled, Stop, Quiescent, vars, workerVars, BatcherInv, Works, WorkList
  <1>3. store' = store \/ store' = TouchLookup(store, CrossPrompt)
    BY DEF BeginIteration, EndWarm, SkipCross, EndCross, EndAdmission, Wake, PrefillDone,
           CheckCancelled, Stop, Quiescent, vars
  <1>4. ImagesOK(store')
    <2>1. ImagesOK(store)
      BY DEF AnswerInv, Positions
    <2> QED BY <1>3, <2>1, StoreKeepsImages
  <1> QED BY <1>1, <1>2, <1>4, IdleAdvances

(* A step that touches only the handle of r, and of it nothing that a slot *)
(* looks at if a slot runs it, keeps the slots in order.                   *)
LEMMA HandleOnlyProgress ==
    ASSUME AnswerInv, slots' = slots, toPrefill' = toPrefill, job' = job, NEW r \in Reqs,
           \A q \in Reqs \ {r} : req'[q] = req[q],
           \A i \in Slots : slots[i].req \in Reqs \cup {None},
           (\E i \in Occupied : slots[i].req = r) =>
               /\ req'[r].prompt = req[r].prompt /\ req'[r].tokens = req[r].tokens
               /\ req'[r].ran = req[r].ran /\ req'[r].prefillSet = req[r].prefillSet
    PROVE  Progress'
  <1>1. /\ Occupied' = Occupied
        /\ \A i : (Listed(i)' <=> Listed(i)) /\ (Working(i)' <=> Working(i))
    BY DEF Occupied, Listed, Working
  <1>2. ASSUME NEW i \in Occupied'
        PROVE  SlotOK(slots[i], req[slots[i].req], Listed(i), Working(i), job.p)'
    <2>1. PICK q \in Reqs : q = slots[i].req
      BY <1>1 DEF Occupied
    <2>2. /\ req'[q].prompt = req[q].prompt /\ req'[q].tokens = req[q].tokens
          /\ req'[q].ran = req[q].ran /\ req'[q].prefillSet = req[q].prefillSet
      <3>1. CASE q = r
        BY <1>1, <2>1, <3>1
      <3>2. CASE q # r
        <4>1. req'[q] = req[q]
          BY <3>2
        <4> QED BY <4>1
      <3> QED BY <3>1, <3>2
    <2> QED BY <1>1, <2>1, <2>2, SlotStays DEF AnswerInv
  <1> QED BY <1>2, Zenon DEF Progress

(* Submit accepts a prompt that fits the context, or ends the handle with  *)
(* the reason.                                                             *)
LEMMA SubmitAdvances ==
    ASSUME BatcherInv, AnswerInv, NEW r \in Reqs, NEW p \in Prompts, NEW t \in Tenants,
           Submit(r, p, t)
    PROVE  Advances
  <1> DEFINE outcome == SubmitOutcome(p, t)
             handle == [FreshReq EXCEPT !.prompt = p, !.tenant = t]
             open == [handle EXCEPT !.st = "open"]
             refused == [handle EXCEPT !.st = "done", !.err = outcome,
                                       !.cancelled = (outcome = "stopped")]
  <1>1. /\ req[r].st = "new" /\ slots' = slots /\ toPrefill' = toPrefill /\ job' = job
        /\ device' = device /\ store' = store
    BY DEF Submit, workerVars
  <1>2. CASE outcome = "accepted"
    <2>1. req' = [req EXCEPT ![r] = open] /\ waiting' = Append(waiting, r)
      BY <1>2 DEF Submit
    <2>2. /\ open.st = "open" /\ open.err = "" /\ open.cancelled = FALSE /\ open.prompt = p
          /\ open.tokens = <<>> /\ open.ran = 0 /\ open.prefillSet = FALSE
      BY DEF FreshReq
    <2>3. p # <<>> /\ ~(Len(p) >= MaxContext)
      BY <1>2, SMTT(30) DEF SubmitOutcome
    <2>4. p \in Seq(Nat) /\ 0 < Len(p) /\ Len(p) < MaxContext /\ Len(p) \in Nat
      <3>1. p \in Seq(Nat)
        BY BatcherAssumption
      <3> QED BY <2>3, <3>1, Sizes
    <2> HIDE DEF open
    <2>5. req'[r] = open
      BY <2>1 DEF BatcherInv, Shape
    <2>6. Untouched(open) /\ Counted(open)
      <3>1. 0 \in Nat /\ 0 <= Len(p)
        BY <2>4
      <3>2. Untouched(open)
        BY <2>2, Zenon DEF Untouched
      <3>3. Counted(open)
        BY <2>2, <3>1, Zenon DEF Counted
      <3> QED BY <3>2, <3>3
    <2>7. AcceptMove(req[r], open)
      BY <1>1, <2>2, <2>4, <2>6 DEF AcceptMove
    <2>8. r \notin Waiting /\ \A i \in Occupied : slots[i].req # r
      BY <1>1 DEF BatcherInv, Places, Placement, Owner
    <2>9. \A q \in Reqs \ {r} : req'[q] = req[q]
      BY <2>1
    <2>10. \A q \in Reqs \ {r} : q \in Waiting' => q \in Waiting
      <3>1. waiting \in Seq(Reqs)
        BY DEF BatcherInv, Places
      <3> QED BY <2>1, <3>1 DEF Waiting
    <2>11. ASSUME NEW q \in Reqs PROVE StepOf(q)
      <3>1. CASE q = r
        <4>1. r \in Waiting'
          <5>1. waiting \in Seq(Reqs) /\ waiting' = Append(waiting, r)
            BY <2>1 DEF BatcherInv, Places
          <5>2. PICK k : k = Len(waiting) + 1
            OBVIOUS
          <5>3. k \in DOMAIN waiting' /\ waiting'[k] = r
            BY <5>1, <5>2
          <5> QED BY <5>3, Zenon DEF Waiting
        <4> QED BY <2>5, <2>6, <2>7, <2>8, <3>1, <4>1, Zenon DEF StepOf, Move
      <3>2. CASE q # r
        BY <2>9, <2>10, <3>2, AloneSteps
      <3> QED BY <3>1, <3>2
    <2>12. Progress'
      BY <1>1, <2>8, <2>9, HandleOnlyProgress DEF BatcherInv, Places
    <2>13. Positions'
      BY <1>1 DEF AnswerInv, Positions, RingOK, ImagesOK
    <2> QED BY <2>11, <2>12, <2>13, Zenon DEF Advances
  <1>3. CASE outcome # "accepted"
    <2>1. req' = [req EXCEPT ![r] = refused] /\ waiting' = waiting
      BY <1>3 DEF Submit
    <2>2. /\ refused.st = "done" /\ refused.err = outcome
          /\ refused.cancelled = (outcome = "stopped") /\ refused.prompt = p
          /\ refused.tokens = <<>> /\ refused.ran = 0 /\ refused.prefillSet = FALSE
      <3> HIDE DEF outcome
      <3> QED BY DEF FreshReq
    <2>3. outcome # ""
      BY <1>3, SMTT(30) DEF SubmitOutcome
    <2>4. p \in Seq(Nat) /\ Len(p) \in Nat
      <3>1. p \in Seq(Nat)
        BY BatcherAssumption
      <3> QED BY <3>1
    <2> HIDE DEF refused, outcome
    <2>5. req'[r] = refused
      BY <2>1 DEF BatcherInv, Shape
    <2>6. Untouched(refused) /\ Counted(refused)
      <3>1. 0 \in Nat /\ 0 <= Len(p)
        BY <2>4
      <3>2. Untouched(refused)
        BY <2>2, Zenon DEF Untouched
      <3>3. Counted(refused)
        BY <2>2, <3>1, Zenon DEF Counted
      <3> QED BY <3>2, <3>3
    <2>7. RejectMove(req[r], refused)
      BY <1>1, <2>2, <2>3, <2>4, <2>6 DEF RejectMove
    <2>8. r \notin Waiting /\ \A i \in Occupied : slots[i].req # r
      BY <1>1 DEF BatcherInv, Places, Placement, Owner
    <2>9. \A q \in Reqs \ {r} : req'[q] = req[q]
      BY <2>1
    <2>10. Waiting' = Waiting
      BY <2>1 DEF Waiting
    <2>11. ASSUME NEW q \in Reqs PROVE StepOf(q)
      <3>1. CASE q = r
        <4>1. refused.st # "open"
          BY <2>7 DEF RejectMove
        <4> QED BY <2>5, <2>6, <2>7, <2>8, <2>10, <3>1, <4>1, Zenon DEF StepOf, Move
      <3>2. CASE q # r
        BY <2>9, <2>10, <3>2, AloneSteps
      <3> QED BY <3>1, <3>2
    <2>12. Progress'
      BY <1>1, <2>8, <2>9, HandleOnlyProgress DEF BatcherInv, Places
    <2>13. Positions'
      BY <1>1 DEF AnswerInv, Positions, RingOK, ImagesOK
    <2> QED BY <2>11, <2>12, <2>13, Zenon DEF Advances
  <1> QED BY <1>2, <1>3

(* Cancel raises the flag of an open request.                              *)
LEMMA CancelAdvances ==
    ASSUME BatcherInv, AnswerInv, NEW r \in Reqs, Cancel(r)
    PROVE  Advances
  <1>1. /\ req[r].st = "open" /\ slots' = slots /\ toPrefill' = toPrefill /\ job' = job
        /\ device' = device /\ store' = store /\ waiting' = waiting
    BY DEF Cancel, workerVars
  <1>2. \A q \in Reqs \ {r} : req'[q] = req[q]
    BY DEF Cancel
  <1>3. /\ req'[r].st = req[r].st /\ req'[r].err = req[r].err /\ req'[r].cancelled = TRUE
        /\ req'[r].prompt = req[r].prompt /\ req'[r].tokens = req[r].tokens
        /\ req'[r].ran = req[r].ran /\ req'[r].prefillSet = req[r].prefillSet
    BY DEF Cancel, BatcherInv, Shape, ReqFields
  <1>4. Waiting' = Waiting
    BY <1>1 DEF Waiting
  <1>5. Counted(req'[r]) /\ StillMove(req[r], req'[r])
    <2>1. Counted(req[r])
      BY DEF AnswerInv, Handles, HandleOK
    <2> QED BY <1>1, <1>3, <2>1 DEF Counted, StillMove
  <1>6. r \in Waiting => Untouched(req'[r])
    <2>1. r \in Waiting => Untouched(req[r])
      BY DEF AnswerInv, Queue, Waiting
    <2> QED BY <1>3, <2>1 DEF Untouched
  <1>7. ASSUME NEW q \in Reqs PROVE StepOf(q)
    <2>1. CASE q = r
      <3>1. req[r].st # "new"
        BY <1>1
      <3> QED BY <1>4, <1>5, <1>6, <2>1, <3>1, Zenon DEF StepOf, Move
    <2>2. CASE q # r
      BY <1>2, <1>4, <2>2, AloneSteps
    <2> QED BY <2>1, <2>2
  <1>8. Progress'
    BY <1>1, <1>2, <1>3, HandleOnlyProgress DEF BatcherInv, Places
  <1>9. Positions'
    BY <1>1 DEF AnswerInv, Positions, RingOK, ImagesOK
  <1> QED BY <1>7, <1>8, <1>9, Zenon DEF Advances

-----------------------------------------------------------------------------
(* Admission                                                               *)

(* Where an admission to slot i leaves it and the others.                  *)
LEMMA AdmitPlaces ==
    ASSUME BatcherInv, NEW i \in Slots \ Occupied, NEW r, NEW start, NEW pin, NEW eager,
           AdmitTo(i, r, start, pin, eager), LockHeld
    PROVE  /\ req' = req /\ job' = job /\ \A j \in Slots \ {i} : slots'[j] = slots[j]
           /\ slots'[i].req = r /\ slots'[i].pos = 0 /\ slots'[i].prefillPos = 0
           /\ slots'[i].prefillStart = start /\ ~slots'[i].resident
           /\ slots'[i].residentTokens = IF start = 0 THEN <<>> ELSE slots[i].residentTokens
           /\ \A j : j # i => (Listed(j)' <=> Listed(j))
           /\ Listed(i)' <=> PrefillChunk > 0 /\ eager
           /\ \A j : ~Working(j) /\ ~Working(j)'
  <1>1. /\ req' = req /\ job' = job
        /\ toPrefill' = IF PrefillChunk > 0 /\ eager THEN Append(toPrefill, i) ELSE toPrefill
    BY DEF AdmitTo
  <1>2. \A j \in Slots \ {i} : slots'[j] = slots[j]
    BY DEF AdmitTo
  <1>3. /\ slots'[i].req = r /\ slots'[i].pos = 0 /\ slots'[i].prefillPos = 0
        /\ slots'[i].prefillStart = start /\ ~slots'[i].resident
        /\ slots'[i].residentTokens = IF start = 0 THEN <<>> ELSE slots[i].residentTokens
    <2>1. slots[i] = [f \in SlotFields |-> slots[i][f]]
      BY DEF BatcherInv, Shape
    <2>2. slots'[i] = [slots[i] EXCEPT
            !.req = r, !.pos = 0, !.prefillPos = 0, !.prefillStart = start,
            !.resident = FALSE, !.pin = pin,
            !.residentTokens = IF start = 0 THEN <<>> ELSE @]
      BY DEF AdmitTo, BatcherInv, Shape
    <2> QED BY <2>1, <2>2 DEF SlotFields
  <1>4. ~job.active /\ toPrefill \in Seq(Slots) /\ \A m \in DOMAIN toPrefill : toPrefill[m] # i
    BY DEF LockHeld, BatcherInv, Works, WorkList
  <1>5. /\ \A j : j # i => (Listed(j)' <=> Listed(j))
        /\ Listed(i)' <=> PrefillChunk > 0 /\ eager
        /\ \A j : ~Working(j) /\ ~Working(j)'
    <2>1. CASE PrefillChunk > 0 /\ eager
      <3>1. /\ Len(toPrefill) \in Nat
            /\ DOMAIN toPrefill = 1 .. Len(toPrefill)
            /\ DOMAIN toPrefill' = 1 .. Len(toPrefill) + 1
            /\ \A m \in DOMAIN toPrefill : toPrefill'[m] = toPrefill[m]
            /\ toPrefill'[Len(toPrefill) + 1] = i
        BY <1>1, <1>4, <2>1
      <3>2. \A m \in DOMAIN toPrefill' : m \in DOMAIN toPrefill \/ m = Len(toPrefill) + 1
        BY <3>1
      <3>3. /\ DOMAIN toPrefill \subseteq DOMAIN toPrefill'
            /\ Len(toPrefill) + 1 \in DOMAIN toPrefill'
        BY <3>1
      <3>4. \A j : j # i => (Listed(j)' <=> Listed(j))
        BY <3>1, <3>2, <3>3, Zenon DEF Listed
      <3>5. Listed(i)'
        BY <3>1, <3>3, Zenon DEF Listed
      <3> QED BY <1>1, <1>4, <2>1, <3>4, <3>5 DEF Working
    <2>2. CASE ~(PrefillChunk > 0 /\ eager)
      BY <1>1, <1>4, <2>2 DEF Working, Listed
    <2> QED BY <2>1, <2>2
  <1> QED BY <1>1, <1>2, <1>3, <1>5

(* An admission starts a request inside its prompt, listed for the eager   *)
(* prefill unless prompts are ingested token by token or in band.          *)
LEMMA AdmitAdvances ==
    ASSUME BatcherInv, AnswerInv, NEW i \in Slots \ Occupied, NEW k \in DOMAIN waiting,
           NEW start \in Nat, NEW pin, NEW eager,
           AdmitTo(i, waiting[k], start, pin, eager), Dequeued(k),
           start < Len(req[waiting[k]].prompt), ~WarmSlot /\ ~XSlot => start = 0,
           PrefillChunk > 0 /\ ~eager => MixedStep,
           LockHeld, device' = [j \in Slots |-> device'[j]],
           \A j \in Slots : RingOK(device'[j]), ImagesOK(store')
    PROVE  Advances
  <1>1. PICK r \in Reqs : r = waiting[k]
    BY DEF BatcherInv, Places
  <1>2. /\ req' = req /\ job' = job
    BY DEF AdmitTo
  <1>3. \A j \in Slots \ {i} : slots'[j] = slots[j]
    BY DEF AdmitTo
  <1>4. /\ slots'[i].req = r /\ slots'[i].pos = 0 /\ slots'[i].prefillPos = 0
        /\ slots'[i].prefillStart = start
        /\ slots'[i].residentTokens = IF start = 0 THEN <<>> ELSE slots[i].residentTokens
    BY <1>1, AdmitPlaces
  <1>5. /\ \A j : j # i => (Listed(j)' <=> Listed(j))
        /\ Listed(i)' <=> PrefillChunk > 0 /\ eager
        /\ \A j : ~Working(j) /\ ~Working(j)'
    BY <1>1, AdmitPlaces
  <1>6. Untouched(req[r]) /\ HandleOK(req[r])
    BY <1>1 DEF AnswerInv, Queue, Handles
  <1>7. ASSUME NEW q \in Reqs PROVE StepOf(q)
    <2>1. \A m \in DOMAIN waiting' : waiting'[m] \in Waiting
      <3>1. /\ waiting \in Seq(Reqs) /\ Len(waiting) \in Nat /\ DOMAIN waiting = 1 .. Len(waiting)
            /\ DOMAIN waiting' = 1 .. Len(waiting) - 1
        BY DEF BatcherInv, Places, Dequeued
      <3> QED BY <3>1 DEF Dequeued, Waiting
    <2>2. q \in Waiting' => q \in Waiting
      BY <2>1 DEF Waiting
    <2> QED BY <1>2, <2>2, AloneSteps
  <1>8. SlotOK(slots[i], req[slots[i].req], Listed(i), Working(i), job.p)'
    <2>1. PICK L : L = Len(req[r].prompt)
      OBVIOUS
    <2>2. start < L /\ L \in Nat
      BY <1>1, <1>6, <2>1, HandleTypes
    <2>3. Len(req[r].tokens) = 0 /\ req[r].ran = 0 /\ ~req[r].prefillSet
      BY <1>6 DEF Untouched
    <2>4. PICK l, w, told : l = Listed(i)' /\ w = Working(i)' /\ told = req[r].prefillSet
      OBVIOUS
    <2>5. ~w /\ ~told /\ (l => PrefillChunk > 0) /\ (~l => PrefillChunk = 0 \/ MixedStep)
      <3>1. /\ Listed(i)' => PrefillChunk > 0 
            /\ ~Listed(i)' => PrefillChunk = 0 \/ MixedStep
        BY <1>5, Sizes
      <3> QED BY <1>5, <2>3, <2>4, <3>1
    <2>6. StandsAt(0, 0, start, L, 0, 0, told, l, w, job'.p)
      <3>1. 0 \in Nat /\ 0 < L /\ start \in Nat
        BY <2>2
      <3> QED BY <2>2, <2>5, <3>1, Zenon DEF StandsAt
    <2>7. StandsAt(slots'[i].pos, slots'[i].prefillPos, slots'[i].prefillStart,
                   Len(req'[slots'[i].req].prompt), Len(req'[slots'[i].req].tokens),
                   req'[slots'[i].req].ran, req'[slots'[i].req].prefillSet,
                   (Listed(i))', (Working(i))', job'.p)
      BY <1>2, <1>4, <2>1, <2>3, <2>4, <2>6, Zenon
    <2> QED BY <2>7, Zenon DEF SlotOK, StandsAt
  <1>9. Progress'
    <2>1. ASSUME NEW j \in Occupied'
          PROVE  SlotOK(slots[j], req[slots[j].req], Listed(j), Working(j), job.p)'
      <3>1. CASE j = i
        BY <1>8, <3>1
      <3>2. CASE j # i
        <4>1. j \in Slots \ {i} /\ j \in Occupied
          BY <1>3, <3>2 DEF Occupied
        <4>2. slots'[j] = slots[j]
          BY <1>3, <4>1
        <4> QED BY <1>2, <1>5, <3>2, <4>1, <4>2, SlotStays DEF AnswerInv
      <3> QED BY <3>1, <3>2
    <2> QED BY <2>1, Zenon DEF Progress
  <1>10. Positions'
    <2>1. ASSUME NEW j \in Slots PROVE slots'[j].residentTokens \in Seq(Nat)
      <3>1. slots[j].residentTokens \in Seq(Nat) /\ <<>> \in Seq(Nat)
        BY DEF AnswerInv, Positions
      <3>2. slots'[j].residentTokens = slots[j].residentTokens \/ slots'[j].residentTokens = <<>>
        BY <1>3, <1>4
      <3> QED BY <3>1, <3>2, Zenon
    <2> QED BY <2>1 DEF Positions, RingOK, ImagesOK
  <1> QED BY <1>7, <1>9, <1>10, Zenon DEF Advances

(* The three admission passes: a warm slot resumes at a checkpoint, a      *)
(* cross-slot hit at the end of the image, a cold slot at 0.               *)
LEMMA AdmissionAdvances ==
    ASSUME BatcherInv, AnswerInv, AdmitWarm \/ AdmitCross \/ AdmitCold
    PROVE  Advances
  <1>1. /\ waiting \in Seq(Reqs) /\ \A i \in Slots : RingOK(device[i])
        /\ device = [i \in Slots |-> device[i]] /\ ImagesOK(store)
    BY DEF BatcherInv, Places, AnswerInv, Positions
  <1>2. CASE AdmitWarm
    <2>1. PICK k \in WarmHits : \E i \in FindWarmSlot(req[waiting[k]].prompt) :
             /\ AdmitTo(i, waiting[k], WarmPos(i, req[waiting[k]].prompt), NoPayload, TRUE)
             /\ device' = [device EXCEPT ![i] =
                   PruneCkpts(@, LCP(slots[i].residentTokens, req[waiting[k]].prompt))]
             /\ waiting' = RemoveAt(waiting, k)
      BY <1>2 DEF AdmitWarm
    <2>2. PICK i \in FindWarmSlot(req[waiting[k]].prompt) :
             /\ AdmitTo(i, waiting[k], WarmPos(i, req[waiting[k]].prompt), NoPayload, TRUE)
             /\ device' = [device EXCEPT ![i] =
                   PruneCkpts(@, LCP(slots[i].residentTokens, req[waiting[k]].prompt))]
      BY <2>1
    <2>3. k \in DOMAIN waiting
      BY DEF WarmHits
    <2>4. i \in Slots \ Occupied /\ WarmSlot
      <3>1. i \in Slots /\ WarmPos(i, req[waiting[k]].prompt) > 0 /\ WarmSlot
        BY DEF FindWarmSlot, WarmFor
      <3> QED BY <3>1 DEF WarmPos
    <2>5. Dequeued(k)
      BY <1>1, <2>1, <2>3, RemoveAtFacts DEF Dequeued
    <2>6. PICK prompt, start : /\ prompt = req[waiting[k]].prompt
                               /\ start = WarmPos(i, prompt)
      OBVIOUS
    <2>7. start \in Nat /\ start < Len(prompt)
      <3>1. waiting[k] \in Reqs /\ req[waiting[k]].st = "open"
        BY <1>1, <2>3 DEF BatcherInv, Places, Placement, Waiting
      <3>2. HandleOK(req[waiting[k]])
        BY <3>1 DEF AnswerInv, Handles
      <3>3. prompt \in Seq(Nat) /\ 0 < Len(prompt)
        BY <2>6, <3>1, <3>2, Zenon DEF HandleOK
      <3>4. prompt # <<>>
        BY <3>3
      <3> QED BY <2>4, <2>6, <3>3, <3>4, WarmPosType DEF AnswerInv
    <2>8. /\ device' = [j \in Slots |-> device'[j]] /\ \A j \in Slots : RingOK(device'[j])
      <3>1. PICK d2 : d2 = PruneCkpts(device[i], LCP(slots[i].residentTokens, prompt))
        OBVIOUS
      <3>2. RingOK(d2)
        BY <1>1, <2>4, <3>1, PruneKeepsRing
      <3>3. device' = [device EXCEPT ![i] = d2]
        BY <2>2, <2>6, <3>1
      <3> QED BY <1>1, <2>4, <3>2, <3>3
    <2>9. LockHeld /\ store' = store
      BY <1>2 DEF AdmitWarm, LockHeld
    <2>10. AdmitTo(i, waiting[k], start, NoPayload, TRUE) /\ start < Len(req[waiting[k]].prompt)
      BY <2>2, <2>6, <2>7
    <2>11. ImagesOK(store')
      BY <1>1, <2>9
    <2> QED BY <2>3, <2>4, <2>5, <2>7, <2>8, <2>9, <2>10, <2>11, AdmitAdvances
  <1>3. CASE AdmitCross
    <2>1. PICK i \in PickColdSlot : \E img \in {store.images[CrossId]} :
             /\ AdmitTo(i, waiting[scan], img.pos, CrossId, TRUE)
             /\ device' = [device EXCEPT ![i] = ClearCkpts(RestoreImage(@, img))]
      BY <1>3 DEF AdmitCross
    <2>2. PICK img : /\ img = store.images[CrossId]
                     /\ AdmitTo(i, waiting[scan], img.pos, CrossId, TRUE)
                     /\ device' = [device EXCEPT ![i] = ClearCkpts(RestoreImage(@, img))]
      BY <2>1
    <2>3. scan \in DOMAIN waiting
      BY <1>3 DEF AdmitCross, CrossMore, BatcherInv, Cursor, Places
    <2>4. i \in Slots \ Occupied /\ XSlot
      BY <1>3 DEF PickColdSlot, AdmitCross, CrossMore
    <2>5. Dequeued(scan)
      <3>1. waiting' = RemoveAt(waiting, scan)
        BY <1>3 DEF AdmitCross
      <3> QED BY <1>1, <2>3, <3>1, RemoveAtFacts DEF Dequeued
    <2>6. img.pos \in Nat /\ img.pos < Len(req[waiting[scan]].prompt)
      <3>1. CrossId # NoPayload /\ store.images[CrossId].pos < Len(req[waiting[scan]].prompt)
        BY <1>3 DEF AdmitCross, CrossUsable, CrossPrompt
      <3>2. CrossId \in DOMAIN store.images
        BY <3>1 DEF CrossId, LookupImage
      <3> QED BY <1>1, <2>2, <3>1, <3>2 DEF ImagesOK
    <2>7. /\ device' = [j \in Slots |-> device'[j]] /\ \A j \in Slots : RingOK(device'[j])
      <3>1. PICK d1 : d1 = RestoreImage(device[i], img)
        OBVIOUS
      <3>2. PICK d2 : d2 = ClearCkpts(d1)
        OBVIOUS
      <3>3. RingOK(d1)
        BY <1>1, <2>4, <3>1, RestoreKeepsRing
      <3>4. RingOK(d2)
        BY <3>2, <3>3, RestoreKeepsRing
      <3>5. device' = [device EXCEPT ![i] = d2]
        BY <2>2, <3>1, <3>2
      <3> QED BY <1>1, <2>4, <3>4, <3>5
    <2>8. LockHeld
      BY <1>3 DEF AdmitCross, LockHeld
    <2>9. ImagesOK(store')
      <3>1. PICK s1 : s1 = TouchLookup(store, CrossPrompt)
        OBVIOUS
      <3>2. ImagesOK(s1)
        BY <1>1, <3>1, StoreKeepsImages
      <3>3. store' = AcquireImage(s1, CrossId)
        BY <1>3, <3>1 DEF AdmitCross
      <3> QED BY <3>2, <3>3, StoreKeepsImages
    <2> QED BY <2>2, <2>3, <2>4, <2>5, <2>6, <2>7, <2>8, <2>9, AdmitAdvances
  <1>4. CASE AdmitCold
    <2>0. PICK eager : eager = (~MixedStep \/ (PressureGate /\ ~pressure))
      OBVIOUS
    <2>1. PICK i \in PickColdSlot :
             /\ AdmitTo(i, Head(waiting), 0, NoPayload, eager)
             /\ device' = [device EXCEPT ![i] = ClearCkpts(@)]
      BY <1>4, <2>0 DEF AdmitCold
    <2>2. /\ 1 \in DOMAIN waiting /\ Head(waiting) = waiting[1]
          /\ waiting' = Tail(waiting)
      BY <1>1, <1>4 DEF AdmitCold, ColdMore
    <2>3. i \in Slots \ Occupied
      BY DEF PickColdSlot
    <2>4. Dequeued(1)
      BY <1>1, <2>2 DEF Dequeued
    <2>5. 0 < Len(req[waiting[1]].prompt)
      <3>1. waiting[1] \in Reqs /\ req[waiting[1]].st = "open"
        BY <1>1, <2>2 DEF BatcherInv, Places, Placement, Waiting
      <3> QED BY <3>1 DEF AnswerInv, Handles, HandleOK
    <2>6. device' = [j \in Slots |-> device'[j]] /\ \A j \in Slots : RingOK(device'[j])
      <3>1. RingOK(ClearCkpts(device[i]))
        BY <1>1, <2>3, RestoreKeepsRing
      <3>2. PICK d2 : d2 = ClearCkpts(device[i])
        OBVIOUS
      <3>3. device' = [device EXCEPT ![i] = d2] /\ RingOK(d2)
        BY <2>1, <3>1, <3>2
      <3> QED BY <1>1, <2>3, <3>3
    <2>7. LockHeld /\ ImagesOK(store')
      BY <1>1, <1>4 DEF AdmitCold, LockHeld
    <2>8. ~eager => MixedStep
      BY <2>0
    <2>9. AdmitTo(i, waiting[1], 0, NoPayload, eager)
      BY <2>1, <2>2
    <2> QED BY <2>2, <2>3, <2>4, <2>5, <2>6, <2>7, <2>8, <2>9, AdmitAdvances
  <1> QED BY <1>2, <1>3, <1>4

-----------------------------------------------------------------------------
(* The eager prefill                                                       *)

(* A slot stands where its numbers say.                                    *)
LEMMA SlotStands ==
    ASSUME NEW i, NEW pos, NEW fed, NEW start, NEW L, NEW n, NEW ran, NEW told,
           NEW listed, NEW working, NEW p,
           StandsAt(pos, fed, start, L, n, ran, told, listed, working, p),
           slots'[i].pos = pos, slots'[i].prefillPos = fed, slots'[i].prefillStart = start,
           Len(req'[slots'[i].req].prompt) = L, Len(req'[slots'[i].req].tokens) = n,
           req'[slots'[i].req].ran = ran, req'[slots'[i].req].prefillSet = told,
           listed = Listed(i)', working = Working(i)', p = job'.p
    PROVE  SlotOK(slots[i], req[slots[i].req], Listed(i), Working(i), job.p)'
  <1>1. StandsAt(slots'[i].pos, slots'[i].prefillPos, slots'[i].prefillStart,
                 Len(req'[slots'[i].req].prompt), Len(req'[slots'[i].req].tokens),
                 req'[slots'[i].req].ran, req'[slots'[i].req].prefillSet,
                 (Listed(i))', (Working(i))', job'.p)
    BY Zenon
  <1> QED BY <1>1, Zenon DEF SlotOK, StandsAt

(* The numbers of an occupied slot.                                        *)
LEMMA SlotNumbers ==
    ASSUME BatcherInv, AnswerInv, NEW i \in Occupied
    PROVE  /\ i \in Slots /\ slots[i].req \in Reqs /\ slots[i].req \notin Waiting
           /\ req[slots[i].req].st = "open" /\ HandleOK(req[slots[i].req])
           /\ Len(req[slots[i].req].prompt) \in Nat /\ Len(req[slots[i].req].tokens) \in Nat
           /\ Len(req[slots[i].req].prompt) > 0
           /\ req[slots[i].req].ran \in Nat
           /\ StandsAt(slots[i].pos, slots[i].prefillPos, slots[i].prefillStart,
                       Len(req[slots[i].req].prompt), Len(req[slots[i].req].tokens),
                       req[slots[i].req].ran, req[slots[i].req].prefillSet,
                       Listed(i), Working(i), job.p)
  <1>1. PICK r : r = slots[i].req
    OBVIOUS
  <1>2. i \in Slots /\ r \in Reqs /\ r \notin Waiting /\ req[r].st = "open"
    BY <1>1 DEF Occupied, Owner, BatcherInv, Places, Placement
  <1>3. HandleOK(req[r])
    BY <1>2 DEF AnswerInv, Handles
  <1>4. Len(req[r].prompt) \in Nat /\ Len(req[r].tokens) \in Nat
    BY <1>3, HandleTypes
  <1>5. 0 < Len(req[r].prompt) /\ req[r].ran \in Nat
    BY <1>2, <1>3, Zenon DEF HandleOK, Counted
  <1>6. Len(req[r].prompt) > 0
    BY <1>4, <1>5
  <1>7. SlotOK(slots[i], req[r], Listed(i), Working(i), job.p)
    BY <1>1 DEF AnswerInv, Progress
  <1> QED BY <1>1, <1>2, <1>3, <1>4, <1>5, <1>6, <1>7, Zenon DEF SlotOK

(* The chunk loop takes the first slot of the work list.                   *)
LEMMA BeginPlaces ==
    ASSUME BatcherInv, PrefillBegin, NEW i, i = Head(toPrefill)
    PROVE  /\ i \in Occupied /\ Listed(i) /\ ~Working(i) /\ ~Listed(i)' /\ Working(i)'
           /\ job'.p = slots[i].prefillStart
           /\ device' = [device EXCEPT ![i] = IF slots[i].prefillStart > 0
                                              THEN RestoreCkpt(@, slots[i].prefillStart) ELSE @]
           /\ \A j : j # i => (Listed(j)' <=> Listed(j)) /\ ~Working(j) /\ ~Working(j)'
  <1>1. /\ ~job.active /\ toPrefill # <<>> /\ toPrefill' = RestOfList(1)
        /\ job' = [slot |-> i, p |-> slots[i].prefillStart, active |-> TRUE]
        /\ device' = [device EXCEPT ![i] = IF slots[i].prefillStart > 0
                                           THEN RestoreCkpt(@, slots[i].prefillStart) ELSE @]
        /\ slots' = slots /\ req' = req /\ waiting' = waiting /\ store' = store
    BY DEF PrefillBegin, ResumeAt
  <1>2. toPrefill \in Seq(Slots) /\ WorkList
    BY DEF BatcherInv, Works
  <1>3. /\ i = toPrefill[1] /\ 1 \in DOMAIN toPrefill
        /\ DOMAIN toPrefill = 1 .. Len(toPrefill) /\ Len(toPrefill) \in Nat \ {0}
        /\ DOMAIN toPrefill' = 1 .. Len(toPrefill) - 1
        /\ \A k \in DOMAIN toPrefill' : toPrefill'[k] = toPrefill[k + 1]
    BY <1>1, <1>2 DEF RestOfList
  <1>4. /\ \A k \in DOMAIN toPrefill' : k + 1 \in DOMAIN toPrefill /\ k + 1 # 1
        /\ \A k \in DOMAIN toPrefill : k = 1 \/ (k - 1 \in DOMAIN toPrefill' /\ (k - 1) + 1 = k)
    BY <1>3
  <1>5. i \in Occupied /\ Listed(i) /\ ~Working(i)
    BY <1>1, <1>2, <1>3 DEF WorkList, Listed, Working
  <1>6. ~Listed(i)'
    <2>1. \A k \in DOMAIN toPrefill' : toPrefill'[k] # i
      BY <1>2, <1>3, <1>4 DEF WorkList
    <2> QED BY <2>1, Zenon DEF Listed
  <1>7. Working(i)' /\ job'.p = slots[i].prefillStart
    BY <1>1 DEF Working
  <1>8. ASSUME NEW j, j # i
        PROVE  (Listed(j)' <=> Listed(j)) /\ ~Working(j) /\ ~Working(j)'
    <2>1. Listed(j)' => Listed(j)
      BY <1>3, <1>4 DEF Listed
    <2>2. Listed(j) => Listed(j)'
      <3>1. ASSUME NEW k \in DOMAIN toPrefill, toPrefill[k] = j
            PROVE  \E l \in DOMAIN toPrefill' : toPrefill'[l] = j
        <4>1. k - 1 \in DOMAIN toPrefill' /\ (k - 1) + 1 = k
          BY <1>3, <1>4, <1>8, <3>1
        <4> QED BY <1>3, <3>1, <4>1
      <3> QED BY <3>1, Zenon DEF Listed
    <2> QED BY <1>1, <1>8, <2>1, <2>2 DEF Working
  <1> QED BY <1>1, <1>5, <1>6, <1>7, <1>8

(* It starts where the admission said.                                     *)
LEMMA BeginAdvances ==
    ASSUME BatcherInv, AnswerInv, PrefillBegin
    PROVE  Advances
  <1>1. PICK i : i = Head(toPrefill)
    OBVIOUS
  <1>2. slots' = slots /\ req' = req /\ waiting' = waiting /\ store' = store
    BY DEF PrefillBegin
  <1>3. i \in Occupied /\ Listed(i) /\ ~Working(i)
    BY <1>1, BeginPlaces
  <1>4. ~Listed(i)'
    BY <1>1, BeginPlaces
  <1>5. Working(i)' /\ job'.p = slots[i].prefillStart
    BY <1>1, BeginPlaces
  <1>6. ASSUME NEW j, j # i
        PROVE  (Listed(j)' <=> Listed(j)) /\ ~Working(j) /\ ~Working(j)'
    BY <1>1, <1>6, BeginPlaces
  <1>7. Occupied' = Occupied
    BY <1>2 DEF Occupied
  <1>8. ASSUME NEW r \in Reqs PROVE StepOf(r)
    <2>1. r \in Waiting' => r \in Waiting
      BY <1>2 DEF Waiting
    <2> QED BY <1>2, <2>1, AloneSteps
  <1>9. SlotOK(slots[i], req[slots[i].req], Listed(i), Working(i), job.p)'
    <2>1. PICK pos, fed, start, L, n, ran, told, l, w, l2, w2, p2 :
             /\ pos = slots[i].pos /\ fed = slots[i].prefillPos /\ start = slots[i].prefillStart
             /\ L = Len(req[slots[i].req].prompt) /\ n = Len(req[slots[i].req].tokens)
             /\ ran = req[slots[i].req].ran /\ told = req[slots[i].req].prefillSet
             /\ l = Listed(i) /\ w = Working(i) /\ l2 = Listed(i)' /\ w2 = Working(i)'
             /\ p2 = job'.p
      OBVIOUS
    <2>2. StandsAt(pos, fed, start, L, n, ran, told, l, w, job.p)
      BY <1>3, <2>1, SlotNumbers
    <2>3. l /\ ~w /\ ~l2 /\ w2 /\ p2 = start
      BY <1>3, <1>4, <1>5, <2>1
    <2>4. StandsAt(pos, fed, start, L, n, ran, told, l2, w2, p2)
      <3>1. start \in Nat /\ ran = 0
        BY <2>2, <2>3, Zenon DEF StandsAt
      <3>2. start + ran = start
        BY <3>1
      <3> QED BY <2>2, <2>3, <3>2, Zenon DEF StandsAt
    <2> QED BY <1>2, <2>1, <2>4, SlotStands
  <1>10. Progress'
    <2>1. ASSUME NEW j \in Occupied'
          PROVE  SlotOK(slots[j], req[slots[j].req], Listed(j), Working(j), job.p)'
      <3>1. CASE j = i
        BY <1>9, <3>1
      <3>2. CASE j # i
        BY <1>2, <1>6, <1>7, <3>2, SlotStays DEF AnswerInv
      <3> QED BY <3>1, <3>2
    <2> QED BY <2>1, Zenon DEF Progress
  <1>11. Positions'
    <2>1. /\ \A j \in Slots : RingOK(device[j])
          /\ device = [j \in Slots |-> device[j]] /\ ImagesOK(store)
          /\ \A j \in Slots : slots[j].residentTokens \in Seq(Nat)
      BY DEF AnswerInv, Positions
    <2>2. i \in Slots
      BY <1>3 DEF Occupied
    <2>3. PICK d2 : d2 = IF slots[i].prefillStart > 0
                         THEN RestoreCkpt(device[i], slots[i].prefillStart) ELSE device[i]
      OBVIOUS
    <2>4. RingOK(d2)
      BY <2>1, <2>2, <2>3, RestoreKeepsRing
    <2>5. device' = [device EXCEPT ![i] = d2]
      BY <1>1, <2>3, BeginPlaces
    <2>6. device' = [j \in Slots |-> device'[j]] /\ \A j \in Slots : RingOK(device'[j])
      BY <2>1, <2>2, <2>4, <2>5
    <2> QED BY <1>2, <2>1, <2>6 DEF Positions, RingOK, ImagesOK
  <1> QED BY <1>8, <1>10, <1>11, Zenon DEF Advances

(* A chunk is a part of what the prompt has left.                          *)
LEMMA ChunkNumbers ==
    ASSUME BatcherInv, AnswerInv, job.active
    PROVE  /\ job.slot \in Occupied /\ Working(job.slot) /\ ~Listed(job.slot)
           /\ PrefillChunk > 0
           /\ job.p \in Nat /\ ChunkLen \in Nat /\ ChunkEnd \in Nat
           /\ ChunkEnd = job.p + ChunkLen /\ ChunkEnd <= PromptLen(job.slot)
           /\ slots[job.slot].prefillStart \in Nat
           /\ slots[job.slot].prefillStart + req[slots[job.slot].req].ran = job.p
           /\ Len(req[slots[job.slot].req].tokens) = 0
           /\ ~req[slots[job.slot].req].prefillSet
  <1>1. PICK i : i = job.slot
    OBVIOUS
  <1>2. i \in Occupied /\ Working(i) /\ ~Listed(i)
    BY <1>1 DEF Working, Listed, BatcherInv, Works, WorkList
  <1>3. PICK pos, fed, start, L, n, ran, told, l, w :
           /\ pos = slots[i].pos /\ fed = slots[i].prefillPos /\ start = slots[i].prefillStart
           /\ L = Len(req[slots[i].req].prompt) /\ n = Len(req[slots[i].req].tokens)
           /\ ran = req[slots[i].req].ran /\ told = req[slots[i].req].prefillSet
           /\ l = Listed(i) /\ w = Working(i)
    OBVIOUS
  <1>4. StandsAt(pos, fed, start, L, n, ran, told, l, w, job.p) /\ L \in Nat
    BY <1>2, <1>3, SlotNumbers
  <1>5. /\ start \in Nat /\ PrefillChunk > 0 /\ n = 0 /\ ~told
        /\ job.p \in Nat /\ job.p < L /\ start + ran = job.p
    BY <1>2, <1>3, <1>4, Zenon DEF StandsAt
  <1>6. L = PromptLen(i)
    BY <1>3 DEF PromptLen, PromptAt, Owner
  <1>7. PICK c : c = ChunkLen
    OBVIOUS
  <1>8. L - job.p \in Nat
    BY <1>4, <1>5
  <1>9. c = Min({PrefillChunk, L - job.p})
    BY <1>1, <1>6, <1>7 DEF ChunkLen
  <1>10. c \in Nat /\ c = IF PrefillChunk <= L - job.p THEN PrefillChunk ELSE L - job.p
    BY <1>8, <1>9, Sizes, MinTwo
  <1>11. job.p + c \in Nat /\ job.p + c <= L
    BY <1>4, <1>5, <1>8, <1>10, Sizes
  <1> QED BY <1>1, <1>2, <1>3, <1>5, <1>6, <1>7, <1>10, <1>11 DEF ChunkEnd

(* The chunk's checkpoint and snapshot are taken at positions.             *)
LEMMA ChunkPositions ==
    ASSUME BatcherInv, AnswerInv, job.active
    PROVE  DevicesOK(ChunkDevice) /\ ImagesOK(ChunkStore)
  <1>1. /\ \A j \in Slots : RingOK(device[j])
        /\ device = [j \in Slots |-> device[j]] /\ ImagesOK(store)
    BY DEF AnswerInv, Positions
  <1>2. /\ job.slot \in Slots /\ ChunkEnd \in Nat /\ PrefillChunk \in Nat /\ PrefillChunk > 0
    BY ChunkNumbers, Sizes DEF Occupied
  <1>3. PICK fed : fed = PrefillForward(device[job.slot], ChunkTokens, job.p)
    OBVIOUS
  <1>4. RingOK(fed)
    BY <1>1, <1>2, <1>3, ForwardKeepsRing
  <1>5. PICK d2 : d2 = IF WarmSlot THEN CaptureCkpt(fed, ChunkEnd) ELSE fed
    OBVIOUS
  <1>6. RingOK(d2)
    BY <1>2, <1>4, <1>5, CaptureKeepsRing
  <1>7. ChunkDevice = [device EXCEPT ![job.slot] = d2]
    BY <1>3, <1>5 DEF ChunkDevice
  <1>8. PICK dv : dv = ChunkDevice
    OBVIOUS
  <1>9. DevicesOK(dv)
    BY <1>1, <1>2, <1>6, <1>7, <1>8 DEF DevicesOK
  <1>10. PICK L : L = PromptLen(job.slot)
    OBVIOUS
  <1>11. L \in Nat
    <2>1. job.slot \in Occupied
      BY ChunkNumbers
    <2> QED BY <1>10, <2>1, SlotNumbers DEF PromptLen, PromptAt, Owner
  <1>12. PICK deepest : deepest = (L \div PrefillChunk) * PrefillChunk
    OBVIOUS
  <1>13. deepest \in Nat
    <2>1. PICK c \in Nat : c = PrefillChunk /\ c > 0
      BY <1>2
    <2>2. PICK m : m = L \div c
      OBVIOUS
    <2>3. m \in Nat
      BY <1>11, <2>1, <2>2
    <2>4. m * c \in Nat
      BY <2>1, <2>3
    <2> QED BY <1>12, <2>1, <2>2, <2>4
  <1>14. PICK image, tokens : /\ image = ImageOf(ChunkDevice[job.slot], deepest)
                              /\ tokens = SubSeq(PromptAt(job.slot), 1, deepest)
    OBVIOUS
  <1>15. image.pos \in Nat
    BY <1>13, <1>14 DEF ImageOf
  <1>16. ChunkStore = store \/ ChunkStore = Snapshot(store, tokens, image)
    BY <1>10, <1>12, <1>14 DEF ChunkStore
  <1>17. ImagesOK(ChunkStore)
    BY <1>1, <1>15, <1>16, SnapshotKeepsImages
  <1> QED BY <1>8, <1>9, <1>17

(* ChunkReq counts the chunk for the request of the slot.                  *)
LEMMA ChunkReqFacts ==
    ASSUME BatcherInv, AnswerInv, job.active, NEW r, r = slots[job.slot].req
    PROVE  /\ \A q \in Reqs : ChunkReq[q] = [f \in ReqFields |-> ChunkReq[q][f]]
           /\ \A q \in Reqs \ {r} : ChunkReq[q] = req[q]
           /\ ChunkReq[r].st = req[r].st /\ ChunkReq[r].err = req[r].err
           /\ ChunkReq[r].prompt = req[r].prompt /\ ChunkReq[r].tokens = req[r].tokens
           /\ ChunkReq[r].cancelled = req[r].cancelled
           /\ ChunkReq[r].prefillSet = req[r].prefillSet
           /\ ChunkReq[r].cachedTokens = req[r].cachedTokens
           /\ ChunkReq[r].ran = req[r].ran + ChunkLen
  <1>1. r \in Reqs
    BY ChunkNumbers, SlotNumbers
  <1>2. ChunkReq = [req EXCEPT ![r].ran = @ + ChunkLen]
    BY DEF ChunkReq, Owner
  <1>3. PICK c : c = ChunkLen
    OBVIOUS
  <1>4. /\ req = [q \in Reqs |-> req[q]]
        /\ \A q \in Reqs : req[q] = [f \in ReqFields |-> req[q][f]]
    BY DEF BatcherInv, Shape
  <1>5. PICK rq : rq = ChunkReq
    OBVIOUS
  <1>6. rq = [req EXCEPT ![r] = [req[r] EXCEPT !.ran = @ + c]]
    BY <1>2, <1>3, <1>5
  <1>7. PICK q2 : q2 = [req[r] EXCEPT !.ran = @ + c]
    OBVIOUS
  <1>8. /\ q2 = [f \in ReqFields |-> q2[f]] /\ q2.st = req[r].st /\ q2.err = req[r].err
        /\ q2.prompt = req[r].prompt /\ q2.tokens = req[r].tokens
        /\ q2.cancelled = req[r].cancelled /\ q2.prefillSet = req[r].prefillSet
        /\ q2.cachedTokens = req[r].cachedTokens /\ q2.ran = req[r].ran + c
    <2>1. PICK q : q = req[r]
      OBVIOUS
    <2>2. q = [f \in ReqFields |-> q[f]]
      BY <1>1, <1>4, <2>1
    <2>3. q2 = [q EXCEPT !.ran = q.ran + c]
      BY <1>7, <2>1
    <2>4. /\ q2 = [f \in ReqFields |-> q2[f]] /\ q2.st = q.st /\ q2.err = q.err
          /\ q2.prompt = q.prompt /\ q2.tokens = q.tokens /\ q2.cancelled = q.cancelled
          /\ q2.prefillSet = q.prefillSet /\ q2.cachedTokens = q.cachedTokens
          /\ q2.ran = q.ran + c
      BY <2>2, <2>3 DEF ReqFields
    <2> QED BY <2>1, <2>4
  <1>9. rq[r] = q2 /\ \A q \in Reqs \ {r} : rq[q] = req[q]
    BY <1>1, <1>4, <1>6, <1>7
  <1>10. \A q \in Reqs : rq[q] = [f \in ReqFields |-> rq[q][f]]
    BY <1>4, <1>8, <1>9
  <1> QED BY <1>3, <1>5, <1>8, <1>9, <1>10

(* A chunk that is not the last moves the chunk loop along.                *)
LEMMA ChunkAdvances ==
    ASSUME BatcherInv, AnswerInv, PrefillChunkStep
    PROVE  Advances
  <1>1. /\ job.active /\ ChunkEnd < PromptLen(job.slot) /\ slots' = slots
        /\ waiting' = waiting /\ device' = ChunkDevice /\ store' = ChunkStore
        /\ req' = ChunkReq /\ job' = [job EXCEPT !.p = ChunkEnd] /\ toPrefill' = toPrefill
    BY DEF PrefillChunkStep
  <1>2. PICK i : i = job.slot
    OBVIOUS
  <1>3. PICK r : r = slots[i].req
    OBVIOUS
  <1>4. /\ i \in Occupied /\ Working(i) /\ ~Listed(i) /\ PrefillChunk > 0
        /\ job.p \in Nat /\ ChunkLen \in Nat /\ ChunkEnd \in Nat
        /\ ChunkEnd = job.p + ChunkLen
        /\ slots[i].prefillStart \in Nat /\ slots[i].prefillStart + req[r].ran = job.p
        /\ Len(req[r].tokens) = 0 /\ ~req[r].prefillSet
    BY <1>1, <1>2, <1>3, ChunkNumbers
  <1>5. /\ r \in Reqs /\ r \notin Waiting /\ req[r].st = "open" /\ HandleOK(req[r])
        /\ req[r].ran \in Nat /\ Len(req[r].prompt) \in Nat
        /\ PromptLen(i) = Len(req[r].prompt)
    BY <1>3, <1>4, SlotNumbers DEF PromptLen, PromptAt, Owner
  <1>6. /\ \A q \in Reqs \ {r} : req'[q] = req[q]
        /\ req'[r].st = req[r].st /\ req'[r].err = req[r].err
        /\ req'[r].prompt = req[r].prompt /\ req'[r].tokens = req[r].tokens
        /\ req'[r].cancelled = req[r].cancelled /\ req'[r].prefillSet = req[r].prefillSet
        /\ req'[r].ran = req[r].ran + ChunkLen
    BY <1>1, <1>2, <1>3, ChunkReqFacts
  <1>7. PICK a, s, b, L, c, e : /\ a = req[r].ran /\ s = slots[i].prefillStart /\ b = job.p
                                /\ L = Len(req[r].prompt) /\ c = ChunkLen /\ e = ChunkEnd
    OBVIOUS
  <1>8. /\ a \in Nat /\ s \in Nat /\ b \in Nat /\ L \in Nat /\ c \in Nat /\ e \in Nat
        /\ s + a = b /\ e = b + c /\ e < L
    BY <1>1, <1>2, <1>4, <1>5, <1>7
  <1>9. a + c \in Nat /\ a + c <= L /\ s + (a + c) = e
    BY <1>8
  <1>10. StepOf(r)
    <2>1. req[r].cancelled \in BOOLEAN /\ req[r].prefillSet \in BOOLEAN
      BY <1>5, Zenon DEF HandleOK, Counted
    <2>2. Counted(req'[r])
      BY <1>6, <1>7, <1>9, <2>1, Zenon DEF Counted
    <2>3. StillMove(req[r], req'[r])
      BY <1>5, <1>6, <2>1, Zenon DEF StillMove
    <2>4. r \notin Waiting'
      BY <1>1, <1>5 DEF Waiting
    <2> QED BY <1>5, <2>2, <2>3, <2>4, Zenon DEF StepOf, Move
  <1>11. ASSUME NEW q \in Reqs PROVE StepOf(q)
    <2>1. q \in Waiting' => q \in Waiting
      BY <1>1 DEF Waiting
    <2>2. CASE q # r
      BY <1>6, <2>1, <2>2, AloneSteps
    <2> QED BY <1>10, <2>2
  <1>12. /\ Occupied' = Occupied
         /\ \A j : (Listed(j)' <=> Listed(j)) /\ (Working(j)' <=> Working(j))
         /\ job'.p = ChunkEnd
    <2>1. job = [f \in {"slot", "p", "active"} |-> job[f]]
      BY DEF BatcherInv, Works
    <2>2. PICK e1 : e1 = ChunkEnd
      OBVIOUS
    <2>3. job' = [job EXCEPT !.p = e1]
      BY <1>1, <2>2
    <2>4. job'.p = e1 /\ job'.slot = job.slot /\ job'.active = job.active
      BY <2>1, <2>3
    <2> QED BY <1>1, <2>2, <2>4 DEF Occupied, Listed, Working
  <1>13. SlotOK(slots[i], req[slots[i].req], Listed(i), Working(i), job.p)'
    <2>1. PICK pos, fed, n, told, l, w, l2, w2, p2 :
             /\ pos = slots[i].pos /\ fed = slots[i].prefillPos
             /\ n = Len(req[r].tokens) /\ told = req[r].prefillSet
             /\ l = Listed(i) /\ w = Working(i) /\ l2 = Listed(i)' /\ w2 = Working(i)'
             /\ p2 = job'.p
      OBVIOUS
    <2>2. StandsAt(pos, fed, s, L, n, a, told, l, w, b)
      BY <1>3, <1>4, <1>7, <2>1, SlotNumbers
    <2>3. ~l2 /\ w2 /\ p2 = e /\ n = 0 /\ ~told
      BY <1>4, <1>7, <1>12, <2>1
    <2>4. StandsAt(pos, fed, s, L, n, a + c, told, l2, w2, p2)
      BY <1>4, <1>8, <1>9, <2>2, <2>3, Zenon DEF StandsAt
    <2> QED BY <1>1, <1>3, <1>6, <1>7, <2>1, <2>4, SlotStands
  <1>14. Progress'
    <2>1. ASSUME NEW j \in Occupied'
          PROVE  SlotOK(slots[j], req[slots[j].req], Listed(j), Working(j), job.p)'
      <3>1. CASE j = i
        BY <1>13, <3>1
      <3>2. CASE j # i
        <4>1. j \in Occupied /\ slots[j].req \in Reqs
          BY <1>12, SlotNumbers
        <4>2. slots[j].req # r
          BY <1>3, <1>4, <3>2, <4>1 DEF BatcherInv, Places, Placement, Owner
        <4>3. req'[slots[j].req] = req[slots[j].req]
          BY <1>6, <4>1, <4>2
        <4>4. ~Working(j)
          BY <1>2, <3>2 DEF Working
        <4> QED BY <1>1, <1>12, <4>1, <4>3, <4>4, SlotStays DEF AnswerInv
      <3> QED BY <3>1, <3>2
    <2> QED BY <2>1, Zenon DEF Progress
  <1>15. Positions'
    <2>1. DevicesOK(device') /\ ImagesOK(store')
      BY <1>1, ChunkPositions
    <2>2. \A j \in Slots : slots[j].residentTokens \in Seq(Nat)
      BY DEF AnswerInv, Positions
    <2> QED BY <1>1, <2>1, <2>2 DEF Positions, DevicesOK, RingOK, ImagesOK
  <1> QED BY <1>11, <1>14, <1>15, Zenon DEF Advances

-----------------------------------------------------------------------------
(* The steps that end requests                                             *)

(* The eager prefill of slot i is where it was.                            *)
SamePlace(i) == /\ Listed(i)' <=> Listed(i)
                /\ Working(i)' <=> Working(i)
                /\ Working(i) => job'.p = job.p

(* A request that a slot runs is not in the queue: it makes a step when    *)
(* its handle makes a move.                                                *)
LEMMA RunSteps ==
    ASSUME BatcherInv, AnswerInv, NEW i \in Occupied, waiting' = waiting,
           Move(req[slots[i].req], req'[slots[i].req])
    PROVE  StepOf(slots[i].req)
  <1>1. slots[i].req \notin Waiting
    BY SlotNumbers
  <1>2. slots[i].req \notin Waiting'
    BY <1>1 DEF Waiting
  <1>3. req[slots[i].req].st # "new"
    BY SlotNumbers
  <1> QED BY <1>1, <1>2, <1>3, Zenon DEF StepOf

(* Two slots run two requests.                                             *)
LEMMA OtherOwner ==
    ASSUME BatcherInv, NEW i \in Occupied, NEW j \in Occupied, i # j
    PROVE  slots[i].req # slots[j].req
  BY DEF BatcherInv, Places, Placement, Owner

(* A failed forward ends the requests of its slots with an error.          *)
LEMMA FailAdvances ==
    ASSUME BatcherInv, AnswerInv, NEW F \in SUBSET Occupied, NEW after,
           FailSlots(F, after), DevicesOK(after), waiting' = waiting,
           \A i \in Occupied \ F : SamePlace(i)
    PROVE  Advances
  <1>1. Shape /\ Places
    BY DEF BatcherInv
  <1>2. /\ \A r \in Reqs : (\A i \in F : slots[i].req # r) => req'[r] = req[r]
        /\ \A i \in Slots \ F : slots'[i] = slots[i]
        /\ \A i \in F : slots'[i].req = None
        /\ \A i \in Slots : slots'[i].residentTokens = slots[i].residentTokens
    BY <1>1, FailTells
  <1>3. ASSUME NEW i \in F PROVE StepOf(slots[i].req)
    <2>1. PICK r : r = slots[i].req
      OBVIOUS
    <2>2. /\ req'[r].st = "done" /\ req'[r].err = "failed"
          /\ req'[r].tokens = req[r].tokens /\ req'[r].prompt = req[r].prompt
          /\ req'[r].cancelled = req[r].cancelled /\ req'[r].ran = req[r].ran
          /\ req'[r].prefillSet = req[r].prefillSet
      BY <1>1, <2>1, FailTells
    <2>3. i \in Occupied /\ HandleOK(req[r]) /\ req[r].st = "open"
      BY <2>1, SlotNumbers
    <2>4. Counted(req[r]) /\ req[r].cancelled \in BOOLEAN /\ "failed" # ""
      BY <2>3, Zenon DEF HandleOK
    <2>5. Counted(req'[r]) /\ FailMove(req[r], req'[r])
      BY <2>2, <2>3, <2>4, Zenon DEF Counted, FailMove
    <2>6. Move(req[r], req'[r])
      BY <2>5, Zenon DEF Move
    <2> QED BY <2>1, <2>3, <2>6, RunSteps
  <1>4. ASSUME NEW r \in Reqs PROVE StepOf(r)
    <2>1. CASE \E i \in F : slots[i].req = r
      BY <1>3, <2>1
    <2>2. CASE ~ \E i \in F : slots[i].req = r
      <3>1. req'[r] = req[r]
        BY <1>2, <2>2
      <3>2. r \in Waiting' => r \in Waiting
        BY DEF Waiting
      <3> QED BY <3>1, <3>2, AloneSteps
    <2> QED BY <2>1, <2>2
  <1>5. Progress'
    <2>1. ASSUME NEW j \in Occupied'
          PROVE  SlotOK(slots[j], req[slots[j].req], Listed(j), Working(j), job.p)'
      <3>1. j \in Slots \ F
        BY <1>2 DEF Occupied
      <3>2. slots'[j] = slots[j] /\ j \in Occupied \ F
        BY <1>2, <3>1 DEF Occupied
      <3>3. \A i \in F : slots[i].req # slots[j].req
        BY <3>2, OtherOwner
      <3>4. req'[slots[j].req] = req[slots[j].req]
        BY <1>2, <3>2, <3>3, SlotNumbers
      <3>5. SamePlace(j)
        BY <3>2
      <3> QED BY <3>2, <3>4, <3>5, SlotStays DEF AnswerInv, SamePlace
    <2> QED BY <2>1, Zenon DEF Progress
  <1>6. Positions'
    <2>1. store' = store /\ (device' = device \/ device' = after)
      BY DEF FailSlots
    <2>2. DevicesOK(device) /\ ImagesOK(store)
          /\ \A i \in Slots : slots[i].residentTokens \in Seq(Nat)
      BY DEF AnswerInv, Positions, DevicesOK
    <2>3. DevicesOK(device')
      BY <2>1, <2>2
    <2>4. \A i \in Slots : slots'[i].residentTokens \in Seq(Nat)
      BY <1>2, <2>2
    <2> QED BY <2>1, <2>2, <2>3, <2>4 DEF Positions, DevicesOK, RingOK, ImagesOK
  <1> QED BY <1>4, <1>5, <1>6, Zenon DEF Advances

(* A request that has no answer yet gets its first token from a commit,    *)
(* or is dropped by it.                                                    *)
LEMMA FirstTokenMoves ==
    ASSUME NEW q, HandleOK(q), q.st = "open", Len(q.tokens) = 0, NEW q2, NEW t \in GenTokens,
           q2.st = IF q.cancelled \/ Stops(t, 1, Len(q.prompt)) THEN "done" ELSE "open",
           q2.tokens = IF q.cancelled THEN q.tokens ELSE Append(q.tokens, t),
           q2.prompt = q.prompt, q2.err = q.err, q2.cancelled = q.cancelled, Counted(q2)
    PROVE  Move(q, q2)
  <1>1. CASE q.cancelled
    BY <1>1, Zenon DEF Move, DropMove
  <1>2. CASE ~q.cancelled
    <2>1. PICK L : L = Len(q.prompt)
      OBVIOUS
    <2>2. L \in Nat
      BY <2>1, HandleTypes
    <2>3. L + 0 = L /\ 0 + 1 = 1
      BY <2>2
    <2>4. q2.st = IF Stops(t, Len(q.tokens) + 1, Len(q.prompt) + Len(q.tokens))
                  THEN "done" ELSE "open"
      BY <1>2, <2>1, <2>3, Zenon
    <2> QED BY <1>2, <2>4, Zenon DEF Move, EmitMove
  <1> QED BY <1>1, <1>2

(* The handle of r as the prefill leaves it for the commit: counted, and   *)
(* without an answer.                                                      *)
Ready(r, rq) ==
    /\ rq[r].st = req[r].st /\ rq[r].tokens = req[r].tokens
    /\ rq[r].prompt = req[r].prompt /\ rq[r].err = req[r].err
    /\ rq[r].cancelled = req[r].cancelled
    /\ rq[r].ran \in Nat /\ rq[r].ran <= Len(req[r].prompt)
    /\ Len(req[r].tokens) = 0

(* The handles of the slots in B are ready, and the others are not touched. *)
ReadyFor(B, rq) ==
    /\ \A r \in Reqs : rq[r] = [f \in ReqFields |-> rq[r][f]]
    /\ \A r \in Reqs : (\A i \in B : slots[i].req # r) => rq[r] = req[r]
    /\ \A i \in B : Ready(slots[i].req, rq)

(* A commit of prefilled slots, none of which has handed out a token.      *)
LEMMA CommitAdvances ==
    ASSUME BatcherInv, AnswerInv, NEW B \in SUBSET Occupied, NEW tk, NEW dv, NEW st, NEW rq,
           Commit(B, tk, dv, st, rq), \A i \in B : tk[i] \in GenTokens,
           \A r \in Reqs : rq[r] = [f \in ReqFields |-> rq[r][f]],
           \A r \in Reqs : (\A i \in B : slots[i].req # r) => rq[r] = req[r],
           \A i \in B : Ready(slots[i].req, rq),
           DevicesOK(dv), ImagesOK(st), waiting' = waiting,
           \A i \in B : ~Listed(i)' /\ ~Working(i)',
           \A i \in Occupied \ B : SamePlace(i)
    PROVE  Advances
  <1>1. Shape /\ Places
    BY DEF BatcherInv
  <1>2. /\ \A r \in Reqs : (\A i \in B : slots[i].req # r) => req'[r] = rq[r]
        /\ \A i \in Slots \ B : slots'[i] = slots[i]
        /\ \A i \in B : CommitTold(i, slots[i].req, tk[i], rq)
    BY <1>1, CommitTells
  <1>3. ASSUME NEW i \in B, NEW r, r = slots[i].req
        PROVE  /\ req'[r].st = IF CommitGone(i, tk[i]) THEN "done" ELSE rq[r].st
               /\ req'[r].tokens = IF Cancelled(i) THEN rq[r].tokens
                                   ELSE Append(rq[r].tokens, tk[i])
               /\ req'[r].prefillSet = TRUE
               /\ req'[r].ran = rq[r].ran /\ req'[r].prompt = rq[r].prompt
               /\ req'[r].err = rq[r].err /\ req'[r].cancelled = rq[r].cancelled
               /\ slots'[i].req = IF CommitGone(i, tk[i]) THEN None ELSE slots[i].req
               /\ ~CommitGone(i, tk[i]) =>
                     /\ slots'[i].pos = PromptLen(i) /\ slots'[i].prefillPos = PromptLen(i)
                     /\ slots'[i].prefillStart = slots[i].prefillStart
    BY <1>2, <1>3 DEF CommitTold
  <1>4. ASSUME NEW i \in B, NEW r, r = slots[i].req
        PROVE  /\ i \in Occupied /\ HandleOK(req[r]) /\ req[r].st = "open" /\ r \in Reqs
               /\ Len(req[r].tokens) = 0 /\ PromptLen(i) = Len(req[r].prompt)
               /\ Cancelled(i) = req[r].cancelled
               /\ CommitGone(i, tk[i]) <=> req[r].cancelled \/ Stops(tk[i], 1, Len(req[r].prompt))
    <2>1. i \in Occupied /\ HandleOK(req[r]) /\ req[r].st = "open" /\ r \in Reqs
      BY <1>4, SlotNumbers
    <2>2. PromptLen(i) = Len(req[r].prompt) /\ Cancelled(i) = req[r].cancelled
      BY <1>4 DEF PromptLen, PromptAt, Owner, Cancelled
    <2>3. Len(req[r].tokens) = 0
      BY <1>4 DEF Ready
    <2> QED BY <2>1, <2>2, <2>3, Zenon DEF CommitGone
  <1>5. ASSUME NEW i \in B PROVE StepOf(slots[i].req)
    <2>1. PICK r : r = slots[i].req
      OBVIOUS
    <2>2. PICK q, q2 : q = req[r] /\ q2 = req'[r]
      OBVIOUS
    <2>3. i \in Occupied /\ HandleOK(q) /\ q.st = "open" /\ r \in Reqs /\ Len(q.tokens) = 0
      BY <1>4, <2>1, <2>2
    <2>4. /\ rq[r].st = q.st /\ rq[r].tokens = q.tokens
          /\ rq[r].prompt = q.prompt /\ rq[r].err = q.err
          /\ rq[r].cancelled = q.cancelled
          /\ rq[r].ran \in Nat /\ rq[r].ran <= Len(q.prompt)
      BY <2>1, <2>2 DEF Ready
    <2>5. /\ q2.st = IF CommitGone(i, tk[i]) THEN "done" ELSE rq[r].st
          /\ q2.tokens = IF Cancelled(i) THEN rq[r].tokens ELSE Append(rq[r].tokens, tk[i])
          /\ q2.prefillSet = TRUE /\ q2.ran = rq[r].ran /\ q2.prompt = rq[r].prompt
          /\ q2.err = rq[r].err /\ q2.cancelled = rq[r].cancelled
      BY <1>3, <2>1, <2>2, ZenonT(40)
    <2>6. /\ Cancelled(i) = q.cancelled
          /\ CommitGone(i, tk[i]) <=> q.cancelled \/ Stops(tk[i], 1, Len(q.prompt))
      BY <1>4, <2>1, <2>2
    <2>7. /\ q2.st = IF q.cancelled \/ Stops(tk[i], 1, Len(q.prompt)) THEN "done" ELSE "open"
          /\ q2.tokens = IF q.cancelled THEN q.tokens ELSE Append(q.tokens, tk[i])
          /\ q2.prompt = q.prompt /\ q2.err = q.err /\ q2.cancelled = q.cancelled
      BY <2>3, <2>4, <2>5, <2>6, Zenon
    <2>8. Counted(q2)
      <3>1. TRUE \in BOOLEAN
        OBVIOUS
      <3> QED BY <2>4, <2>5, <3>1, Zenon DEF Counted
    <2>9. Move(q, q2)
      <3>1. tk[i] \in GenTokens
        OBVIOUS
      <3> QED BY <2>3, <2>7, <2>8, <3>1, FirstTokenMoves
    <2> QED BY <2>1, <2>2, <2>3, <2>9, RunSteps
  <1>6. ASSUME NEW r \in Reqs PROVE StepOf(r)
    <2>1. CASE \E i \in B : slots[i].req = r
      BY <1>5, <2>1
    <2>2. CASE ~ \E i \in B : slots[i].req = r
      <3>1. req'[r] = req[r]
        BY <1>2, <2>2
      <3>2. r \in Waiting' => r \in Waiting
        BY DEF Waiting
      <3> QED BY <3>1, <3>2, AloneSteps
    <2> QED BY <2>1, <2>2
  <1>7. ASSUME NEW j \in B, j \in Occupied'
        PROVE  SlotOK(slots[j], req[slots[j].req], Listed(j), Working(j), job.p)'
    <2>1. PICK r : r = slots[j].req
      OBVIOUS
    <2>2. PICK L, start, n, ran, told, l, w :
             /\ L = Len(req[r].prompt) /\ start = slots[j].prefillStart
             /\ n = Len(req[r].tokens) /\ ran = req[r].ran /\ told = req[r].prefillSet
             /\ l = Listed(j) /\ w = Working(j)
      OBVIOUS
    <2>3. /\ j \in Occupied /\ HandleOK(req[r]) /\ r \in Reqs /\ n = 0 /\ PromptLen(j) = L
          /\ Cancelled(j) = req[r].cancelled
      BY <1>4, <2>1, <2>2
    <2>4. StandsAt(slots[j].pos, slots[j].prefillPos, start, L, n, ran, told, l, w, job.p)
          /\ L \in Nat
      BY <2>1, <2>2, <2>3, SlotNumbers
    <2>5. ~CommitGone(j, tk[j])
      <3>1. slots'[j].req # None
        BY <1>7 DEF Occupied
      <3> QED BY <1>3, <3>1
    <2>6. /\ slots'[j].req = r /\ slots'[j].pos = L /\ slots'[j].prefillPos = L
          /\ slots'[j].prefillStart = start
      BY <1>3, <2>1, <2>2, <2>3, <2>5
    <2>7. ~Cancelled(j)
      BY <2>5 DEF CommitGone
    <2>8. /\ req'[r].tokens = Append(req[r].tokens, tk[j]) /\ req'[r].prompt = req[r].prompt
          /\ req'[r].prefillSet = TRUE
      <3>1. rq[r].tokens = req[r].tokens /\ rq[r].prompt = req[r].prompt
        BY <2>1 DEF Ready
      <3>2. CommitTold(j, r, tk[j], rq)
        BY <1>2, <2>1
      <3> QED BY <2>7, <3>1, <3>2, Zenon DEF CommitTold
    <2>9. Len(req'[r].tokens) = 1
      <3>1. PICK tt \in Seq(GenTokens) : tt = req[r].tokens
        BY <2>3, HandleTypes
      <3>2. PICK t \in GenTokens : t = tk[j]
        OBVIOUS
      <3>3. Len(Append(tt, t)) = Len(tt) + 1
        BY <3>1, <3>2, AppendFacts
      <3>5. 0 + 1 = 1
        OBVIOUS
      <3>4. Len(tt) = 0 /\ 0 + 1 = 1
        BY <2>2, <2>3, <3>1, <3>5, Zenon
      <3> QED BY <2>8, <3>1, <3>2, <3>3, <3>4, Zenon
    <2>10. PICK l2, w2, p2, ran2 : l2 = Listed(j)' /\ w2 = Working(j)' /\ p2 = job'.p
                                   /\ ran2 = req'[r].ran
      OBVIOUS
    <2>11. ~l2 /\ ~w2
      BY <2>10
    <2>12. StandsAt(L, L, start, L, 1, ran2, TRUE, l2, w2, p2)
      <3>1. 1 > 0
        OBVIOUS
      <3> QED BY <2>4, <2>11, <3>1, Zenon DEF StandsAt
    <2>13. Len(req'[r].prompt) = L
      BY <2>2, <2>8
    <2> QED BY <2>6, <2>8, <2>9, <2>10, <2>12, <2>13, SlotStands
  <1>8. Progress'
    <2>1. ASSUME NEW j \in Occupied', j \notin B
          PROVE  SlotOK(slots[j], req[slots[j].req], Listed(j), Working(j), job.p)'
      <3>2. slots'[j] = slots[j] /\ j \in Occupied \ B
        BY <1>2, <2>1 DEF Occupied
      <3>3. \A i \in B : slots[i].req # slots[j].req
        BY <3>2, OtherOwner
      <3>4. req'[slots[j].req] = req[slots[j].req]
        BY <1>2, <3>2, <3>3, SlotNumbers
      <3>5. SamePlace(j)
        BY <3>2
      <3> QED BY <3>2, <3>4, <3>5, SlotStays DEF AnswerInv, SamePlace
    <2>2. ASSUME NEW j \in Occupied'
          PROVE  SlotOK(slots[j], req[slots[j].req], Listed(j), Working(j), job.p)'
      BY <1>7, <2>1
    <2> QED BY <2>2, Zenon DEF Progress
  <1>9. Positions'
    <2>1. PICK sl, cold, warm :
             /\ RetireSlots(sl, dv, st, cold, warm)
             /\ sl = [i \in Slots |-> IF i \in B THEN Ingested(i) ELSE slots[i]]
      BY DEF Commit
    <2>2. ASSUME NEW i \in Slots
          PROVE  /\ sl[i] = [f \in SlotFields |-> sl[i][f]]
                 /\ sl[i].residentTokens \in Seq(Nat)
      <3>1. slots[i] = [f \in SlotFields |-> slots[i][f]] /\ slots[i].residentTokens \in Seq(Nat)
        BY DEF BatcherInv, Shape, AnswerInv, Positions
      <3>2. CASE i \in B
        <4>1. PICK s : s = Ingested(i)
          OBVIOUS
        <4>2. /\ s = [f \in SlotFields |-> s[f]]
              /\ s.residentTokens = IF WarmSlot THEN PromptAt(i) ELSE slots[i].residentTokens
          BY <3>1, <4>1 DEF Ingested, SlotFields
        <4>3. PromptAt(i) \in Seq(Nat)
          BY <1>4, <3>2, HandleTypes DEF PromptAt, Owner
        <4> QED BY <2>1, <3>1, <3>2, <4>1, <4>2, <4>3
      <3>3. CASE i \notin B
        BY <2>1, <3>1, <3>3
      <3> QED BY <3>2, <3>3
    <2>3. KeysOK(sl)
      BY <2>2 DEF KeysOK
    <2> QED BY <2>1, <2>2, <2>3, RetireKeepsPositions
  <1> QED BY <1>6, <1>8, <1>9, Zenon DEF Advances

(* When the chunk loop lets go of its slot the other slots stay in place.  *)
LEMMA LetGo ==
    ASSUME BatcherInv, AnswerInv, job.active, job' = NoJob, toPrefill' = toPrefill,
           NEW i, i = job.slot
    PROVE  /\ ~Listed(i)' /\ ~Working(i)'
           /\ \A j \in Occupied \ {i} : SamePlace(j)
  <1>1. ~job'.active
    BY DEF NoJob
  <1>2. ~Listed(i) /\ \A j : Listed(j)' <=> Listed(j)
    BY ChunkNumbers DEF Listed
  <1>3. ~Listed(i)' /\ ~Working(i)'
    BY <1>1, <1>2 DEF Working
  <1>4. ASSUME NEW j \in Occupied \ {i} PROVE SamePlace(j)
    BY <1>1, <1>2 DEF SamePlace, Working
  <1> QED BY <1>3, <1>4

(* The last chunk has counted the whole prompt.                            *)
LEMMA LastReadies ==
    ASSUME BatcherInv, AnswerInv, job.active, ChunkEnd = PromptLen(job.slot)
    PROVE  ReadyFor({job.slot}, ChunkReq)
  <1>1. PICK i : i = job.slot
    OBVIOUS
  <1>2. PICK B, rq : B = {i} /\ rq = ChunkReq
    OBVIOUS
  <1>3. i \in Occupied
    BY <1>1, ChunkNumbers
  <1>4. PICK r : r = slots[i].req
    OBVIOUS
  <1>5. /\ \A q \in Reqs : rq[q] = [f \in ReqFields |-> rq[q][f]]
        /\ \A q \in Reqs \ {r} : rq[q] = req[q]
        /\ rq[r].st = req[r].st /\ rq[r].err = req[r].err
        /\ rq[r].prompt = req[r].prompt /\ rq[r].tokens = req[r].tokens
        /\ rq[r].cancelled = req[r].cancelled /\ rq[r].ran = req[r].ran + ChunkLen
    BY <1>1, <1>2, <1>4, ChunkReqFacts
  <1>6. Ready(r, rq)
    <2>1. PICK a, s, b, L, c, e : /\ a = req[r].ran /\ s = slots[i].prefillStart /\ b = job.p
                                  /\ L = Len(req[r].prompt) /\ c = ChunkLen /\ e = ChunkEnd
      OBVIOUS
    <2>2. /\ s \in Nat /\ b \in Nat /\ c \in Nat /\ e \in Nat
          /\ s + a = b /\ e = b + c /\ Len(req[r].tokens) = 0
      BY <1>1, <1>4, <2>1, ChunkNumbers
    <2>3. a \in Nat /\ L \in Nat /\ e = L
      BY <1>1, <1>3, <1>4, <2>1, SlotNumbers DEF PromptLen, PromptAt, Owner
    <2>4. a + c \in Nat /\ a + c <= L
      BY <2>2, <2>3
    <2> QED BY <1>5, <2>1, <2>2, <2>4, Zenon DEF Ready
  <1>7. \A j \in B : Ready(slots[j].req, rq)
    BY <1>2, <1>4, <1>6
  <1>8. \A q \in Reqs : (\A j \in B : slots[j].req # q) => rq[q] = req[q]
    BY <1>2, <1>4, <1>5
  <1>9. \A q \in Reqs : rq[q] = [f \in ReqFields |-> rq[q][f]]
    BY <1>5
  <1> QED BY <1>1, <1>2, <1>7, <1>8, <1>9 DEF ReadyFor

(* The last chunk commits its slot.                                        *)
LEMMA LastChunkAdvances ==
    ASSUME BatcherInv, AnswerInv, NEW tok \in GenTokens, PrefillLastChunk(tok)
    PROVE  Advances
  <1>1. /\ job.active /\ ChunkEnd = PromptLen(job.slot) /\ job' = NoJob
        /\ waiting' = waiting /\ toPrefill' = toPrefill
    BY DEF PrefillLastChunk
  <1>2. PICK i : i = job.slot
    OBVIOUS
  <1>3. PICK B, tk, dv, st, rq :
           /\ B = {i} /\ tk = [j \in {i} |-> tok] /\ dv = ChunkDevice
           /\ st = DrainFrees(ChunkStore) /\ rq = ChunkReq
    OBVIOUS
  <1>4. Commit(B, tk, dv, st, rq)
    BY <1>2, <1>3 DEF PrefillLastChunk
  <1>5. DevicesOK(dv) /\ ImagesOK(st)
    BY <1>1, <1>3, ChunkPositions, StoreKeepsImages
  <1>6. i \in Occupied /\ B \in SUBSET Occupied /\ \A j \in B : tk[j] \in GenTokens
    BY <1>1, <1>2, <1>3, ChunkNumbers
  <1>7. ReadyFor(B, rq)
    BY <1>1, <1>2, <1>3, LastReadies
  <1>8. /\ \A j \in B : ~Listed(j)' /\ ~Working(j)'
        /\ \A j \in Occupied \ B : SamePlace(j)
    <2>1. ~Listed(i)' /\ ~Working(i)' /\ \A j \in Occupied \ {i} : SamePlace(j)
      BY <1>1, <1>2, LetGo
    <2> QED BY <1>3, <2>1
  <1> QED BY <1>1, <1>4, <1>5, <1>6, <1>7, <1>8, CommitAdvances DEF ReadyFor

(* A chunk that throws fails the one slot.                                 *)
LEMMA ChunkFailAdvances ==
    ASSUME BatcherInv, AnswerInv, PrefillFail
    PROVE  Advances
  <1>1. /\ job.active /\ FailSlots({job.slot}, ChunkDevice) /\ job' = NoJob
        /\ waiting' = waiting /\ toPrefill' = toPrefill
    BY DEF PrefillFail
  <1>2. PICK i : i = job.slot
    OBVIOUS
  <1>3. PICK F, after : F = {i} /\ after = ChunkDevice
    OBVIOUS
  <1>4. F \in SUBSET Occupied /\ FailSlots(F, after) /\ DevicesOK(after)
    BY <1>1, <1>2, <1>3, ChunkNumbers, ChunkPositions
  <1>5. \A j \in Occupied \ F : SamePlace(j)
    BY <1>1, <1>2, <1>3, LetGo
  <1> QED BY <1>1, <1>4, <1>5, FailAdvances

(* The batched prefill takes its slots off the work list.                  *)
LEMMA BatchPlaces ==
    ASSUME BatcherInv, PrefillBatch \/ PrefillBatchFail
    PROVE  /\ BatchSlots \in SUBSET Occupied
           /\ \A i \in BatchSlots : Listed(i) /\ ~Listed(i)' /\ ~Working(i)'
           /\ \A i \in Occupied \ BatchSlots : SamePlace(i)
  <1>1. /\ toPrefill \in Seq(Slots) /\ WorkList /\ toPrefill # <<>> /\ ~job.active
        /\ toPrefill' = SubSeq(toPrefill, BatchSize + 1, Len(toPrefill))
        /\ job' = job /\ waiting' = waiting
    BY DEF BatcherInv, Works, PrefillBatch, PrefillBatchFail, BatchReady, RestOfList
  <1>2. PICK n, B : n = BatchSize /\ B = BatchSlots
    OBVIOUS
  <1>3. n \in 1 .. Len(toPrefill) /\ Len(toPrefill) \in Nat
    BY <1>1, <1>2, BatchSizeType
  <1>4. B = {toPrefill[k] : k \in 1 .. n}
    BY <1>2 DEF BatchSlots
  <1>5. B \in SUBSET Occupied
    BY <1>1, <1>3, <1>4 DEF WorkList
  <1>6. /\ Len(toPrefill') \in Nat /\ Len(toPrefill') + n = Len(toPrefill)
        /\ DOMAIN toPrefill = 1 .. Len(toPrefill) /\ DOMAIN toPrefill' = 1 .. Len(toPrefill')
        /\ \A k \in 1 .. Len(toPrefill') : toPrefill'[k] = toPrefill[k + n]
    BY <1>1, <1>2, <1>3
  <1>7. ASSUME NEW i \in B PROVE Listed(i) /\ ~Listed(i)' /\ ~Working(i)'
    <2>1. PICK k \in 1 .. n : i = toPrefill[k]
      BY <1>4
    <2>2. /\ k \in DOMAIN toPrefill
          /\ \A l \in 1 .. Len(toPrefill') : l + n # k /\ l + n \in DOMAIN toPrefill
      BY <1>3, <1>6, <2>1
    <2>3. ASSUME NEW l \in DOMAIN toPrefill' PROVE toPrefill'[l] # i
      <3>1. l \in 1 .. Len(toPrefill')
        BY <1>6
      <3>2. PICK m : m = l + n
        OBVIOUS
      <3>3. m # k /\ m \in DOMAIN toPrefill /\ toPrefill'[l] = toPrefill[m]
        BY <1>6, <2>2, <3>1, <3>2
      <3>4. \A a, b \in DOMAIN toPrefill : a # b => toPrefill[a] # toPrefill[b]
        BY <1>1, Zenon DEF WorkList
      <3> QED BY <2>1, <2>2, <3>3, <3>4, Zenon
    <2>4. Listed(i)
      BY <2>1, <2>2 DEF Listed
    <2>5. ~Listed(i)'
      BY <2>3, Zenon DEF Listed
    <2> QED BY <1>1, <2>4, <2>5 DEF Working
  <1>8. ASSUME NEW i \in Occupied \ B PROVE SamePlace(i)
    <2>1. Listed(i)' => Listed(i)
      <3>1. \A l \in DOMAIN toPrefill' : l + n \in DOMAIN toPrefill
        BY <1>3, <1>6
      <3> QED BY <1>6, <3>1 DEF Listed
    <2>2. Listed(i) => Listed(i)'
      <3>1. ASSUME NEW k \in DOMAIN toPrefill, toPrefill[k] = i
            PROVE  \E l \in DOMAIN toPrefill' : toPrefill'[l] = i
        <4>1. ~(k \in 1 .. n)
          BY <1>4, <1>8, <3>1
        <4>2. k - n \in 1 .. Len(toPrefill') /\ (k - n) + n = k
          BY <1>3, <1>6, <4>1
        <4> QED BY <1>6, <3>1, <4>2
      <3> QED BY <3>1, Zenon DEF Listed
    <2> QED BY <1>1, <2>1, <2>2 DEF SamePlace, Working
  <1> QED BY <1>2, <1>5, <1>7, <1>8

(* The batch has counted the whole prompt of every slot of it.             *)
LEMMA BatchReadies ==
    ASSUME BatcherInv, AnswerInv, PrefillBatch
    PROVE  \E tk, rq : /\ Commit(BatchSlots, tk, BatchDevice, store, rq)
                       /\ \A i \in BatchSlots : tk[i] \in GenTokens
                       /\ ReadyFor(BatchSlots, rq)
  <1>1. PICK B : B = BatchSlots
    OBVIOUS
  <1>2. PICK dv : dv = BatchDevice
    OBVIOUS
  <1>3. B \in SUBSET Occupied
    BY <1>1, BatchPlaces
  <1>4. ASSUME NEW i \in B PROVE Listed(i)
    BY <1>1, BatchPlaces
  <1>5. PICK rq : rq = [r \in Reqs |-> IF \E i \in B : Owner(i) = r
                            THEN [req[r] EXCEPT !.ran = @ + Len(req[r].prompt)]
                            ELSE req[r]]
    OBVIOUS
  <1>6. PICK tk \in [B -> GenTokens] : Commit(B, tk, dv, store, rq)
    BY <1>1, <1>2, <1>5 DEF PrefillBatch
  <1>7. \A r \in Reqs : (\A i \in B : slots[i].req # r) => rq[r] = req[r]
    BY <1>5 DEF Owner
  <1>8. ASSUME NEW r \in Reqs, NEW L, L = Len(req[r].prompt), NEW q2,
               q2 = [req[r] EXCEPT !.ran = @ + L]
        PROVE  /\ q2 = [f \in ReqFields |-> q2[f]] /\ q2.st = req[r].st /\ q2.err = req[r].err
               /\ q2.prompt = req[r].prompt /\ q2.tokens = req[r].tokens
               /\ q2.cancelled = req[r].cancelled /\ q2.ran = req[r].ran + L
    <2>1. PICK q : q = req[r]
      OBVIOUS
    <2>2. q = [f \in ReqFields |-> q[f]]
      BY <2>1 DEF BatcherInv, Shape
    <2>3. q2 = [q EXCEPT !.ran = @ + L]
      BY <1>8, <2>1
    <2>4. /\ q2 = [f \in ReqFields |-> q2[f]] /\ q2.st = q.st /\ q2.err = q.err
          /\ q2.prompt = q.prompt /\ q2.tokens = q.tokens
          /\ q2.cancelled = q.cancelled /\ q2.ran = q.ran + L
      BY <2>2, <2>3 DEF ReqFields
    <2> QED BY <2>1, <2>4
  <1>9. ASSUME NEW r \in Reqs
        PROVE  rq[r] = req[r] \/ rq[r] = [req[r] EXCEPT !.ran = @ + Len(req[r].prompt)]
    BY <1>5
  <1>10. ASSUME NEW r \in Reqs PROVE rq[r] = [f \in ReqFields |-> rq[r][f]]
    <2>1. CASE rq[r] = req[r]
      BY <2>1 DEF BatcherInv, Shape
    <2>2. CASE rq[r] = [req[r] EXCEPT !.ran = @ + Len(req[r].prompt)]
      <3>1. PICK q2, L : q2 = rq[r] /\ L = Len(req[r].prompt)
        OBVIOUS
      <3>2. q2 = [req[r] EXCEPT !.ran = @ + L]
        BY <2>2, <3>1
      <3>3. q2 = [f \in ReqFields |-> q2[f]]
        BY <1>8, <3>1, <3>2
      <3> QED BY <3>1, <3>3
    <2> QED BY <1>9, <2>1, <2>2
  <1>11. ASSUME NEW i \in B PROVE Ready(slots[i].req, rq)
    <2>1. PICK r : r = slots[i].req
      OBVIOUS
    <2>2. /\ r \in Reqs /\ i \in Occupied /\ Len(req[r].prompt) \in Nat
          /\ StandsAt(slots[i].pos, slots[i].prefillPos, slots[i].prefillStart,
                      Len(req[r].prompt), Len(req[r].tokens), req[r].ran, req[r].prefillSet,
                      Listed(i), Working(i), job.p)
      BY <1>3, <2>1, SlotNumbers
    <2>3. req[r].ran = 0 /\ Len(req[r].tokens) = 0
      BY <1>4, <2>2, Zenon DEF StandsAt
    <2>4. PICK L, q2 : L = Len(req[r].prompt) /\ q2 = [req[r] EXCEPT !.ran = @ + L]
      OBVIOUS
    <2>5. \E j \in B : Owner(j) = r
      BY <2>1 DEF Owner
    <2>6. rq[r] = q2
      BY <1>5, <2>2, <2>4, <2>5
    <2>7. /\ q2.st = req[r].st /\ q2.err = req[r].err
          /\ q2.prompt = req[r].prompt /\ q2.tokens = req[r].tokens
          /\ q2.cancelled = req[r].cancelled /\ q2.ran = req[r].ran + L
      BY <1>8, <2>2, <2>4
    <2>8. 0 + L = L /\ L \in Nat /\ L <= L
      BY <2>2, <2>4
    <2>9. Ready(r, rq)
      BY <2>3, <2>4, <2>6, <2>7, <2>8, Zenon DEF Ready
    <2> QED BY <2>1, <2>9
  <1>12. ReadyFor(B, rq)
    BY <1>7, <1>10, <1>11 DEF ReadyFor
  <1>13. \A i \in B : tk[i] \in GenTokens
    BY <1>6
  <1> QED BY <1>6, <1>12, <1>13, <1>1, <1>2, Zenon

(* It feeds every prompt of the batch from 0.                              *)
LEMMA BatchAdvances ==
    ASSUME BatcherInv, AnswerInv, PrefillBatch \/ PrefillBatchFail
    PROVE  Advances
  <1>1. waiting' = waiting
    BY DEF PrefillBatch, PrefillBatchFail
  <1>2. PICK B : B = BatchSlots
    OBVIOUS
  <1>3. B \in SUBSET Occupied
    BY <1>2, BatchPlaces
  <1>4. ASSUME NEW i \in B PROVE Listed(i) /\ ~Listed(i)' /\ ~Working(i)'
    BY <1>2, BatchPlaces
  <1>5. ASSUME NEW i \in Occupied \ B PROVE SamePlace(i)
    BY <1>2, BatchPlaces
  <1>6. /\ \A i \in Slots : RingOK(device[i]) /\ ImagesOK(store)
        /\ device = [i \in Slots |-> device[i]]
    BY DEF AnswerInv, Positions
  <1>7. PICK dv : dv = BatchDevice
    OBVIOUS
  <1>8. DevicesOK(dv)
    <2>1. \A i \in Slots : RingOK(PrefillForward(device[i], PromptAt(i), 0))
      BY <1>6, ForwardKeepsRing
    <2>2. \A i \in Slots : dv[i] \in {PrefillForward(device[i], PromptAt(i), 0), device[i]}
      BY <1>7 DEF BatchDevice
    <2>3. dv = [i \in Slots |-> dv[i]]
      BY <1>7 DEF BatchDevice
    <2> QED BY <1>6, <2>1, <2>2, <2>3 DEF DevicesOK
  <1>9. CASE PrefillBatchFail
    <2>1. FailSlots(B, dv)
      BY <1>2, <1>7, <1>9 DEF PrefillBatchFail
    <2> QED BY <1>1, <1>3, <1>5, <1>8, <2>1, FailAdvances
  <1>10. CASE PrefillBatch
    <2>1. PICK tk, rq : /\ Commit(B, tk, dv, store, rq) /\ ReadyFor(B, rq)
                        /\ \A i \in B : tk[i] \in GenTokens
      BY <1>2, <1>7, <1>10, BatchReadies
    <2>2. PICK st : st = store
      OBVIOUS
    <2>3. ImagesOK(st) /\ Commit(B, tk, dv, st, rq)
      <3>1. ImagesOK(store)
        BY DEF AnswerInv, Positions
      <3> QED BY <2>1, <2>2, <3>1
    <2>4. \A i \in B : ~Listed(i)' /\ ~Working(i)'
      BY <1>4
    <2>5. \A i \in B : tk[i] \in GenTokens
      BY <2>1
    <2>6. \A i \in Occupied \ B : SamePlace(i)
      BY <1>5
    <2> QED BY <1>1, <1>3, <1>8, <2>1, <2>3, <2>4, <2>5, <2>6, CommitAdvances DEF ReadyFor
  <1> QED BY <1>9, <1>10

(* The worker that was stopped ends every request it still has, the ones   *)
(* in the queue too.                                                       *)
LEMMA ShutdownAdvances ==
    ASSUME BatcherInv, AnswerInv, Shutdown
    PROVE  Advances
  <1>1. /\ req' = [r \in Reqs |->
                     IF r \in Waiting \/ \E i \in Occupied : slots[i].req = r
                     THEN [DoneReq(req[r], "stopped") EXCEPT !.cancelled = TRUE]
                     ELSE req[r]]
        /\ slots' = [i \in Slots |-> IF i \in Occupied THEN Freed(slots[i]) ELSE slots[i]]
        /\ waiting' = <<>> /\ device' = device /\ store' = store
    BY DEF Shutdown, Owner
  <1>2. Waiting' = {}
    BY <1>1 DEF Waiting
  <1>3. ASSUME NEW i \in Slots
        PROVE  /\ i \notin Occupied'
               /\ slots'[i].residentTokens = slots[i].residentTokens
    <2>1. slots[i] = [f \in SlotFields |-> slots[i][f]]
      BY DEF BatcherInv, Shape
    <2>2. /\ Freed(slots[i]).req = None
          /\ Freed(slots[i]).residentTokens = slots[i].residentTokens
      BY <2>1 DEF Freed, SlotFields
    <2> QED BY <1>1, <2>2 DEF Occupied
  <1>4. Progress'
    <2>1. ASSUME NEW j \in Occupied'
          PROVE  SlotOK(slots[j], req[slots[j].req], Listed(j), Working(j), job.p)'
      <3>1. j \in Slots
        BY DEF Occupied
      <3> QED BY <1>3, <3>1
    <2> QED BY <2>1, Zenon DEF Progress
  <1>5. Positions'
    <2>1. DevicesOK(device) /\ ImagesOK(store)
          /\ \A i \in Slots : slots[i].residentTokens \in Seq(Nat)
      BY DEF AnswerInv, Positions, DevicesOK
    <2>2. \A i \in Slots : slots'[i].residentTokens \in Seq(Nat)
      BY <1>3, <2>1
    <2> QED BY <1>1, <2>1, <2>2 DEF Positions, DevicesOK, RingOK, ImagesOK
  <1>6. ASSUME NEW r \in Reqs PROVE StepOf(r)
    <2>1. CASE ~(r \in Waiting \/ \E i \in Occupied : slots[i].req = r)
      <3>1. req'[r] = req[r]
        BY <1>1, <2>1
      <3> QED BY <1>2, <3>1, AloneSteps
    <2>2. CASE r \in Waiting \/ \E i \in Occupied : slots[i].req = r
      <3>1. PICK q, q2 : q = req[r] /\ q2 = req'[r]
        OBVIOUS
      <3>2. q = [f \in ReqFields |-> q[f]]
        BY <3>1 DEF BatcherInv, Shape
      <3>3. q2 = [DoneReq(q, "stopped") EXCEPT !.cancelled = TRUE]
        BY <1>1, <2>2, <3>1
      <3>4. /\ q2.st = "done" /\ q2.err = "stopped" /\ q2.tokens = q.tokens
            /\ q2.prompt = q.prompt /\ q2.cancelled = TRUE /\ q2.ran = q.ran
            /\ q2.prefillSet = q.prefillSet
        BY <3>2, <3>3 DEF DoneReq, ReqFields
      <3>5. HandleOK(q)
        BY <3>1 DEF AnswerInv, Handles
      <3>6. q.st = "open"
        BY <2>2, <3>1 DEF BatcherInv, Places, Placement, Owner
      <3>7. Counted(q) /\ TRUE \in BOOLEAN /\ "stopped" # ""
        BY <3>5, Zenon DEF HandleOK
      <3>8. Counted(q2) /\ FailMove(q, q2)
        BY <3>4, <3>6, <3>7, Zenon DEF Counted, FailMove
      <3>9. Move(q, q2)
        BY <3>8, Zenon DEF Move
      <3>10. r \in Waiting => Untouched(q)
        BY <3>1 DEF AnswerInv, Queue, Waiting
      <3>11. r \in Waiting => Untouched(q2)
        BY <3>4, <3>10, Zenon DEF Untouched
      <3>12. r \notin Waiting' /\ q.st # "new"
        BY <1>2, <3>6
      <3> QED BY <3>1, <3>8, <3>9, <3>11, <3>12, Zenon DEF StepOf
    <2> QED BY <2>1, <2>2
  <1> QED BY <1>4, <1>5, <1>6, Zenon DEF Advances

-----------------------------------------------------------------------------
(* The step of an iteration                                                *)

(* In a step the eager prefill is over.                                    *)
LEMMA StepAlone ==
    ASSUME BatcherInv, pc \in {"step", "push"}, StepFrame
    PROVE  /\ \A i : ~Listed(i) /\ ~Working(i) /\ SamePlace(i)
           /\ \A i : ~Listed(i)' /\ ~Working(i)'
           /\ waiting' = waiting
  <1>1. toPrefill = <<>> /\ ~job.active /\ toPrefill' = toPrefill /\ job' = job
        /\ waiting' = waiting
    BY DEF BatcherInv, Works, WorkList, StepFrame
  <1>2. \A i : ~Listed(i) /\ ~Working(i)
    BY <1>1 DEF Listed, Working
  <1>3. \A i : ~Listed(i)' /\ ~Working(i)'
    BY <1>1 DEF Listed, Working
  <1> QED BY <1>1, <1>2, <1>3 DEF SamePlace

(* A step hands out a token, or nothing, or drops a cancelled request.     *)
LEMMA TokenMoves ==
    ASSUME NEW q, HandleOK(q), q.st = "open", NEW q2, NEW t, NEW emits, NEW found,
           found => q.cancelled, emits => t \in GenTokens /\ ~found,
           q2.st = IF found \/ (emits /\ Stops(t, Len(q.tokens) + 1,
                                                    Len(q.prompt) + Len(q.tokens)))
                   THEN "done" ELSE "open",
           q2.tokens = IF emits THEN Append(q.tokens, t) ELSE q.tokens,
           q2.prompt = q.prompt, q2.err = q.err, q2.cancelled = q.cancelled, Counted(q2)
    PROVE  Move(q, q2)
  <1>1. CASE found
    BY <1>1, Zenon DEF Move, DropMove
  <1>2. CASE ~found /\ emits
    BY <1>2, Zenon DEF Move, EmitMove
  <1>3. CASE ~found /\ ~emits
    <2>1. q.cancelled \in BOOLEAN
      BY Zenon DEF HandleOK
    <2>2. q2.st = q.st /\ q2.tokens = q.tokens
      BY <1>3, Zenon
    <2> QED BY <2>1, <2>2, Zenon DEF Move, StillMove
  <1> QED BY <1>1, <1>2, <1>3

(* A step that moves the request of every slot, leaves the slots it keeps  *)
(* in order and touches no other handle and no free slot advances.         *)
LEMMA StepsAdvance ==
    ASSUME BatcherInv, AnswerInv, waiting' = waiting, Positions',
           \A r \in Reqs : (\A i \in Occupied : slots[i].req # r) => req'[r] = req[r],
           \A i \in Slots \ Occupied : slots'[i] = slots[i],
           \A i \in Occupied : Move(req[slots[i].req], req'[slots[i].req]),
           \A i \in Occupied : i \in Occupied' =>
               SlotOK(slots[i], req[slots[i].req], Listed(i), Working(i), job.p)'
    PROVE  Advances
  <1>1. ASSUME NEW r \in Reqs PROVE StepOf(r)
    <2>1. CASE \E i \in Occupied : slots[i].req = r
      BY <2>1, RunSteps
    <2>2. CASE ~ \E i \in Occupied : slots[i].req = r
      <3>1. req'[r] = req[r]
        BY <2>2
      <3>2. r \in Waiting' => r \in Waiting
        BY DEF Waiting
      <3> QED BY <3>1, <3>2, AloneSteps
    <2> QED BY <2>1, <2>2
  <1>2. ASSUME NEW j \in Occupied' PROVE j \in Occupied
    BY DEF Occupied
  <1>3. ASSUME NEW j \in Occupied'
        PROVE  SlotOK(slots[j], req[slots[j].req], Listed(j), Working(j), job.p)'
    BY <1>2
  <1>4. Progress'
    BY <1>3, Zenon DEF Progress
  <1> QED BY <1>1, <1>4, Zenon DEF Advances

(* Where a slot stands in a decode step: nobody is ingested in band.       *)
DecodesAt(pos, fed, start, L, n, ran, told) ==
    /\ L \in Nat /\ n \in Nat /\ pos \in Nat /\ fed \in Nat
    /\ start \in Nat /\ start < L /\ (~WarmSlot /\ ~XSlot => start = 0)
    /\ \/ n > 0 /\ pos + 1 = L + n /\ (MixedStep => fed = L)
       \/ PrefillChunk = 0 /\ n = 0 /\ ran = pos /\ ~told /\ pos < L

(* A slot the plain step serves is decoding or ingests its prompt token by *)
(* token.                                                                  *)
LEMMA DecodeStands ==
    ASSUME BatcherInv, AnswerInv, DecodeTurn, StepFrame, NEW i \in Occupied,
           NEW r, r = slots[i].req
    PROVE  DecodesAt(slots[i].pos, slots[i].prefillPos, slots[i].prefillStart,
                     Len(req[r].prompt), Len(req[r].tokens), req[r].ran, req[r].prefillSet)
  <1>1. ~Listed(i) /\ ~Working(i)
    BY StepAlone DEF DecodeTurn
  <1>2. PICK pos, fed, start, L, n, ran, told, l, w :
           /\ pos = slots[i].pos /\ fed = slots[i].prefillPos /\ start = slots[i].prefillStart
           /\ L = Len(req[r].prompt) /\ n = Len(req[r].tokens)
           /\ ran = req[r].ran /\ told = req[r].prefillSet
           /\ l = Listed(i) /\ w = Working(i)
    OBVIOUS
  <1>3. StandsAt(pos, fed, start, L, n, ran, told, l, w, job.p) /\ L \in Nat /\ n \in Nat
    BY <1>2, SlotNumbers
  <1>4. /\ pos \in Nat /\ fed \in Nat /\ start \in Nat /\ start < L
        /\ ~WarmSlot /\ ~XSlot => start = 0
        /\ \/ n > 0 /\ pos + 1 = L + n /\ (MixedStep => fed = L)
           \/ PrefillChunk = 0 /\ n = 0 /\ ran = pos /\ ~told /\ pos < L
           \/ MixedStep /\ n = 0 /\ ~told /\ ran = fed /\ ran < L
    BY <1>1, <1>2, <1>3, Zenon DEF StandsAt
  <1>5. ~(MixedStep /\ fed < L)
    BY <1>2 DEF DecodeTurn, InBand, Prefilling, PromptLen, PromptAt, Owner
  <1>6. DecodesAt(pos, fed, start, L, n, ran, told)
    BY <1>3, <1>4, <1>5, Zenon DEF DecodesAt
  <1> QED BY <1>2, <1>6, Zenon

(* The forward of a decode step leaves the checkpoints alone, whatever it  *)
(* writes over.                                                            *)
LEMMA DecodeKeepsRings ==
    ASSUME AnswerInv, NEW dv \in DecodeDevices
    PROVE  DevicesOK(dv)
  <1>1. \A i \in Slots : RingOK(device[i])
    BY DEF AnswerInv, Positions
  <1>2. \A i \in Slots : \A t, p : RingOK(StepForward(device[i], t, p))
    BY <1>1, ForwardKeepsRing
  <1>3. \A i \in Slots : RingOK(DecodeForward(i))
    BY <1>1, <1>2 DEF DecodeForward
  <1>4. ASSUME NEW d, NEW rows, NEW t, RingOK(d) PROVE RingOK(Overwritten(d, rows, t))
    <2>1. PICK e : e = Overwritten(d, rows, t)
      OBVIOUS
    <2>2. d = [f \in DeviceFields |-> d[f]]
      BY <1>4 DEF RingOK
    <2>3. e = [f \in DeviceFields |-> e[f]] /\ e.ring = d.ring
      BY <2>1, <2>2 DEF Overwritten, DeviceFields
    <2>4. RingOK(e)
      BY <1>4, <2>3 DEF RingOK
    <2> QED BY <2>1, <2>4
  <1>5. dv = [i \in Slots |-> dv[i]]
    BY DEF DecodeDevices
  <1>6. ASSUME NEW i \in Slots PROVE RingOK(dv[i])
    <2>1. CASE dv = [j \in Slots |-> DecodeForward(j)]
      BY <1>3, <2>1
    <2>2. CASE dv # [j \in Slots |-> DecodeForward(j)]
      <3>1. PICK k \in Overrunning, hit \in SUBSET (Slots \X Rows) :
               dv = [j \in Slots |-> Overwritten(DecodeForward(j),
                                                 {n \in Rows : <<j, n>> \in hit},
                                                 StrayToken(k))]
        BY <2>2 DEF DecodeDevices
      <3>2. PICK rows, t : dv[i] = Overwritten(DecodeForward(i), rows, t)
        BY <3>1
      <3> QED BY <1>3, <1>4, <3>2
    <2> QED BY <2>1, <2>2
  <1> QED BY <1>5, <1>6 DEF DevicesOK

(* A decode step.                                                          *)
LEMMA DecodeAdvances ==
    ASSUME BatcherInv, AnswerInv, DecodeStep
    PROVE  Advances
  <1>1. Shape /\ Places /\ DecodeTurn /\ StepFrame /\ pc = "push"
    BY DEF BatcherInv, DecodeStep, DecodeTurn
  <1>2. PICK tk : \A i \in Occupied : DecodeTold(i, slots[i].req, tk[i])
    BY <1>1, DecodeTells
  <1>3. /\ \A r \in Reqs : (\A i \in Occupied : slots[i].req # r) => req'[r] = req[r]
        /\ \A i \in Slots \ Occupied : slots'[i] = slots[i]
    BY <1>1, DecodeTells
  <1>4. ASSUME NEW i \in Occupied, NEW r, r = slots[i].req
        PROVE  /\ Move(req[r], req'[r])
               /\ i \in Occupied' =>
                     SlotOK(slots[i], req[slots[i].req], Listed(i), Working(i), job.p)'
    <2>1. PICK t, L, n, pos, fed, start, q, q2 :
             /\ t = tk[i] /\ L = Len(req[r].prompt) /\ n = Len(req[r].tokens)
             /\ pos = slots[i].pos /\ fed = slots[i].prefillPos
             /\ start = slots[i].prefillStart /\ q = req[r] /\ q2 = req'[r]
      OBVIOUS
    <2>2. /\ L \in Nat /\ n \in Nat /\ pos \in Nat /\ fed \in Nat
          /\ start \in Nat /\ start < L /\ (~WarmSlot /\ ~XSlot => start = 0)
          /\ \/ n > 0 /\ pos + 1 = L + n /\ (MixedStep => fed = L)
             \/ PrefillChunk = 0 /\ n = 0 /\ q.ran = pos /\ ~q.prefillSet /\ pos < L
      <3>1. DecodesAt(slots[i].pos, slots[i].prefillPos, slots[i].prefillStart,
                      Len(req[r].prompt), Len(req[r].tokens), req[r].ran, req[r].prefillSet)
        BY <1>1, <1>4, DecodeStands
      <3>2. DecodesAt(pos, fed, start, L, n, q.ran, q.prefillSet)
        BY <2>1, <3>1, Zenon
      <3> QED BY <3>2, Zenon DEF DecodesAt
    <2>3. HandleOK(q) /\ q.st = "open" /\ r \in Reqs /\ q.tokens \in Seq(GenTokens)
      <3>1. HandleOK(q) /\ q.st = "open" /\ r \in Reqs
        BY <1>4, <2>1, SlotNumbers
      <3> QED BY <3>1, HandleTypes
    <2>4. DecodeTold(i, r, t)
      BY <1>2, <1>4, <2>1
    <2>5. PICK emits : emits = DecodeEmits(i)
      OBVIOUS
    <2>6. PICK gone : gone = DecodeGone(i, t)
      OBVIOUS
    <2>0. PICK found : found = FoundCancelled(i)
      OBVIOUS
    <2>7. PromptLen(i) = L /\ (found => q.cancelled)
      BY <1>1, <1>4, <2>0, <2>1
         DEF PromptLen, PromptAt, Owner, FoundCancelled, AnswerInv, Passing
    <2>8. emits <=> ~found /\ pos + 1 >= L
      BY <2>0, <2>1, <2>5, <2>7, Zenon DEF DecodeEmits
    <2>9. gone <=> found \/ (emits /\ Stops(t, n + 1, pos + 1))
      BY <1>4, <2>0, <2>1, <2>5, <2>6, <2>7, Zenon DEF DecodeGone
    <2>10. /\ emits => t \in GenTokens
           /\ q2.st = IF gone THEN "done" ELSE q.st
           /\ q2.tokens = IF emits THEN Append(q.tokens, t) ELSE q.tokens
           /\ q2.ran = q.ran + (IF pos < L THEN 1 ELSE 0)
           /\ q2.prefillSet = q.prefillSet /\ q2.prompt = q.prompt
           /\ q2.err = q.err /\ q2.cancelled = q.cancelled
           /\ slots'[i].req = IF gone THEN None ELSE slots[i].req
           /\ ~gone => /\ slots'[i].pos = pos + 1 /\ slots'[i].prefillPos = fed
                       /\ slots'[i].prefillStart = start
      BY <2>1, <2>4, <2>5, <2>6, <2>7, Zenon DEF DecodeTold
    <2>11. emits => pos + 1 = L + n
      BY <2>2, <2>8
    <2>12. Counted(q2)
      <3>1. Counted(q)
        BY <2>3, Zenon DEF HandleOK
      <3>2. PICK a : a = q.ran
        OBVIOUS
      <3>3. a \in Nat /\ a <= L /\ q.prefillSet \in BOOLEAN
        BY <2>1, <3>1, <3>2, Zenon DEF Counted
      <3>4. PICK a2 : a2 = a + (IF pos < L THEN 1 ELSE 0)
        OBVIOUS
      <3>5. a2 \in Nat /\ a2 <= L
        BY <2>2, <3>2, <3>3, <3>4
      <3> QED BY <2>1, <2>10, <3>2, <3>3, <3>4, <3>5, Zenon DEF Counted
    <2>13. Move(q, q2)
      <3>1. q2.st = IF found \/ (emits /\ Stops(t, Len(q.tokens) + 1,
                                                      Len(q.prompt) + Len(q.tokens)))
                    THEN "done" ELSE "open"
        BY <2>1, <2>3, <2>9, <2>10, <2>11, Zenon
      <3>2. emits => t \in GenTokens /\ ~found
        BY <2>8, <2>10
      <3> QED BY <2>3, <2>7, <2>10, <2>12, <3>1, <3>2, TokenMoves
    <2>14. ASSUME i \in Occupied'
           PROVE  SlotOK(slots[i], req[slots[i].req], Listed(i), Working(i), job.p)'
      <3>1. ~gone
        <4>1. slots'[i].req # None
          BY <2>14 DEF Occupied
        <4> QED BY <2>10, <4>1
      <3>2. slots'[i].req = r /\ ~found
        BY <1>4, <2>9, <2>10, <3>1
      <3>3. PICK n2, ran2 : /\ n2 = IF emits THEN n + 1 ELSE n
                            /\ ran2 = q.ran + (IF pos < L THEN 1 ELSE 0)
        OBVIOUS
      <3>4. Len(q2.tokens) = n2
        <4>1. CASE emits
          <5>1. PICK tt \in Seq(GenTokens) : tt = q.tokens
            BY <2>3
          <5>2. PICK u \in GenTokens : u = t
            BY <2>10, <4>1
          <5>3. Len(Append(tt, u)) = Len(tt) + 1
            BY AppendFacts
          <5> QED BY <2>1, <2>10, <3>3, <4>1, <5>1, <5>2, <5>3, Zenon
        <4>2. CASE ~emits
          BY <2>1, <2>10, <3>3, <4>2
        <4> QED BY <4>1, <4>2
      <3>5. PICK p2, l2, w2 : p2 = job'.p /\ l2 = Listed(i)' /\ w2 = Working(i)'
        OBVIOUS
      <3>6. ~l2 /\ ~w2
        BY <1>1, <3>5, StepAlone
      <3>7. \/ n2 > 0 /\ (pos + 1) + 1 = L + n2 /\ (MixedStep => fed = L)
            \/ PrefillChunk = 0 /\ n2 = 0 /\ ran2 = pos + 1 /\ ~q.prefillSet /\ pos + 1 < L
        <4>1. MixedStep => PrefillChunk # 0
          BY BatcherAssumption
        <4> QED BY <2>2, <2>8, <3>2, <3>3, <4>1
      <3>8. pos + 1 \in Nat
        BY <2>2
      <3>9. StandsAt(pos + 1, fed, start, L, n2, ran2, q.prefillSet, l2, w2, p2)
        BY <2>2, <3>6, <3>7, <3>8, Zenon DEF StandsAt
      <3>10. /\ Len(req'[r].prompt) = L /\ Len(req'[r].tokens) = n2
             /\ req'[r].ran = ran2 /\ req'[r].prefillSet = q.prefillSet
        BY <2>1, <2>10, <3>3, <3>4
      <3> QED BY <2>10, <3>1, <3>2, <3>5, <3>9, <3>10, SlotStands
    <2> QED BY <2>1, <2>13, <2>14
  <1>5. Positions'
    <2>1. PICK sl, dv, cold, warm :
             /\ RetireSlots(sl, dv, store, cold, warm) /\ dv \in DecodeDevices
             /\ \A i \in Slots : sl[i] \in {[slots[i] EXCEPT !.pos = @ + 1], slots[i]}
      <3>1. PICK gens, cold, tk2, stops, sl, dv :
               /\ RetireSlots(sl, dv, store, cold, stops) /\ dv \in DecodeDevices
               /\ sl = [i \in Slots |-> IF i \in Occupied \ (cold \cup stops)
                                        THEN [slots[i] EXCEPT !.pos = @ + 1]
                                        ELSE slots[i]]
        BY DEF DecodeStep
      <3>2. \A i \in Slots : sl[i] \in {[slots[i] EXCEPT !.pos = @ + 1], slots[i]}
        BY <3>1
      <3> QED BY <3>1, <3>2
    <2>2. ASSUME NEW i \in Slots
          PROVE  /\ sl[i] = [f \in SlotFields |-> sl[i][f]]
                 /\ sl[i].residentTokens \in Seq(Nat)
      <3>1. slots[i] = [f \in SlotFields |-> slots[i][f]] /\ slots[i].residentTokens \in Seq(Nat)
        BY DEF BatcherInv, Shape, AnswerInv, Positions
      <3>2. PICK s : s = sl[i]
        OBVIOUS
      <3>3. s = [slots[i] EXCEPT !.pos = @ + 1] \/ s = slots[i]
        BY <2>1, <3>2
      <3>4. s = [f \in SlotFields |-> s[f]] /\ s.residentTokens = slots[i].residentTokens
        BY <3>1, <3>3 DEF SlotFields
      <3> QED BY <3>1, <3>2, <3>4
    <2>3. KeysOK(sl)
      BY <2>2 DEF KeysOK
    <2>4. DevicesOK(dv)
      BY <2>1, DecodeKeepsRings
    <2>5. ImagesOK(store)
      BY DEF AnswerInv, Positions
    <2> QED BY <2>1, <2>2, <2>3, <2>4, <2>5, RetireKeepsPositions
  <1>6. waiting' = waiting
    BY <1>1, StepAlone
  <1> QED BY <1>3, <1>4, <1>5, <1>6, StepsAdvance

(* Where a slot stands in a mixed step: decoding, or ingested in band with *)
(* c rows of its prompt in this step.                                      *)
MixesAt(pos, fed, start, L, n, ran, told, inband, c) ==
    /\ L \in Nat /\ n \in Nat /\ pos \in Nat /\ fed \in Nat /\ ran \in Nat
    /\ start \in Nat /\ start < L /\ (~WarmSlot /\ ~XSlot => start = 0)
    /\ \/ ~inband /\ n > 0 /\ pos + 1 = L + n /\ fed = L
       \/ inband /\ n = 0 /\ ~told /\ ran = fed /\ c \in Nat /\ fed + c <= L

(* A slot the mixed step serves is decoding or takes its next chunk in     *)
(* band.                                                                   *)
LEMMA MixedStands ==
    ASSUME BatcherInv, AnswerInv, MixedTurn, StepFrame, NEW i \in Occupied,
           NEW r, r = slots[i].req
    PROVE  MixesAt(slots[i].pos, slots[i].prefillPos, slots[i].prefillStart,
                   Len(req[r].prompt), Len(req[r].tokens), req[r].ran, req[r].prefillSet,
                   i \in Prefilling, MixedChunk(i))
  <1>1. ~Listed(i) /\ ~Working(i) /\ MixedStep
    BY StepAlone DEF MixedTurn, InBand
  <1>2. PICK pos, fed, start, L, n, ran, told, l, w, inband, c :
           /\ pos = slots[i].pos /\ fed = slots[i].prefillPos /\ start = slots[i].prefillStart
           /\ L = Len(req[r].prompt) /\ n = Len(req[r].tokens)
           /\ ran = req[r].ran /\ told = req[r].prefillSet
           /\ l = Listed(i) /\ w = Working(i)
           /\ inband = (i \in Prefilling) /\ c = MixedChunk(i)
    OBVIOUS
  <1>3. /\ StandsAt(pos, fed, start, L, n, ran, told, l, w, job.p)
        /\ L \in Nat /\ n \in Nat /\ ran \in Nat
    BY <1>2, SlotNumbers
  <1>4. /\ pos \in Nat /\ fed \in Nat /\ start \in Nat /\ start < L
        /\ ~WarmSlot /\ ~XSlot => start = 0
        /\ \/ n > 0 /\ pos + 1 = L + n /\ (MixedStep => fed = L)
           \/ PrefillChunk = 0 /\ n = 0 /\ ran = pos /\ ~told /\ pos < L
           \/ MixedStep /\ n = 0 /\ ~told /\ ran = fed /\ ran < L
    BY <1>1, <1>2, <1>3, Zenon DEF StandsAt
  <1>5. inband <=> fed < L
    BY <1>2 DEF Prefilling, PromptLen, PromptAt, Owner
  <1>6. PrefillChunk # 0
    BY <1>1, BatcherAssumption
  <1>7. inband => c \in Nat /\ fed + c <= L
    <2>1. ASSUME NEW j \in Prefilling
          PROVE  slots[j].prefillPos \in Nat /\ PromptLen(j) \in Nat
      <3>1. j \in Occupied
        BY DEF Prefilling
      <3>2. PICK s : s = slots[j].req
        OBVIOUS
      <3>3. /\ StandsAt(slots[j].pos, slots[j].prefillPos, slots[j].prefillStart,
                        Len(req[s].prompt), Len(req[s].tokens), req[s].ran,
                        req[s].prefillSet, Listed(j), Working(j), job.p)
            /\ Len(req[s].prompt) \in Nat
        BY <3>1, <3>2, SlotNumbers
      <3>4. PromptLen(j) = Len(req[s].prompt)
        BY <3>2 DEF PromptLen, PromptAt, Owner
      <3> QED BY <3>3, <3>4, Zenon DEF StandsAt
    <2>2. PromptLen(i) = L
      BY <1>2 DEF PromptLen, PromptAt, Owner
    <2>3. i \in Prefilling => /\ MixedChunk(i) \in Nat
                              /\ slots[i].prefillPos + MixedChunk(i) <= PromptLen(i)
      BY <1>1, <2>1, MixedChunkType
    <2> QED BY <1>2, <2>2, <2>3, Zenon
  <1>8. \/ ~inband /\ n > 0 /\ pos + 1 = L + n /\ fed = L
        \/ inband /\ n = 0 /\ ~told /\ ran = fed /\ c \in Nat /\ fed + c <= L
    <2>1. L < L => FALSE
      BY <1>3
    <2> QED BY <1>1, <1>4, <1>5, <1>6, <1>7, <2>1, Zenon
  <1>9. MixesAt(pos, fed, start, L, n, ran, told, inband, c)
    BY <1>3, <1>4, <1>8, Zenon DEF MixesAt
  <1> QED BY <1>2, <1>9, Zenon

(* The forward of a mixed step leaves the checkpoints alone.               *)
LEMMA MixedKeepsRings ==
    ASSUME AnswerInv
    PROVE  DevicesOK([i \in Slots |-> MixedForward(i)])
  <1>1. \A i \in Slots : RingOK(device[i])
    BY DEF AnswerInv, Positions
  <1>2. \A i \in Slots : \A t, p : RingOK(PrefillForward(device[i], t, p))
    BY <1>1, ForwardKeepsRing
  <1>3. ASSUME NEW i \in Slots PROVE RingOK(MixedForward(i))
    <2>1. \/ MixedForward(i) = device[i]
          \/ \E t, p : MixedForward(i) = PrefillForward(device[i], t, p)
      BY Zenon DEF MixedForward
    <2> QED BY <1>1, <1>2, <2>1
  <1> QED BY <1>3 DEF DevicesOK

(* A mixed step.                                                           *)
LEMMA MixedAdvances ==
    ASSUME BatcherInv, AnswerInv, MixedStepRun
    PROVE  Advances
  <1>1. Shape /\ Places /\ MixedTurn /\ StepFrame /\ pc = "push"
    BY DEF BatcherInv, MixedStepRun, MixedTurn
  <1>2. PICK tk : \A i \in Occupied : MixedTold(i, slots[i].req, tk[i])
    BY <1>1, MixedTells
  <1>3. /\ \A r \in Reqs : (\A i \in Occupied : slots[i].req # r) => req'[r] = req[r]
        /\ \A i \in Slots \ Occupied : slots'[i] = slots[i]
    BY <1>1, MixedTells
  <1>4. ASSUME NEW i \in Occupied, NEW r, r = slots[i].req
        PROVE  /\ Move(req[r], req'[r])
               /\ i \in Occupied' =>
                     SlotOK(slots[i], req[slots[i].req], Listed(i), Working(i), job.p)'
    <2>1. PICK t, L, n, pos, fed, start, q, q2, c, inband :
             /\ t = tk[i] /\ L = Len(req[r].prompt) /\ n = Len(req[r].tokens)
             /\ pos = slots[i].pos /\ fed = slots[i].prefillPos
             /\ start = slots[i].prefillStart /\ q = req[r] /\ q2 = req'[r]
             /\ c = MixedChunk(i) /\ inband = (i \in Prefilling)
      OBVIOUS
    <2>2. /\ L \in Nat /\ n \in Nat /\ pos \in Nat /\ fed \in Nat /\ q.ran \in Nat
          /\ start \in Nat /\ start < L /\ (~WarmSlot /\ ~XSlot => start = 0)
          /\ \/ ~inband /\ n > 0 /\ pos + 1 = L + n /\ fed = L
             \/ inband /\ n = 0 /\ ~q.prefillSet /\ q.ran = fed /\ c \in Nat /\ fed + c <= L
      <3>1. MixesAt(slots[i].pos, slots[i].prefillPos, slots[i].prefillStart,
                    Len(req[r].prompt), Len(req[r].tokens), req[r].ran, req[r].prefillSet,
                    i \in Prefilling, MixedChunk(i))
        BY <1>1, <1>4, MixedStands
      <3>2. MixesAt(pos, fed, start, L, n, q.ran, q.prefillSet, inband, c)
        BY <2>1, <3>1, Zenon
      <3> QED BY <3>2, Zenon DEF MixesAt
    <2>3. HandleOK(q) /\ q.st = "open" /\ r \in Reqs /\ q.tokens \in Seq(GenTokens)
      <3>1. HandleOK(q) /\ q.st = "open" /\ r \in Reqs
        BY <1>4, <2>1, SlotNumbers
      <3> QED BY <3>1, HandleTypes
    <2>4. MixedTold(i, r, t)
      BY <1>2, <1>4, <2>1
    <2>5. PICK emits, last, next : emits = MixedEmits(i) /\ last = MixedLast(i)
                                   /\ next = MixedNext(i)
      OBVIOUS
    <2>6. PICK gone : gone = MixedGone(i, t)
      OBVIOUS
    <2>0. PICK found : found = FoundCancelled(i)
      OBVIOUS
    <2>7. PromptLen(i) = L /\ (found => q.cancelled)
      BY <1>1, <1>4, <2>0, <2>1
         DEF PromptLen, PromptAt, Owner, FoundCancelled, AnswerInv, Passing
    <2>8. /\ last <=> inband /\ fed + c = L
          /\ emits <=> ~found /\ (inband => last)
          /\ next = IF last THEN L ELSE pos + 1
      BY <2>0, <2>1, <2>5, <2>7, Zenon DEF MixedEmits, MixedLast, MixedNext
    <2>9. gone <=> found \/ (emits /\ Stops(t, n + 1, next))
      BY <1>4, <2>0, <2>1, <2>5, <2>6, <2>7, Zenon DEF MixedGone
    <2>10. /\ emits => t \in GenTokens
           /\ q2.st = IF gone THEN "done" ELSE q.st
           /\ q2.tokens = IF emits THEN Append(q.tokens, t) ELSE q.tokens
           /\ q2.ran = q.ran + IF inband THEN c ELSE 0
           /\ q2.prefillSet = q.prefillSet /\ q2.prompt = q.prompt
           /\ q2.err = q.err /\ q2.cancelled = q.cancelled
           /\ slots'[i].req = IF gone THEN None ELSE slots[i].req
           /\ ~gone => /\ slots'[i].pos = IF emits THEN next ELSE pos
                       /\ slots'[i].prefillPos = IF inband THEN fed + c ELSE fed
                       /\ slots'[i].prefillStart = start
      BY <2>1, <2>4, <2>5, <2>6, Zenon DEF MixedTold
    <2>11. emits => next = L + n
      BY <2>2, <2>8
    <2>12. Counted(q2)
      <3>1. Counted(q)
        BY <2>3, Zenon DEF HandleOK
      <3>2. PICK a : a = q.ran
        OBVIOUS
      <3>3. a <= L /\ q.prefillSet \in BOOLEAN
        BY <2>1, <3>1, <3>2, Zenon DEF Counted
      <3>4. PICK a2 : a2 = a + IF inband THEN c ELSE 0
        OBVIOUS
      <3>5. a2 \in Nat /\ a2 <= L
        BY <2>2, <3>2, <3>3, <3>4
      <3> QED BY <2>1, <2>10, <3>2, <3>3, <3>4, <3>5, Zenon DEF Counted
    <2>13. Move(q, q2)
      <3>1. q2.st = IF found \/ (emits /\ Stops(t, Len(q.tokens) + 1,
                                                      Len(q.prompt) + Len(q.tokens)))
                    THEN "done" ELSE "open"
        BY <2>1, <2>3, <2>9, <2>10, <2>11, Zenon
      <3>2. emits => t \in GenTokens /\ ~found
        BY <2>8, <2>10
      <3> QED BY <2>3, <2>7, <2>10, <2>12, <3>1, <3>2, TokenMoves
    <2>14. ASSUME i \in Occupied'
           PROVE  SlotOK(slots[i], req[slots[i].req], Listed(i), Working(i), job.p)'
      <3>1. ~gone
        <4>1. slots'[i].req # None
          BY <2>14 DEF Occupied
        <4> QED BY <2>10, <4>1
      <3>2. slots'[i].req = r /\ ~found
        BY <1>4, <2>9, <2>10, <3>1
      <3>3. PICK n2, pos2, fed2, ran2 :
               /\ n2 = IF emits THEN n + 1 ELSE n
               /\ pos2 = IF emits THEN next ELSE pos
               /\ fed2 = IF inband THEN fed + c ELSE fed
               /\ ran2 = q.ran + IF inband THEN c ELSE 0
        OBVIOUS
      <3>4. Len(q2.tokens) = n2
        <4>1. CASE emits
          <5>1. PICK tt \in Seq(GenTokens) : tt = q.tokens
            BY <2>3
          <5>2. PICK u \in GenTokens : u = t
            BY <2>10, <4>1
          <5>3. Len(Append(tt, u)) = Len(tt) + 1
            BY AppendFacts
          <5> QED BY <2>1, <2>10, <3>3, <4>1, <5>1, <5>2, <5>3, Zenon
        <4>2. CASE ~emits
          BY <2>1, <2>10, <3>3, <4>2
        <4> QED BY <4>1, <4>2
      <3>5. PICK p2, l2, w2 : p2 = job'.p /\ l2 = Listed(i)' /\ w2 = Working(i)'
        OBVIOUS
      <3>6. ~l2 /\ ~w2
        BY <1>1, <3>5, StepAlone
      <3>7. /\ pos2 \in Nat /\ fed2 \in Nat
            /\ \/ n2 > 0 /\ pos2 + 1 = L + n2 /\ fed2 = L
               \/ n2 = 0 /\ ~q.prefillSet /\ ran2 = fed2 /\ ran2 < L
        <4>1. CASE inband
          BY <2>2, <2>8, <3>2, <3>3, <4>1
        <4>2. CASE ~inband
          BY <2>2, <2>8, <3>2, <3>3, <4>2
        <4> QED BY <4>1, <4>2
      <3>8. MixedStep
        BY <1>1 DEF MixedTurn, InBand
      <3>9. StandsAt(pos2, fed2, start, L, n2, ran2, q.prefillSet, l2, w2, p2)
        BY <2>2, <3>6, <3>7, <3>8, Zenon DEF StandsAt
      <3>10. /\ Len(req'[r].prompt) = L /\ Len(req'[r].tokens) = n2
             /\ req'[r].ran = ran2 /\ req'[r].prefillSet = q.prefillSet
        BY <2>1, <2>10, <3>3, <3>4
      <3>11. slots'[i].pos = pos2 /\ slots'[i].prefillPos = fed2
             /\ slots'[i].prefillStart = start
        BY <2>10, <3>1, <3>3
      <3> QED BY <3>2, <3>5, <3>9, <3>10, <3>11, SlotStands
    <2> QED BY <2>1, <2>13, <2>14
  <1>5. Positions'
    <2>1. device' = [i \in Slots |-> MixedForward(i)] /\ store' = store
      BY DEF MixedStepRun
    <2>2. DevicesOK(device')
      BY <2>1, MixedKeepsRings
    <2>3. ImagesOK(store) /\ \A i \in Slots : slots[i].residentTokens \in Seq(Nat)
      BY DEF AnswerInv, Positions
    <2>4. ASSUME NEW i \in Slots PROVE slots'[i].residentTokens = slots[i].residentTokens
      <3>1. CASE i \in Occupied
        BY <1>2, <3>1 DEF MixedTold
      <3>2. CASE i \notin Occupied
        BY <1>3, <3>2
      <3> QED BY <3>1, <3>2
    <2> QED BY <2>1, <2>2, <2>3, <2>4 DEF Positions, DevicesOK, RingOK, ImagesOK
  <1>6. waiting' = waiting
    BY <1>1, StepAlone
  <1> QED BY <1>3, <1>4, <1>5, <1>6, StepsAdvance

(* A step whose forward throws.                                            *)
LEMMA StepFailAdvances ==
    ASSUME BatcherInv, AnswerInv, MixedStepFail \/ DecodeFail
    PROVE  Advances
  <1>1. pc = "step" /\ StepFrame
    BY DEF MixedStepFail, DecodeFail
  <1>2. PICK F, mixed : F = Occupied /\ mixed = [i \in Slots |-> MixedForward(i)]
    OBVIOUS
  <1>3. PICK after : FailSlots(F, after) /\ DevicesOK(after)
    <2>1. DevicesOK(mixed) /\ \A dv \in DecodeDevices : DevicesOK(dv)
      BY <1>2, MixedKeepsRings, DecodeKeepsRings
    <2> QED BY <1>2, <2>1 DEF MixedStepFail, DecodeFail
  <1>4. F \in SUBSET Occupied /\ waiting' = waiting /\ \A i \in Occupied \ F : SamePlace(i)
    BY <1>1, <1>2, StepAlone
  <1> QED BY <1>3, <1>4, FailAdvances

-----------------------------------------------------------------------------
(* Every step advances                                                     *)

(* Nothing has been submitted at the start.                                *)
LEMMA InitAnswer == Init => AnswerInv
  <1> SUFFICES ASSUME Init PROVE AnswerInv
    OBVIOUS
  <1>1. /\ waiting = <<>> /\ slots = [i \in Slots |-> FreshSlot]
        /\ req = [r \in Reqs |-> FreshReq] /\ store = EmptyStore
        /\ device = [i \in Slots |-> BlankDevice]
    BY DEF Init
  <1>2. /\ FreshReq.st = "new" /\ FreshReq.cancelled = FALSE /\ FreshReq.prompt = <<>>
        /\ FreshReq.tokens = <<>> /\ FreshReq.prefillSet = FALSE /\ FreshReq.ran = 0
    BY DEF FreshReq
  <1>3. HandleOK(FreshReq)
    <2>1. /\ <<>> \in Seq(Nat) /\ <<>> \in Seq(GenTokens) /\ Len(<<>>) = 0 /\ 0 \in Nat
          /\ 0 <= 0 /\ FALSE \in BOOLEAN /\ ~(0 > 0)
      OBVIOUS
    <2>2. 0 <= MaxNew /\ \A k \in 1 .. 0 - 1 : FALSE
      BY Sizes
    <2>3. "new" # "open" /\ "new" # "done"
      OBVIOUS
    <2>4. Whole(FreshReq)
      BY <1>2, <2>1, <2>2, <2>3, Zenon DEF Whole
    <2>5. Counted(FreshReq) /\ Untouched(FreshReq)
      BY <1>2, <2>1, Zenon DEF Counted, Untouched
    <2> QED BY <1>2, <2>1, <2>3, <2>4, <2>5, Zenon DEF HandleOK
  <1>4. Handles
    BY <1>1, <1>3 DEF Handles
  <1>5. Queue
    BY <1>1 DEF Queue
  <1>6. Occupied = {}
    BY <1>1 DEF Occupied, FreshSlot
  <1>7. Progress
    BY <1>6 DEF Progress
  <1>8. RingOK(BlankDevice)
    <2>1. PICK d : d = BlankDevice
      OBVIOUS
    <2>2. d = [f \in DeviceFields |-> d[f]] /\ d.ring = <<>>
      BY <2>1 DEF BlankDevice, DeviceFields
    <2>3. <<>> \in Seq({})
      OBVIOUS
    <2>4. \E S : d.ring \in Seq(S) /\ \A c \in S : c.pos \in Nat
      <3>1. PICK S : S = {}
        OBVIOUS
      <3>2. d.ring \in Seq(S) /\ \A c \in S : c.pos \in Nat
        BY <2>2, <2>3, <3>1
      <3> QED BY <3>2, Zenon
    <2> QED BY <2>1, <2>2, <2>4 DEF RingOK
  <1>9. ImagesOK(EmptyStore)
    BY DEF ImagesOK, EmptyStore, StoreFields
  <1>10. FreshSlot.residentTokens \in Seq(Nat)
    BY DEF FreshSlot
  <1>11. Positions
    BY <1>1, <1>8, <1>9, <1>10 DEF Positions
  <1>12. Passing
    BY DEF Init, Passing
  <1> QED BY <1>4, <1>5, <1>7, <1>11, <1>12 DEF AnswerInv

(* Every action makes each handle take one of the six moves: one case per  *)
(* action.                                                                 *)
LEMMA NextAdvances == BatcherInv /\ AnswerInv /\ [Next]_vars => Advances
  <1> SUFFICES ASSUME BatcherInv, AnswerInv, [Next]_vars PROVE Advances
    OBVIOUS
  <1>1. CASE Client
    <2>1. CASE \E r \in Reqs, p \in Prompts, t \in Tenants : Submit(r, p, t)
      BY <2>1, SubmitAdvances
    <2>2. CASE \E r \in Reqs : Cancel(r)
      BY <2>2, CancelAdvances
    <2>3. CASE Stop
      BY <2>3, ControlAdvances
    <2> QED BY <1>1, <2>1, <2>2, <2>3 DEF Client
  <1>2. CASE Worker
    <2>1. CASE Shutdown
      BY <2>1, ShutdownAdvances
    <2>2. CASE \/ BeginIteration \/ EndWarm \/ SkipCross \/ EndCross \/ EndAdmission
               \/ Wake \/ PrefillDone \/ CheckCancelled
      BY <2>2, ControlAdvances
    <2>3. CASE AdmitWarm \/ AdmitCross \/ AdmitCold
      BY <2>3, AdmissionAdvances
    <2>4. CASE PrefillBegin
      BY <2>4, BeginAdvances
    <2>5. CASE PrefillChunkStep
      BY <2>5, ChunkAdvances
    <2>6. CASE PrefillFail
      BY <2>6, ChunkFailAdvances
    <2>7. CASE \E tok \in GenTokens : PrefillLastChunk(tok)
      BY <2>7, LastChunkAdvances
    <2>8. CASE PrefillBatch \/ PrefillBatchFail
      BY <2>8, BatchAdvances
    <2>9. CASE MixedStepRun
      BY <2>9, MixedAdvances
    <2>10. CASE DecodeStep
      BY <2>10, DecodeAdvances
    <2>11. CASE MixedStepFail \/ DecodeFail
      BY <2>11, StepFailAdvances
    <2> QED BY <1>2, <2>1, <2>2, <2>3, <2>4, <2>5, <2>6, <2>7, <2>8, <2>9, <2>10, <2>11
            DEF Worker
  <1>3. CASE Quiescent \/ UNCHANGED vars
    BY <1>3, ControlAdvances
  <1> QED BY <1>1, <1>2, <1>3 DEF Next

(* What the step loop has found stays so until it has handed out the       *)
(* tokens: meanwhile only a cancel can come.                               *)
LEMMA NextPassing == BatcherInv /\ AnswerInv /\ [Next]_vars => Passing'
  <1> SUFFICES ASSUME BatcherInv, AnswerInv, [Next]_vars PROVE Passing'
    OBVIOUS
  <1>0. Passing /\ Shape
    BY DEF AnswerInv, BatcherInv
  <1>1. CASE CheckCancelled
    <2>1. /\ passed' = {i \in Occupied : ~Cancelled(i)} /\ pc' = "push"
          /\ slots' = slots /\ req' = req
      BY <1>1 DEF CheckCancelled
    <2>2. ASSUME NEW i \in Occupied PROVE Cancelled(i) = req[slots[i].req].cancelled
      BY DEF Cancelled, Owner
    <2>3. Occupied' = Occupied
      BY <2>1 DEF Occupied
    <2> QED BY <2>1, <2>2, <2>3 DEF Passing
  <1>2. CASE UNCHANGED vars \/ Quiescent
    BY <1>0, <1>2 DEF Passing, Occupied, vars, Quiescent
  <1>3. CASE \E r \in Reqs : Cancel(r)
    <2>1. PICK r \in Reqs : Cancel(r)
      BY <1>3
    <2>2. /\ pc' = pc /\ passed' = passed /\ slots' = slots
          /\ req' = req \/ req' = [req EXCEPT ![r].cancelled = TRUE]
      BY <2>1 DEF Cancel, workerVars
    <2>3. Occupied' = Occupied
      BY <2>2 DEF Occupied
    <2>4. ASSUME NEW s \in Reqs, req[s].cancelled PROVE req'[s].cancelled
      <3>1. req = [q \in Reqs |-> req[q]] /\ req[s] = [f \in ReqFields |-> req[s][f]]
        BY <1>0 DEF Shape
      <3> QED BY <2>2, <2>4, <3>1 DEF ReqFields
    <2>5. \A i \in Occupied : slots[i].req \in Reqs
      BY DEF BatcherInv, Places, Occupied
    <2> QED BY <1>0, <2>2, <2>3, <2>4, <2>5 DEF Passing
  <1>4. CASE pc # "push" /\ pc' # "push" /\ passed' = passed
    BY <1>0, <1>4 DEF Passing
  <1>5. CASE pc' # "push" /\ passed' = {}
    BY <1>5 DEF Passing
  <1>6. ASSUME \/ \E r \in Reqs, p \in Prompts, t \in Tenants : Submit(r, p, t)
               \/ Stop
        PROVE  Passing'
    <2>1. pc # "push" /\ pc' = pc /\ passed' = passed
      BY <1>6 DEF Submit, Stop, LockHeld, workerVars
    <2> QED BY <1>4, <2>1
  <1>7. ASSUME \/ Shutdown \/ BeginIteration
               \/ AdmitWarm \/ EndWarm \/ AdmitCross \/ SkipCross \/ EndCross
               \/ AdmitCold \/ EndAdmission \/ Wake
        PROVE  Passing'
    <2>1. /\ pc # "push" /\ pc' # "push" /\ passed' = passed
      BY <1>7 DEF Shutdown, BeginIteration, AdmitWarm, EndWarm, AdmitCross, SkipCross,
         EndCross, AdmitCold, EndAdmission, Wake, AdmitTo
    <2> QED BY <1>4, <2>1
  <1>8. ASSUME \/ PrefillBegin \/ PrefillChunkStep \/ PrefillFail
               \/ \E tok \in GenTokens : PrefillLastChunk(tok)
               \/ PrefillBatch \/ PrefillBatchFail \/ PrefillDone
        PROVE  Passing'
    <2>1. job.active => pc = "prefill"
      BY DEF BatcherInv, Works, WorkList
    <2>2. /\ pc # "push" /\ pc' # "push" /\ passed' = passed
      BY <1>8, <2>1 DEF PrefillBegin, PrefillChunkStep, PrefillFail, PrefillLastChunk,
         PrefillBatch, PrefillBatchFail, PrefillDone, BatchReady
    <2> QED BY <1>4, <2>2
  <1>9. ASSUME MixedStepRun \/ MixedStepFail \/ DecodeStep \/ DecodeFail PROVE Passing'
    <2>1. StepFrame
      BY <1>9 DEF MixedStepRun, MixedStepFail, DecodeStep, DecodeFail
    <2> QED BY <1>5, <2>1 DEF StepFrame
  <1> QED BY <1>1, <1>2, <1>3, <1>6, <1>7, <1>8, <1>9 DEF Next, Worker, Client

(* AnswerInv is an invariant, next to BatcherInv.                          *)
THEOREM AnswerInvariance == Spec => [](BatcherInv /\ AnswerInv)
  <1>1. Init => BatcherInv /\ AnswerInv
    BY InitInv, InitAnswer
  <1>2. BatcherInv /\ AnswerInv /\ [Next]_vars => BatcherInv' /\ AnswerInv'
    BY NextInv, NextAdvances, NextPassing, AdvanceKeepsAnswer
  <1> QED BY <1>1, <1>2, PTL DEF Spec

(* A request that ended without an error and without a cancel has a whole  *)
(* answer, whichever of the eager, the batched, the in-band and the token  *)
(* by token prefill and of the two step loops produced it, and a stop      *)
(* token is never followed by another token.                               *)
THEOREM AnswerWholeHolds == Spec => []AnswerWhole
  <1>1. AnswerInv => AnswerWhole
    <2> SUFFICES ASSUME AnswerInv PROVE AnswerWhole
      OBVIOUS
    <2>1. ASSUME NEW r \in Reqs PROVE Whole(req[r])
      BY Zenon DEF AnswerInv, Handles, HandleOK
    <2> QED BY <2>1, Zenon DEF AnswerWhole, Whole
  <1> QED BY <1>1, AnswerInvariance, PTL

(* No prompt token is run twice for one request: no slot is prefilled both *)
(* eagerly and in band, and a resumed prompt is fed from where it left.    *)
THEOREM PrefilledOnceHolds == Spec => []PrefilledOnce
  <1>1. AnswerInv => PrefilledOnce
    <2> SUFFICES ASSUME AnswerInv PROVE PrefilledOnce
      OBVIOUS
    <2>1. ASSUME NEW r \in Reqs PROVE Counted(req[r])
      BY Zenon DEF AnswerInv, Handles, HandleOK
    <2> QED BY <2>1, Zenon DEF PrefilledOnce, Counted
  <1> QED BY <1>1, AnswerInvariance, PTL

-----------------------------------------------------------------------------
(* The batcher implements RequestLifecycle                                 *)

(* The state of the abstract request, read off the handle and the queue.   *)
LEMMA Reads ==
    ASSUME NEW r \in Reqs
    PROVE  /\ Phase(r) = IF req[r].st # "open" THEN req[r].st
                         ELSE IF r \in Waiting THEN "queued" ELSE "running"
           /\ Phase(r)' = IF req'[r].st # "open" THEN req'[r].st
                          ELSE IF r \in Waiting' THEN "queued" ELSE "running"
           /\ Outcome(r) = IF req[r].st # "done" THEN ""
                           ELSE IF req[r].err # "" THEN "error"
                           ELSE IF req[r].cancelled THEN "cancelled" ELSE "answered"
           /\ Outcome(r)' = IF req'[r].st # "done" THEN ""
                            ELSE IF req'[r].err # "" THEN "error"
                            ELSE IF req'[r].cancelled THEN "cancelled" ELSE "answered"
  BY DEF Phase, Outcome

(* An abstract move, in terms of the batcher.                              *)
LEMMA BecomesReads ==
    ASSUME NEW r \in Reqs, NEW p, NEW a, NEW o,
           Phase(r)' = p, req'[r].tokens = a, Outcome(r)' = o
    PROVE  Lifecycle!Becomes(r, p, a, o)
  BY DEF Lifecycle!Becomes

(* The requests that are cleared for their next token.                     *)
Cleared == {Owner(i) : i \in passed}

(* A token goes to a request that was not cancelled, or had been found so  *)
(* in this step, and it uses the clearance up.                             *)
TokenDue(r) ==
    EmitMove(req[r], req'[r]) =>
        (req[r].cancelled => r \in Cleared) /\ r \notin Cleared'

(* A commit and the two step loops hand out tokens, nobody else does.      *)
LEMMA TokensDue ==
    ASSUME BatcherInv, AnswerInv, [Next]_vars, Passing', NEW r \in Reqs
    PROVE  TokenDue(r)
  <1>0. SUFFICES ASSUME EmitMove(req[r], req'[r])
                 PROVE  (req[r].cancelled => r \in Cleared) /\ r \notin Cleared'
    BY DEF TokenDue
  <1>1. req[r].st = "open" /\ req'[r].tokens # req[r].tokens
    <2>1. PICK t \in GenTokens : req'[r].tokens = Append(req[r].tokens, t)
      BY <1>0 DEF EmitMove
    <2>2. PICK tt \in Seq(GenTokens) : tt = req[r].tokens
      BY HandleTypes DEF AnswerInv, Handles
    <2>3. Len(Append(tt, t)) # Len(tt)
      BY AppendFacts
    <2> QED BY <1>0, <2>1, <2>2, <2>3 DEF EmitMove
  <1>2. Shape /\ Places /\ Passing
    BY DEF BatcherInv, AnswerInv
  <1>3. passed' = {} => r \notin Cleared'
    BY DEF Cleared
  <1>4. CASE DecodeStep
    <2>1. passed' = {}
      BY <1>4 DEF DecodeStep, StepFrame
    <2>2. PICK tk : \A i \in Occupied : DecodeTold(i, slots[i].req, tk[i])
      BY <1>2, <1>4, DecodeTells
    <2>3. PICK i \in Occupied : slots[i].req = r
      BY <1>1, <1>2, <1>4, DecodeTells
    <2>4. ~FoundCancelled(i)
      BY <1>1, <2>2, <2>3 DEF DecodeTold, DecodeEmits
    <2> QED BY <1>3, <2>1, <2>3, <2>4 DEF FoundCancelled, Cleared, Owner
  <1>5. CASE MixedStepRun
    <2>1. passed' = {}
      BY <1>5 DEF MixedStepRun, StepFrame
    <2>2. PICK tk : \A i \in Occupied : MixedTold(i, slots[i].req, tk[i])
      BY <1>2, <1>5, MixedTells
    <2>3. PICK i \in Occupied : slots[i].req = r
      BY <1>1, <1>2, <1>5, MixedTells
    <2>4. ~FoundCancelled(i)
      BY <1>1, <2>2, <2>3 DEF MixedTold, MixedEmits
    <2> QED BY <1>3, <2>1, <2>3, <2>4 DEF FoundCancelled, Cleared, Owner
  <1>6. ASSUME NEW B \in SUBSET Occupied, NEW tk, NEW dv, NEW st, NEW rq,
               Commit(B, tk, dv, st, rq), ReadyFor(B, rq), pc' = "prefill"
        PROVE  (req[r].cancelled => r \in Cleared) /\ r \notin Cleared'
    <2>1. passed' = {}
      BY <1>6 DEF Passing
    <2>2. /\ \A s \in Reqs : (\A i \in B : slots[i].req # s) => req'[s] = rq[s]
          /\ \A i \in B : CommitTold(i, slots[i].req, tk[i], rq)
      <3>1. \A s \in Reqs : rq[s] = [f \in ReqFields |-> rq[s][f]]
        BY <1>6 DEF ReadyFor
      <3>2. Commit(B, tk, dv, st, rq)
        BY <1>6
      <3> QED BY <1>2, <3>1, <3>2, CommitTells
    <2>3. PICK i \in B : slots[i].req = r
      BY <1>1, <1>6, <2>2 DEF ReadyFor
    <2>4. rq[r].tokens = req[r].tokens
      BY <1>6, <2>3 DEF ReadyFor, Ready
    <2>5. ~Cancelled(i)
      BY <1>1, <2>2, <2>3, <2>4 DEF CommitTold
    <2> QED BY <1>3, <2>1, <2>3, <2>5 DEF Cancelled, Owner
  <1>7. CASE \E tok \in GenTokens : PrefillLastChunk(tok)
    <2>1. PICK tok \in GenTokens : PrefillLastChunk(tok)
      BY <1>7
    <2>2. job.active /\ ChunkEnd = PromptLen(job.slot) /\ pc' = pc
      BY <2>1 DEF PrefillLastChunk
    <2>3. pc = "prefill"
      BY <2>2 DEF BatcherInv, Works, WorkList
    <2>4. PICK B, tk, dv, st, rq :
             /\ B = {job.slot} /\ tk = [j \in {job.slot} |-> tok] /\ dv = ChunkDevice
             /\ st = DrainFrees(ChunkStore) /\ rq = ChunkReq
      OBVIOUS
    <2>5. Commit(B, tk, dv, st, rq)
      BY <2>1, <2>4 DEF PrefillLastChunk
    <2>6. B \in SUBSET Occupied /\ ReadyFor(B, rq)
      BY <2>2, <2>4, ChunkNumbers, LastReadies
    <2> QED BY <1>6, <2>2, <2>3, <2>5, <2>6
  <1>8. CASE PrefillBatch
    <2>1. pc' = "prefill"
      BY <1>8 DEF PrefillBatch, BatchReady
    <2>2. PICK B, dv, st : B = BatchSlots /\ dv = BatchDevice /\ st = store
      OBVIOUS
    <2>3. PICK tk, rq : Commit(B, tk, dv, st, rq) /\ ReadyFor(B, rq)
      BY <1>8, <2>2, BatchReadies
    <2>4. B \in SUBSET Occupied
      BY <1>8, <2>2, BatchPlaces
    <2> QED BY <1>6, <2>1, <2>3, <2>4
  <1>9. ASSUME NEW F \in SUBSET Occupied, NEW after, FailSlots(F, after) PROVE FALSE
    <2>1. CASE \A i \in F : slots[i].req # r
      BY <1>1, <1>2, <1>9, <2>1, FailTells
    <2>2. CASE \E i \in F : slots[i].req = r
      BY <1>1, <1>2, <1>9, <2>2, FailTells
    <2> QED BY <2>1, <2>2
  <1>10. CASE PrefillFail
    <2>1. PICK F, after : F = {job.slot} /\ after = ChunkDevice
      OBVIOUS
    <2>2. F \in SUBSET Occupied /\ FailSlots(F, after)
      BY <1>10, <2>1, ChunkNumbers DEF PrefillFail
    <2> QED BY <1>9, <2>2
  <1>11. CASE PrefillBatchFail
    <2>1. PICK F, after : F = BatchSlots /\ after = BatchDevice
      OBVIOUS
    <2>2. F \in SUBSET Occupied /\ FailSlots(F, after)
      BY <1>11, <2>1, BatchPlaces DEF PrefillBatchFail
    <2> QED BY <1>9, <2>2
  <1>12. CASE MixedStepFail \/ DecodeFail
    <2>1. PICK F, after : F \in SUBSET Occupied /\ FailSlots(F, after)
      BY <1>12 DEF MixedStepFail, DecodeFail
    <2> QED BY <1>9, <2>1
  <1>13. CASE PrefillChunkStep
    <2>1. job.active /\ req' = ChunkReq
      BY <1>13 DEF PrefillChunkStep
    <2>2. ChunkReq[r].tokens = req[r].tokens
      <3>1. CASE r = slots[job.slot].req
        BY <2>1, <3>1, ChunkReqFacts
      <3>2. CASE r # slots[job.slot].req
        BY <2>1, <3>2, ChunkReqFacts
      <3> QED BY <3>1, <3>2
    <2> QED BY <1>1, <2>1, <2>2
  <1>14. CASE \/ \E s \in Reqs, p \in Prompts, t \in Tenants : Submit(s, p, t)
              \/ \E s \in Reqs : Cancel(s)
              \/ Shutdown
    <2>1. req = [q \in Reqs |-> req[q]] /\ req[r] = [f \in ReqFields |-> req[r][f]]
      BY <1>2 DEF Shape
    <2>2. CASE \E s \in Reqs, p \in Prompts, t \in Tenants : Submit(s, p, t)
      <3>1. PICK s \in Reqs, p \in Prompts, t \in Tenants : Submit(s, p, t)
        BY <2>2
      <3>2. req[s].st = "new" /\ \E h : req' = [req EXCEPT ![s] = h]
        BY <3>1 DEF Submit
      <3>3. r # s
        BY <1>1, <3>2
      <3>4. req'[r] = req[r]
        BY <2>1, <3>2, <3>3
      <3> QED BY <1>1, <3>4
    <2>3. CASE \E s \in Reqs : Cancel(s)
      <3>1. req'[r] = [req[r] EXCEPT !.cancelled = TRUE] \/ req'[r] = req[r]
        BY <2>1, <2>3 DEF Cancel
      <3>2. req'[r].tokens = req[r].tokens
        BY <2>1, <3>1 DEF ReqFields
      <3> QED BY <1>1, <3>2
    <2>4. CASE Shutdown
      <3>1. req'[r] = [DoneReq(req[r], "stopped") EXCEPT !.cancelled = TRUE] \/ req'[r] = req[r]
        BY <2>4 DEF Shutdown
      <3>2. req'[r].tokens = req[r].tokens
        BY <2>1, <3>1 DEF DoneReq, ReqFields
      <3> QED BY <1>1, <3>2
    <2> QED BY <1>14, <2>2, <2>3, <2>4
  <1>15. CASE \/ BeginIteration \/ EndWarm \/ SkipCross \/ EndCross \/ EndAdmission
              \/ Wake \/ PrefillDone \/ CheckCancelled \/ Stop \/ Quiescent
              \/ UNCHANGED vars \/ AdmitWarm \/ AdmitCross \/ AdmitCold \/ PrefillBegin
    <2>1. req' = req
      BY <1>15 DEF BeginIteration, EndWarm, SkipCross, EndCross, EndAdmission, Wake,
         PrefillDone, CheckCancelled, Stop, Quiescent, vars, AdmitWarm, AdmitCross,
         AdmitCold, AdmitTo, PrefillBegin
    <2> QED BY <1>1, <2>1
  <1> QED BY <1>4, <1>5, <1>7, <1>8, <1>10, <1>11, <1>12, <1>13, <1>14, <1>15
          DEF Next, Worker, Client

(* Each of the six moves of a handle is a move of RequestLifecycle, or     *)
(* leaves the request where it is.                                         *)
LEMMA StepMoves ==
    ASSUME BatcherInv, AnswerInv, NEW r \in Reqs, StepOf(r), TokenDue(r)
    PROVE  Lifecycle!Move(r)
  <1>1. PICK q, q2 : q = req[r] /\ q2 = req'[r]
    OBVIOUS
  <1>2. PICK ph, ph2, o, o2 : /\ ph = Phase(r) /\ ph2 = Phase(r)'
                              /\ o = Outcome(r) /\ o2 = Outcome(r)'
    OBVIOUS
  <1>3. /\ ph = IF q.st # "open" THEN q.st ELSE IF r \in Waiting THEN "queued" ELSE "running"
        /\ ph2 = IF q2.st # "open" THEN q2.st
                 ELSE IF r \in Waiting' THEN "queued" ELSE "running"
        /\ o = IF q.st # "done" THEN "" ELSE IF q.err # "" THEN "error"
               ELSE IF q.cancelled THEN "cancelled" ELSE "answered"
        /\ o2 = IF q2.st # "done" THEN "" ELSE IF q2.err # "" THEN "error"
                ELSE IF q2.cancelled THEN "cancelled" ELSE "answered"
    BY <1>1, <1>2, Reads
  <1>4. HandleOK(q) /\ q.tokens \in Seq(GenTokens) /\ (r \in Waiting => Untouched(q))
    <2>1. HandleOK(q)
      BY <1>1 DEF AnswerInv, Handles
    <2>2. r \in Waiting => Untouched(q)
      BY <1>1 DEF AnswerInv, Queue, Waiting
    <2> QED BY <2>1, <2>2, HandleTypes
  <1>5. q.st = "open" => q.err = ""
    BY <1>4, Zenon DEF HandleOK
  <1>6. \A p, a, x : ph2 = p /\ q2.tokens = a /\ o2 = x => Lifecycle!Becomes(r, p, a, x)
    BY <1>1, <1>2, BecomesReads
  <1>7. ASSUME NEW p, NEW a, NEW x, Lifecycle!Becomes(r, p, a, x)
        PROVE  /\ ph = p /\ q.tokens = a /\ o = x => Lifecycle!Stays(r)
               /\ ph = "new" /\ p = "queued" /\ a = <<>> /\ x = "" => Lifecycle!Accept(r)
               /\ ph = "new" /\ p = "done" /\ a = <<>> /\ x = "error" => Lifecycle!Reject(r)
               /\ ph = "queued" /\ p = "running" /\ a = <<>> /\ x = "" => Lifecycle!Start(r)
               /\ ph = "running" /\ q.cancelled /\ p = "done" /\ a = q.tokens /\ x = "cancelled"
                    => Lifecycle!Drop(r)
               /\ ph \in {"queued", "running"} /\ p = "done" /\ a = q.tokens /\ x = "error"
                    => Lifecycle!Fail(r)
    <2>1. ph = p /\ q.tokens = a /\ o = x => Lifecycle!Stays(r)
      <3>1. p = Phase(r)' /\ a = req'[r].tokens /\ x = Outcome(r)'
        BY <1>7 DEF Lifecycle!Becomes
      <3> QED BY <1>1, <1>2, <3>1 DEF Lifecycle!Stays, Lifecycle!Becomes
    <2>2. ph = "new" /\ p = "queued" /\ a = <<>> /\ x = "" => Lifecycle!Accept(r)
      BY <1>2, <1>7 DEF Lifecycle!Accept
    <2>3. ph = "new" /\ p = "done" /\ a = <<>> /\ x = "error" => Lifecycle!Reject(r)
      BY <1>2, <1>7 DEF Lifecycle!Reject
    <2>4. ph = "queued" /\ p = "running" /\ a = <<>> /\ x = "" => Lifecycle!Start(r)
      BY <1>2, <1>7 DEF Lifecycle!Start
    <2>5. ph = "running" /\ q.cancelled /\ p = "done" /\ a = q.tokens /\ x = "cancelled"
             => Lifecycle!Drop(r)
      BY <1>1, <1>2, <1>7 DEF Lifecycle!Drop
    <2>6. ph \in {"queued", "running"} /\ p = "done" /\ a = q.tokens /\ x = "error"
             => Lifecycle!Fail(r)
      BY <1>1, <1>2, <1>7 DEF Lifecycle!Fail
    <2> QED BY <2>1, <2>2, <2>3, <2>4, <2>5, <2>6
  <1>8. CASE FailMove(q, q2)
    <2>1. ph \in {"queued", "running"} /\ ph2 = "done" /\ o2 = "error" /\ q2.tokens = q.tokens
      BY <1>3, <1>8 DEF FailMove
    <2>2. Lifecycle!Becomes(r, "done", q.tokens, "error")
      BY <1>6, <2>1
    <2> QED BY <1>7, <2>1, <2>2 DEF Lifecycle!Move
  <1>9. CASE StillMove(q, q2)
    <2>1. CASE q.st # "open"
      <3>1. q2 = q
        BY <1>9, <2>1 DEF StillMove
      <3>2. Lifecycle!Becomes(r, ph, q.tokens, o)
        BY <1>3, <1>6, <2>1, <3>1
      <3> QED BY <1>7, <3>2 DEF Lifecycle!Move
    <2>2. CASE q.st = "open"
      <3>1. q2.st = "open" /\ q2.tokens = q.tokens
        BY <1>9, <2>2 DEF StillMove
      <3>2. o2 = "" /\ o = "" /\ (r \in Waiting' => r \in Waiting)
        BY <1>1, <1>3, <2>2, <3>1 DEF StepOf, AcceptMove
      <3>3. CASE r \in Waiting /\ r \notin Waiting'
        <4>1. q2.tokens = <<>> /\ ph = "queued" /\ ph2 = "running"
          BY <1>3, <1>4, <2>2, <3>1, <3>3 DEF Untouched
        <4>2. Lifecycle!Becomes(r, "running", <<>>, "")
          BY <1>6, <3>2, <4>1
        <4> QED BY <1>7, <4>1, <4>2 DEF Lifecycle!Move
      <3>4. CASE ~(r \in Waiting /\ r \notin Waiting')
        <4>1. ph2 = ph
          BY <1>3, <2>2, <3>1, <3>2, <3>4
        <4>2. Lifecycle!Becomes(r, ph, q.tokens, o)
          BY <1>6, <3>1, <3>2, <4>1
        <4> QED BY <1>7, <4>2 DEF Lifecycle!Move
      <3> QED BY <3>3, <3>4
    <2> QED BY <2>1, <2>2
  <1>10. CASE r \notin Waiting /\ DropMove(q, q2)
    <2>1. /\ ph = "running" /\ q.cancelled /\ ph2 = "done" /\ o2 = "cancelled"
          /\ q2.tokens = q.tokens
      BY <1>3, <1>5, <1>10 DEF DropMove
    <2>2. Lifecycle!Becomes(r, "done", q.tokens, "cancelled")
      BY <1>6, <2>1
    <2> QED BY <1>7, <2>1, <2>2 DEF Lifecycle!Move
  <1>11. CASE r \notin Waiting /\ EmitMove(q, q2)
    <2>1. PICK t \in GenTokens :
             /\ q2.tokens = Append(q.tokens, t)
             /\ q2.st = IF Stops(t, Len(q.tokens) + 1, Len(q.prompt) + Len(q.tokens))
                        THEN "done" ELSE "open"
      BY <1>11 DEF EmitMove
    <2>2. /\ q.st = "open" /\ (q.cancelled => r \in Cleared) /\ r \notin Cleared'
          /\ q2.err = "" /\ q2.cancelled = q.cancelled
          /\ ph = "running" /\ r \notin Waiting'
      BY <1>1, <1>3, <1>5, <1>11 DEF EmitMove, StepOf, AcceptMove, TokenDue
    <2>3. PICK a : a = Append(q.tokens, t)
      OBVIOUS
    <2>4. Len(a) = Len(q.tokens) + 1
      BY <1>4, <2>3, AppendFacts
    <2>5. \/ ~q.cancelled /\ Lifecycle!Becomes(r, "done", a, "answered")
          \/ q.cancelled /\ Lifecycle!Becomes(r, "done", a, "cancelled")
          \/ ~(t \in StopTokens \/ Len(a) >= MaxNew) /\ Lifecycle!Becomes(r, "running", a, "")
      <3>1. CASE q2.st = "done" /\ q.cancelled
        <4>1. ph2 = "done" /\ o2 = "cancelled" /\ q2.tokens = a
          BY <1>3, <2>1, <2>2, <2>3, <3>1
        <4>2. Lifecycle!Becomes(r, "done", a, "cancelled")
          BY <1>6, <4>1
        <4> QED BY <3>1, <4>2
      <3>2. CASE q2.st = "done" /\ ~q.cancelled
        <4>1. ph2 = "done" /\ o2 = "answered" /\ q2.tokens = a
          BY <1>3, <2>1, <2>2, <2>3, <3>2
        <4>2. Lifecycle!Becomes(r, "done", a, "answered")
          BY <1>6, <4>1
        <4> QED BY <3>2, <4>2
      <3>3. CASE q2.st = "open"
        <4>1. ph2 = "running" /\ o2 = ""
          BY <1>3, <2>2, <3>3
        <4>2. ~Stops(t, Len(q.tokens) + 1, Len(q.prompt) + Len(q.tokens))
          BY <2>1, <3>3
        <4>3. ~(t \in StopTokens \/ Len(a) >= MaxNew)
          BY <2>4, <4>2, Zenon DEF Stops
        <4>4. Lifecycle!Becomes(r, "running", a, "")
          BY <1>6, <2>1, <2>3, <4>1
        <4> QED BY <4>3, <4>4
      <3> QED BY <2>1, <3>1, <3>2, <3>3
    <2>6. Lifecycle!Emit(r)
      <3>1. (q.cancelled <=> r \in {s \in Reqs : req[s].cancelled})
        BY <1>1
      <3>2. /\ [s \in Reqs |-> Phase(s)][r] = "running"
            /\ (r \notin {s \in Reqs : req[s].cancelled} \/ r \in {Owner(i) : i \in passed})
            /\ r \notin {Owner(i) : i \in passed}'
        <4>1. [s \in Reqs |-> Phase(s)][r] = "running"
          BY <1>2, <2>2
        <4> QED BY <2>2, <3>1, <4>1 DEF Cleared
      <3>3. a = Append([s \in Reqs |-> req[s].tokens][r], t)
        <4>1. [s \in Reqs |-> req[s].tokens][r] = q.tokens
          BY <1>1
        <4> QED BY <2>3, <4>1, Zenon
      <3>4. \/ /\ r \notin {s \in Reqs : req[s].cancelled}
               /\ Lifecycle!Becomes(r, "done", a, "answered")
            \/ /\ r \in {s \in Reqs : req[s].cancelled}
               /\ Lifecycle!Becomes(r, "done", a, "cancelled")
            \/ ~(t \in StopTokens \/ Len(a) >= MaxNew) /\ Lifecycle!Becomes(r, "running", a, "")
        BY <2>5, <3>1, Zenon
      <3> DEFINE Given(u) == Append([s \in Reqs |-> req[s].tokens][r], u)
      <3>5. \/ /\ r \notin {s \in Reqs : req[s].cancelled}
               /\ Lifecycle!Becomes(r, "done", Given(t), "answered")
            \/ /\ r \in {s \in Reqs : req[s].cancelled}
               /\ Lifecycle!Becomes(r, "done", Given(t), "cancelled")
            \/ /\ ~(t \in StopTokens \/ Len(Given(t)) >= MaxNew)
               /\ Lifecycle!Becomes(r, "running", Given(t), "")
        BY <3>3, <3>4, Zenon
      <3>6. \E u \in GenTokens :
               \/ /\ r \notin {s \in Reqs : req[s].cancelled}
                  /\ Lifecycle!Becomes(r, "done", Given(u), "answered")
               \/ /\ r \in {s \in Reqs : req[s].cancelled}
                  /\ Lifecycle!Becomes(r, "done", Given(u), "cancelled")
               \/ /\ ~(u \in StopTokens \/ Len(Given(u)) >= MaxNew)
                  /\ Lifecycle!Becomes(r, "running", Given(u), "")
        BY <3>5, Zenon
      <3> QED BY <3>2, <3>6, Zenon DEF Lifecycle!Emit
    <2> QED BY <2>6 DEF Lifecycle!Move
  <1>12. CASE AcceptMove(q, q2)
    <2>1. ph = "new" /\ q2.tokens = <<>> /\ q2.st = "open" /\ o2 = ""
      BY <1>3, <1>12 DEF AcceptMove, Untouched
    <2>2. r \in Waiting'
      BY <1>1, <1>12, <2>1 DEF StepOf, AcceptMove
    <2>3. Lifecycle!Becomes(r, "queued", <<>>, "")
      BY <1>3, <1>6, <2>1, <2>2
    <2> QED BY <1>7, <2>1, <2>3 DEF Lifecycle!Move
  <1>13. CASE RejectMove(q, q2)
    <2>1. ph = "new" /\ q2.tokens = <<>> /\ ph2 = "done" /\ o2 = "error"
      BY <1>3, <1>13 DEF RejectMove, Untouched
    <2>2. Lifecycle!Becomes(r, "done", <<>>, "error")
      BY <1>6, <2>1
    <2> QED BY <1>7, <2>1, <2>2 DEF Lifecycle!Move
  <1> QED BY <1>1, <1>8, <1>9, <1>10, <1>11, <1>12, <1>13 DEF StepOf, Move

(* The requests in the queue are the queue, the running ones the owners of *)
(* the slots: the two capacities are those of submit and of the slots.     *)
WithinCapacity ==
    /\ Cardinality(Lifecycle!InPhase("queued")) + Cardinality(Lifecycle!InPhase("running"))
           <= MaxInflight
    /\ Cardinality(Lifecycle!InPhase("running")) <= MaxBatch

(* Requests queued and running are within the bounds RequestLifecycle has. *)
LEMMA Capacity == BatcherInv /\ AnswerInv => WithinCapacity
  <1> SUFFICES ASSUME BatcherInv, AnswerInv PROVE WithinCapacity
    OBVIOUS
  <1>1. PICK Q, R : Q = Lifecycle!InPhase("queued") /\ R = Lifecycle!InPhase("running")
    OBVIOUS
  <1>2. /\ \A r \in Q : r \in Waiting
        /\ \A r \in R : r \in Reqs /\ req[r].st = "open" /\ r \notin Waiting
    <2>1. /\ \A r \in Q : r \in Reqs /\ Phase(r) = "queued"
          /\ \A r \in R : r \in Reqs /\ Phase(r) = "running"
      BY <1>1 DEF Lifecycle!InPhase
    <2>2. ASSUME NEW r \in Reqs PROVE req[r].st \in {"new", "open", "done"}
      <3>1. HandleOK(req[r])
        BY DEF AnswerInv, Handles
      <3> QED BY <3>1, Zenon DEF HandleOK
    <2>3. ASSUME NEW r \in Reqs, Phase(r) \in {"queued", "running"}
          PROVE  req[r].st = "open" /\ (Phase(r) = "queued" <=> r \in Waiting)
      BY <2>2, <2>3 DEF Phase
    <2> QED BY <2>1, <2>3
  <1>3. waiting \in Seq(Reqs) /\ Placement /\ InflightBounded /\ Len(waiting) \in Nat
    BY DEF BatcherInv, Places
  <1>4. IsFiniteSet(Q) /\ Cardinality(Q) <= Len(waiting)
    <2>1. PICK D, f : D = 1 .. Len(waiting) /\ f = [k \in D |-> waiting[k]]
      OBVIOUS
    <2>2. f \in Surjection(D, Waiting)
      <3>1. DOMAIN waiting = D
        BY <1>3, <2>1
      <3>2. Waiting = {waiting[k] : k \in D}
        BY <3>1, Zenon DEF Waiting
      <3>3. \A k \in D : f[k] = waiting[k]
        BY <2>1
      <3>4. f \in [D -> Waiting]
        BY <2>1, <3>2
      <3>5. \A x \in Waiting : \E k \in D : f[k] = x
        BY <3>2, <3>3, Zenon
      <3> QED BY <3>4, <3>5, Zenon DEF Surjection
    <2>3. IsFiniteSet(D) /\ Cardinality(D) = Len(waiting)
      <3>1. PICK n \in Nat : n = Len(waiting)
        BY <1>3
      <3>2. IsFiniteSet(1 .. n) /\ Cardinality(1 .. n) = n
        BY FS_Interval
      <3> QED BY <2>1, <3>1, <3>2
    <2>4. IsFiniteSet(Waiting) /\ Cardinality(Waiting) <= Len(waiting)
      BY <2>2, <2>3, FS_Surjection
    <2>5. Q \in SUBSET Waiting
      BY <1>2
    <2>6. IsFiniteSet(Q) /\ Cardinality(Q) <= Cardinality(Waiting)
      BY <2>4, <2>5, FS_Subset
    <2>7. Cardinality(Q) \in Nat /\ Cardinality(Waiting) \in Nat
      BY <2>4, <2>6, FS_CardinalityType
    <2> QED BY <1>3, <2>4, <2>6, <2>7
  <1>5. IsFiniteSet(R) /\ Cardinality(R) <= Cardinality(Occupied)
    <2>1. PICK f : f = [i \in Occupied |-> slots[i].req]
      OBVIOUS
    <2>2. PICK O : O = {slots[i].req : i \in Occupied}
      OBVIOUS
    <2>3. f \in Surjection(Occupied, O)
      BY <2>1, <2>2 DEF Surjection
    <2>4. IsFiniteSet(O) /\ Cardinality(O) <= Cardinality(Occupied)
      BY <2>3, FS_Surjection, OccupiedFinite
    <2>5. R \in SUBSET O
      BY <1>2, <1>3, <2>2 DEF Placement, Owner
    <2>6. IsFiniteSet(R) /\ Cardinality(R) <= Cardinality(O)
      BY <2>4, <2>5, FS_Subset
    <2>7. /\ Cardinality(R) \in Nat /\ Cardinality(O) \in Nat
          /\ Cardinality(Occupied) \in Nat
      BY <2>4, <2>6, FS_CardinalityType, OccupiedFinite
    <2> QED BY <2>4, <2>6, <2>7
  <1>6. Cardinality(Occupied) <= MaxBatch
    <2>1. MaxBatch \in Nat /\ MaxBatch > 0
      BY Sizes
    <2>2. IsFiniteSet(Slots) /\ Cardinality(Slots) = MaxBatch
      BY <2>1, FS_Interval DEF Slots
    <2>3. Occupied \in SUBSET Slots
      BY DEF Occupied
    <2> QED BY <2>2, <2>3, FS_Subset
  <1>7. /\ Cardinality(Q) \in Nat /\ Cardinality(R) \in Nat /\ Cardinality(Occupied) \in Nat
        /\ MaxBatch \in Nat /\ MaxInflight \in Nat
    BY <1>4, <1>5, FS_CardinalityType, OccupiedFinite, BatcherAssumption DEF MaxInflight
  <1>8. Len(waiting) + Cardinality(Occupied) <= MaxInflight
    BY <1>3 DEF InflightBounded, InFlight
  <1>9. Cardinality(Q) + Cardinality(R) <= MaxInflight /\ Cardinality(R) <= MaxBatch
    BY <1>3, <1>4, <1>5, <1>6, <1>7, <1>8
  <1> QED BY <1>1, <1>9 DEF WithinCapacity

(* RequestLifecycle counts as this module does.                            *)
LEMMA SameCount == \A S : Lifecycle!Cardinality(S) = Cardinality(S)
  BY DEF Lifecycle!Cardinality, Cardinality

(* A raised flag stays up.                                                 *)
LEMMA FlagStays ==
    ASSUME AnswerInv, NEW r \in Reqs, StepOf(r), req[r].cancelled
    PROVE  req'[r].cancelled
  <1>1. PICK q, q2 : q = req[r] /\ q2 = req'[r]
    OBVIOUS
  <1>2. Move(q, q2) /\ q.cancelled
    BY <1>1 DEF StepOf
  <1>3. q.st # "new"
    BY <1>1, <1>2, Zenon DEF AnswerInv, Handles, HandleOK
  <1>4. q2.cancelled
    BY <1>2, <1>3, Zenon DEF Move, StillMove, EmitMove, DropMove, FailMove, AcceptMove,
       RejectMove
  <1> QED BY <1>1, <1>4

(* Only the check of the flags clears anybody.                             *)
LEMMA PassedMoves ==
    ASSUME BatcherInv, AnswerInv, AnswerInv', [Next]_vars
    PROVE  \/ passed' \subseteq passed /\ slots' = slots
           \/ passed' = {} \/ CheckCancelled
  <1>1. CASE UNCHANGED vars \/ Quiescent \/ \E r \in Reqs : Cancel(r)
    BY <1>1 DEF vars, Quiescent, Cancel, workerVars
  <1>2. ASSUME pc' # "push" PROVE passed' = {}
    BY <1>2 DEF AnswerInv, Passing
  <1>3. CASE Stop \/ \E r \in Reqs, p \in Prompts, t \in Tenants : Submit(r, p, t)
    <2>1. pc' # "push"
      BY <1>3 DEF Submit, Stop, LockHeld, workerVars
    <2> QED BY <1>2, <2>1
  <1>4. CASE \/ Shutdown \/ BeginIteration
             \/ AdmitWarm \/ EndWarm \/ AdmitCross \/ SkipCross \/ EndCross
             \/ AdmitCold \/ EndAdmission \/ Wake
    <2>1. pc' # "push"
      BY <1>4 DEF Shutdown, BeginIteration, AdmitWarm, EndWarm, AdmitCross, SkipCross,
         EndCross, AdmitCold, EndAdmission, Wake
    <2> QED BY <1>2, <2>1
  <1>5. CASE \/ PrefillBegin \/ PrefillChunkStep \/ PrefillFail
             \/ \E tok \in GenTokens : PrefillLastChunk(tok)
             \/ PrefillBatch \/ PrefillBatchFail \/ PrefillDone
    <2>1. job.active => pc = "prefill"
      BY DEF BatcherInv, Works, WorkList
    <2>2. pc' # "push"
      BY <1>5, <2>1 DEF PrefillBegin, PrefillChunkStep, PrefillFail, PrefillLastChunk,
         PrefillBatch, PrefillBatchFail, PrefillDone, BatchReady
    <2> QED BY <1>2, <2>2
  <1>6. CASE MixedStepRun \/ MixedStepFail \/ DecodeStep \/ DecodeFail
    BY <1>6 DEF MixedStepRun, MixedStepFail, DecodeStep, DecodeFail, StepFrame
  <1> QED BY <1>1, <1>3, <1>4, <1>5, <1>6 DEF Next, Worker, Client

(* A step of the batcher is a step of the life of its requests.            *)
LEMMA NextMoves ==
    ASSUME BatcherInv, AnswerInv, [Next]_vars, BatcherInv', AnswerInv'
    PROVE  Lifecycle!Next
  <1>1. \A r \in Reqs : StepOf(r)
    BY NextAdvances DEF Advances
  <1>2. \A r \in Reqs : Lifecycle!Move(r)
    <2>1. Passing'
      BY DEF AnswerInv
    <2> QED BY <1>1, <2>1, StepMoves, TokensDue
  <1>6. Cleared' \ Cleared \subseteq Lifecycle!InPhase("running") \ {r \in Reqs : req[r].cancelled}
    <2>1. CASE passed' \subseteq passed /\ slots' = slots
      BY <2>1 DEF Cleared, Owner
    <2>2. CASE passed' = {}
      BY <2>2 DEF Cleared
    <2>3. CASE CheckCancelled
      <3>1. passed' = {i \in Occupied : ~Cancelled(i)} /\ slots' = slots
        BY <2>3 DEF CheckCancelled
      <3>2. ASSUME NEW i \in passed'
            PROVE  /\ Owner(i)' = slots[i].req /\ slots[i].req \in Reqs
                   /\ ~req[slots[i].req].cancelled
                   /\ Phase(slots[i].req) = "running"
        <4>1. i \in Occupied /\ ~req[slots[i].req].cancelled /\ Owner(i)' = slots[i].req
          BY <3>1 DEF Cancelled, Owner
        <4>2. slots[i].req \in Reqs /\ req[slots[i].req].st = "open"
              /\ slots[i].req \notin Waiting
          BY <4>1, SlotNumbers DEF BatcherInv, Places, Placement, Owner
        <4> QED BY <4>1, <4>2 DEF Phase
      <3> QED BY <3>2 DEF Cleared, Lifecycle!InPhase
    <2> QED BY <2>1, <2>2, <2>3, PassedMoves
  <1>3. {r \in Reqs : req[r].cancelled} \subseteq {r \in Reqs : req'[r].cancelled}
    BY <1>1, FlagStays
  <1>4. WithinCapacity'
    BY Capacity, PTL
  <1>5. /\ DOMAIN [r \in Reqs |-> Phase(r)]' = Reqs
        /\ DOMAIN [r \in Reqs |-> req[r].tokens]' = Reqs
        /\ DOMAIN [r \in Reqs |-> Outcome(r)]' = Reqs
    OBVIOUS
  <1> QED BY <1>2, <1>3, <1>4, <1>5, <1>6, SameCount
          DEF Lifecycle!Next, WithinCapacity, Cleared

(* Every handle a client holds behaves as RequestLifecycle says, for every *)
(* number of slots and requests and every setting of the switches: tokens  *)
(* are only appended and only while running, a cancelled request gets at   *)
(* most the one that its step was about to hand out, done is final, and    *)
(* the capacities hold at every step.                                      *)
THEOREM BatcherImplementsLifecycle == Spec => ImplementsLifecycle
  <1>1. Init => Lifecycle!Init
    <2> SUFFICES ASSUME Init PROVE Lifecycle!Init
      OBVIOUS
    <2>1. \A r \in Reqs : /\ req[r].st = "new" /\ req[r].cancelled = FALSE
                          /\ req[r].tokens = <<>>
      BY DEF Init, FreshReq
    <2>2. \A r \in Reqs : Phase(r) = "new" /\ Outcome(r) = ""
      BY <2>1 DEF Phase, Outcome
    <2>3. passed = {}
      BY DEF Init
    <2> QED BY <2>1, <2>2, <2>3 DEF Lifecycle!Init
  <1>2. BatcherInv /\ AnswerInv /\ [Next]_vars /\ BatcherInv' /\ AnswerInv'
          => [Lifecycle!Next]_(Lifecycle!lifecycleVars)
    BY NextMoves
  <1> QED BY <1>1, <1>2, AnswerInvariance, PTL DEF Spec, ImplementsLifecycle, Lifecycle!Spec

-----------------------------------------------------------------------------
(* Usage                                                                   *)

(* What UsageAccounted says of one handle.                                    *)
BatchedWhole(ran, L) == Batched /\ ran = L /\ ran <= PrefillMaxRows
UsageOK(q) == q.prefillSet => \/ q.cachedTokens + q.ran = Len(q.prompt)
                              \/ BatchedWhole(q.ran, Len(q.prompt))

(* A handle whose three counts stay, or that reports no prefill, keeps it. *)
LEMMA UsageStays ==
    ASSUME NEW q, NEW q2, UsageOK(q),
           \/ ~q2.prefillSet
           \/ /\ q2.prefillSet = q.prefillSet /\ q2.cachedTokens = q.cachedTokens
              /\ q2.ran = q.ran /\ q2.prompt = q.prompt
    PROVE  UsageOK(q2)
  BY DEF UsageOK

(* The steps that end requests, or touch one handle only.                  *)
LEMMA PlainUsage ==
    ASSUME BatcherInv, AnswerInv, \A r \in Reqs : UsageOK(req[r]), NEW r \in Reqs,
           \/ \E s \in Reqs, p \in Prompts, t \in Tenants : Submit(s, p, t)
           \/ \E s \in Reqs : Cancel(s)
           \/ Shutdown \/ PrefillChunkStep
    PROVE  UsageOK(req'[r])
  <1>1. req = [q \in Reqs |-> req[q]] /\ req[r] = [f \in ReqFields |-> req[r][f]]
    BY DEF BatcherInv, Shape
  <1>2. PICK q, q2 : q = req[r] /\ q2 = req'[r]
    OBVIOUS
  <1>3. UsageOK(q) /\ q = [f \in ReqFields |-> q[f]]
    BY <1>1, <1>2
  <1>4. CASE q2 = q
    BY <1>2, <1>3, <1>4
  <1>5. CASE \E s \in Reqs, p \in Prompts, t \in Tenants : Submit(s, p, t)
    <2>1. PICK s \in Reqs, p \in Prompts, t \in Tenants : Submit(s, p, t)
      BY <1>5
    <2>2. PICK handle : handle = [FreshReq EXCEPT !.prompt = p, !.tenant = t]
      OBVIOUS
    <2>3. PICK e, c : \/ req' = [req EXCEPT ![s] = [handle EXCEPT !.st = "open"]]
                      \/ req' = [req EXCEPT ![s] = [handle EXCEPT
                                    !.st = "done", !.err = e, !.cancelled = c]]
      BY <2>1, <2>2, ZenonT(40) DEF Submit
    <2>4. PICK h, h2 : /\ h = [handle EXCEPT !.st = "open"]
                       /\ h2 = [handle EXCEPT !.st = "done", !.err = e, !.cancelled = c]
      OBVIOUS
    <2>5. h.prefillSet = FALSE /\ h2.prefillSet = FALSE
      BY <2>2, <2>4 DEF FreshReq
    <2>6. q2 = h \/ q2 = h2 \/ q2 = q
      BY <1>1, <1>2, <2>3, <2>4
    <2> QED BY <1>2, <1>3, <2>5, <2>6, UsageStays
  <1>6. CASE \E s \in Reqs : Cancel(s)
    <2>1. q2 = [q EXCEPT !.cancelled = TRUE] \/ q2 = q
      BY <1>1, <1>2, <1>6 DEF Cancel
    <2>2. /\ q2.prefillSet = q.prefillSet /\ q2.cachedTokens = q.cachedTokens
          /\ q2.ran = q.ran /\ q2.prompt = q.prompt
      BY <1>3, <2>1 DEF ReqFields
    <2> QED BY <1>2, <1>3, <2>2, UsageStays
  <1>7. CASE Shutdown
    <2>1. q2 = [DoneReq(q, "stopped") EXCEPT !.cancelled = TRUE] \/ q2 = q
      BY <1>2, <1>7 DEF Shutdown
    <2>2. /\ q2.prefillSet = q.prefillSet /\ q2.cachedTokens = q.cachedTokens
          /\ q2.ran = q.ran /\ q2.prompt = q.prompt
      BY <1>3, <2>1 DEF DoneReq, ReqFields
    <2> QED BY <1>2, <1>3, <2>2, UsageStays
  <1>8. CASE PrefillChunkStep
    <2>1. job.active /\ req' = ChunkReq
      BY <1>8 DEF PrefillChunkStep
    <2>2. CASE r = slots[job.slot].req
      <3>1. ChunkReq[r].prefillSet = req[r].prefillSet
        BY <2>1, <2>2, ChunkReqFacts
      <3>2. ~req[r].prefillSet
        BY <2>1, <2>2, ChunkNumbers
      <3>3. ~q2.prefillSet
        BY <1>2, <2>1, <3>1, <3>2
      <3> QED BY <1>2, <1>3, <3>3, UsageStays
    <2>3. CASE r # slots[job.slot].req
      <3>1. ChunkReq[r] = req[r]
        BY <2>1, <2>3, ChunkReqFacts
      <3> QED BY <1>2, <1>4, <2>1, <3>1
    <2> QED BY <2>2, <2>3
  <1> QED BY <1>5, <1>6, <1>7, <1>8

(* A failed forward.                                                       *)
LEMMA FailUsage ==
    ASSUME BatcherInv, \A r \in Reqs : UsageOK(req[r]), NEW r \in Reqs,
           NEW F \in SUBSET Occupied, NEW after, FailSlots(F, after)
    PROVE  UsageOK(req'[r])
  <1>1. Shape /\ Places
    BY DEF BatcherInv
  <1>2. CASE \A i \in F : slots[i].req # r
    <2>1. req'[r] = req[r]
      BY <1>1, <1>2, FailTells
    <2> QED BY <2>1
  <1>3. CASE \E i \in F : slots[i].req = r
    <2>1. /\ req'[r].tokens = req[r].tokens /\ req'[r].prompt = req[r].prompt
          /\ req'[r].ran = req[r].ran
          /\ req'[r].prefillSet = req[r].prefillSet
          /\ req'[r].cachedTokens = req[r].cachedTokens
      BY <1>1, <1>3, FailTells
    <2>2. PICK q, q2 : q = req[r] /\ q2 = req'[r]
      OBVIOUS
    <2> QED BY <2>1, <2>2, UsageStays
  <1> QED BY <1>2, <1>3

(* The prompt of slot i is where it was resumed and what was run, or all   *)
(* of it was run in a batch.                                               *)
AddsUp(i, rq) ==
    \/ slots[i].prefillStart + rq[slots[i].req].ran = Len(rq[slots[i].req].prompt)
    \/ BatchedWhole(rq[slots[i].req].ran, Len(rq[slots[i].req].prompt))

(* A commit reports where the slot was resumed and what was run after it.  *)
LEMMA CommitUsage ==
    ASSUME BatcherInv, \A r \in Reqs : UsageOK(req[r]), NEW r \in Reqs,
           NEW B \in SUBSET Occupied, NEW tk, NEW dv, NEW st, NEW rq,
           Commit(B, tk, dv, st, rq),
           \A s \in Reqs : rq[s] = [f \in ReqFields |-> rq[s][f]],
           \A s \in Reqs : (\A i \in B : slots[i].req # s) => rq[s] = req[s],
           \A i \in B : AddsUp(i, rq)
    PROVE  UsageOK(req'[r])
  <1>1. Shape /\ Places
    BY DEF BatcherInv
  <1>2. \A s \in Reqs : rq[s] = [f \in ReqFields |-> rq[s][f]]
    OBVIOUS
  <1>3. /\ \A s \in Reqs : (\A i \in B : slots[i].req # s) => req'[s] = rq[s]
        /\ \A i \in Slots \ B : slots'[i] = slots[i]
        /\ \A i \in B : CommitTold(i, slots[i].req, tk[i], rq)
    BY <1>1, <1>2, CommitTells
  <1>4. CASE \A i \in B : slots[i].req # r
    <2>1. req'[r] = req[r]
      BY <1>3, <1>4
    <2> QED BY <2>1
  <1>5. CASE \E i \in B : slots[i].req = r
    <2>1. PICK i \in B : slots[i].req = r
      BY <1>5
    <2>2. CommitTold(i, r, tk[i], rq)
      BY <1>3, <2>1
    <2>3. /\ req'[r].cachedTokens = slots[i].prefillStart
          /\ req'[r].ran = rq[r].ran /\ req'[r].prompt = rq[r].prompt
      BY <2>2, Zenon DEF CommitTold
    <2>4. \/ slots[i].prefillStart + rq[r].ran = Len(rq[r].prompt)
          \/ BatchedWhole(rq[r].ran, Len(rq[r].prompt))
      BY <2>1 DEF AddsUp
    <2> QED BY <2>3, <2>4, Zenon DEF UsageOK
  <1> QED BY <1>4, <1>5

(* The chunk loop started where the slot was resumed, and went to the end. *)
LEMMA LastChunkUsage ==
    ASSUME BatcherInv, AnswerInv, \A r \in Reqs : UsageOK(req[r]), NEW r \in Reqs,
           NEW tok \in GenTokens, PrefillLastChunk(tok)
    PROVE  UsageOK(req'[r])
  <1>1. job.active /\ ChunkEnd = PromptLen(job.slot)
    BY DEF PrefillLastChunk
  <1>2. PICK i, s : i = job.slot /\ s = slots[i].req
    OBVIOUS
  <1>3. PICK B, tk, dv, st, rq :
           /\ B = {i} /\ tk = [j \in {i} |-> tok] /\ dv = ChunkDevice
           /\ st = DrainFrees(ChunkStore) /\ rq = ChunkReq
    OBVIOUS
  <1>4. Commit(B, tk, dv, st, rq)
    BY <1>2, <1>3 DEF PrefillLastChunk
  <1>5. B \in SUBSET Occupied
    BY <1>1, <1>2, <1>3, ChunkNumbers
  <1>6. /\ \A q \in Reqs : rq[q] = [f \in ReqFields |-> rq[q][f]]
        /\ \A q \in Reqs \ {s} : rq[q] = req[q]
        /\ rq[s].prompt = req[s].prompt /\ rq[s].ran = req[s].ran + ChunkLen
    BY <1>1, <1>2, <1>3, ChunkReqFacts
  <1>7. PICK a, b, c, e, start : /\ a = req[s].ran /\ b = job.p /\ c = ChunkLen
                                 /\ e = ChunkEnd /\ start = slots[i].prefillStart
    OBVIOUS
  <1>8. /\ b \in Nat /\ c \in Nat /\ e = b + c /\ start \in Nat /\ start + a = b
    BY <1>1, <1>2, <1>7, ChunkNumbers
  <1>9. a \in Nat /\ e = Len(req[s].prompt)
    BY <1>1, <1>2, <1>5, <1>3, <1>7, SlotNumbers DEF PromptLen, PromptAt, Owner
  <1>10. start + (a + c) = e
    BY <1>8, <1>9
  <1>11. slots[i].prefillStart + rq[s].ran = Len(rq[s].prompt)
    BY <1>6, <1>7, <1>9, <1>10, Zenon
  <1>12. \A j \in B : AddsUp(j, rq)
    BY <1>2, <1>3, <1>11 DEF AddsUp
  <1>13. \A q \in Reqs : (\A j \in B : slots[j].req # q) => rq[q] = req[q]
    BY <1>2, <1>3, <1>6
  <1>14. \A q \in Reqs : rq[q] = [f \in ReqFields |-> rq[q][f]]
    BY <1>6
  <1> QED BY <1>4, <1>5, <1>12, <1>13, <1>14, CommitUsage

(* Every prompt of a batch fits PrefillMaxRows.                            *)
LEMMA BatchRows ==
    ASSUME BatcherInv, AnswerInv, BatchReady, NEW i \in BatchSlots
    PROVE  PromptLen(i) <= PrefillMaxRows
  <1>1. /\ toPrefill \in Seq(Slots) /\ WorkList /\ toPrefill # <<>>
        /\ PromptLen(Head(toPrefill)) <= PrefillMaxRows /\ PrefillMaxRows \in Nat
    BY BatcherAssumption DEF BatcherInv, Works, BatchReady
  <1>2. PICK n : n = BatchSize
    OBVIOUS
  <1>3. n \in 1 .. Len(toPrefill) /\ Len(toPrefill) \in Nat
    BY <1>1, <1>2, BatchSizeType
  <1>4. PICK k \in 1 .. n : i = toPrefill[k]
    BY <1>2 DEF BatchSlots
  <1>5. CASE n = 1
    BY <1>1, <1>4, <1>5
  <1>6. CASE n # 1
    <2>1. BatchFits(n)
      BY <1>1, <1>2, <1>6, BatchSizeFits
    <2>2. PICK f : f = [x \in 1 .. n |-> PromptLen(toPrefill[x])]
      OBVIOUS
    <2>3. ASSUME NEW x \in 1 .. n PROVE f[x] \in Nat
      <3>1. toPrefill[x] \in Occupied
        BY <1>1, <1>3 DEF WorkList
      <3>2. PICK j : j = toPrefill[x]
        OBVIOUS
      <3>3. PICK s : s = slots[j].req
        OBVIOUS
      <3>4. Len(req[s].prompt) \in Nat
        BY <3>1, <3>2, <3>3, SlotNumbers
      <3>5. PromptLen(j) \in Nat
        BY <3>3, <3>4 DEF PromptLen, PromptAt, Owner
      <3> QED BY <2>2, <3>2, <3>5
    <2>4. PICK S : S = 1 .. n
      OBVIOUS
    <2>5. IsFiniteSet(S) /\ \A x \in S : f[x] \in Nat
      BY <1>3, <2>3, <2>4, FS_Interval
    <2>6. /\ SumFunctionOnSet(f, S) \in Nat
          /\ \A x \in S : f[x] <= SumFunctionOnSet(f, S)
      BY <2>5, SumNat
    <2>7. SumFunctionOnSet(f, S) <= PrefillMaxRows
      <3>1. DOMAIN f = S
        BY <2>2, <2>4
      <3>2. SumFunction(f) <= PrefillMaxRows
        BY <2>1, <2>2 DEF BatchFits
      <3> QED BY <3>1, <3>2 DEF SumFunction
    <2>8. f[k] \in Nat /\ f[k] <= SumFunctionOnSet(f, S) /\ f[k] = PromptLen(i)
      BY <1>4, <2>2, <2>4, <2>5, <2>6
    <2> QED BY <1>1, <2>6, <2>7, <2>8
  <1> QED BY <1>5, <1>6

(* The batched prefill starts every prompt at 0, wherever its slot was to  *)
(* be resumed, and a batch fits PrefillMaxRows.                            *)
LEMMA BatchUsage ==
    ASSUME BatcherInv, AnswerInv, \A r \in Reqs : UsageOK(req[r]), NEW r \in Reqs,
           PrefillBatch
    PROVE  UsageOK(req'[r])
  <1>1. /\ toPrefill \in Seq(Slots) /\ WorkList /\ toPrefill # <<>> /\ Batched
        /\ PromptLen(Head(toPrefill)) <= PrefillMaxRows
    BY DEF BatcherInv, Works, PrefillBatch, BatchReady
  <1>2. PICK n, B : n = BatchSize /\ B = BatchSlots
    OBVIOUS
  <1>3. n \in 1 .. Len(toPrefill) /\ Len(toPrefill) \in Nat
    BY <1>1, <1>2, BatchSizeType
  <1>4. B = {toPrefill[k] : k \in 1 .. n}
    BY <1>2 DEF BatchSlots
  <1>5. ASSUME NEW i \in B PROVE i \in Occupied /\ Listed(i)
    <2>1. PICK k \in 1 .. n : i = toPrefill[k]
      BY <1>4
    <2>2. k \in DOMAIN toPrefill
      BY <1>1, <1>3, <2>1
    <2> QED BY <1>1, <2>1, <2>2 DEF WorkList, Listed
  <1>6. PICK rq, dv, st :
           /\ rq = [s \in Reqs |-> IF \E i \in B : Owner(i) = s
                              THEN [req[s] EXCEPT !.ran = @ + Len(req[s].prompt)]
                              ELSE req[s]]
           /\ dv = BatchDevice /\ st = store
    OBVIOUS
  <1>7. PICK tk \in [B -> GenTokens] : Commit(B, tk, dv, st, rq)
    BY <1>2, <1>6 DEF PrefillBatch
  <1>8. \A s \in Reqs : (\A i \in B : slots[i].req # s) => rq[s] = req[s]
    BY <1>6 DEF Owner
  <1>9. ASSUME NEW s \in Reqs, NEW q2, q2 = rq[s]
        PROVE  /\ q2 = [f \in ReqFields |-> q2[f]] /\ q2.prompt = req[s].prompt
               /\ (\E i \in B : slots[i].req = s) => q2.ran = req[s].ran + Len(req[s].prompt)
    <2>1. PICK q, L : q = req[s] /\ L = Len(q.prompt)
      OBVIOUS
    <2>2. q = [f \in ReqFields |-> q[f]]
      BY <2>1 DEF BatcherInv, Shape
    <2>3. CASE \E i \in B : slots[i].req = s
      <3>1. q2 = [q EXCEPT !.ran = @ + L]
        BY <1>6, <1>9, <2>1, <2>3 DEF Owner
      <3>2. /\ q2 = [f \in ReqFields |-> q2[f]] /\ q2.prompt = q.prompt
            /\ q2.ran = q.ran + L
        BY <2>2, <3>1 DEF ReqFields
      <3> QED BY <2>1, <3>2
    <2>4. CASE ~ \E i \in B : slots[i].req = s
      <3>1. q2 = q
        BY <1>8, <1>9, <2>1, <2>4
      <3> QED BY <2>1, <2>2, <2>4, <3>1
    <2> QED BY <2>3, <2>4
  <1>10. \A s \in Reqs : rq[s] = [f \in ReqFields |-> rq[s][f]]
    BY <1>9
  <1>11. ASSUME NEW i \in B PROVE AddsUp(i, rq)
    <2>1. PICK s, L, start : /\ s = slots[i].req /\ L = Len(req[s].prompt)
                             /\ start = slots[i].prefillStart
      OBVIOUS
    <2>2. /\ StandsAt(slots[i].pos, slots[i].prefillPos, start, L, Len(req[s].tokens),
                      req[s].ran, req[s].prefillSet, Listed(i), Working(i), job.p)
          /\ s \in Reqs /\ L \in Nat
      BY <1>5, <2>1, SlotNumbers
    <2>3. req[s].ran = 0
      BY <1>5, <2>2, Zenon DEF StandsAt
    <2>4. rq[s].ran = 0 + L /\ rq[s].prompt = req[s].prompt
      BY <1>9, <2>1, <2>2, <2>3
    <2>5. rq[s].ran = L
      BY <2>2, <2>4
    <2>6. L <= PrefillMaxRows
      <3>1. PromptLen(i) <= PrefillMaxRows
        BY <1>2, BatchRows DEF PrefillBatch
      <3> QED BY <2>1, <3>1 DEF PromptLen, PromptAt, Owner
    <2> QED BY <1>1, <2>1, <2>4, <2>5, <2>6 DEF AddsUp, BatchedWhole
  <1>12. B \in SUBSET Occupied
    BY <1>5
  <1> QED BY <1>7, <1>8, <1>10, <1>11, <1>12, CommitUsage

(* A step of the iteration runs prompt tokens only for a request that has  *)
(* not reported its prefill.                                               *)
LEMMA StepUsage ==
    ASSUME BatcherInv, AnswerInv, \A r \in Reqs : UsageOK(req[r]), NEW r \in Reqs,
           MixedStepRun \/ DecodeStep
    PROVE  UsageOK(req'[r])
  <1>1. Shape /\ Places
    BY DEF BatcherInv
  <1>2. PICK q, q2 : q = req[r] /\ q2 = req'[r]
    OBVIOUS
  <1>3. CASE \A i \in Occupied : slots[i].req # r
    <2>1. q2 = q
      BY <1>1, <1>2, <1>3, MixedTells, DecodeTells
    <2> QED BY <1>2, <2>1
  <1>4. CASE \E i \in Occupied : slots[i].req = r
    <2>1. PICK i \in Occupied : slots[i].req = r
      BY <1>4
    <2>2. CASE DecodeStep
      <3>1. PICK tk : \A j \in Occupied : DecodeTold(j, slots[j].req, tk[j])
        BY <1>1, <2>2, DecodeTells
      <3>2. DecodeTold(i, r, tk[i])
        BY <2>1, <3>1
      <3>3. /\ q2.prefillSet = q.prefillSet /\ q2.cachedTokens = q.cachedTokens
            /\ q2.ran = q.ran + (IF slots[i].pos < PromptLen(i) THEN 1 ELSE 0)
            /\ q2.prompt = q.prompt
        BY <1>2, <3>2, Zenon DEF DecodeTold
      <3>4. PICK pos, fed, start, L, n, ran, told :
               /\ pos = slots[i].pos /\ fed = slots[i].prefillPos
               /\ start = slots[i].prefillStart /\ L = Len(q.prompt) /\ n = Len(q.tokens)
               /\ ran = q.ran /\ told = q.prefillSet
        OBVIOUS
      <3>5. DecodesAt(pos, fed, start, L, n, ran, told)
        <4>1. DecodeTurn /\ StepFrame
          BY <2>2 DEF DecodeStep
        <4> QED BY <1>2, <2>1, <3>4, <4>1, DecodeStands
      <3>6. /\ L \in Nat /\ n \in Nat /\ pos \in Nat
            /\ (n > 0 /\ pos + 1 = L + n) \/ (~told /\ pos < L)
        BY <3>5, Zenon DEF DecodesAt
      <3>7. pos < L => ~told
        BY <3>6
      <3>8. PromptLen(i) = L
        BY <1>2, <2>1, <3>4 DEF PromptLen, PromptAt, Owner
      <3>9. q.ran \in Nat
        <4>1. HandleOK(q)
          BY <1>2 DEF AnswerInv, Handles
        <4> QED BY <4>1, Zenon DEF HandleOK, Counted
      <3>10. ~q2.prefillSet \/ q2.ran = q.ran
        BY <3>3, <3>4, <3>7, <3>8, <3>9
      <3> QED BY <1>2, <3>3, <3>10, UsageStays
    <2>3. CASE MixedStepRun
      <3>1. PICK tk : \A j \in Occupied : MixedTold(j, slots[j].req, tk[j])
        BY <1>1, <2>3, MixedTells
      <3>2. MixedTold(i, r, tk[i])
        BY <2>1, <3>1
      <3>3. /\ q2.prefillSet = q.prefillSet /\ q2.cachedTokens = q.cachedTokens
            /\ q2.ran = q.ran + (IF i \in Prefilling THEN MixedChunk(i) ELSE 0)
            /\ q2.prompt = q.prompt
        BY <1>2, <3>2, Zenon DEF MixedTold
      <3>4. MixesAt(slots[i].pos, slots[i].prefillPos, slots[i].prefillStart,
                    Len(q.prompt), Len(q.tokens), q.ran, q.prefillSet,
                    i \in Prefilling, MixedChunk(i))
        <4>1. MixedTurn /\ StepFrame
          BY <2>3 DEF MixedStepRun
        <4> QED BY <1>2, <2>1, <4>1, MixedStands
      <3>5. q.ran \in Nat /\ (i \in Prefilling => ~q.prefillSet)
        BY <3>4, Zenon DEF MixesAt
      <3>6. ~q2.prefillSet \/ q2.ran = q.ran
        BY <3>3, <3>5
      <3> QED BY <1>2, <3>3, <3>6, UsageStays
    <2> QED BY <2>2, <2>3
  <1> QED BY <1>3, <1>4

(* UsageAccounted is preserved: one case per action that answers a request.   *)
LEMMA NextUsage ==
    ASSUME BatcherInv, AnswerInv, UsageAccounted, [Next]_vars
    PROVE  UsageAccounted'
  <1>1. \A r \in Reqs : UsageOK(req[r])
    BY Zenon DEF UsageAccounted, UsageOK, BatchedWhole
  <1>2. ASSUME NEW r \in Reqs PROVE UsageOK(req'[r])
    <2>1. CASE \/ \E s \in Reqs, p \in Prompts, t \in Tenants : Submit(s, p, t)
               \/ \E s \in Reqs : Cancel(s)
               \/ Shutdown \/ PrefillChunkStep
      BY <1>1, <2>1, PlainUsage
    <2>2. CASE req' = req
      BY <1>1, <2>2
    <2>3. CASE PrefillFail
      <3>1. PICK F, after : F = {job.slot} /\ after = ChunkDevice
        OBVIOUS
      <3>2. F \in SUBSET Occupied /\ FailSlots(F, after)
        BY <2>3, <3>1, ChunkNumbers DEF PrefillFail
      <3> QED BY <1>1, <3>2, FailUsage
    <2>4. CASE PrefillBatchFail
      <3>1. PICK F, after : F = BatchSlots /\ after = BatchDevice
        OBVIOUS
      <3>2. /\ toPrefill \in Seq(Slots) /\ WorkList /\ toPrefill # <<>>
        BY <2>4 DEF BatcherInv, Works, PrefillBatchFail, BatchReady
      <3>3. PICK n : n = BatchSize
        OBVIOUS
      <3>4. n \in 1 .. Len(toPrefill) /\ Len(toPrefill) \in Nat
        BY <3>2, <3>3, BatchSizeType
      <3>5. F \in SUBSET Occupied
        BY <3>1, <3>2, <3>3, <3>4 DEF BatchSlots, WorkList
      <3>6. FailSlots(F, after)
        BY <2>4, <3>1 DEF PrefillBatchFail
      <3> QED BY <1>1, <3>5, <3>6, FailUsage
    <2>5. CASE MixedStepFail \/ DecodeFail
      <3>1. PICK F, after : F \in SUBSET Occupied /\ FailSlots(F, after)
        BY <2>5 DEF MixedStepFail, DecodeFail
      <3> QED BY <1>1, <3>1, FailUsage
    <2>6. CASE \E tok \in GenTokens : PrefillLastChunk(tok)
      BY <1>1, <2>6, LastChunkUsage
    <2>7. CASE PrefillBatch
      BY <1>1, <2>7, BatchUsage
    <2>8. CASE MixedStepRun \/ DecodeStep
      BY <1>1, <2>8, StepUsage
    <2>9. CASE \/ BeginIteration \/ EndWarm \/ SkipCross \/ EndCross \/ EndAdmission
               \/ Wake \/ PrefillDone \/ CheckCancelled \/ Stop \/ Quiescent \/ UNCHANGED vars
               \/ AdmitWarm \/ AdmitCross \/ AdmitCold \/ PrefillBegin
      <3>1. req' = req
        BY <2>9 DEF BeginIteration, EndWarm, SkipCross, EndCross, EndAdmission, Wake,
           PrefillDone, CheckCancelled, Stop, Quiescent, vars, AdmitWarm, AdmitCross, AdmitCold, AdmitTo,
           PrefillBegin
      <3> QED BY <2>2, <3>1
    <2> QED BY <2>1, <2>3, <2>4, <2>5, <2>6, <2>7, <2>8, <2>9 DEF Next, Worker, Client
  <1> QED BY <1>2 DEF UsageAccounted, UsageOK, BatchedWhole

(* What a request reports as reused and what was run for it make up the    *)
(* prompt, for every number of slots and requests and every setting of the *)
(* switches, but for a prompt that went through the batched prefill, all   *)
(* of which was run.                                                       *)
THEOREM UsageAccountedHolds == Spec => []UsageAccounted
  <1>1. Init => UsageAccounted
    <2> SUFFICES ASSUME Init PROVE UsageAccounted
      OBVIOUS
    <2>1. FreshReq.prefillSet = FALSE
      BY DEF FreshReq
    <2>2. \A r \in Reqs : req[r] = FreshReq
      BY DEF Init
    <2> QED BY <2>1, <2>2 DEF UsageAccounted
  <1>2. BatcherInv /\ AnswerInv /\ UsageAccounted /\ [Next]_vars => UsageAccounted'
    BY NextUsage
  <1> QED BY <1>1, <1>2, AnswerInvariance, PTL DEF Spec
=============================================================================
