------------------------- MODULE EngineSessionProofs -------------------------
(***************************************************************************)
(* Theorems about EngineSession, for every network, vocabulary, set of     *)
(* prompts, context size, number of parked slots and draft length, with    *)
(* whatever a drafter proposes:                                            *)
(*   - the prefix cache names the rows it holds (CacheInSync);             *)
(*   - the recurrent state and its checkpoint stay in step with the rows   *)
(*     (RecurrentInStep, SnapFaithful), as long as no recurrent model is   *)
(*     decoded by SpeculativeDecoder, which does not restore the state;    *)
(*   - a prompt that continues a cached conversation resumes from it       *)
(*     (ContinuationResumes).                                              *)
(***************************************************************************)
EXTENDS EngineSession, SequenceTheorems, WellFoundedInduction, TLAPS

(* The network picks a token.                                              *)
NetworkPicks == \A k, s, w : Argmax(k, s, w) \in Tokens

(* No recurrent model is served by the speculative loop.                   *)
SpeculationIsRestored ==
    \A c \in Configs : c.recurrent => "speculative" \notin c.modes
-----------------------------------------------------------------------------
(* The types of the state's parts                                          *)

Slot == [kv : Seq(Tokens), tokens : Seq(Tokens)]

(* The types of the call in progress.                                      *)
LEMMA CallTypes ==
    ASSUME TypeOK
    PROVE  /\ req.prompt \in Seq(Tokens) /\ req.prompt # <<>> /\ Len(req.prompt) \in Nat \ {0}
           /\ req.prompt \in Prompts /\ req.budget \in Budgets /\ req.mode \in Modes
           /\ req.budget \in Nat \ {0}
           /\ generated \in Seq(Tokens) /\ Len(generated) \in Nat
           /\ queue \in Seq(Tokens) /\ Len(queue) \in Nat
           /\ last \in Tokens /\ aborted \in BOOLEAN
  <1>1. /\ req \in [prompt : Prompts, budget : Budgets, mode : Modes]
        /\ generated \in Seq(Tokens) /\ queue \in Seq(Tokens)
        /\ last \in Tokens /\ aborted \in BOOLEAN
    BY Zenon DEF TypeOK
  <1>2. Budgets \subseteq Nat \ {0} /\ \A p \in Prompts : p \in Seq(Tokens) /\ p # <<>>
    BY SessionAssumption, Zenon
  <1>3. req.prompt \in Prompts /\ req.budget \in Budgets /\ req.mode \in Modes
    BY <1>1
  <1>4. Len(generated) \in Nat /\ Len(queue) \in Nat
    BY <1>1, LenProperties
  <1>5. Len(req.prompt) \in Nat \ {0}
    BY <1>2, <1>3, EmptySeq
  <1> QED BY <1>1, <1>2, <1>3, <1>4, <1>5

(* The types of the cache: active slot, parked slots, checkpoint.          *)
LEMMA CacheTypes ==
    ASSUME TypeOK
    PROVE  /\ active \in Slot /\ active.kv \in Seq(Tokens) /\ active.tokens \in Seq(Tokens)
           /\ Len(active.kv) \in Nat
           /\ backups \in [Backups -> Slot] /\ \A b \in Backups : backups[b] \in Slot
           /\ age \in [Backups -> Backups]
           /\ ssm \in Seq(Tokens)
           /\ snap \in [valid : BOOLEAN, at : Nat, state : Seq(Tokens)]
           /\ snap.state \in Seq(Tokens) /\ snap.at \in Nat
  <1>1. /\ active \in Slot /\ backups \in [Backups -> Slot]
        /\ age \in [Backups -> Backups] /\ ssm \in Seq(Tokens)
        /\ snap \in [valid : BOOLEAN, at : Nat, state : Seq(Tokens)]
    BY Zenon DEF TypeOK, Slot
  <1>2. active.kv \in Seq(Tokens) /\ active.tokens \in Seq(Tokens)
    BY <1>1 DEF Slot
  <1>3. Len(active.kv) \in Nat
    BY <1>2, LenProperties
  <1>4. snap.state \in Seq(Tokens) /\ snap.at \in Nat
    BY <1>1
  <1> QED BY <1>1, <1>2, <1>3, <1>4
-----------------------------------------------------------------------------
(* Largest and smallest elements                                           *)

(* A nonempty bounded set of naturals has a largest element.               *)
LEMMA MaxExists ==
    ASSUME NEW n \in Nat, NEW S \in SUBSET (0 .. n), S # {}
    PROVE  Max(S) \in S /\ \A x \in S : x <= Max(S)
  <1> DEFINE T == {n - k : k \in S}
             R == {ss \in Nat \X Nat : ss[1] < ss[2]}
  <1>1. T \subseteq Nat /\ T # {}
    <2>1. \A k \in S : k \in 0 .. n
      OBVIOUS
    <2>2. \A k \in 0 .. n : n - k \in Nat
      OBVIOUS
    <2> QED BY <2>1, <2>2
  <1>2. PICK m \in T : \A y \in T : ~(<<y, m>> \in R)
    <2>1. IsWellFoundedOn(R, Nat)
      BY NatLessThanWellFounded, Zenon DEF OpToRel
    <2> HIDE DEF R, T
    <2> QED BY <2>1, <1>1, WFMin
  <1>3. \A y \in T : m <= y
    <2>1. m \in Nat /\ \A y \in T : y \in Nat
      BY <1>1, <1>2
    <2>2. \A y \in Nat : y < m => <<y, m>> \in R
      BY <2>1
    <2> HIDE DEF R, T
    <2>3. ASSUME NEW y \in T PROVE ~(y < m)
      BY <2>1, <2>2, <2>3, <1>2
    <2> QED BY <2>1, <2>3
  <1>4. PICK k \in S : m = n - k
    OBVIOUS
  <1>5. \A x \in S : x <= k
    <2>1. \A x \in S : n - x \in T
      OBVIOUS
    <2> HIDE DEF T
    <2> QED BY <2>1, <1>3, <1>4
  <1>6. \E x \in S : \A y \in S : x >= y
    BY <1>5
  <1>7. Max(S) \in S /\ \A y \in S : Max(S) >= y
    BY <1>6, Zenon DEF Max
  <1> QED BY <1>7

(* A nonempty set of naturals has a smallest element.                      *)
LEMMA MinExists ==
    ASSUME NEW S \in SUBSET Nat, S # {}
    PROVE  Min(S) \in S
  <1> DEFINE R == {ss \in Nat \X Nat : ss[1] < ss[2]}
  <1>1. PICK m \in S : \A y \in S : ~(<<y, m>> \in R)
    <2>1. IsWellFoundedOn(R, Nat)
      BY NatLessThanWellFounded, Zenon DEF OpToRel
    <2> HIDE DEF R
    <2> QED BY <2>1, WFMin
  <1>2. \A y \in S : m <= y
    <2>1. \A y \in Nat : y < m => <<y, m>> \in R
      OBVIOUS
    <2> HIDE DEF R
    <2>2. ASSUME NEW y \in S PROVE ~(y < m)
      BY <2>1, <1>1
    <2> QED BY <2>2
  <1> QED BY <1>2, Zenon DEF Min

(* Min of a pair.                                                          *)
LEMMA MinOfTwo ==
    ASSUME NEW a \in Int, NEW b \in Int
    PROVE  Min({a, b}) = IF a <= b THEN a ELSE b
  BY DEF Min

(* Max of a pair.                                                          *)
LEMMA MaxOfTwo ==
    ASSUME NEW a \in Int, NEW b \in Int
    PROVE  Max({a, b}) = IF a <= b THEN b ELSE a
  BY DEF Max
-----------------------------------------------------------------------------
(* Sequences                                                               *)

(* A prefix of a sequence is a sequence of its length.                     *)
LEMMA PrefixType ==
    ASSUME NEW T, NEW s \in Seq(T), NEW n \in 0 .. Len(s)
    PROVE  /\ SubSeq(s, 1, n) \in Seq(T) /\ Len(SubSeq(s, 1, n)) = n
           /\ \A i \in 1 .. n : SubSeq(s, 1, n)[i] = s[i]
  <1>1. \A i \in 1 .. n : s[i] \in T
    OBVIOUS
  <1>2. /\ SubSeq(s, 1, n) \in Seq(T)
        /\ Len(SubSeq(s, 1, n)) = IF 1 <= n THEN n - 1 + 1 ELSE 0
        /\ \A i \in 1 .. n - 1 + 1 : SubSeq(s, 1, n)[i] = s[1 + i - 1]
    BY <1>1, SubSeqProperties
  <1> QED BY <1>2

(* Two prefixes of one sequence, the shorter is a prefix of the longer.    *)
LEMMA PrefixOfPrefix ==
    ASSUME NEW T, NEW s \in Seq(T), NEW a \in 0 .. Len(s), NEW k \in 0 .. a
    PROVE  SubSeq(SubSeq(s, 1, a), 1, k) = SubSeq(s, 1, k)
  <1> DEFINE h == SubSeq(s, 1, a)
             x == SubSeq(h, 1, k)
             y == SubSeq(s, 1, k)
  <1>1. Len(s) \in Nat /\ a \in Nat /\ a <= Len(s) /\ k \in 0 .. Len(s)
    OBVIOUS
  <1>2. h \in Seq(T) /\ Len(h) = a /\ \A i \in 1 .. a : h[i] = s[i]
    BY PrefixType
  <1>3. y \in Seq(T) /\ Len(y) = k /\ \A i \in 1 .. k : y[i] = s[i]
    BY <1>1, PrefixType
  <1>4. x \in Seq(T) /\ Len(x) = k /\ \A i \in 1 .. k : x[i] = h[i]
    <2>1. k \in 0 .. Len(h)
      BY <1>2
    <2> QED BY <1>2, <2>1, PrefixType
  <1> HIDE DEF h, x, y
  <1>5. \A i \in 1 .. k : x[i] = y[i]
    BY <1>1, <1>2, <1>3, <1>4
  <1>6. x = y
    BY <1>3, <1>4, <1>5, SeqEqual
  <1> QED BY <1>6 DEF x, y, h

(* What follows the prefix.                                                *)
LEMMA SuffixType ==
    ASSUME NEW T, NEW s \in Seq(T), NEW n \in 0 .. Len(s)
    PROVE  /\ SubSeq(s, n + 1, Len(s)) \in Seq(T)
           /\ Len(SubSeq(s, n + 1, Len(s))) = Len(s) - n
  <1>1. \A i \in n + 1 .. Len(s) : s[i] \in T
    OBVIOUS
  <1>2. /\ SubSeq(s, n + 1, Len(s)) \in Seq(T)
        /\ Len(SubSeq(s, n + 1, Len(s))) =
             IF n + 1 <= Len(s) THEN Len(s) - (n + 1) + 1 ELSE 0
    BY <1>1, SubSeqProperties
  <1> QED BY <1>2

(* A sequence is a prefix of it and the rest.                              *)
LEMMA SplitAt ==
    ASSUME NEW T, NEW s \in Seq(T), NEW n \in 0 .. Len(s)
    PROVE  SubSeq(s, 1, n) \o SubSeq(s, n + 1, Len(s)) = s
  <1>1. 1 \in 1 .. Len(s) + 1 /\ n \in 1 - 1 .. Len(s) /\ Len(s) \in n .. Len(s)
    OBVIOUS
  <1>2. SubSeq(s, 1, n) \o SubSeq(s, n + 1, Len(s)) = SubSeq(s, 1, Len(s))
    BY <1>1, ConcatAdjacentSubSeq
  <1> QED BY <1>2, SubSeqFull

(* Append as a concatenation.                                              *)
LEMMA AppendConcat ==
    \A s, t \in Seq(Tokens), e \in Tokens : Append(s \o t, e) = s \o Append(t, e)
  <1> TAKE s, t \in Seq(Tokens), e \in Tokens
  <1>1. s \o t \in Seq(Tokens) /\ <<e>> \in Seq(Tokens)
    OBVIOUS
  <1>2. Append(s \o t, e) = (s \o t) \o <<e>> /\ Append(t, e) = t \o <<e>>
    BY <1>1, AppendIsConcat
  <1> QED BY <1>1, <1>2, ConcatAssociative

(* A longer sequence that a sequence plus one token equals.                *)
LEMMA AllButLast ==
    ASSUME NEW T, NEW k \in Seq(T), NEW e \in T, NEW p \in Seq(T), NEW g \in Seq(T),
           Append(k, e) = p \o g, g # <<>>
    PROVE  /\ Len(k) = Len(p) + Len(g) - 1
           /\ k = p \o SubSeq(g, 1, Len(g) - 1)
           /\ e = g[Len(g)]
  <1> DEFINE c == p \o g
             h == SubSeq(g, 1, Len(g) - 1)
  <1>1. /\ Len(c) = Len(p) + Len(g)
        /\ \A i \in 1 .. Len(p) + Len(g) : c[i] = IF i <= Len(p) THEN p[i] ELSE g[i - Len(p)]
    BY ConcatProperties
  <1>2. /\ Len(Append(k, e)) = Len(k) + 1
        /\ \A i \in 1 .. Len(k) : Append(k, e)[i] = k[i]
        /\ Append(k, e)[Len(k) + 1] = e
    BY AppendProperties
  <1>3. Len(g) \in Nat \ {0} /\ Len(p) \in Nat /\ Len(k) \in Nat
    OBVIOUS
  <1>4. Len(k) = Len(p) + Len(g) - 1 /\ e = g[Len(g)]
    <2> HIDE DEF c
    <2>1. Append(k, e) = c
      BY DEF c
    <2>2. Len(k) + 1 = Len(p) + Len(g)
      BY <2>1, <1>1, <1>2
    <2>3. c[Len(k) + 1] = g[Len(g)]
      BY <2>2, <1>1, <1>3
    <2> QED BY <2>1, <2>2, <2>3, <1>2, <1>3
  <1>5. /\ h \in Seq(T) /\ Len(h) = Len(g) - 1
        /\ \A i \in 1 .. Len(g) - 1 : h[i] = g[i]
    <2>1. Len(g) - 1 \in 0 .. Len(g)
      BY <1>3
    <2> QED BY <2>1, PrefixType
  <1>6. /\ p \o h \in Seq(T) /\ Len(p \o h) = Len(p) + Len(h)
        /\ \A i \in 1 .. Len(p) + Len(h) :
             (p \o h)[i] = IF i <= Len(p) THEN p[i] ELSE h[i - Len(p)]
    BY <1>5, ConcatProperties
  <1>7. \A i \in 1 .. Len(k) : k[i] = (p \o h)[i]
    <2> HIDE DEF h, c
    <2>1. Append(k, e) = c
      BY DEF c
    <2>2. SUFFICES ASSUME NEW i \in 1 .. Len(k) PROVE k[i] = (p \o h)[i]
      OBVIOUS
    <2>3. k[i] = c[i]
      BY <2>1, <1>2
    <2>4. i \in 1 .. Len(p) + Len(g) /\ i \in 1 .. Len(p) + Len(h)
      BY <1>3, <1>4, <1>5
    <2>5. CASE i <= Len(p)
      BY <2>3, <2>4, <2>5, <1>1, <1>6
    <2>6. CASE ~(i <= Len(p))
      <3>1. i - Len(p) \in 1 .. Len(g) - 1
        BY <2>6, <1>3, <1>4
      <3> QED BY <2>3, <2>4, <2>6, <3>1, <1>1, <1>5, <1>6
    <2> QED BY <2>5, <2>6
  <1>8. k = p \o h
    <2> HIDE DEF h, c
    <2>1. Len(k) = Len(p \o h)
      BY <1>3, <1>4, <1>5, <1>6
    <2> QED BY <2>1, <1>6, <1>7, SeqEqual
  <1> QED BY <1>4, <1>8
-----------------------------------------------------------------------------
(* The prefix cache                                                        *)

(* longestCommonPrefix is a common prefix.                                 *)
LEMMA LcpIsCommon ==
    ASSUME NEW a \in Seq(Tokens), NEW b \in Seq(Tokens)
    PROVE  /\ Lcp(a, b) \in 0 .. Len(a) /\ Lcp(a, b) \in 0 .. Len(b)
           /\ SubSeq(a, 1, Lcp(a, b)) = SubSeq(b, 1, Lcp(a, b))
  <1> DEFINE m == IF Len(a) <= Len(b) THEN Len(a) ELSE Len(b)
             S == {k \in 0 .. m : SubSeq(a, 1, k) = SubSeq(b, 1, k)}
  <1>1. Len(a) \in Nat /\ Len(b) \in Nat
    OBVIOUS
  <1>2. Min({Len(a), Len(b)}) = m
    BY <1>1, MinOfTwo
  <1>3. m \in Nat /\ m <= Len(a) /\ m <= Len(b)
    BY <1>1
  <1>4. SubSeq(a, 1, 0) = <<>> /\ SubSeq(b, 1, 0) = <<>>
    BY SubSeqEmpty
  <1>5. S \in SUBSET (0 .. m) /\ S # {}
    <2>1. 0 \in S
      BY <1>3, <1>4
    <2> QED BY <2>1
  <1>6. Lcp(a, b) = Max(S)
    BY <1>2 DEF Lcp
  <1>7. Max(S) \in S
    <2> HIDE DEF S, m
    <2> QED BY <1>3, <1>5, MaxExists
  <1>8. Lcp(a, b) \in 0 .. m /\ SubSeq(a, 1, Lcp(a, b)) = SubSeq(b, 1, Lcp(a, b))
    BY <1>6, <1>7
  <1> HIDE DEF m
  <1> QED BY <1>1, <1>3, <1>8

(* The parked slot to swap with is one that matches most.                  *)
LEMMA BestBackupType ==
    ASSUME TypeOK, NEW p \in Seq(Tokens), BetterBackups(p) # {}
    PROVE  /\ BestBackup(p) \in BetterBackups(p)
           /\ \A c \in BetterBackups(p) :
                Lcp(p, backups[c].tokens) <= Lcp(p, backups[BestBackup(p)].tokens)
  <1> DEFINE L(b) == Lcp(p, backups[b].tokens)
             B == BetterBackups(p)
             S == {L(b) : b \in B}
             W == {b \in B : \A c \in B : L(c) <= L(b)}
  <1>1. B \subseteq Backups /\ Backups \subseteq Nat
    BY SessionAssumption DEF BetterBackups, Backups
  <1>2. \A b \in Backups : L(b) \in 0 .. Len(p)
    <2>1. \A b \in Backups : backups[b].tokens \in Seq(Tokens)
      BY DEF TypeOK, Slot
    <2> QED BY <2>1, LcpIsCommon
  <1>3. Len(p) \in Nat
    OBVIOUS
  <1>4. S \in SUBSET (0 .. Len(p)) /\ S # {}
    <2> HIDE DEF L
    <2> QED BY <1>1, <1>2
  <1>5. Max(S) \in S /\ \A x \in S : x <= Max(S)
    <2> HIDE DEF S
    <2> QED BY <1>3, <1>4, MaxExists
  <1>6. W # {}
    <2>1. PICK b \in B : L(b) = Max(S)
      BY <1>5
    <2>2. \A c \in B : L(c) \in S
      OBVIOUS
    <2>3. \A c \in B : L(c) <= L(b)
      <3> HIDE DEF S, L
      <3> QED BY <2>1, <2>2, <1>5
    <2>4. b \in W
      BY <2>3
    <2> QED BY <2>4
  <1>7. W \in SUBSET Nat
    BY <1>1
  <1>8. Min(W) \in W
    <2> HIDE DEF W
    <2> QED BY <1>6, <1>7, MinExists
  <1>9. BestBackup(p) = Min(W)
    BY DEF BestBackup
  <1> QED BY <1>8, <1>9

(* The eviction victim of the slot selection is one of the parked slots.   *)
LEMMA LeastRecentType ==
    ASSUME TypeOK, NBackups # 0
    PROVE  LeastRecent \in Backups
  <1> DEFINE S == {age[b] : b \in Backups}
  <1>1. NBackups \in Nat \ {0} /\ Backups = 1 .. NBackups
    BY SessionAssumption DEF Backups
  <1>2. S \in SUBSET (0 .. NBackups) /\ S # {}
    <2>1. \A b \in Backups : age[b] \in Backups
      BY DEF TypeOK
    <2>2. 1 \in Backups
      BY <1>1
    <2> QED BY <1>1, <2>1, <2>2
  <1>3. Max(S) \in S /\ \A x \in S : x <= Max(S)
    <2> HIDE DEF S
    <2> QED BY <1>1, <1>2, MaxExists
  <1>4. \E b \in Backups : \A c \in Backups : age[c] <= age[b]
    BY <1>3
  <1> QED BY <1>4, Zenon DEF LeastRecent

(* The slot selection answers with a parked slot or none, and none if      *)
(* recurrent.                                                              *)
LEMMA SwapWithType ==
    ASSUME TypeOK, NEW p \in Seq(Tokens)
    PROVE  /\ SwapWith(p) \in Backups \cup {0}
           /\ Recurrent => SwapWith(p) = 0
  <1>1. BetterBackups(p) \subseteq Backups
    BY DEF BetterBackups
  <1> QED BY <1>1, BestBackupType, LeastRecentType DEF SwapWith

(* Parking a slot permutes the ages within their range.                    *)
LEMMA ParkedType ==
    ASSUME TypeOK, NEW b \in Backups
    PROVE  Parked(b) \in [Backups -> Backups]
  <1>1. Backups = 1 .. NBackups /\ NBackups \in Nat
    BY SessionAssumption DEF Backups
  <1>2. \A c \in Backups : age[c] \in 1 .. NBackups
    BY <1>1 DEF TypeOK
  <1>3. \A c \in Backups : (IF c = b THEN 1 ELSE IF age[c] < age[b] THEN age[c] + 1 ELSE age[c])
                              \in Backups
    BY <1>1, <1>2
  <1> QED BY <1>3 DEF Parked

(* planPrefixReuse keeps less than the prompt, all of it common, and on a  *)
(* recurrent model only the whole text that the checkpoint is for.         *)
LEMMA ReusableIsCommon ==
    ASSUME TypeOK, NEW p \in Seq(Tokens), p # <<>>, NEW slot \in Slot
    PROVE  LET keep == Reusable(p, slot)
           IN /\ keep \in 0 .. Len(p) - 1 /\ keep \in 0 .. Len(slot.tokens)
              /\ SubSeq(p, 1, keep) = SubSeq(slot.tokens, 1, keep)
              /\ Recurrent /\ keep > 0 =>
                    snap.valid /\ keep = Len(slot.tokens) /\ keep = snap.at
  <1> DEFINE t == slot.tokens
             l == Lcp(p, t)
             keep == Reusable(p, slot)
  <1>1. t \in Seq(Tokens) /\ Len(t) \in Nat /\ Len(p) \in Nat \ {0}
    BY DEF Slot
  <1>2. l \in 0 .. Len(p) /\ l \in 0 .. Len(t) /\ SubSeq(p, 1, l) = SubSeq(t, 1, l)
    BY <1>1, LcpIsCommon
  <1>3. Min({l, Len(p) - 1}) = IF l <= Len(p) - 1 THEN l ELSE Len(p) - 1
    BY <1>1, <1>2, MinOfTwo
  <1>4. /\ keep \in 0 .. Len(p) - 1 /\ keep <= l
        /\ Recurrent /\ keep > 0 => snap.valid /\ keep = Len(t) /\ keep = snap.at
    <2> HIDE DEF l
    <2>1. keep = IF ~Recurrent THEN Min({l, Len(p) - 1})
                 ELSE IF (config.ckpt /\ snap.valid /\ l = Len(t) /\ l = snap.at)
                          /\ l \in 1 .. Len(p) - 1 THEN l
                 ELSE 0
      BY DEF Reusable, l
    <2> HIDE DEF keep
    <2> QED BY <2>1, <1>1, <1>2, <1>3
  <1>5. SubSeq(p, 1, keep) = SubSeq(t, 1, keep)
    <2> HIDE DEF l, keep
    <2>1. keep \in 0 .. Len(p) /\ keep \in 0 .. Len(t)
      BY <1>1, <1>2, <1>4
    <2>2. \A i \in 1 .. keep : p[i] = t[i]
      <3>1. \A i \in 1 .. l : SubSeq(p, 1, l)[i] = p[i] /\ SubSeq(t, 1, l)[i] = t[i]
        BY <1>1, <1>2, PrefixType
      <3> QED BY <3>1, <1>2, <1>4
    <2>3. /\ SubSeq(p, 1, keep) \in Seq(Tokens) /\ Len(SubSeq(p, 1, keep)) = keep
          /\ \A i \in 1 .. keep : SubSeq(p, 1, keep)[i] = p[i]
      BY <1>1, <2>1, PrefixType
    <2>4. /\ SubSeq(t, 1, keep) \in Seq(Tokens) /\ Len(SubSeq(t, 1, keep)) = keep
          /\ \A i \in 1 .. keep : SubSeq(t, 1, keep)[i] = t[i]
      BY <1>1, <2>1, PrefixType
    <2> QED BY <2>2, <2>3, <2>4, SeqEqual
  <1>6. keep \in 0 .. Len(t)
    <2> HIDE DEF l, keep
    <2> QED BY <1>1, <1>2, <1>4
  <1> QED BY <1>4, <1>5, <1>6
-----------------------------------------------------------------------------
(* A forward                                                               *)

(* A forward that starts at length 0, or on a recurrent state in step with *)
(* the rows, leaves them in step and picks the greedy token.               *)
LEMMA ForwardInStep ==
    ASSUME NEW kv \in Seq(Tokens), NEW s \in Seq(Tokens), NEW input \in Seq(Tokens),
           Recurrent => kv = <<>> \/ s = kv
    PROVE  /\ Recurrent => Absorb(kv, s, input) = kv \o input
           /\ \A w : \A i \in 0 .. Len(input) :
                 Picks(kv, s, input, i, w) = Greedy(kv \o SubSeq(input, 1, i), w)
  <1>1. ASSUME NEW x \in Seq(Tokens), Recurrent
        PROVE  Absorb(kv, s, x) = kv \o x
    BY <1>1, ConcatEmptySeq DEF Absorb
  <1>2. ASSUME NEW i \in 0 .. Len(input), NEW w
        PROVE  Picks(kv, s, input, i, w) = Greedy(kv \o SubSeq(input, 1, i), w)
    <2>1. SubSeq(input, 1, i) \in Seq(Tokens)
      BY PrefixType
    <2> QED BY <2>1, <1>1 DEF Picks, Greedy
  <1> QED BY <1>1, <1>2

(* What a forward absorbs are tokens.                                      *)
LEMMA AbsorbType ==
    ASSUME NEW kv \in Seq(Tokens), NEW s \in Seq(Tokens), NEW input \in Seq(Tokens)
    PROVE  Absorb(kv, s, input) \in Seq(Tokens)
  BY DEF Absorb

(* The network's pick is a token.                                          *)
LEMMA PicksType ==
    ASSUME NetworkPicks, NEW kv, NEW s, NEW input, NEW i, NEW w
    PROVE  Picks(kv, s, input, i, w) \in Tokens
  BY DEF Picks, NetworkPicks
-----------------------------------------------------------------------------
(* A draft                                                                 *)

(* The n-gram drafter returns at most n tokens of the context.             *)
LEMMA LookupType ==
    ASSUME NEW c \in Seq(Tokens), NEW n \in Nat
    PROVE  /\ Lookup(c, n, MaxK, MinK) \in Seq(Tokens)
           /\ Len(Lookup(c, n, MaxK, MinK)) <= n
  <1> DEFINE ks == {k \in MinK .. MaxK : k < Len(c) /\ Matches(c, k) # {}}
  <1>1. CASE n = 0 \/ ks = {}
    BY <1>1, EmptySeq DEF Lookup
  <1>2. CASE n # 0 /\ ks # {}
    <2> DEFINE k == Max(ks)
               M == Matches(c, k)
               follow == Max(M) + k
               take == Min({n, Len(c) - k - follow})
    <2>1. MinK \in Nat /\ MaxK \in Nat /\ Len(c) \in Nat
      BY SessionAssumption
    <2>2. ks \in SUBSET (0 .. MaxK)
      BY <2>1
    <2>3. k \in ks
      <3> HIDE DEF ks
      <3> QED BY <1>2, <2>1, <2>2, MaxExists
    <2>4. k \in Nat /\ M # {}
      <3> HIDE DEF k
      <3> QED BY <2>1, <2>3
    <2>5. M \in SUBSET (0 .. Len(c)) /\ \A x \in M : x \in Nat /\ x + k < Len(c) - k
      <3> HIDE DEF k
      <3> QED BY <2>1, <2>4 DEF Matches
    <2>6. Max(M) \in M
      <3> HIDE DEF M
      <3> QED BY <2>1, <2>4, <2>5, MaxExists
    <2>7. Max(M) \in Nat /\ Max(M) + k < Len(c) - k
      <3> HIDE DEF k, M
      <3> QED BY <2>5, <2>6
    <2> HIDE DEF k, M
    <2>8. follow \in Nat /\ Len(c) - k - follow \in Nat
      BY <2>1, <2>4, <2>7
    <2>9. take \in Nat /\ take <= n /\ follow + take <= Len(c)
      <3> HIDE DEF follow
      <3>1. take = IF n <= Len(c) - k - follow THEN n ELSE Len(c) - k - follow
        BY <2>8, MinOfTwo
      <3> HIDE DEF take
      <3> QED BY <2>1, <2>4, <2>8, <3>1
    <2>10. Lookup(c, n, MaxK, MinK) = SubSeq(c, follow + 1, follow + take)
      BY <1>2 DEF Lookup, k, M
    <2> HIDE DEF follow, take
    <2>11. \A i \in follow + 1 .. follow + take : c[i] \in Tokens
      BY <2>1, <2>8, <2>9
    <2>12. /\ SubSeq(c, follow + 1, follow + take) \in Seq(Tokens)
           /\ Len(SubSeq(c, follow + 1, follow + take)) =
                IF follow + 1 <= follow + take THEN follow + take - (follow + 1) + 1 ELSE 0
      BY <2>8, <2>9, <2>11, SubSeqProperties
    <2> QED BY <2>8, <2>9, <2>10, <2>12
  <1> QED BY <1>1, <1>2

(* A draft is a sequence of tokens, and in the speculative loop it leaves  *)
(* room for the target's own pick.                                         *)
LEMMA DraftType ==
    ASSUME TypeOK, Len(generated) < req.budget, NEW d \in Drafts
    PROVE  /\ d \in Seq(Tokens) /\ Len(d) \in Nat
           /\ req.mode = "speculative" => Len(generated) + Len(d) + 1 <= req.budget
  <1> DEFINE g == Len(generated)
             n == req.budget
  <1>1. g \in Nat /\ n \in Nat /\ g < n /\ DraftN \in Nat \ {0}
    BY CallTypes, SessionAssumption
  <1>2. \A k \in Nat : \A f \in [1 .. k -> Tokens] : f \in Seq(Tokens) /\ Len(f) = k
    <2> TAKE k \in Nat
    <2> TAKE f \in [1 .. k -> Tokens]
    <2>1. f \in Seq(Tokens)
      BY SeqDef
    <2>2. DOMAIN f = 1 .. k /\ DOMAIN f = 1 .. Len(f) /\ Len(f) \in Nat
      BY <2>1, LenProperties
    <2> QED BY <2>1, <2>2
  <1>3. CASE req.mode # "speculative"
    <2> DEFINE k == Min({DraftN, n - g})
    <2>1. k \in Nat
      BY <1>1, MinOfTwo
    <2>2. d \in [1 .. k -> Tokens]
      <3>1. d \in DraftsOf({k})
        BY <1>3, Zenon DEF Drafts
      <3> HIDE DEF k
      <3> QED BY <3>1, Zenon DEF DraftsOf
    <2> HIDE DEF k
    <2> QED BY <1>2, <1>3, <2>1, <2>2
  <1>4. CASE req.mode = "speculative"
    <2>1. RoundN \in Nat /\ RoundN <= n - g - 1
      <3>1. RoundN = IF DraftN <= n - g - 1 THEN DraftN ELSE n - g - 1
        BY <1>1, MinOfTwo DEF RoundN
      <3> QED BY <1>1, <3>1
    <2>2. CASE config.ngram
      <3>1. req.prompt \o generated \in Seq(Tokens)
        BY CallTypes, ConcatProperties
      <3>2. d = Lookup(req.prompt \o generated, RoundN, MaxK, MinK)
        BY <1>4, <2>2 DEF Drafts
      <3>3. d \in Seq(Tokens) /\ Len(d) <= RoundN
        BY <2>1, <3>1, <3>2, LookupType
      <3> QED BY <1>1, <2>1, <3>3
    <2>3. CASE ~config.ngram
      <3>1. PICK k \in 0 .. RoundN : d \in [1 .. k -> Tokens]
        BY <1>4, <2>3 DEF Drafts, DraftsOf
      <3>2. d \in Seq(Tokens) /\ Len(d) = k
        BY <2>1, <3>1, <1>2
      <3> QED BY <1>1, <2>1, <3>1, <3>2
    <2> QED BY <2>2, <2>3
  <1> QED BY <1>3, <1>4

(* What is accepted is a prefix of the draft, every token of it what the   *)
(* target picks there.                                                     *)
LEMMA AcceptedType ==
    ASSUME NEW d \in Seq(Tokens)
    PROVE  /\ Accepted(d) \in 0 .. Len(d)
           /\ \A i \in 1 .. Accepted(d) : Verified(d, i) = d[i]
  <1> DEFINE S == {a \in 0 .. Len(d) : \A i \in 1 .. a : Verified(d, i) = d[i]}
  <1>1. Len(d) \in Nat
    OBVIOUS
  <1>2. 0 \in S
    BY <1>1
  <1>3. Max(S) \in S
    <2>1. S \in SUBSET (0 .. Len(d)) /\ S # {}
      BY <1>2
    <2> HIDE DEF S
    <2> QED BY <1>1, <2>1, MaxExists
  <1>4. Accepted(d) = Max(S)
    BY DEF Accepted
  <1> QED BY <1>3, <1>4

(* What a round commits: the pending token and the accepted prefix.        *)
LEMMA CommittedType ==
    ASSUME NEW d \in Seq(Tokens), last \in Tokens
    PROVE  /\ SubSeq(d, 1, Accepted(d)) \in Seq(Tokens)
           /\ Len(SubSeq(d, 1, Accepted(d))) = Accepted(d)
           /\ Committed(d) \in Seq(Tokens) /\ <<last>> \o d \in Seq(Tokens)
           /\ Tail(Committed(d)) = SubSeq(d, 1, Accepted(d))
  <1> DEFINE h == SubSeq(d, 1, Accepted(d))
  <1>1. h \in Seq(Tokens) /\ Len(h) = Accepted(d)
    BY AcceptedType, PrefixType
  <1>2. <<last>> \in Seq(Tokens)
    OBVIOUS
  <1>3. Committed(d) \in Seq(Tokens) /\ <<last>> \o d \in Seq(Tokens)
    BY <1>1, <1>2 DEF Committed
  <1>4. Tail(<<last>> \o h) = h
    <2> HIDE DEF h
    <2> QED BY <1>1, <1>2
  <1> QED BY <1>1, <1>3, <1>4 DEF Committed
-----------------------------------------------------------------------------
(* The rows of the cache                                                   *)

(* A token waits to be handed out in "emit", and one is still wanted when  *)
(* a round begins.                                                         *)
Shape ==
    /\ pc = "emit" => req.mode \in Rounds /\ queue # <<>>
    /\ pc = "decode" /\ req.mode \in Rounds => Len(generated) < req.budget

(* CacheInSync strengthened: what the rows are while a call is on them.    *)
RowsInv ==
    /\ \A b \in Backups : backups[b].kv = backups[b].tokens
    /\ pc \in {"idle", "plan"} => active.kv = active.tokens
    /\ pc \in {"plan", "prefill"} => generated = <<>>
    /\ pc = "prefill" => /\ Len(active.kv) < Len(req.prompt)
                         /\ active.kv = SubSeq(req.prompt, 1, Len(active.kv))
    /\ pc = "prefill" /\ req.mode \in {"mtp", "dflash"} => active = EmptySlot
    /\ pc \in {"decode", "emit"} /\ req.mode \in Rounds => active.kv = active.tokens
    /\ pc = "decode" /\ req.mode = "plain" =>
          generated # <<>> /\ Append(active.kv, last) = req.prompt \o generated

CacheInv == TypeOK /\ Shape /\ RowsInv

(* TypeOK of the next state from the types of its parts.                   *)
LEMMA TypeFromParts ==
    ASSUME TypeOK, config' = config, active' \in Slot, backups' \in [Backups -> Slot],
           age' \in [Backups -> Backups], ssm' \in Seq(Tokens),
           snap' \in [valid : BOOLEAN, at : Nat, state : Seq(Tokens)],
           req' \in [prompt : Prompts, budget : Budgets, mode : Modes],
           pc' \in {"idle", "plan", "prefill", "decode", "emit"},
           generated' \in Seq(Tokens), last' \in Tokens, queue' \in Seq(Tokens),
           aborted' \in BOOLEAN, outcome' \in {"new", "returned", "threw"}
    PROVE  TypeOK'
  BY Zenon DEF TypeOK, Slot

(* Taking a slot and cutting it to what the prompt shares with it.         *)
LEMMA PlanReuseEffect ==
    ASSUME TypeOK, RowsInv, pc = "plan", PlanReuse(req.prompt)
    PROVE  /\ active' \in Slot /\ backups' \in [Backups -> Slot]
           /\ age' \in [Backups -> Backups] /\ ssm' \in Seq(Tokens)
           /\ \A b \in Backups : backups'[b].kv = backups'[b].tokens
           /\ Len(active'.kv) < Len(req.prompt)
           /\ active'.kv = SubSeq(req.prompt, 1, Len(active'.kv))
           /\ Len(active'.kv) = Reusable(req.prompt,
                IF SwapWith(req.prompt) = 0 THEN active ELSE backups[SwapWith(req.prompt)])
           /\ Recurrent => active'.tokens = active.tokens
           /\ Recurrent /\ active'.kv # <<>> =>
                 /\ snap.valid /\ snap.at = Len(active.tokens)
                 /\ ssm' = snap.state /\ active'.kv = active.tokens
  <1> DEFINE p == req.prompt
             b == SwapWith(p)
             slot == IF b = 0 THEN active ELSE backups[b]
             keep == Reusable(p, slot)
  <1>1. p \in Seq(Tokens) /\ p # <<>> /\ Len(p) \in Nat
    BY CallTypes
  <1>2. b \in Backups \cup {0} /\ (Recurrent => b = 0)
    BY <1>1, SwapWithType
  <1>3. slot \in Slot /\ slot.kv = slot.tokens
    <2> HIDE DEF b
    <2>1. active.kv = active.tokens /\ \A c \in Backups : backups[c].kv = backups[c].tokens
      BY DEF RowsInv
    <2> QED BY <1>2, <2>1, CacheTypes
  <1>4. slot.tokens \in Seq(Tokens) /\ Len(slot.tokens) \in Nat
    <2> HIDE DEF slot
    <2> QED BY <1>3, LenProperties DEF Slot
  <1>5. /\ keep \in 0 .. Len(p) - 1 /\ keep \in 0 .. Len(slot.tokens)
        /\ SubSeq(p, 1, keep) = SubSeq(slot.tokens, 1, keep)
        /\ Recurrent /\ keep > 0 => snap.valid /\ keep = Len(slot.tokens) /\ keep = snap.at
    <2> HIDE DEF slot
    <2> QED BY <1>1, <1>3, ReusableIsCommon
  <1>6. Truncate(slot.kv, keep) = SubSeq(p, 1, keep)
    <2> HIDE DEF slot, keep
    <2>1. Min({keep, Len(slot.kv)}) = keep
      BY <1>3, <1>4, <1>5, MinOfTwo
    <2> QED BY <1>3, <1>5, <2>1 DEF Truncate
  <1>7. SubSeq(p, 1, keep) \in Seq(Tokens) /\ Len(SubSeq(p, 1, keep)) = keep
    <2> HIDE DEF slot, keep
    <2>1. keep \in 0 .. Len(p)
      BY <1>1, <1>5
    <2> QED BY <1>1, <2>1, PrefixType
  <1>8. /\ active' = [slot EXCEPT !.kv = Truncate(slot.kv, keep)]
        /\ backups' = IF b = 0 THEN backups ELSE [backups EXCEPT ![b] = active]
        /\ age' = IF b = 0 THEN age ELSE Parked(b)
        /\ ssm' = IF Recurrent /\ keep > 0 THEN snap.state ELSE ssm
    BY Zenon DEF PlanReuse
  <1>9. active' \in Slot /\ active'.kv = SubSeq(p, 1, keep) /\ active'.tokens = slot.tokens
    <2> HIDE DEF slot, keep, p
    <2> QED BY <1>3, <1>6, <1>7, <1>8 DEF Slot
  <1>10. backups' \in [Backups -> Slot] /\ \A c \in Backups : backups'[c].kv = backups'[c].tokens
    <2> HIDE DEF b, slot, keep
    <2>1. active.kv = active.tokens /\ \A c \in Backups : backups[c].kv = backups[c].tokens
      BY DEF RowsInv
    <2> QED BY <1>2, <1>8, <2>1, CacheTypes
  <1>11. age' \in [Backups -> Backups] /\ ssm' \in Seq(Tokens)
    <2> HIDE DEF b, slot, keep
    <2> QED BY <1>2, <1>8, CacheTypes, ParkedType
  <1>12. Recurrent => slot = active
    BY <1>2
  <1>13. ASSUME Recurrent, active'.kv # <<>>
         PROVE  /\ snap.valid /\ snap.at = Len(active.tokens)
                /\ ssm' = snap.state /\ active'.kv = active.tokens
    <2> HIDE DEF b, slot, keep, p
    <2>1. keep > 0
      <3>1. keep = 0 => SubSeq(p, 1, keep) = <<>>
        BY SubSeqEmpty
      <3> QED BY <3>1, <1>5, <1>9, <1>13
    <2>2. snap.valid /\ keep = Len(active.tokens) /\ keep = snap.at
      BY <1>5, <1>12, <1>13, <2>1
    <2>3. active'.kv = SubSeq(active.tokens, 1, Len(active.tokens))
      BY <1>5, <1>9, <1>12, <1>13, <2>2
    <2>4. active'.kv = active.tokens
      BY <2>3, CacheTypes, SubSeqFull
    <2> QED BY <1>8, <1>13, <2>1, <2>2, <2>4
  <1>14. Len(active'.kv) = keep
    <2> HIDE DEF keep
    <2> QED BY <1>7, <1>9
  <1>15. Len(active'.kv) = Reusable(req.prompt,
           IF SwapWith(req.prompt) = 0 THEN active ELSE backups[SwapWith(req.prompt)])
    BY <1>14
  <1> HIDE DEF b, slot, keep
  <1>16. Len(active'.kv) < Len(p) /\ active'.kv = SubSeq(p, 1, Len(active'.kv))
    BY <1>1, <1>5, <1>7, <1>9
  <1> QED BY <1>9, <1>10, <1>11, <1>12, <1>13, <1>15, <1>16

(* The prefill completes the prompt.                                       *)
LEMMA PrefillEffect ==
    ASSUME TypeOK, RowsInv, pc = "prefill"
    PROVE  /\ Suffix \in Seq(Tokens) /\ Len(Suffix) \in Nat
           /\ Prefilled = req.prompt
           /\ Absorb(active.kv, ssm, Suffix) \in Seq(Tokens)
  <1> DEFINE p == req.prompt
             n == Len(active.kv)
  <1>1. p \in Seq(Tokens) /\ n \in 0 .. Len(p) /\ active.kv = SubSeq(p, 1, n)
    <2>1. n \in Nat /\ Len(p) \in Nat /\ p \in Seq(Tokens)
      BY CallTypes, CacheTypes
    <2>2. n < Len(p) /\ active.kv = SubSeq(p, 1, n)
      BY DEF RowsInv
    <2> HIDE DEF n, p
    <2> QED BY <2>1, <2>2
  <1>2. Suffix = SubSeq(p, n + 1, Len(p))
    BY Zenon DEF Suffix
  <1> HIDE DEF n, p
  <1>3. Suffix \in Seq(Tokens)
    BY <1>1, <1>2, SuffixType
  <1>4. Len(Suffix) \in Nat
    BY <1>3, LenProperties
  <1>5. Prefilled = p
    BY <1>1, <1>2, SplitAt DEF Prefilled
  <1>6. Absorb(active.kv, ssm, Suffix) \in Seq(Tokens)
    BY <1>3, CacheTypes, AbsorbType
  <1> QED BY <1>3, <1>4, <1>5, <1>6 DEF p

(* What is remembered names the rows.                                      *)
LEMMA RememberEffect ==
    ASSUME TypeOK, NEW kv, NEW s, NEW out \in Seq(Tokens), NEW n \in 0 .. Len(out),
           kv = req.prompt \o SubSeq(out, 1, n), Remember(kv, s, out)
    PROVE  /\ active' = [kv |-> kv, tokens |-> kv]
           /\ snap' = IF Recurrent /\ config.ckpt
                      THEN [valid |-> TRUE, at |-> Len(kv), state |-> s] ELSE snap
  <1> DEFINE p == req.prompt
             take == Min({Max({Len(kv) - Len(p), 0}), Len(out)})
  <1>1. p \in Seq(Tokens) /\ Len(p) \in Nat /\ Len(out) \in Nat
    BY CallTypes, LenProperties
  <1>2. Len(kv) = Len(p) + n
    <2>1. SubSeq(out, 1, n) \in Seq(Tokens) /\ Len(SubSeq(out, 1, n)) = n
      BY PrefixType
    <2> DEFINE h == SubSeq(out, 1, n)
    <2> HIDE DEF h, p
    <2>2. Len(p \o h) = Len(p) + Len(h)
      BY <1>1, <2>1, ConcatProperties DEF h
    <2>3. kv = p \o h
      BY DEF p, h
    <2> QED BY <2>1, <2>2, <2>3 DEF h
  <1>3. Max({Len(kv) - Len(p), 0}) = n
    BY <1>1, <1>2, MaxOfTwo
  <1>4. take = n
    <2> DEFINE x == Max({Len(kv) - Len(p), 0})
    <2>1. x = n
      BY <1>3
    <2> HIDE DEF x
    <2>2. Min({x, Len(out)}) = n
      BY <1>1, <2>1, MinOfTwo
    <2> QED BY <2>2 DEF x
  <1> DEFINE text == p \o SubSeq(out, 1, take)
  <1>5. text = kv
    BY <1>4
  <1>6. /\ active' = [kv |-> kv, tokens |-> text]
        /\ snap' = IF Recurrent /\ config.ckpt
                   THEN [valid |-> TRUE, at |-> Len(text), state |-> s] ELSE snap
    BY Zenon DEF Remember
  <1> HIDE DEF text
  <1> QED BY <1>5, <1>6

(* The pending token and what a round verifies.                            *)
LEMMA RoundEffect ==
    ASSUME TypeOK, Shape, NetworkPicks, pc = "decode", req.mode \in Rounds, NEW d \in Drafts
    PROVE  /\ d \in Seq(Tokens) /\ Committed(d) \in Seq(Tokens) /\ Committed(d) # <<>>
           /\ Absorb(active.kv, ssm, <<last>> \o d) \in Seq(Tokens)
           /\ Rollback(d) \in Seq(Tokens) /\ StateAfterRound(d) \in Seq(Tokens)
           /\ \A i : Verified(d, i) \in Tokens
           /\ active.kv \o Committed(d) \in Seq(Tokens)
           /\ active.tokens \o Committed(d) \in Seq(Tokens)
           /\ Tail(Committed(d)) \in Seq(Tokens)
  <1>1. d \in Seq(Tokens)
    BY DraftType DEF Shape
  <1>2. last \in Tokens /\ active.kv \in Seq(Tokens) /\ active.tokens \in Seq(Tokens)
          /\ ssm \in Seq(Tokens)
    BY CallTypes, CacheTypes
  <1>3. /\ Committed(d) \in Seq(Tokens) /\ <<last>> \o d \in Seq(Tokens)
        /\ SubSeq(d, 1, Accepted(d)) \in Seq(Tokens)
        /\ Tail(Committed(d)) = SubSeq(d, 1, Accepted(d))
    BY <1>1, <1>2, CommittedType
  <1>4. Committed(d) # <<>>
    <2>1. <<last>> \in Seq(Tokens) /\ <<last>> # <<>>
      BY <1>2
    <2> QED BY <1>3, <2>1, ConcatEqualIffEmpty DEF Committed
  <1>5. Absorb(active.kv, ssm, <<last>> \o d) \in Seq(Tokens) /\ Rollback(d) \in Seq(Tokens)
    BY <1>2, <1>3, AbsorbType DEF Rollback
  <1>6. StateAfterRound(d) \in Seq(Tokens)
    BY <1>5, Zenon DEF StateAfterRound
  <1>7. \A i : Verified(d, i) \in Tokens
    BY PicksType DEF Verified
  <1>8. active.kv \o Committed(d) \in Seq(Tokens) /\ active.tokens \o Committed(d) \in Seq(Tokens)
    BY <1>2, <1>3, ConcatProperties
  <1> QED BY <1>1, <1>3, <1>4, <1>5, <1>6, <1>7, <1>8

(* The empty cache is in step.                                             *)
LEMMA CacheInit ==
    ASSUME Init
    PROVE  CacheInv
  <1>1. \E p : p \in Prompts
    BY SessionAssumption
  <1>2. (CHOOSE p \in Prompts : TRUE) \in Prompts /\ (CHOOSE n \in Budgets : TRUE) \in Budgets
    BY SessionAssumption
  <1>3. NoToken \in Tokens
    <2>1. PICK p \in Prompts : p \in Seq(Tokens) /\ p # <<>>
      BY <1>1, SessionAssumption
    <2>2. p[1] \in Tokens
      <3>1. Len(p) \in Nat \ {0}
        BY <2>1, EmptySeq
      <3> QED BY <2>1, <3>1, ElementOfSeq
    <2> QED BY <2>2 DEF NoToken
  <1>4. EmptySlot \in Slot /\ EmptySlot.kv = EmptySlot.tokens
    BY EmptySeq DEF EmptySlot, Slot
  <1>5. NoSnap \in [valid : BOOLEAN, at : Nat, state : Seq(Tokens)]
    BY EmptySeq DEF NoSnap
  <1>6. backups \in [Backups -> Slot] /\ \A b \in Backups : backups[b].kv = backups[b].tokens
    BY <1>4 DEF Init
  <1>7. age \in [Backups -> Backups]
    BY SessionAssumption DEF Init, Backups
  <1>8. req \in [prompt : Prompts, budget : Budgets, mode : Modes] /\ pc = "idle"
    BY <1>2 DEF Init, Modes
  <1>9. <<>> \in Seq(Tokens)
    BY EmptySeq
  <1>10. TypeOK
    BY <1>3, <1>4, <1>5, <1>6, <1>7, <1>8, <1>9 DEF Init, TypeOK, Slot
  <1>11. RowsInv
    BY <1>4, <1>6, <1>8 DEF Init, RowsInv
  <1>12. Shape
    BY <1>8 DEF Shape
  <1> QED BY <1>10, <1>11, <1>12 DEF CacheInv

(* A new call, a refusal and the plan.                                     *)
LEMMA CallKeeps ==
    ASSUME CacheInv, NEW p \in Prompts, NEW n \in Budgets, NEW m \in Modes, Call(p, n, m)
    PROVE  CacheInv'
  <1>1. TypeOK /\ RowsInv /\ Shape
    BY DEF CacheInv
  <1>2. /\ pc = "idle" /\ pc' = "plan" /\ generated' = <<>> /\ queue' = <<>>
        /\ last' = NoToken /\ aborted' = FALSE
        /\ req' = [prompt |-> p, budget |-> n, mode |-> m]
        /\ config' = config /\ active' = active /\ backups' = backups /\ age' = age
        /\ ssm' = ssm /\ snap' = snap /\ outcome' = outcome
    BY Zenon DEF Call, cacheVars
  <1>3. NoToken \in Tokens /\ <<>> \in Seq(Tokens)
    BY <1>1, CallTypes, EmptySeq DEF NoToken
  <1>4. TypeOK'
    <2>1. req' \in [prompt : Prompts, budget : Budgets, mode : Modes]
      BY <1>2
    <2>2. outcome' \in {"new", "returned", "threw"}
      BY <1>1, <1>2 DEF TypeOK
    <2> QED BY <1>1, <1>2, <1>3, <2>1, <2>2, CacheTypes, TypeFromParts
  <1>5. RowsInv'
    BY <1>1, <1>2 DEF RowsInv
  <1>6. Shape'
    BY <1>2 DEF Shape
  <1> QED BY <1>4, <1>5, <1>6 DEF CacheInv

(* A refused call leaves the cache alone.                                  *)
LEMMA RefuseKeeps ==
    ASSUME CacheInv, Refuse
    PROVE  CacheInv'
  <1>1. TypeOK /\ RowsInv /\ Shape
    BY DEF CacheInv
  <1>2. /\ pc = "plan" /\ pc' = "idle" /\ generated' = generated /\ queue' = queue
        /\ last' = last /\ aborted' = aborted /\ req' = req
        /\ config' = config /\ active' = active /\ backups' = backups /\ age' = age
        /\ ssm' = ssm /\ snap' = snap /\ outcome' = "threw"
    BY Zenon DEF Refuse, Answers, cacheVars
  <1>3. TypeOK'
    BY <1>1, <1>2 DEF TypeOK
  <1>4. RowsInv'
    BY <1>1, <1>2 DEF RowsInv
  <1>5. Shape'
    BY <1>2 DEF Shape
  <1> QED BY <1>3, <1>4, <1>5 DEF CacheInv

(* ResetCache leaves an empty slot in sync.                                *)
LEMMA ResetEffect ==
    ASSUME TypeOK, ResetCache
    PROVE  /\ active' = EmptySlot /\ active' \in Slot
           /\ active'.kv = <<>> /\ active'.tokens = <<>> /\ ~snap'.valid
           /\ snap' \in [valid : BOOLEAN, at : Nat, state : Seq(Tokens)]
  <1>1. active' = EmptySlot /\ snap' = [snap EXCEPT !.valid = FALSE]
    BY DEF ResetCache
  <1> QED BY <1>1, CacheTypes, EmptySeq DEF EmptySlot, Slot

(* The slot selection and the reuse leave a prefix of the prompt in the    *)
(* active slot.                                                            *)
LEMMA PlanKeeps ==
    ASSUME CacheInv, Plan
    PROVE  CacheInv'
  <1>1. TypeOK /\ RowsInv /\ Shape
    BY DEF CacheInv
  <1>2. /\ pc = "plan" /\ pc' = "prefill" /\ generated' = generated /\ queue' = queue
        /\ last' = last /\ aborted' = aborted /\ req' = req
        /\ config' = config /\ outcome' = outcome
    BY Zenon DEF Plan
  <1>3. /\ generated = <<>> /\ Len(req.prompt) \in Nat \ {0} /\ req.mode \in Modes
        /\ \A b \in Backups : backups[b].kv = backups[b].tokens
    BY <1>1, <1>2, CallTypes DEF RowsInv
  <1>4. CASE req.mode \in {"plain", "speculative"}
    <2>1. PlanReuse(req.prompt) /\ snap' = snap
      BY <1>4, Zenon DEF Plan
    <2>2. /\ active' \in Slot /\ backups' \in [Backups -> Slot]
          /\ age' \in [Backups -> Backups] /\ ssm' \in Seq(Tokens)
          /\ \A b \in Backups : backups'[b].kv = backups'[b].tokens
          /\ Len(active'.kv) < Len(req.prompt)
          /\ active'.kv = SubSeq(req.prompt, 1, Len(active'.kv))
      BY <1>1, <1>2, <2>1, PlanReuseEffect
    <2>3. TypeOK'
      <3>1. /\ generated' \in Seq(Tokens) /\ last' \in Tokens /\ queue' \in Seq(Tokens)
            /\ aborted' \in BOOLEAN /\ outcome' \in {"new", "returned", "threw"}
            /\ req' \in [prompt : Prompts, budget : Budgets, mode : Modes]
            /\ snap' \in [valid : BOOLEAN, at : Nat, state : Seq(Tokens)]
        BY <1>1, <1>2, <2>1, Zenon DEF TypeOK
      <3> QED BY <1>1, <1>2, <2>2, <3>1, TypeFromParts
    <2>4. RowsInv'
      BY <1>2, <1>3, <1>4, <2>2 DEF RowsInv
    <2>5. Shape'
      BY <1>2 DEF Shape
    <2> QED BY <2>3, <2>4, <2>5 DEF CacheInv
  <1>5. CASE req.mode \notin {"plain", "speculative"}
    <2>1. ResetCache /\ backups' = backups /\ age' = age /\ ssm' = ssm
      BY <1>5, Zenon DEF Plan
    <2>2. /\ active' = EmptySlot /\ active' \in Slot /\ active'.kv = <<>>
          /\ snap' \in [valid : BOOLEAN, at : Nat, state : Seq(Tokens)]
      BY <1>1, <2>1, ResetEffect
    <2>3. TypeOK'
      <3>1. /\ generated' \in Seq(Tokens) /\ last' \in Tokens /\ queue' \in Seq(Tokens)
            /\ aborted' \in BOOLEAN /\ outcome' \in {"new", "returned", "threw"}
            /\ req' \in [prompt : Prompts, budget : Budgets, mode : Modes]
        BY <1>1, <1>2, Zenon DEF TypeOK
      <3> QED BY <1>1, <1>2, <2>1, <2>2, <3>1, CacheTypes, TypeFromParts
    <2>4. RowsInv'
      <3>1. Len(<<>>) = 0 /\ SubSeq(req.prompt, 1, 0) = <<>>
        BY SubSeqEmpty, EmptySeq
      <3>2. EmptySlot' = EmptySlot
        BY DEF EmptySlot
      <3> QED BY <1>2, <1>3, <2>1, <2>2, <3>1, <3>2 DEF RowsInv
    <2>5. Shape'
      BY <1>2 DEF Shape
    <2> QED BY <2>3, <2>4, <2>5 DEF CacheInv
  <1> QED BY <1>4, <1>5

(* The prefills.                                                           *)
LEMMA PrefillPlainKeeps ==
    ASSUME CacheInv, NetworkPicks, PrefillPlain
    PROVE  CacheInv'
  <1>1. TypeOK /\ RowsInv /\ Shape
    BY DEF CacheInv
  <1>2. /\ pc = "prefill" /\ pc' = "decode" /\ req.mode = "plain" /\ queue' = queue
        /\ active' = [active EXCEPT !.kv = Prefilled]
        /\ ssm' = Absorb(active.kv, ssm, Suffix)
        /\ last' = FirstToken(req.prompt) /\ generated' = <<last'>> /\ aborted' \in BOOLEAN
        /\ config' = config /\ backups' = backups /\ age' = age /\ snap' = snap
        /\ req' = req /\ outcome' = outcome
    BY Zenon DEF PrefillPlain
  <1>3. Prefilled = req.prompt /\ ssm' \in Seq(Tokens)
    BY <1>1, <1>2, PrefillEffect
  <1>4. last' \in Tokens
    BY <1>2, PicksType DEF FirstToken
  <1>5. req.prompt \in Seq(Tokens) /\ generated' \in Seq(Tokens) /\ generated' # <<>>
    BY <1>1, <1>2, <1>4, CallTypes
  <1>6. active' \in Slot /\ active'.kv = req.prompt
    BY <1>1, <1>2, <1>3, <1>5, CacheTypes DEF Slot
  <1>7. TypeOK'
    <2>1. /\ queue' \in Seq(Tokens) /\ outcome' \in {"new", "returned", "threw"}
          /\ req' \in [prompt : Prompts, budget : Budgets, mode : Modes]
      BY <1>1, <1>2, Zenon DEF TypeOK
    <2> QED BY <1>1, <1>2, <1>3, <1>4, <1>5, <1>6, <2>1, CacheTypes, TypeFromParts
  <1>8. RowsInv'
    <2>1. Append(active'.kv, last') = req.prompt \o generated'
      BY <1>2, <1>4, <1>5, <1>6, AppendIsConcat
    <2>2. \A b \in Backups : backups'[b].kv = backups'[b].tokens
      BY <1>1, <1>2 DEF RowsInv
    <2> QED BY <1>2, <1>5, <2>1, <2>2 DEF RowsInv, Rounds
  <1>9. Shape'
    BY <1>2 DEF Shape, Rounds
  <1> QED BY <1>7, <1>8, <1>9 DEF CacheInv

(* The prefill of SpeculativeDecoder keeps CacheInv.                       *)
LEMMA PrefillSpeculativeKeeps ==
    ASSUME CacheInv, NetworkPicks, PrefillSpeculative
    PROVE  /\ CacheInv'
           /\ active' = [kv |-> req.prompt, tokens |-> req.prompt]
           /\ snap' = IF Recurrent /\ config.ckpt
                      THEN [valid |-> TRUE, at |-> Len(req.prompt), state |-> ssm'] ELSE snap
  <1>1. TypeOK /\ RowsInv /\ Shape
    BY DEF CacheInv
  <1>2. /\ pc = "prefill" /\ req.mode = "speculative" /\ queue' = queue
        /\ ssm' = Absorb(active.kv, ssm, Suffix)
        /\ last' = FirstToken(req.prompt) /\ generated' = <<last'>> /\ aborted' \in BOOLEAN
        /\ Remember(Prefilled, ssm', generated')
        /\ config' = config /\ backups' = backups /\ age' = age /\ req' = req
    BY Zenon DEF PrefillSpeculative
  <1>3. \/ pc' = "idle" /\ outcome' = "returned"
        \/ pc' = "decode" /\ outcome' = outcome /\ req.budget # 1
    BY Zenon DEF PrefillSpeculative, Answers
  <1>4. Prefilled = req.prompt /\ ssm' \in Seq(Tokens)
    BY <1>1, <1>2, PrefillEffect
  <1>5. last' \in Tokens
    BY <1>2, PicksType DEF FirstToken
  <1>6. /\ req.prompt \in Seq(Tokens) /\ Len(req.prompt) \in Nat /\ req.budget \in Nat \ {0}
        /\ generated' \in Seq(Tokens) /\ Len(generated') = 1
    BY <1>1, <1>2, <1>5, CallTypes
  <1>7. /\ active' = [kv |-> req.prompt, tokens |-> req.prompt]
        /\ snap' = IF Recurrent /\ config.ckpt
                   THEN [valid |-> TRUE, at |-> Len(req.prompt), state |-> ssm'] ELSE snap
    <2>1. SubSeq(generated', 1, 0) = <<>> /\ 0 \in 0 .. Len(generated')
      BY <1>6, SubSeqEmpty
    <2>2. req.prompt = req.prompt \o SubSeq(generated', 1, 0)
      BY <1>6, <2>1, ConcatEmptySeq
    <2> QED BY <1>1, <1>2, <1>4, <1>6, <2>1, <2>2, RememberEffect
  <1>8. active' \in Slot /\ active'.kv = active'.tokens
    BY <1>6, <1>7 DEF Slot
  <1>9. snap' \in [valid : BOOLEAN, at : Nat, state : Seq(Tokens)]
    BY <1>1, <1>4, <1>6, <1>7, CacheTypes
  <1>10. TypeOK'
    <2>1. /\ queue' \in Seq(Tokens) /\ outcome' \in {"new", "returned", "threw"}
          /\ req' \in [prompt : Prompts, budget : Budgets, mode : Modes]
      BY <1>1, <1>2, <1>3, Zenon DEF TypeOK
    <2>2. pc' \in {"idle", "plan", "prefill", "decode", "emit"}
      BY <1>3
    <2> QED BY <1>1, <1>2, <1>4, <1>5, <1>6, <1>8, <1>9, <2>1, <2>2, CacheTypes, TypeFromParts
  <1>11. RowsInv'
    <2>1. \A b \in Backups : backups'[b].kv = backups'[b].tokens
      BY <1>1, <1>2 DEF RowsInv
    <2> QED BY <1>2, <1>3, <1>8, <2>1 DEF RowsInv
  <1>12. Shape'
    BY <1>2, <1>3, <1>6 DEF Shape
  <1> QED BY <1>7, <1>10, <1>11, <1>12 DEF CacheInv

(* The prefill of the MTP and DFlash decoders keeps CacheInv.              *)
LEMMA PrefillDraftedKeeps ==
    ASSUME CacheInv, NetworkPicks, PrefillDrafted
    PROVE  CacheInv'
  <1>1. TypeOK /\ RowsInv /\ Shape
    BY DEF CacheInv
  <1>2. /\ pc = "prefill" /\ pc' = "decode" /\ req.mode \in {"mtp", "dflash"} /\ queue' = queue
        /\ active' = [kv |-> Prefilled, tokens |-> active.tokens \o Suffix]
        /\ ssm' = Absorb(active.kv, ssm, Suffix)
        /\ last' = FirstToken(<<>>) /\ generated' = generated /\ aborted' = aborted
        /\ config' = config /\ backups' = backups /\ age' = age /\ snap' = snap
        /\ req' = req /\ outcome' = outcome
    BY Zenon DEF PrefillDrafted
  <1>3. Prefilled = req.prompt /\ ssm' \in Seq(Tokens) /\ Suffix \in Seq(Tokens)
    BY <1>1, <1>2, PrefillEffect
  <1>4. active = EmptySlot /\ generated = <<>>
    BY <1>1, <1>2 DEF RowsInv
  <1>5. active.tokens \o Suffix = Prefilled
    BY <1>4 DEF EmptySlot, Prefilled
  <1>6. last' \in Tokens
    BY <1>2, PicksType DEF FirstToken
  <1>7. req.prompt \in Seq(Tokens) /\ req.budget \in Nat \ {0} /\ Len(generated) = 0
    BY <1>1, <1>4, CallTypes, EmptySeq
  <1>8. active' \in Slot /\ active'.kv = active'.tokens
    BY <1>2, <1>3, <1>5, <1>7 DEF Slot
  <1>9. TypeOK'
    <2>1. /\ queue' \in Seq(Tokens) /\ outcome' \in {"new", "returned", "threw"}
          /\ req' \in [prompt : Prompts, budget : Budgets, mode : Modes]
          /\ generated' \in Seq(Tokens) /\ aborted' \in BOOLEAN
      BY <1>1, <1>2, Zenon DEF TypeOK
    <2> QED BY <1>1, <1>2, <1>3, <1>6, <1>8, <2>1, CacheTypes, TypeFromParts
  <1>10. RowsInv'
    <2>1. \A b \in Backups : backups'[b].kv = backups'[b].tokens
      BY <1>1, <1>2 DEF RowsInv
    <2> QED BY <1>2, <1>8, <2>1 DEF RowsInv
  <1>11. Shape'
    BY <1>2, <1>7 DEF Shape
  <1> QED BY <1>9, <1>10, <1>11 DEF CacheInv

(* A prefill that throws or is cancelled keeps CacheInv.                   *)
LEMMA PrefillEndsKeeps ==
    ASSUME CacheInv, PrefillEnds
    PROVE  CacheInv'
  <1>1. TypeOK /\ RowsInv /\ Shape
    BY DEF CacheInv
  <1>2. /\ pc = "prefill" /\ pc' = "idle" /\ ResetCache /\ outcome' \in {"threw", "returned"}
        /\ ssm' \in {ssm, Absorb(active.kv, ssm, Suffix)} /\ aborted' \in {aborted, TRUE}
        /\ config' = config /\ backups' = backups /\ age' = age /\ req' = req
        /\ generated' = generated /\ last' = last /\ queue' = queue
    BY Zenon DEF PrefillEnds, Answers
  <1>3. /\ active' \in Slot /\ active'.kv = <<>> /\ active'.tokens = <<>>
        /\ snap' \in [valid : BOOLEAN, at : Nat, state : Seq(Tokens)]
    BY <1>1, <1>2, ResetEffect
  <1>4. ssm' \in Seq(Tokens)
    BY <1>1, <1>2, PrefillEffect, CacheTypes
  <1>5. TypeOK'
    <2>1. /\ queue' \in Seq(Tokens) /\ generated' \in Seq(Tokens) /\ last' \in Tokens
          /\ req' \in [prompt : Prompts, budget : Budgets, mode : Modes]
      BY <1>1, <1>2, Zenon DEF TypeOK
    <2>2. outcome' \in {"new", "returned", "threw"} /\ aborted' \in BOOLEAN
      BY <1>1, <1>2, CallTypes
    <2> QED BY <1>1, <1>2, <1>3, <1>4, <2>1, <2>2, CacheTypes, TypeFromParts
  <1>6. RowsInv'
    <2>1. \A b \in Backups : backups'[b].kv = backups'[b].tokens
      BY <1>1, <1>2 DEF RowsInv
    <2> QED BY <1>2, <1>3, <2>1 DEF RowsInv
  <1>7. Shape'
    BY <1>2 DEF Shape
  <1> QED BY <1>5, <1>6, <1>7 DEF CacheInv

(* The plain decode loop.                                                  *)
LEMMA DecodeStepKeeps ==
    ASSUME CacheInv, NetworkPicks, DecodeStep
    PROVE  CacheInv' /\ active'.kv = Append(active.kv, last) /\ active'.tokens = active.tokens
  <1>1. TypeOK /\ RowsInv /\ Shape
    BY DEF CacheInv
  <1>2. /\ pc = "decode" /\ pc' = pc /\ req.mode = "plain" /\ queue' = queue
        /\ active' = [active EXCEPT !.kv = Append(active.kv, last)]
        /\ ssm' = Absorb(active.kv, ssm, <<last>>)
        /\ last' = Picks(active.kv, ssm, <<last>>, 1, generated)
        /\ generated' = Append(generated, last') /\ aborted' \in BOOLEAN
        /\ config' = config /\ backups' = backups /\ age' = age /\ snap' = snap
        /\ req' = req /\ outcome' = outcome
    BY DEF DecodeStep
  <1>3. /\ last \in Tokens /\ generated \in Seq(Tokens) /\ req.prompt \in Seq(Tokens)
        /\ active \in Slot /\ active.kv \in Seq(Tokens) /\ ssm \in Seq(Tokens)
    BY <1>1, CallTypes, CacheTypes
  <1>4. last' \in Tokens
    BY <1>2, PicksType
  <1>5. /\ generated' \in Seq(Tokens) /\ generated' # <<>>
        /\ Append(active.kv, last) \in Seq(Tokens) /\ <<last>> \in Seq(Tokens)
    BY <1>2, <1>3, <1>4, AppendProperties
  <1>6. active' \in Slot /\ active'.kv = Append(active.kv, last) /\ active'.tokens = active.tokens
    BY <1>2, <1>3, <1>5 DEF Slot
  <1>7. ssm' \in Seq(Tokens)
    BY <1>2, <1>3, <1>5, AbsorbType
  <1>8. TypeOK'
    <2>1. /\ queue' \in Seq(Tokens) /\ outcome' \in {"new", "returned", "threw"}
          /\ req' \in [prompt : Prompts, budget : Budgets, mode : Modes]
          /\ pc' \in {"idle", "plan", "prefill", "decode", "emit"}
      BY <1>1, <1>2, Zenon DEF TypeOK
    <2> QED BY <1>1, <1>2, <1>4, <1>5, <1>6, <1>7, <2>1, CacheTypes, TypeFromParts
  <1>9. RowsInv'
    <2>1. \A b \in Backups : backups'[b].kv = backups'[b].tokens
      BY <1>1, <1>2 DEF RowsInv
    <2>2. Append(active.kv, last) = req.prompt \o generated
      BY <1>1, <1>2 DEF RowsInv
    <2>3. Append(req.prompt \o generated, last') = req.prompt \o Append(generated, last')
      BY <1>3, <1>4, AppendConcat, Zenon
    <2>4. Append(active'.kv, last') = req.prompt \o generated'
      BY <1>2, <1>6, <2>2, <2>3, Zenon
    <2> QED BY <1>2, <1>5, <2>1, <2>4 DEF RowsInv, Rounds
  <1>10. Shape'
    BY <1>2 DEF Shape, Rounds
  <1> QED BY <1>6, <1>8, <1>9, <1>10 DEF CacheInv

(* The end of a call records the rows as the cached tokens.                *)
LEMMA FinishKeeps ==
    ASSUME CacheInv, Finish
    PROVE  /\ CacheInv'
           /\ active' = [kv |-> active.kv, tokens |-> active.kv]
           /\ snap' = IF Recurrent /\ config.ckpt
                      THEN [valid |-> TRUE, at |-> Len(active.kv), state |-> ssm] ELSE snap
  <1>1. TypeOK /\ RowsInv /\ Shape
    BY DEF CacheInv
  <1>2. /\ pc = "decode" /\ pc' = "idle" /\ req.mode = "plain" /\ queue' = queue
        /\ Remember(active.kv, ssm, generated) /\ outcome' = "returned"
        /\ config' = config /\ backups' = backups /\ age' = age /\ ssm' = ssm
        /\ req' = req /\ generated' = generated /\ last' = last /\ aborted' = aborted
    BY Zenon DEF Finish, Answers
  <1>3. /\ last \in Tokens /\ generated \in Seq(Tokens) /\ req.prompt \in Seq(Tokens)
        /\ active.kv \in Seq(Tokens) /\ ssm \in Seq(Tokens) /\ Len(active.kv) \in Nat
        /\ Len(generated) \in Nat
    BY <1>1, CallTypes, CacheTypes
  <1>4. generated # <<>> /\ Append(active.kv, last) = req.prompt \o generated
    BY <1>1, <1>2 DEF RowsInv
  <1>5. active.kv = req.prompt \o SubSeq(generated, 1, Len(generated) - 1)
    BY <1>3, <1>4, AllButLast, ZenonT(40)
  <1>6. Len(generated) - 1 \in 0 .. Len(generated)
    BY <1>3, <1>4, EmptySeq
  <1>7. /\ active' = [kv |-> active.kv, tokens |-> active.kv]
        /\ snap' = IF Recurrent /\ config.ckpt
                   THEN [valid |-> TRUE, at |-> Len(active.kv), state |-> ssm] ELSE snap
    BY <1>1, <1>2, <1>3, <1>5, <1>6, RememberEffect
  <1>8. active' \in Slot /\ active'.kv = active'.tokens
    BY <1>3, <1>7 DEF Slot
  <1>9. snap' \in [valid : BOOLEAN, at : Nat, state : Seq(Tokens)]
    BY <1>1, <1>3, <1>7, CacheTypes
  <1>10. TypeOK'
    <2>1. /\ queue' \in Seq(Tokens) /\ generated' \in Seq(Tokens) /\ last' \in Tokens
          /\ req' \in [prompt : Prompts, budget : Budgets, mode : Modes] /\ aborted' \in BOOLEAN
      BY <1>1, <1>2, Zenon DEF TypeOK
    <2> QED BY <1>1, <1>2, <1>8, <1>9, <2>1, CacheTypes, TypeFromParts
  <1>11. RowsInv'
    <2>1. \A b \in Backups : backups'[b].kv = backups'[b].tokens
      BY <1>1, <1>2 DEF RowsInv
    <2> QED BY <1>2, <1>8, <2>1 DEF RowsInv
  <1>12. Shape'
    BY <1>2 DEF Shape
  <1> QED BY <1>7, <1>10, <1>11, <1>12 DEF CacheInv

(* A decode step that throws keeps CacheInv.                               *)
LEMMA DecodeThrowsKeeps ==
    ASSUME CacheInv, DecodeThrows
    PROVE  CacheInv'
  <1>1. TypeOK /\ RowsInv /\ Shape
    BY DEF CacheInv
  <1>2. /\ pc = "decode" /\ pc' = "idle" /\ ResetCache /\ outcome' = "threw"
        /\ ssm' \in {ssm, Absorb(active.kv, ssm, <<last>>)} /\ aborted' = aborted
        /\ config' = config /\ backups' = backups /\ age' = age /\ req' = req
        /\ generated' = generated /\ last' = last /\ queue' = queue
    BY Zenon DEF DecodeThrows, Answers
  <1>3. /\ active' \in Slot /\ active'.kv = <<>> /\ active'.tokens = <<>>
        /\ snap' \in [valid : BOOLEAN, at : Nat, state : Seq(Tokens)]
    BY <1>1, <1>2, ResetEffect
  <1>4. ssm' \in Seq(Tokens)
    <2>1. <<last>> \in Seq(Tokens) /\ active.kv \in Seq(Tokens) /\ ssm \in Seq(Tokens)
      BY <1>1, CallTypes, CacheTypes
    <2> QED BY <1>2, <2>1, AbsorbType
  <1>5. TypeOK'
    <2>1. /\ queue' \in Seq(Tokens) /\ generated' \in Seq(Tokens) /\ last' \in Tokens
          /\ req' \in [prompt : Prompts, budget : Budgets, mode : Modes] /\ aborted' \in BOOLEAN
      BY <1>1, <1>2, Zenon DEF TypeOK
    <2> QED BY <1>1, <1>2, <1>3, <1>4, <2>1, CacheTypes, TypeFromParts
  <1>6. RowsInv'
    <2>1. \A b \in Backups : backups'[b].kv = backups'[b].tokens
      BY <1>1, <1>2 DEF RowsInv
    <2> QED BY <1>2, <1>3, <2>1 DEF RowsInv
  <1>7. Shape'
    BY <1>2 DEF Shape
  <1> QED BY <1>5, <1>6, <1>7 DEF CacheInv

(* The rounds.                                                             *)
LEMMA RoundKeeps ==
    ASSUME CacheInv, NetworkPicks, NEW d \in Drafts, Round(d)
    PROVE  CacheInv'
  <1>1. TypeOK /\ RowsInv /\ Shape
    BY DEF CacheInv
  <1>2. /\ pc = "decode" /\ pc' = "emit" /\ req.mode \in Rounds
        /\ active' = [kv |-> active.kv \o Committed(d), tokens |-> active.tokens \o Committed(d)]
        /\ ssm' = StateAfterRound(d) /\ last' = Verified(d, Accepted(d) + 1)
        /\ queue' = IF req.mode = "speculative" THEN Append(Tail(Committed(d)), last')
                    ELSE Committed(d)
        /\ config' = config /\ backups' = backups /\ age' = age /\ snap' = snap
        /\ req' = req /\ generated' = generated /\ aborted' = aborted /\ outcome' = outcome
    BY Zenon DEF Round, CommitVerified
  <1>3. /\ Committed(d) \in Seq(Tokens) /\ Committed(d) # <<>>
        /\ ssm' \in Seq(Tokens) /\ last' \in Tokens /\ Tail(Committed(d)) \in Seq(Tokens)
        /\ active.kv \o Committed(d) \in Seq(Tokens)
        /\ active.tokens \o Committed(d) \in Seq(Tokens)
    BY <1>1, <1>2, RoundEffect
  <1>4. active.kv = active.tokens
    BY <1>1, <1>2 DEF RowsInv
  <1>5. active' \in Slot /\ active'.kv = active'.tokens
    BY <1>2, <1>3, <1>4 DEF Slot
  <1>6. queue' \in Seq(Tokens) /\ queue' # <<>>
    <2>1. /\ Append(Tail(Committed(d)), last') \in Seq(Tokens)
          /\ Append(Tail(Committed(d)), last') # <<>>
      BY <1>3, AppendProperties
    <2> QED BY <1>2, <1>3, <2>1
  <1>7. TypeOK'
    <2>1. /\ generated' \in Seq(Tokens) /\ outcome' \in {"new", "returned", "threw"}
          /\ req' \in [prompt : Prompts, budget : Budgets, mode : Modes] /\ aborted' \in BOOLEAN
      BY <1>1, <1>2, Zenon DEF TypeOK
    <2> QED BY <1>1, <1>2, <1>3, <1>5, <1>6, <2>1, CacheTypes, TypeFromParts
  <1>8. RowsInv'
    <2>1. \A b \in Backups : backups'[b].kv = backups'[b].tokens
      BY <1>1, <1>2 DEF RowsInv
    <2> QED BY <1>2, <1>5, <2>1 DEF RowsInv
  <1>9. Shape'
    BY <1>2, <1>6 DEF Shape
  <1> QED BY <1>7, <1>8, <1>9 DEF CacheInv

(* A round that throws keeps CacheInv.                                     *)
LEMMA RoundThrowsKeeps ==
    ASSUME CacheInv, NetworkPicks, RoundThrows
    PROVE  CacheInv'
  <1>1. TypeOK /\ RowsInv /\ Shape
    BY DEF CacheInv
  <1>2. /\ pc = "decode" /\ pc' = "idle" /\ req.mode \in Rounds /\ outcome' = "threw"
        /\ config' = config /\ active' = active /\ backups' = backups /\ age' = age
        /\ snap' = snap /\ req' = req /\ generated' = generated /\ last' = last
        /\ queue' = queue /\ aborted' = aborted
    BY Zenon DEF RoundThrows, Answers
  <1>3. PICK d \in Drafts : ssm' \in {ssm, Absorb(active.kv, ssm, <<last>> \o d), Rollback(d)}
    BY Zenon DEF RoundThrows
  <1>4. ssm' \in Seq(Tokens)
    BY <1>1, <1>2, <1>3, RoundEffect, CacheTypes
  <1>5. TypeOK'
    <2>1. /\ queue' \in Seq(Tokens) /\ generated' \in Seq(Tokens) /\ last' \in Tokens
          /\ req' \in [prompt : Prompts, budget : Budgets, mode : Modes] /\ aborted' \in BOOLEAN
      BY <1>1, <1>2, Zenon DEF TypeOK
    <2> QED BY <1>1, <1>2, <1>4, <2>1, CacheTypes, TypeFromParts
  <1>6. RowsInv'
    BY <1>1, <1>2 DEF RowsInv
  <1>7. Shape'
    BY <1>2 DEF Shape
  <1> QED BY <1>5, <1>6, <1>7 DEF CacheInv

(* Handing out a verified token does not touch the cache.                  *)
LEMMA EmitTokenKeeps ==
    ASSUME CacheInv, EmitToken
    PROVE  CacheInv'
  <1>1. TypeOK /\ RowsInv /\ Shape
    BY DEF CacheInv
  <1>2. /\ pc = "emit" /\ generated' = Append(generated, Head(queue))
        /\ config' = config /\ active' = active /\ backups' = backups /\ age' = age
        /\ ssm' = ssm /\ snap' = snap /\ req' = req /\ last' = last
    BY Zenon DEF EmitToken, cacheVars
  <1>3. aborted' \in BOOLEAN
    BY DEF EmitToken
  <1>4. \/ queue' = <<>> /\ pc' = "idle" /\ outcome' = "returned"
        \/ /\ queue' = Tail(queue) /\ outcome' = outcome
           /\ pc' = IF Len(queue) = 1 THEN "decode" ELSE "emit"
           /\ Len(queue) = 1 => ~(Len(generated') >= req.budget)
    BY DEF EmitToken, Answers
  <1>5. /\ queue \in Seq(Tokens) /\ queue # <<>> /\ req.mode \in Rounds
        /\ generated \in Seq(Tokens) /\ req.budget \in Nat
    BY <1>1, <1>2, CallTypes DEF Shape
  <1>6. /\ Head(queue) \in Tokens /\ Tail(queue) \in Seq(Tokens)
        /\ Len(queue) \in Nat \ {0} /\ Len(Tail(queue)) = Len(queue) - 1
    BY <1>5, HeadTailProperties, EmptySeq
  <1>7. generated' \in Seq(Tokens) /\ Len(generated') \in Nat
    BY <1>2, <1>5, <1>6, AppendProperties, LenProperties
  <1>8. TypeOK'
    <2>1. queue' \in Seq(Tokens)
      BY <1>4, <1>6, EmptySeq
    <2>2. outcome' \in {"new", "returned", "threw"}
      BY <1>1, <1>4 DEF TypeOK
    <2>3. pc' \in {"idle", "plan", "prefill", "decode", "emit"}
      BY <1>4
    <2>4. req' \in [prompt : Prompts, budget : Budgets, mode : Modes] /\ last' \in Tokens
      BY <1>1, <1>2, Zenon DEF TypeOK
    <2> QED BY <1>1, <1>2, <1>3, <1>7, <2>1, <2>2, <2>3, <2>4, CacheTypes, TypeFromParts
  <1>9. RowsInv'
    <2>1. active.kv = active.tokens /\ \A b \in Backups : backups[b].kv = backups[b].tokens
      BY <1>1, <1>2, <1>5 DEF RowsInv
    <2>2. pc' \in {"idle", "decode", "emit"} /\ req.mode # "plain"
      BY <1>4, <1>5 DEF Rounds
    <2> QED BY <1>2, <2>1, <2>2 DEF RowsInv
  <1>10. Shape'
    <2>1. pc' = "emit" => queue' # <<>>
      <3>1. Len(<<>>) = 0
        BY EmptySeq
      <3> QED BY <1>4, <1>6, <3>1
    <2>2. pc' = "decode" => Len(generated') < req.budget
      BY <1>4, <1>5, <1>7
    <2> QED BY <1>2, <1>5, <2>1, <2>2 DEF Shape
  <1> QED BY <1>8, <1>9, <1>10 DEF CacheInv

(* A stuttering step keeps CacheInv.                                       *)
LEMMA CacheStutter ==
    ASSUME CacheInv, UNCHANGED vars
    PROVE  CacheInv'
  <1>1. TypeOK /\ RowsInv /\ Shape
    BY DEF CacheInv
  <1>2. /\ config' = config /\ active' = active /\ backups' = backups /\ age' = age
        /\ ssm' = ssm /\ snap' = snap /\ req' = req /\ pc' = pc /\ generated' = generated
        /\ last' = last /\ queue' = queue /\ aborted' = aborted /\ outcome' = outcome
    BY Zenon DEF vars, cacheVars, callVars
  <1>3. TypeOK'
    BY <1>1, <1>2 DEF TypeOK
  <1>4. RowsInv' /\ Shape'
    BY <1>1, <1>2 DEF RowsInv, Shape
  <1> QED BY <1>3, <1>4 DEF CacheInv

(* CacheInv is inductive: one case per disjunct of Next.                   *)
LEMMA CacheNext ==
    ASSUME CacheInv, NetworkPicks, [Next]_vars
    PROVE  CacheInv'
  <1>1. CASE UNCHANGED vars
    BY <1>1, CacheStutter
  <1>2. CASE \E p \in Prompts, n \in Budgets, m \in Modes : Call(p, n, m)
    BY <1>2, CallKeeps
  <1>3. CASE \E d \in Drafts : Round(d)
    BY <1>3, RoundKeeps
  <1>4. CASE Refuse \/ Plan \/ PrefillPlain \/ PrefillSpeculative \/ PrefillDrafted \/ PrefillEnds
    BY <1>4, RefuseKeeps, PlanKeeps, PrefillPlainKeeps, PrefillSpeculativeKeeps,
       PrefillDraftedKeeps, PrefillEndsKeeps
  <1>5. CASE DecodeStep \/ Finish \/ DecodeThrows \/ RoundThrows \/ EmitToken
    BY <1>5, DecodeStepKeeps, FinishKeeps, DecodeThrowsKeeps, RoundThrowsKeeps, EmitTokenKeeps
  <1> QED BY <1>1, <1>2, <1>3, <1>4, <1>5, Zenon DEF Next, Engine

(* Between calls and between rounds _cachedTokens names exactly the rows   *)
(* of _kvCache, for every network, drafter and failure (generate,          *)
(* commitVerified, resetCache).                                            *)
THEOREM CacheInSyncHolds ==
    ASSUME NetworkPicks
    PROVE  Spec => []CacheInSync
  <1>1. Init => CacheInv
    BY CacheInit
  <1>2. CacheInv /\ [Next]_vars => CacheInv'
    BY CacheNext
  <1>3. CacheInv => CacheInSync
    <2> SUFFICES ASSUME CacheInv PROVE CacheInSync
      OBVIOUS
    <2>1. RowsInv /\ pc \in {"idle", "plan", "prefill", "decode", "emit"}
      BY Zenon DEF CacheInv, TypeOK
    <2> QED BY <2>1 DEF CacheInSync, RowsInv, Settled
  <1> QED BY <1>1, <1>2, <1>3, PTL DEF Spec
-----------------------------------------------------------------------------
(* The recurrent state and its checkpoint                                  *)

Drafted == req.mode \in {"mtp", "dflash"}

(* RecurrentInStep and SnapFaithful strengthened: what holds before the    *)
(* decode loop, and whose checkpoint it is.                                *)
StateInv ==
    /\ pc # "idle" => req.mode \in config.modes
    /\ snap.valid => Recurrent /\ config.ckpt
    /\ snap.valid => ~(Drafted /\ pc \in {"prefill", "decode", "emit"})
    /\ snap.valid /\ snap.at = Len(active.tokens) => snap.state = active.tokens
    /\ Recurrent /\ pc = "prefill" => active.kv = <<>> \/ ssm = active.kv
    /\ Recurrent /\ pc \in {"decode", "emit"} => ssm = active.kv

(* The empty recurrent state equals the empty rows.                        *)
LEMMA StateInit ==
    ASSUME Init
    PROVE  StateInv
  BY DEF Init, StateInv, NoSnap

(* A recurrent model is not in the speculative loop.                       *)
LEMMA NotSpeculative ==
    ASSUME TypeOK, StateInv, SpeculationIsRestored, Recurrent, pc # "idle"
    PROVE  req.mode # "speculative"
  BY DEF TypeOK, StateInv, SpeculationIsRestored, Recurrent

(* A new call does not touch the recurrent state.                          *)
LEMMA StateCall ==
    ASSUME CacheInv, StateInv, NEW p \in Prompts, NEW n \in Budgets, NEW m \in Modes,
           Call(p, n, m)
    PROVE  StateInv'
  <1>1. /\ pc' = "plan" /\ req'.mode = m /\ m \in config.modes
        /\ config' = config /\ active' = active /\ ssm' = ssm /\ snap' = snap
    BY DEF Call, cacheVars
  <1> QED BY <1>1 DEF StateInv, Recurrent

(* The reuse restores the checkpoint or resets state and rows together.    *)
LEMMA StatePlan ==
    ASSUME CacheInv, StateInv, Plan
    PROVE  StateInv'
  <1>1. TypeOK /\ RowsInv
    BY DEF CacheInv
  <1>2. pc = "plan" /\ pc' = "prefill" /\ req' = req /\ config' = config
    BY Zenon DEF Plan
  <1>3. CASE req.mode \in {"plain", "speculative"}
    <2>1. PlanReuse(req.prompt) /\ snap' = snap
      BY <1>3, Zenon DEF Plan
    <2>2. /\ Recurrent => active'.tokens = active.tokens
          /\ Recurrent /\ active'.kv # <<>> =>
                /\ snap.valid /\ snap.at = Len(active.tokens)
                /\ ssm' = snap.state /\ active'.kv = active.tokens
      BY <1>1, <1>2, <2>1, PlanReuseEffect
    <2> QED BY <1>2, <1>3, <2>1, <2>2 DEF StateInv, Recurrent, Drafted
  <1>4. CASE req.mode \notin {"plain", "speculative"}
    <2>1. ResetCache
      BY <1>4, Zenon DEF Plan
    <2>2. active'.kv = <<>> /\ ~snap'.valid
      BY <1>1, <2>1, ResetEffect
    <2> QED BY <1>2, <2>2 DEF StateInv, Recurrent
  <1> QED BY <1>3, <1>4

(* A prefill brings a state in step with the rows to the whole prompt.     *)
LEMMA PrefillInStep ==
    ASSUME CacheInv, StateInv, pc = "prefill", Recurrent
    PROVE  Absorb(active.kv, ssm, Suffix) = req.prompt
  <1>1. TypeOK /\ RowsInv
    BY DEF CacheInv
  <1>2. Suffix \in Seq(Tokens) /\ Prefilled = req.prompt
    BY <1>1, PrefillEffect
  <1>3. active.kv \in Seq(Tokens) /\ ssm \in Seq(Tokens) /\ (active.kv = <<>> \/ ssm = active.kv)
    BY <1>1, CacheTypes DEF StateInv
  <1>4. Absorb(active.kv, ssm, Suffix) = active.kv \o Suffix
    BY <1>2, <1>3, ForwardInStep
  <1> QED BY <1>2, <1>4 DEF Prefilled

(* Every prefill advances state and rows by the same tokens.               *)
LEMMA StatePrefill ==
    ASSUME CacheInv, StateInv, NetworkPicks, SpeculationIsRestored,
           PrefillPlain \/ PrefillSpeculative \/ PrefillDrafted
    PROVE  StateInv'
  <1>1. TypeOK /\ RowsInv
    BY DEF CacheInv
  <1>2. /\ pc = "prefill" /\ config' = config /\ req' = req
        /\ ssm' = Absorb(active.kv, ssm, Suffix)
    BY Zenon DEF PrefillPlain, PrefillSpeculative, PrefillDrafted
  <1>3. /\ Prefilled = req.prompt
        /\ Recurrent => ssm' = req.prompt
    BY <1>1, <1>2, PrefillEffect, PrefillInStep
  <1>4. req.mode \in config.modes /\ req.mode \in Modes
    BY <1>1, <1>2, CallTypes DEF StateInv
  <1>5. CASE PrefillPlain
    <2>1. /\ pc' = "decode" /\ req.mode = "plain" /\ snap' = snap
          /\ active' = [active EXCEPT !.kv = Prefilled]
      BY <1>5, Zenon DEF PrefillPlain
    <2>2. active'.kv = req.prompt /\ active'.tokens = active.tokens
      BY <1>1, <1>3, <2>1, CacheTypes DEF Slot
    <2> QED BY <1>2, <1>3, <1>4, <2>1, <2>2 DEF StateInv, Recurrent, Drafted
  <1>6. CASE PrefillSpeculative
    <2>1. req.mode = "speculative" /\ ~Recurrent
      <3>1. req.mode = "speculative"
        BY <1>6, Zenon DEF PrefillSpeculative
      <3> QED BY <1>1, <1>2, <3>1, NotSpeculative
    <2>2. snap' = snap
      BY <1>6, <2>1, PrefillSpeculativeKeeps
    <2> QED BY <1>2, <1>4, <2>1, <2>2 DEF StateInv, Recurrent, Drafted
  <1>7. CASE PrefillDrafted
    <2>1. /\ pc' = "decode" /\ Drafted /\ snap' = snap
          /\ active' = [kv |-> Prefilled, tokens |-> active.tokens \o Suffix]
      BY <1>7, Zenon DEF PrefillDrafted, Drafted
    <2>2. active'.kv = req.prompt /\ ~snap'.valid
      BY <1>2, <1>3, <2>1 DEF StateInv
    <2> QED BY <1>2, <1>3, <1>4, <2>1, <2>2 DEF StateInv, Recurrent
  <1> QED BY <1>5, <1>6, <1>7

(* A call that ends in ResetCache leaves no checkpoint.                    *)
LEMMA StateReset ==
    ASSUME CacheInv, ResetCache, pc' = "idle"
    PROVE  StateInv'
  <1>1. ~snap'.valid
    BY ResetEffect DEF CacheInv
  <1> QED BY <1>1 DEF StateInv

(* A decode step advances state and rows by the pending token.             *)
LEMMA StateDecodeStep ==
    ASSUME CacheInv, StateInv, NetworkPicks, DecodeStep
    PROVE  StateInv'
  <1>1. TypeOK
    BY DEF CacheInv
  <1>2. /\ pc = "decode" /\ pc' = pc /\ req.mode = "plain" /\ req' = req /\ config' = config
        /\ ssm' = Absorb(active.kv, ssm, <<last>>) /\ snap' = snap
    BY Zenon DEF DecodeStep
  <1>3. active'.kv = Append(active.kv, last) /\ active'.tokens = active.tokens
    BY DecodeStepKeeps
  <1>4. ASSUME Recurrent PROVE ssm' = active'.kv
    <2>1. /\ active.kv \in Seq(Tokens) /\ ssm \in Seq(Tokens) /\ last \in Tokens
          /\ <<last>> \in Seq(Tokens) /\ ssm = active.kv
      BY <1>1, <1>2, <1>4, CallTypes, CacheTypes DEF StateInv
    <2>2. Absorb(active.kv, ssm, <<last>>) = active.kv \o <<last>>
      BY <1>4, <2>1, ForwardInStep
    <2>3. Append(active.kv, last) = active.kv \o <<last>>
      BY <2>1, AppendIsConcat
    <2> QED BY <1>2, <1>3, <2>2, <2>3
  <1> QED BY <1>2, <1>3, <1>4 DEF StateInv, Recurrent, Drafted

(* The checkpoint taken at the end of a call is the state after its rows.  *)
LEMMA StateFinish ==
    ASSUME CacheInv, StateInv, Finish
    PROVE  StateInv'
  <1>1. pc = "decode" /\ pc' = "idle" /\ req.mode = "plain" /\ config' = config /\ req' = req
    BY Zenon DEF Finish, Answers
  <1>2. /\ active' = [kv |-> active.kv, tokens |-> active.kv]
        /\ snap' = IF Recurrent /\ config.ckpt
                   THEN [valid |-> TRUE, at |-> Len(active.kv), state |-> ssm] ELSE snap
    BY FinishKeeps
  <1>3. CASE Recurrent /\ config.ckpt
    <2>1. ssm = active.kv
      BY <1>1, <1>3 DEF StateInv
    <2> QED BY <1>1, <1>2, <1>3, <2>1 DEF StateInv, Recurrent
  <1>4. CASE ~(Recurrent /\ config.ckpt)
    <2>1. ~snap'.valid
      BY <1>2, <1>4 DEF StateInv
    <2> QED BY <1>1, <2>1 DEF StateInv
  <1> QED BY <1>3, <1>4

(* After a round the state has absorbed what was committed, and no         *)
(* rejected draft.                                                         *)
LEMMA StateRound ==
    ASSUME CacheInv, StateInv, NetworkPicks, SpeculationIsRestored, NEW d \in Drafts, Round(d)
    PROVE  StateInv'
  <1>1. TypeOK /\ Shape
    BY DEF CacheInv
  <1>2. /\ pc = "decode" /\ pc' = "emit" /\ req.mode \in Rounds
        /\ active' = [kv |-> active.kv \o Committed(d), tokens |-> active.tokens \o Committed(d)]
        /\ ssm' = StateAfterRound(d) /\ snap' = snap /\ config' = config /\ req' = req
    BY Zenon DEF Round, CommitVerified
  <1>3. ~snap.valid
    <2>1. CASE Drafted
      BY <1>2, <2>1 DEF StateInv
    <2>2. CASE ~Drafted
      <3>1. req.mode = "speculative"
        BY <1>2, <2>2 DEF Drafted, Rounds
      <3>2. ~Recurrent
        BY <1>1, <1>2, <3>1, NotSpeculative
      <3> QED BY <3>2 DEF StateInv
    <2> QED BY <2>1, <2>2
  <1>4. ASSUME Recurrent PROVE ssm' = active'.kv
    <2>1. req.mode # "speculative"
      BY <1>1, <1>2, <1>4, NotSpeculative
    <2>2. ssm' = Absorb(active.kv, ssm, Committed(d))
      BY <1>2, <2>1 DEF StateAfterRound, Rollback
    <2>3. active.kv \in Seq(Tokens) /\ ssm \in Seq(Tokens) /\ ssm = active.kv
      BY <1>1, <1>2, <1>4, CacheTypes DEF StateInv
    <2>4. Committed(d) \in Seq(Tokens)
      BY <1>1, <1>2, RoundEffect
    <2>5. Absorb(active.kv, ssm, Committed(d)) = active.kv \o Committed(d)
      BY <1>4, <2>3, <2>4, ForwardInStep
    <2> QED BY <1>2, <2>2, <2>5
  <1> QED BY <1>2, <1>3, <1>4 DEF StateInv, Recurrent

(* A round that throws ends the call and changes neither rows nor          *)
(* checkpoint.                                                             *)
LEMMA StateRoundThrows ==
    ASSUME StateInv, RoundThrows
    PROVE  StateInv'
  <1>1. pc' = "idle" /\ active' = active /\ snap' = snap /\ config' = config /\ req' = req
    BY Zenon DEF RoundThrows, Answers
  <1> QED BY <1>1 DEF StateInv, Recurrent

(* Handing out a verified token does not touch the recurrent state.        *)
LEMMA StateEmitToken ==
    ASSUME CacheInv, StateInv, EmitToken
    PROVE  StateInv'
  <1>1. /\ pc = "emit" /\ active' = active /\ ssm' = ssm /\ snap' = snap
        /\ config' = config /\ req' = req
    BY Zenon DEF EmitToken, cacheVars
  <1>2. pc' \in {"idle", "decode", "emit"}
    BY DEF EmitToken, Answers
  <1> QED BY <1>1, <1>2 DEF StateInv, Recurrent, Drafted

(* StateInv is inductive: one case per disjunct of Next.                   *)
LEMMA StateNext ==
    ASSUME CacheInv, StateInv, NetworkPicks, SpeculationIsRestored, [Next]_vars
    PROVE  StateInv'
  <1>1. CASE UNCHANGED vars \/ Refuse
    <2>1. /\ active' = active /\ ssm' = ssm /\ snap' = snap /\ config' = config /\ req' = req
          /\ (pc' = pc \/ pc' = "idle")
      BY <1>1, Zenon DEF Refuse, Answers, vars, cacheVars, callVars
    <2> QED BY <2>1 DEF StateInv, Recurrent, Drafted
  <1>2. CASE \E p \in Prompts, n \in Budgets, m \in Modes : Call(p, n, m)
    BY <1>2, StateCall
  <1>3. CASE \E d \in Drafts : Round(d)
    BY <1>3, StateRound
  <1>4. CASE Plan \/ PrefillPlain \/ PrefillSpeculative \/ PrefillDrafted
    BY <1>4, StatePlan, StatePrefill
  <1>5. CASE PrefillEnds \/ DecodeThrows
    <2>1. ResetCache /\ pc' = "idle"
      BY <1>5, Zenon DEF PrefillEnds, DecodeThrows, Answers
    <2> QED BY <2>1, StateReset
  <1>6. CASE DecodeStep \/ Finish \/ RoundThrows \/ EmitToken
    BY <1>6, StateDecodeStep, StateFinish, StateRoundThrows, StateEmitToken
  <1> QED BY <1>1, <1>2, <1>3, <1>4, <1>5, <1>6, Zenon DEF Next, Engine

(* The recurrent state has absorbed the rows of the cache and nothing      *)
(* else while a call decodes, also after rejected drafts (MtpDecoder's and *)
(* DFlashDecoder's restore and replay), if SpeculativeDecoder, which does  *)
(* not restore it, serves no recurrent model.                              *)
THEOREM RecurrentInStepHolds ==
    ASSUME NetworkPicks, SpeculationIsRestored
    PROVE  Spec => []RecurrentInStep
  <1>1. Init => CacheInv /\ StateInv
    BY CacheInit, StateInit
  <1>2. CacheInv /\ StateInv /\ [Next]_vars => CacheInv' /\ StateInv'
    BY CacheNext, StateNext
  <1>3. StateInv => RecurrentInStep
    BY DEF StateInv, RecurrentInStep
  <1> QED BY <1>1, <1>2, <1>3, PTL DEF Spec

(* The checkpoint a continuation would restore is the state after exactly  *)
(* the tokens it would be restored for (planPrefixReuse).                  *)
THEOREM SnapFaithfulHolds ==
    ASSUME NetworkPicks, SpeculationIsRestored
    PROVE  Spec => []SnapFaithful
  <1>1. Init => CacheInv /\ StateInv
    BY CacheInit, StateInit
  <1>2. CacheInv /\ StateInv /\ [Next]_vars => CacheInv' /\ StateInv'
    BY CacheNext, StateNext
  <1>3. StateInv => SnapFaithful
    BY DEF StateInv, SnapFaithful
  <1> QED BY <1>1, <1>2, <1>3, PTL DEF Spec
-----------------------------------------------------------------------------
(* A continued prompt resumes                                              *)

(* longestCommonPrefix with a prefix is all of it.                         *)
LEMMA LcpOfPrefix ==
    ASSUME NEW p \in Seq(Tokens), NEW t \in Seq(Tokens), IsStrictPrefix(t, p)
    PROVE  /\ Lcp(p, t) = Len(t) /\ Len(t) < Len(p)
           /\ t = SubSeq(p, 1, Len(t))
  <1> DEFINE S == {k \in 0 .. Len(t) : SubSeq(p, 1, k) = SubSeq(t, 1, k)}
  <1>1. Len(p) \in Nat /\ Len(t) \in Nat
    OBVIOUS
  <1>2. Len(t) <= Len(p) /\ SubSeq(t, 1, Len(t)) = SubSeq(p, 1, Len(t)) /\ t # p
    BY DEF IsStrictPrefix, IsPrefix
  <1>3. t = SubSeq(t, 1, Len(t)) /\ p = SubSeq(p, 1, Len(p))
    BY SubSeqFull
  <1>4. Len(t) # Len(p)
    BY <1>2, <1>3
  <1>5. Min({Len(p), Len(t)}) = Len(t)
    BY <1>1, <1>2, MinOfTwo
  <1>6. Lcp(p, t) = Max(S)
    BY <1>5 DEF Lcp
  <1>7. Len(t) \in S /\ S \in SUBSET (0 .. Len(t))
    BY <1>1, <1>2
  <1>8. Max(S) \in 0 .. Len(t) /\ Len(t) <= Max(S)
    <2> HIDE DEF S
    <2> QED BY <1>1, <1>7, MaxExists
  <1>9. Lcp(p, t) = Len(t)
    <2> HIDE DEF S
    <2> QED BY <1>1, <1>6, <1>8
  <1>10. t = SubSeq(p, 1, Len(t))
    BY <1>2, <1>3, Zenon
  <1>11. Len(t) < Len(p)
    BY <1>1, <1>2, <1>4
  <1> QED BY <1>9, <1>10, <1>11, Zenon

(* Without a recurrent state, a slot the prompt continues is kept whole by *)
(* the plan.                                                               *)
LEMMA PlanResumes ==
    ASSUME CacheInv, Plan, ~Recurrent, req.mode \in {"plain", "speculative"},
           NEW slot \in {active} \cup {backups[b] : b \in Backups}, Resumable(slot)
    PROVE  IsPrefix(slot.tokens, active'.kv)
  <1> DEFINE p == req.prompt
             L(s) == Lcp(p, s.tokens)
             b == SwapWith(p)
             taken == IF b = 0 THEN active ELSE backups[b]
  <1>1. TypeOK /\ RowsInv /\ pc = "plan" /\ PlanReuse(p)
    BY Zenon DEF CacheInv, Plan
  <1>2. p \in Seq(Tokens) /\ Len(p) \in Nat
    BY <1>1, CallTypes
  <1>3. /\ active.tokens \in Seq(Tokens)
        /\ \A c \in Backups : backups[c].tokens \in Seq(Tokens)
        /\ slot.tokens \in Seq(Tokens)
    BY <1>1, CacheTypes DEF Slot
  <1>4. L(active) \in Nat /\ \A c \in Backups : L(backups[c]) \in Nat
    <2>1. L(active) \in 0 .. Len(p) /\ \A c \in Backups : L(backups[c]) \in 0 .. Len(p)
      BY <1>2, <1>3, LcpIsCommon
    <2> HIDE DEF L, p
    <2> QED BY <1>2, <2>1
  <1>5. /\ L(slot) = Len(slot.tokens) /\ Len(slot.tokens) < Len(p)
        /\ slot.tokens = SubSeq(p, 1, Len(slot.tokens))
    BY <1>2, <1>3, LcpOfPrefix DEF Resumable
  <1>6. slot = active \/ L(slot) > L(active)
    BY <1>5 DEF Resumable
  <1>7. BetterBackups(p) = {c \in Backups : L(backups[c]) > L(active)}
    BY DEF BetterBackups
  <1>8. L(slot) <= L(taken) /\ taken \in Slot
    <2>1. CASE BetterBackups(p) # {}
      <3>1. /\ BestBackup(p) \in BetterBackups(p)
            /\ \A c \in BetterBackups(p) : L(backups[c]) <= L(backups[BestBackup(p)])
        BY <1>1, <1>2, <2>1, BestBackupType
      <3>2. NBackups # 0
        BY <1>7, <2>1, SessionAssumption DEF Backups
      <3>3. b = BestBackup(p)
        BY <2>1, <3>2 DEF SwapWith
      <3>4. b \in Backups /\ b # 0 /\ L(backups[b]) > L(active)
        <4> HIDE DEF b, L
        <4> QED BY <1>7, <3>1, <3>3, SessionAssumption DEF Backups
      <3>5. taken = backups[b]
        BY <3>4
      <3>6. \A c \in BetterBackups(p) : L(backups[c]) <= L(taken)
        <4> HIDE DEF b, L, taken
        <4> QED BY <3>1, <3>3, <3>5
      <3>7. L(slot) <= L(taken)
        <4> HIDE DEF b, L, taken
        <4>1. CASE slot = active
          BY <1>4, <3>4, <3>5, <4>1
        <4>2. CASE slot # active
          BY <1>6, <1>7, <3>6, <4>2
        <4> QED BY <4>1, <4>2
      <3> QED BY <1>1, <3>4, <3>5, <3>7, CacheTypes
    <2>2. CASE BetterBackups(p) = {}
      <3>1. slot = active
        <4> HIDE DEF L, p
        <4> QED BY <1>6, <1>7, <2>2
      <3>2. ContinuesActive(p)
        BY <1>3, <1>5, <3>1, SessionAssumption DEF ContinuesActive
      <3>3. b = 0
        BY <2>2, <3>2 DEF SwapWith
      <3>4. taken = active
        BY <3>3
      <3> HIDE DEF L, taken
      <3> QED BY <1>1, <1>4, <3>1, <3>4, CacheTypes
    <2> QED BY <2>1, <2>2
  <1>9. Len(active'.kv) = Reusable(p, taken) /\ active'.kv = SubSeq(p, 1, Len(active'.kv))
    BY <1>1, PlanReuseEffect
  <1>10. Reusable(p, taken) = Min({L(taken), Len(p) - 1})
    BY DEF Reusable
  <1>11. L(taken) \in 0 .. Len(p)
    <2>1. taken.tokens \in Seq(Tokens)
      <3> HIDE DEF taken
      <3> QED BY <1>8 DEF Slot
    <2> HIDE DEF taken
    <2> QED BY <1>2, <2>1, LcpIsCommon
  <1>12. Len(active'.kv) \in 0 .. Len(p) /\ Len(slot.tokens) <= Len(active'.kv)
    <2>1. Len(slot.tokens) \in Nat
      BY <1>3, LenProperties
    <2> HIDE DEF L, taken, p
    <2>2. Min({L(taken), Len(p) - 1}) = IF L(taken) <= Len(p) - 1 THEN L(taken) ELSE Len(p) - 1
      BY <1>2, <1>11, MinOfTwo
    <2> QED BY <1>2, <1>5, <1>8, <1>9, <1>10, <1>11, <2>1, <2>2
  <1>13. PICK n \in 0 .. Len(p) : n = Len(active'.kv)
    BY <1>12
  <1>14. Len(slot.tokens) \in 0 .. n
    BY <1>3, <1>12, <1>13, LenProperties
  <1>15. SubSeq(SubSeq(p, 1, n), 1, Len(slot.tokens)) = SubSeq(p, 1, Len(slot.tokens))
    BY <1>2, <1>14, PrefixOfPrefix
  <1>16. SubSeq(slot.tokens, 1, Len(slot.tokens)) = slot.tokens
    BY <1>3, SubSeqFull
  <1>17. SubSeq(slot.tokens, 1, Len(slot.tokens)) = SubSeq(active'.kv, 1, Len(slot.tokens))
    BY <1>5, <1>9, <1>13, <1>15, <1>16
  <1> QED BY <1>12, <1>17 DEF IsPrefix

(* Without recurrent state, a prompt that continues the text of the active *)
(* slot, or of a parked one that matches strictly more of it than the      *)
(* active slot does, resumes with every row of that slot, however the      *)
(* slots were swapped and parked before (selectPrefixSlot,                 *)
(* planPrefixReuse).  Nothing is said of a parked slot that ties with the  *)
(* active one, which selectPrefixSlot keeps, nor of recurrent models.      *)
THEOREM ContinuationResumesHolds ==
    ASSUME NetworkPicks
    PROVE  Spec => ContinuationResumes
  <1> DEFINE A == pc = "plan" /\ pc' = "prefill" /\ ~Recurrent
                    /\ req.mode \in {"plain", "speculative"} =>
                  \A slot \in {active} \cup {backups[b] : b \in Backups} :
                      Resumable(slot) => IsPrefix(slot.tokens, active'.kv)
  <1>1. Init => CacheInv
    BY CacheInit
  <1>2. CacheInv /\ [Next]_vars => CacheInv'
    BY CacheNext
  <1>3. CacheInv /\ [Next]_vars => [A]_vars
    <2> SUFFICES ASSUME CacheInv, Next, pc = "plan", pc' = "prefill", ~Recurrent,
                        req.mode \in {"plain", "speculative"},
                        NEW slot \in {active} \cup {backups[b] : b \in Backups}, Resumable(slot)
                 PROVE  IsPrefix(slot.tokens, active'.kv)
      BY Zenon
    <2>1. Plan
      BY DEF Next, Engine, Refuse, PrefillPlain, PrefillSpeculative, PrefillDrafted,
             PrefillEnds, DecodeStep, Finish, DecodeThrows, Round, RoundThrows, EmitToken,
             Call, Answers
    <2> QED BY <2>1, PlanResumes
  <1> QED BY <1>1, <1>2, <1>3, PTL DEF Spec, ContinuationResumes
=============================================================================
