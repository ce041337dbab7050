------------------------ MODULE EngineRefinementProofs ------------------------
(***************************************************************************)
(* EngineSession implements GreedyDecoder, for every network, vocabulary,  *)
(* set of prompts, context size and drafter: with the prefix cache, the    *)
(* recurrent state, the checkpoint and the drafts in between, the caller   *)
(* sees the answer that the target alone would have picked.                *)
(***************************************************************************)
EXTENDS EngineSessionProofs

(* What has been handed out and what this round has verified.              *)
Whole == generated \o queue

(* The target's pick after the prompt and the text t.                      *)
NextOf(t) == Greedy(req.prompt \o t, IF req.mode = "speculative" THEN t ELSE <<>>)

(* The plain loop has handed out what it has sampled, within the budget.   *)
(* The hard cap leaves room for all of it.                                 *)
PlainInv ==
    /\ pc \in {"prefill", "decode"} /\ req.mode = "plain" => Fits
    /\ pc = "decode" /\ req.mode = "plain" => Len(generated) <= req.budget

(* What the rounds have verified and not handed out is the greedy answer,  *)
(* the rows are the whole text, and the answer is not over yet.            *)
RoundInv ==
    pc \in {"decode", "emit"} /\ req.mode \in Rounds =>
        /\ ~aborted /\ Len(generated) < req.budget
        /\ generated # <<>> => generated[Len(generated)] \notin StopTokens
        /\ pc = "decode" => queue = <<>>
        /\ \A j \in Len(generated) + 1 .. Len(Whole) : Whole[j] = NextOf(SubSeq(Whole, 1, j - 1))
        /\ req.mode = "speculative" =>
              /\ generated # <<>> /\ Len(Whole) <= req.budget
              /\ Append(active.kv, last) = req.prompt \o Whole
        /\ req.mode # "speculative" =>
              active.kv = req.prompt \o Whole /\ last = NextOf(Whole)

GreedyInv ==
    /\ pc \in {"plan", "prefill"} => ~aborted /\ queue = <<>>
    /\ PlainInv /\ RoundInv
-----------------------------------------------------------------------------
(* Sequences                                                               *)

(* The elements of a concatenation.                                        *)
LEMMA ConcatAt ==
    ASSUME NEW T, NEW s \in Seq(T), NEW t \in Seq(T)
    PROVE  /\ s \o t \in Seq(T) /\ Len(s \o t) = Len(s) + Len(t)
           /\ \A i \in 1 .. Len(s) : (s \o t)[i] = s[i]
           /\ \A i \in 1 .. Len(t) : (s \o t)[Len(s) + i] = t[i]
  <1>1. Len(s) \in Nat /\ Len(t) \in Nat
    OBVIOUS
  <1>2. /\ s \o t \in Seq(T) /\ Len(s \o t) = Len(s) + Len(t)
        /\ \A i \in 1 .. Len(s) + Len(t) :
              (s \o t)[i] = IF i <= Len(s) THEN s[i] ELSE t[i - Len(s)]
    BY ConcatProperties
  <1> DEFINE c == s \o t
  <1> HIDE DEF c
  <1>3. \A i \in 1 .. Len(s) + Len(t) : c[i] = IF i <= Len(s) THEN s[i] ELSE t[i - Len(s)]
    BY <1>2 DEF c
  <1>4. \A i \in 1 .. Len(s) : c[i] = s[i]
    BY <1>1, <1>3
  <1>5. ASSUME NEW i \in 1 .. Len(t) PROVE c[Len(s) + i] = t[i]
    <2>1. Len(s) + i \in 1 .. Len(s) + Len(t) /\ ~(Len(s) + i <= Len(s))
            /\ Len(s) + i - Len(s) = i
      BY <1>1
    <2> QED BY <1>3, <2>1
  <1> QED BY <1>2, <1>4, <1>5 DEF c

(* A prefix of s \o t that reaches into t.                                 *)
LEMMA ConcatPrefix ==
    ASSUME NEW T, NEW s \in Seq(T), NEW t \in Seq(T), NEW i \in 0 .. Len(t)
    PROVE  SubSeq(s \o t, 1, Len(s) + i) = s \o SubSeq(t, 1, i)
  <1> DEFINE c == s \o t
             h == SubSeq(t, 1, i)
             p == SubSeq(c, 1, Len(s) + i)
             q == s \o h
  <1>1. Len(s) \in Nat /\ Len(t) \in Nat
    OBVIOUS
  <1>2. /\ c \in Seq(T) /\ Len(c) = Len(s) + Len(t)
        /\ \A k \in 1 .. Len(s) : c[k] = s[k]
        /\ \A k \in 1 .. Len(t) : c[Len(s) + k] = t[k]
    BY ConcatAt
  <1>3. h \in Seq(T) /\ Len(h) = i /\ \A k \in 1 .. i : h[k] = t[k]
    BY PrefixType
  <1>4. /\ q \in Seq(T) /\ Len(q) = Len(s) + i
        /\ \A k \in 1 .. Len(s) : q[k] = s[k]
        /\ \A k \in 1 .. i : q[Len(s) + k] = h[k]
    <2>1. /\ q \in Seq(T) /\ Len(q) = Len(s) + Len(h)
          /\ \A k \in 1 .. Len(s) : q[k] = s[k]
          /\ \A k \in 1 .. Len(h) : q[Len(s) + k] = h[k]
      BY <1>3, ConcatAt
    <2> HIDE DEF q, h
    <2> QED BY <1>3, <2>1
  <1> HIDE DEF h
  <1>5. /\ p \in Seq(T) /\ Len(p) = Len(s) + i
        /\ \A k \in 1 .. Len(s) + i : p[k] = c[k]
    <2>1. Len(s) + i \in 0 .. Len(c)
      BY <1>1, <1>2
    <2> QED BY <1>2, <2>1, PrefixType
  <1> HIDE DEF p, q, c
  <1>6. ASSUME NEW k \in 1 .. Len(s) + i PROVE p[k] = q[k]
    <2>1. CASE k <= Len(s)
      BY <1>1, <1>2, <1>4, <1>5, <2>1
    <2>2. CASE ~(k <= Len(s))
      <3>1. PICK m \in 1 .. i : k = Len(s) + m
        <4>1. k - Len(s) \in 1 .. i /\ k = Len(s) + (k - Len(s))
          BY <1>1, <2>2
        <4> QED BY <4>1
      <3>2. m \in 1 .. Len(t)
        BY <1>1
      <3> QED BY <1>2, <1>3, <1>4, <1>5, <3>1, <3>2
    <2> QED BY <2>1, <2>2
  <1>7. p = q
    BY <1>4, <1>5, <1>6, SeqEqual
  <1> QED BY <1>7 DEF p, q, c, h

(* Concatenation is associative.                                           *)
LEMMA Regroup ==
    \A r, s, t \in Seq(Tokens) : (r \o s) \o t = r \o (s \o t)
  <1> TAKE r, s, t \in Seq(Tokens)
  <1> QED BY ConcatAssociative

(* The text so far, and the rows with the pending token, continued by x.   *)
LEMMA RegroupText ==
    ASSUME TypeOK, NEW x \in Seq(Tokens)
    PROVE  /\ (req.prompt \o generated) \o x = req.prompt \o (generated \o x)
           /\ Append(active.kv, last) \o x = active.kv \o (<<last>> \o x)
  <1>1. req.prompt \in Seq(Tokens) /\ generated \in Seq(Tokens)
    BY CallTypes
  <1>2. active.kv \in Seq(Tokens) /\ <<last>> \in Seq(Tokens)
    BY CallTypes, CacheTypes
  <1>3. Append(active.kv, last) = active.kv \o <<last>>
    BY CallTypes, CacheTypes, AppendIsConcat
  <1>4. (req.prompt \o generated) \o x = req.prompt \o (generated \o x)
    BY <1>1, Regroup, Zenon
  <1>5. (active.kv \o <<last>>) \o x = active.kv \o (<<last>> \o x)
    BY <1>2, Regroup, Zenon
  <1> QED BY <1>3, <1>4, <1>5

(* Handing the head of t over to s leaves the whole as it is.              *)
LEMMA HeadMoves ==
    ASSUME NEW T, NEW s \in Seq(T), NEW t \in Seq(T), t # <<>>
    PROVE  Append(s, Head(t)) \o Tail(t) = s \o t
  <1>1. Head(t) \in T /\ Tail(t) \in Seq(T) /\ <<Head(t)>> \in Seq(T)
    BY HeadTailProperties
  <1>2. <<Head(t)>> \o Tail(t) = t
    OBVIOUS
  <1>3. Append(s, Head(t)) = s \o <<Head(t)>>
    BY <1>1, AppendIsConcat
  <1> QED BY <1>1, <1>2, <1>3, ConcatAssociative, SMTT(30)
-----------------------------------------------------------------------------
(* What a round verifies                                                   *)

(* A verified token is the target's pick after the text it was drafted     *)
(* for, whatever the draft, if the recurrent state is in step.             *)
LEMMA VerifiedIsGreedy ==
    ASSUME CacheInv, StateInv, pc = "decode", NEW d \in Seq(Tokens), NEW i \in 1 .. Len(d) + 1
    PROVE  /\ SubSeq(d, 1, i - 1) \in Seq(Tokens)
           /\ Verified(d, i) =
                Greedy(active.kv \o (<<last>> \o SubSeq(d, 1, i - 1)), History(d, i))
  <1> DEFINE input == <<last>> \o d
  <1>1. /\ last \in Tokens /\ active.kv \in Seq(Tokens) /\ ssm \in Seq(Tokens)
        /\ <<last>> \in Seq(Tokens)
    BY CallTypes, CacheTypes DEF CacheInv
  <1>2. Len(d) \in Nat /\ i - 1 \in 0 .. Len(d) /\ Len(<<last>>) = 1
    OBVIOUS
  <1>3. input \in Seq(Tokens) /\ Len(input) = Len(<<last>>) + Len(d)
    BY <1>1, ConcatAt
  <1>4. SubSeq(input, 1, Len(<<last>>) + (i - 1)) = <<last>> \o SubSeq(d, 1, i - 1)
    BY <1>1, <1>2, ConcatPrefix
  <1>5. Len(<<last>>) + (i - 1) = i /\ i \in 0 .. Len(input)
    BY <1>2, <1>3
  <1>6. Recurrent => active.kv = <<>> \/ ssm = active.kv
    BY DEF StateInv
  <1>7. Verified(d, i) = Picks(active.kv, ssm, input, i, History(d, i))
    BY DEF Verified
  <1>8. Picks(active.kv, ssm, input, i, History(d, i)) =
          Greedy(active.kv \o SubSeq(input, 1, i), History(d, i))
    <2>1. \A w : \A k \in 0 .. Len(input) :
            Picks(active.kv, ssm, input, k, w) = Greedy(active.kv \o SubSeq(input, 1, k), w)
      BY <1>1, <1>3, <1>6, ForwardInStep, ZenonT(40)
    <2> QED BY <1>5, <2>1, Zenon
  <1>9. SubSeq(d, 1, i - 1) \in Seq(Tokens)
    BY <1>2, PrefixType
  <1> QED BY <1>4, <1>5, <1>7, <1>8, <1>9

(* In terms of the answer so far.                                          *)
LEMMA VerifiedNext ==
    ASSUME CacheInv, StateInv, RoundInv, pc = "decode", req.mode \in Rounds,
           NEW d \in Seq(Tokens), NEW i \in 1 .. Len(d) + 1
    PROVE  Verified(d, i) = NextOf(generated \o
             (IF req.mode = "speculative" THEN SubSeq(d, 1, i - 1)
                                          ELSE <<last>> \o SubSeq(d, 1, i - 1)))
  <1>0. PICK h \in Seq(Tokens) : h = SubSeq(d, 1, i - 1)
    BY VerifiedIsGreedy
  <1>1. Verified(d, i) = Greedy(active.kv \o (<<last>> \o h), History(d, i))
    BY <1>0, VerifiedIsGreedy
  <1>2. /\ last \in Tokens /\ active.kv \in Seq(Tokens) /\ <<last>> \in Seq(Tokens)
        /\ generated \in Seq(Tokens) /\ req.prompt \in Seq(Tokens)
    BY CallTypes, CacheTypes DEF CacheInv
  <1>3. Whole = generated
    <2>1. queue = <<>>
      BY DEF RoundInv
    <2> QED BY <1>2, <2>1, ConcatEmptySeq DEF Whole
  <1>4. CASE req.mode = "speculative"
    <2>1. Append(active.kv, last) = req.prompt \o generated
      BY <1>3, <1>4 DEF RoundInv
    <2>2. active.kv \o (<<last>> \o h) = req.prompt \o (generated \o h)
      BY <2>1, RegroupText DEF CacheInv
    <2>3. History(d, i) = generated \o h
      BY <1>0, <1>4 DEF History
    <2> QED BY <1>0, <1>1, <1>4, <2>2, <2>3 DEF NextOf
  <1>5. CASE req.mode # "speculative"
    <2>1. active.kv = req.prompt \o generated
      BY <1>3, <1>5 DEF RoundInv
    <2>2. PICK x \in Seq(Tokens) : x = <<last>> \o h
      BY <1>0, <1>2, ConcatProperties
    <2>3. (req.prompt \o generated) \o x = req.prompt \o (generated \o x)
      BY RegroupText DEF CacheInv
    <2>4. History(d, i) = <<>>
      BY <1>5 DEF History
    <2> QED BY <1>0, <1>1, <1>5, <2>1, <2>2, <2>3, <2>4 DEF NextOf
  <1> QED BY <1>4, <1>5

(* What a round leaves: queue is what it hands out, v the next pending     *)
(* token, and both continue the answer as the target alone would.          *)
RoundQueue(d) ==
    IF req.mode = "speculative"
    THEN Append(SubSeq(d, 1, Accepted(d)), Verified(d, Accepted(d) + 1))
    ELSE <<last>> \o SubSeq(d, 1, Accepted(d))

(* Each token of a round's queue is the greedy choice after the ones       *)
(* before it.                                                              *)
LEMMA RoundQueueGreedy ==
    ASSUME CacheInv, StateInv, RoundInv, NetworkPicks, pc = "decode", req.mode \in Rounds,
           NEW d \in Seq(Tokens)
    PROVE  /\ RoundQueue(d) \in Seq(Tokens)
           /\ Len(RoundQueue(d)) = Accepted(d) + 1
           /\ \A i \in 1 .. Accepted(d) + 1 :
                RoundQueue(d)[i] = NextOf(generated \o SubSeq(RoundQueue(d), 1, i - 1))
  <1> DEFINE a == Accepted(d)
             v == Verified(d, a + 1)
  <1>1. a \in 0 .. Len(d) /\ \A i \in 1 .. a : Verified(d, i) = d[i]
    BY AcceptedType
  <1>2. Len(d) \in Nat /\ v \in Tokens /\ last \in Tokens /\ generated \in Seq(Tokens)
    BY PicksType, CallTypes DEF Verified, CacheInv
  <1>3. PICK h \in Seq(Tokens) : h = SubSeq(d, 1, a)
    BY <1>1, PrefixType
  <1>4. Len(h) = a /\ \A i \in 1 .. a : h[i] = d[i]
    BY <1>1, <1>3, PrefixType
  <1>5. \A k \in 0 .. a : SubSeq(h, 1, k) = SubSeq(d, 1, k)
    BY <1>1, <1>3, PrefixOfPrefix
  <1>6. a \in Nat /\ a <= Len(d)
    BY <1>1, <1>2
  <1> HIDE DEF a, v
  <1>7. CASE req.mode = "speculative"
    <2>1. PICK q \in Seq(Tokens) : q = Append(h, v)
      BY <1>2, AppendProperties
    <2>2. RoundQueue(d) = q
      BY <1>3, <1>7, <2>1 DEF RoundQueue, a, v
    <2>3. /\ Len(q) = a + 1 /\ q[a + 1] = v
          /\ \A i \in 1 .. a : q[i] = h[i]
      BY <1>2, <1>4, <2>1, AppendProperties
    <2>4. ASSUME NEW k \in 0 .. a PROVE SubSeq(q, 1, k) = SubSeq(d, 1, k)
      <3>1. /\ SubSeq(q, 1, k) \in Seq(Tokens) /\ Len(SubSeq(q, 1, k)) = k
            /\ \A i \in 1 .. k : SubSeq(q, 1, k)[i] = q[i]
        <4>1. k \in 0 .. Len(q)
          BY <1>6, <2>3
        <4> QED BY <4>1, PrefixType
      <3>2. /\ SubSeq(d, 1, k) \in Seq(Tokens) /\ Len(SubSeq(d, 1, k)) = k
            /\ \A i \in 1 .. k : SubSeq(d, 1, k)[i] = d[i]
        <4>1. k \in 0 .. Len(d)
          BY <1>2, <1>6
        <4> QED BY <4>1, PrefixType
      <3>3. \A i \in 1 .. k : SubSeq(q, 1, k)[i] = SubSeq(d, 1, k)[i]
        BY <1>4, <1>6, <2>3, <3>1, <3>2
      <3> QED BY <3>1, <3>2, <3>3, SeqEqual
    <2>5. ASSUME NEW i \in 1 .. a + 1 PROVE q[i] = NextOf(generated \o SubSeq(q, 1, i - 1))
      <3>1. i - 1 \in 0 .. a /\ i \in 1 .. Len(d) + 1
        BY <1>2, <1>6
      <3>2. SubSeq(q, 1, i - 1) = SubSeq(d, 1, i - 1)
        BY <2>4, <3>1
      <3>3. Verified(d, i) = NextOf(generated \o SubSeq(d, 1, i - 1))
        BY <1>7, <3>1, VerifiedNext
      <3>4. q[i] = Verified(d, i)
        <4>1. CASE i \in 1 .. a
          BY <1>1, <1>4, <2>3, <4>1 DEF a
        <4>2. CASE i = a + 1
          BY <2>3, <4>2 DEF v
        <4> QED BY <1>6, <4>1, <4>2
      <3> QED BY <3>2, <3>3, <3>4
    <2> QED BY <2>2, <2>3, <2>5 DEF a
  <1>8. CASE req.mode # "speculative"
    <2>0. <<last>> \in Seq(Tokens) /\ Len(<<last>>) = 1 /\ <<last>>[1] = last
      BY <1>2
    <2>1. PICK q \in Seq(Tokens) : q = <<last>> \o h
      BY <2>0, ConcatProperties
    <2>2. RoundQueue(d) = q
      BY <1>3, <1>8, <2>1 DEF RoundQueue, a
    <2>3. /\ Len(q) = a + 1 /\ q[1] = last
          /\ \A i \in 1 .. a : q[1 + i] = d[i]
      <3>1. /\ Len(q) = Len(<<last>>) + Len(h)
            /\ \A i \in 1 .. Len(<<last>>) : q[i] = <<last>>[i]
            /\ \A i \in 1 .. Len(h) : q[Len(<<last>>) + i] = h[i]
        BY <2>0, <2>1, ConcatAt
      <3> QED BY <1>4, <1>6, <2>0, <3>1
    <2>4. ASSUME NEW k \in 0 .. a PROVE SubSeq(q, 1, 1 + k) = <<last>> \o SubSeq(d, 1, k)
      <3>1. SubSeq(q, 1, Len(<<last>>) + k) = <<last>> \o SubSeq(h, 1, k)
        <4>1. k \in 0 .. Len(h)
          BY <1>4
        <4> QED BY <2>0, <2>1, <4>1, ConcatPrefix
      <3> QED BY <1>5, <2>0, <3>1
    <2>5. ASSUME NEW i \in 1 .. a + 1 PROVE q[i] = NextOf(generated \o SubSeq(q, 1, i - 1))
      <3>1. CASE i = 1
        <4>1. SubSeq(q, 1, i - 1) = <<>>
          BY <3>1, SubSeqEmpty
        <4>2. generated \o SubSeq(q, 1, i - 1) = generated /\ Whole = generated
          <5>1. queue = <<>>
            BY DEF RoundInv
          <5> QED BY <1>2, <4>1, <5>1, ConcatEmptySeq DEF Whole
        <4>3. last = NextOf(Whole)
          BY <1>8 DEF RoundInv
        <4> QED BY <2>3, <3>1, <4>2, <4>3
      <3>2. CASE i # 1
        <4>1. PICK k \in 1 .. a : i = 1 + k
          <5>1. i - 1 \in 1 .. a /\ i = 1 + (i - 1)
            BY <1>6, <3>2
          <5> QED BY <5>1
        <4>2. /\ k - 1 \in 0 .. a /\ i - 1 = 1 + (k - 1) /\ k \in 1 .. Len(d) + 1
          BY <1>2, <1>6, <4>1
        <4>3. SubSeq(q, 1, i - 1) = <<last>> \o SubSeq(d, 1, k - 1)
          BY <2>4, <4>2
        <4>4. Verified(d, k) = NextOf(generated \o (<<last>> \o SubSeq(d, 1, k - 1)))
          BY <1>8, <4>2, VerifiedNext
        <4>5. q[i] = Verified(d, k)
          BY <1>1, <2>3, <4>1 DEF a
        <4> QED BY <4>3, <4>4, <4>5
      <3> QED BY <3>1, <3>2
    <2> QED BY <2>2, <2>3, <2>5 DEF a
  <1> QED BY <1>7, <1>8

(* The invariant over one round.                                           *)
LEMMA RoundGreedy ==
    ASSUME CacheInv, StateInv, GreedyInv, NetworkPicks, NEW d \in Drafts, Round(d)
    PROVE  GreedyInv'
  <1>1. TypeOK /\ Shape /\ RoundInv
    BY DEF CacheInv, GreedyInv
  <1>2. /\ pc = "decode" /\ pc' = "emit" /\ req.mode \in Rounds
        /\ active' = [kv |-> active.kv \o Committed(d), tokens |-> active.tokens \o Committed(d)]
        /\ last' = Verified(d, Accepted(d) + 1)
        /\ queue' = IF req.mode = "speculative" THEN Append(Tail(Committed(d)), last')
                    ELSE Committed(d)
        /\ req' = req /\ generated' = generated /\ aborted' = aborted
    BY Zenon DEF Round, CommitVerified
  <1>3. /\ ~aborted /\ Len(generated) < req.budget /\ queue = <<>>
        /\ generated # <<>> => generated[Len(generated)] \notin StopTokens
    BY <1>1, <1>2 DEF RoundInv
  <1>4. /\ d \in Seq(Tokens) /\ Len(d) \in Nat
        /\ req.mode = "speculative" => Len(generated) + Len(d) + 1 <= req.budget
    BY <1>1, <1>3, DraftType
  <1>5. /\ generated \in Seq(Tokens) /\ req.prompt \in Seq(Tokens) /\ last \in Tokens
        /\ active.kv \in Seq(Tokens) /\ Len(generated) \in Nat /\ req.budget \in Nat
        /\ <<last>> \in Seq(Tokens)
    BY <1>1, CallTypes, CacheTypes
  <1>6. Whole = generated
    BY <1>3, <1>5, ConcatEmptySeq DEF Whole
  <1>7. Accepted(d) \in 0 .. Len(d)
    BY <1>4, AcceptedType
  <1>8. PICK q \in Seq(Tokens) : q = RoundQueue(d)
    BY <1>1, <1>2, <1>4, RoundQueueGreedy
  <1>9. PICK h \in Seq(Tokens) : h = SubSeq(d, 1, Accepted(d))
    BY <1>4, <1>5, CommittedType
  <1>10. Committed(d) = <<last>> \o h /\ Tail(Committed(d)) = h
    BY <1>4, <1>5, <1>9, CommittedType DEF Committed
  <1>11. PICK v \in Tokens : v = Verified(d, Accepted(d) + 1)
    BY PicksType DEF Verified
  <1>12. queue' = q /\ last' = v
    BY <1>2, <1>8, <1>9, <1>10, <1>11 DEF RoundQueue
  <1>13. PICK g \in Seq(Tokens) : g = generated \o q
    BY <1>5, ConcatProperties
  <1>14. Whole' = g
    BY <1>2, <1>12, <1>13 DEF Whole
  <1>15. /\ Len(q) = Accepted(d) + 1
         /\ \A i \in 1 .. Accepted(d) + 1 : q[i] = NextOf(generated \o SubSeq(q, 1, i - 1))
    BY <1>1, <1>2, <1>4, <1>8, RoundQueueGreedy
  <1>16. Len(g) = Len(generated) + Len(q)
    BY <1>5, <1>13, ConcatAt
  <1>17. ASSUME NEW j \in Len(generated) + 1 .. Len(g)
         PROVE  g[j] = NextOf(SubSeq(g, 1, j - 1))
    <2>1. PICK i \in 1 .. Len(q) : j = Len(generated) + i
      <3>1. Len(q) \in Nat
        OBVIOUS
      <3>2. j - Len(generated) \in 1 .. Len(q) /\ j = Len(generated) + (j - Len(generated))
        BY <1>5, <1>16, <3>1
      <3> QED BY <3>2
    <2>2. i - 1 \in 0 .. Len(q) /\ j - 1 = Len(generated) + (i - 1)
      BY <1>5, <2>1
    <2>3. g[j] = q[i]
      BY <1>5, <1>13, <2>1, ConcatAt
    <2>4. SubSeq(g, 1, Len(generated) + (i - 1)) = generated \o SubSeq(q, 1, i - 1)
      BY <1>5, <1>13, <2>2, ConcatPrefix
    <2> QED BY <1>15, <2>1, <2>2, <2>3, <2>4
  <1>18. ASSUME NEW t PROVE NextOf(t)' = NextOf(t)
    BY <1>2 DEF NextOf, Greedy
  <1>19. active'.kv = active.kv \o (<<last>> \o h)
    BY <1>2, <1>10
  <1>20. CASE req.mode = "speculative"
    <2>1. generated # <<>> /\ Append(active.kv, last) = req.prompt \o generated
      BY <1>1, <1>2, <1>6, <1>20 DEF RoundInv
    <2>2. Len(g) <= req.budget
      BY <1>4, <1>5, <1>7, <1>15, <1>16, <1>20
    <2>3. q = Append(h, v)
      BY <1>8, <1>9, <1>11, <1>20 DEF RoundQueue
    <2>4. active'.kv = (req.prompt \o generated) \o h
      BY <1>1, <1>19, <2>1, RegroupText
    <2>5. PICK r \in Seq(Tokens) : r = req.prompt \o generated
      BY <1>5, ConcatProperties
    <2>6. Append(r \o h, v) = r \o q
      BY <2>3, AppendConcat, Zenon
    <2>7. (req.prompt \o generated) \o q = req.prompt \o g
      BY <1>1, <1>13, RegroupText
    <2>8. Append(active'.kv, last') = req'.prompt \o Whole'
      BY <1>2, <1>12, <1>14, <2>4, <2>5, <2>6, <2>7
    <2>9. RoundInv'
      BY <1>2, <1>3, <1>14, <1>17, <1>18, <1>20, <2>1, <2>2, <2>8 DEF RoundInv
    <2> QED BY <1>2, <1>20, <2>9 DEF GreedyInv, PlainInv
  <1>21. CASE req.mode # "speculative"
    <2>1. active.kv = req.prompt \o generated
      BY <1>1, <1>2, <1>6, <1>21 DEF RoundInv
    <2>2. q = <<last>> \o h
      BY <1>8, <1>9, <1>21 DEF RoundQueue
    <2>3. (req.prompt \o generated) \o q = req.prompt \o (generated \o q)
      BY <1>1, RegroupText
    <2>4. active'.kv = req'.prompt \o Whole'
      BY <1>2, <1>13, <1>14, <1>19, <2>1, <2>2, <2>3
    <2>5. v = NextOf(g)
      <3>0. PICK n : n = Accepted(d) + 1
        OBVIOUS
      <3>1. n \in 1 .. Len(d) + 1 /\ n - 1 = Accepted(d)
        <4>1. Len(d) \in Nat
          BY <1>4
        <4>2. PICK a \in 0 .. Len(d) : a = Accepted(d)
          BY <1>7
        <4> QED BY <3>0, <4>1, <4>2, SMTT(30)
      <3>2. Verified(d, n) = NextOf(generated \o (<<last>> \o SubSeq(d, 1, n - 1)))
        BY <1>1, <1>2, <1>4, <1>21, <3>1, VerifiedNext
      <3> QED BY <1>9, <1>11, <1>13, <2>2, <3>0, <3>1, <3>2
    <2>6. last' = NextOf(Whole)'
      BY <1>2, <1>12, <1>14, <2>5 DEF NextOf, Greedy
    <2>7. RoundInv'
      BY <1>2, <1>3, <1>14, <1>17, <1>18, <1>21, <2>4, <2>6 DEF RoundInv
    <2>8. req.mode # "plain"
      BY <1>2 DEF Rounds
    <2> QED BY <1>2, <2>7, <2>8 DEF GreedyInv, PlainInv
  <1> QED BY <1>20, <1>21

-----------------------------------------------------------------------------
(* The invariant over the other steps                                      *)

(* Nothing has been verified at the start.                                 *)
LEMMA GreedyInit ==
    ASSUME Init
    PROVE  GreedyInv
  BY DEF Init, GreedyInv, PlainInv, RoundInv

(* A call that is over has nothing pending.                                *)
LEMMA GreedyIdle ==
    ASSUME pc' = "idle"
    PROVE  GreedyInv'
  BY DEF GreedyInv, PlainInv, RoundInv

(* A new call starts with nothing verified.                                *)
LEMMA GreedyCall ==
    ASSUME NEW p \in Prompts, NEW n \in Budgets, NEW m \in Modes, Call(p, n, m)
    PROVE  GreedyInv'
  <1>1. pc' = "plan" /\ ~aborted' /\ queue' = <<>>
    BY DEF Call
  <1> QED BY <1>1 DEF GreedyInv, PlainInv, RoundInv

(* The plan verifies nothing.                                              *)
LEMMA GreedyPlan ==
    ASSUME GreedyInv, Plan
    PROVE  GreedyInv'
  <1>1. /\ pc = "plan" /\ pc' = "prefill" /\ req' = req /\ queue' = queue /\ aborted' = aborted
        /\ req.mode = "plain" => Fits
    BY Zenon DEF Plan
  <1>2. Fits' <=> Fits
    BY <1>1 DEF Fits
  <1> QED BY <1>1, <1>2 DEF GreedyInv, PlainInv, RoundInv

(* The first token is the target's pick after the prompt.                  *)
LEMMA FirstIsGreedy ==
    ASSUME CacheInv, StateInv, pc = "prefill", NEW w
    PROVE  FirstToken(w) = Greedy(req.prompt, w)
  <1>1. TypeOK /\ RowsInv
    BY DEF CacheInv
  <1>2. Suffix \in Seq(Tokens) /\ Len(Suffix) \in Nat /\ Prefilled = req.prompt
    BY <1>1, PrefillEffect
  <1>3. /\ active.kv \in Seq(Tokens) /\ ssm \in Seq(Tokens)
        /\ Recurrent => active.kv = <<>> \/ ssm = active.kv
    BY <1>1, CacheTypes DEF StateInv
  <1>4. \A x : \A i \in 0 .. Len(Suffix) :
          Picks(active.kv, ssm, Suffix, i, x) = Greedy(active.kv \o SubSeq(Suffix, 1, i), x)
    BY <1>2, <1>3, ForwardInStep
  <1>5. Len(Suffix) \in 0 .. Len(Suffix)
    BY <1>2
  <1>6. SubSeq(Suffix, 1, Len(Suffix)) = Suffix
    BY <1>2, SubSeqFull
  <1>7. FirstToken(w) = Greedy(active.kv \o SubSeq(Suffix, 1, Len(Suffix)), w)
    BY <1>4, <1>5, Zenon DEF FirstToken
  <1> QED BY <1>2, <1>6, <1>7 DEF Prefilled

(* After a prefill the pending token is the greedy first one.              *)
LEMMA GreedyPrefill ==
    ASSUME CacheInv, StateInv, GreedyInv, NetworkPicks,
           PrefillPlain \/ PrefillSpeculative \/ PrefillDrafted
    PROVE  GreedyInv'
  <1>1. TypeOK /\ RowsInv
    BY DEF CacheInv
  <1>2. /\ pc = "prefill" /\ req' = req /\ queue' = queue
    BY Zenon DEF PrefillPlain, PrefillSpeculative, PrefillDrafted
  <1>3. /\ queue = <<>> /\ ~aborted /\ Prefilled = req.prompt
        /\ req.prompt \in Seq(Tokens) /\ req.budget \in Nat \ {0}
        /\ generated = <<>> /\ active \in Slot
    BY <1>1, <1>2, CallTypes, CacheTypes, PrefillEffect DEF GreedyInv, RowsInv
  <1>4. \A w : FirstToken(w) \in Tokens /\ FirstToken(w) = Greedy(req.prompt, w)
    BY <1>2, PicksType, FirstIsGreedy DEF FirstToken
  <1>5. CASE PrefillPlain
    <2>1. /\ pc' = "decode" /\ req.mode = "plain" /\ generated' = <<last'>>
      BY <1>5, Zenon DEF PrefillPlain
    <2>2. Fits' /\ Len(generated') = 1
      BY <1>2, <2>1 DEF GreedyInv, PlainInv, Fits
    <2> QED BY <1>2, <1>3, <2>1, <2>2 DEF GreedyInv, PlainInv, RoundInv, Rounds
  <1>6. CASE PrefillSpeculative
    <2>1. /\ req.mode = "speculative" /\ generated' = <<last'>>
          /\ last' = FirstToken(req.prompt)
      BY <1>6, Zenon DEF PrefillSpeculative
    <2>2. \/ pc' = "idle"
          \/ pc' = "decode" /\ ~aborted' /\ last' \notin StopTokens /\ req.budget # 1
      BY <1>6, Zenon DEF PrefillSpeculative, Answers
    <2>3. CASE pc' = "idle"
      BY <2>3, GreedyIdle
    <2>4. CASE pc' = "decode" /\ ~aborted' /\ last' \notin StopTokens /\ req.budget # 1
      <3>1. PICK v \in Tokens : v = last'
        BY <1>4, <2>1
      <3>2. active'.kv = req.prompt
        BY <1>6, PrefillSpeculativeKeeps
      <3>3. generated' = <<v>> /\ Len(<<v>>) = 1 /\ <<v>>[1] = v /\ <<v>> # <<>>
        BY <2>1, <3>1
      <3>4. <<v>> \in Seq(Tokens) /\ <<v>> \o <<>> = <<v>>
        BY ConcatEmptySeq
      <3>5. Whole' = <<v>>
        BY <1>2, <1>3, <3>3, <3>4 DEF Whole
      <3>6. Append(active'.kv, last') = req'.prompt \o Whole'
        BY <1>2, <1>3, <3>1, <3>2, <3>5, AppendIsConcat
      <3>7. \A j \in 1 + 1 .. 1 : FALSE
        OBVIOUS
      <3>8. RoundInv'
        BY <1>2, <1>3, <2>1, <2>4, <3>1, <3>3, <3>5, <3>6, <3>7 DEF RoundInv
      <3> QED BY <1>2, <2>1, <2>4, <3>8 DEF GreedyInv, PlainInv
    <2> QED BY <2>2, <2>3, <2>4
  <1>7. CASE PrefillDrafted
    <2>1. /\ pc' = "decode" /\ req.mode \in {"mtp", "dflash"}
          /\ active' = [kv |-> Prefilled, tokens |-> active.tokens \o Suffix]
          /\ last' = FirstToken(<<>>) /\ generated' = generated /\ aborted' = aborted
      BY <1>7, Zenon DEF PrefillDrafted
    <2>2. Whole' = <<>> /\ Len(<<>>) = 0
      <3>1. <<>> \o <<>> = <<>>
        BY EmptySeq, ConcatEmptySeq
      <3> QED BY <1>2, <1>3, <2>1, <3>1, EmptySeq DEF Whole
    <2>3. req.prompt \o <<>> = req.prompt
      BY <1>3, ConcatEmptySeq
    <2>4. active'.kv = req'.prompt \o Whole'
      BY <1>2, <1>3, <2>1, <2>2, <2>3
    <2>5. last' = NextOf(Whole)'
      BY <1>2, <1>4, <2>1, <2>2, <2>3 DEF NextOf, Greedy
    <2>6. \A j \in 0 + 1 .. 0 : FALSE
      OBVIOUS
    <2>7. RoundInv'
      BY <1>2, <1>3, <2>1, <2>2, <2>4, <2>5, <2>6 DEF RoundInv
    <2> QED BY <1>2, <2>1, <2>7 DEF GreedyInv, PlainInv
  <1> QED BY <1>5, <1>6, <1>7

(* A step of the plain loop stays within the budget.                       *)
LEMMA GreedyDecodeStep ==
    ASSUME CacheInv, GreedyInv, NetworkPicks, DecodeStep
    PROVE  GreedyInv'
  <1>1. TypeOK
    BY DEF CacheInv
  <1>2. /\ pc = "decode" /\ pc' = pc /\ req.mode = "plain" /\ req' = req /\ ~DecodeOver
        /\ last' = Picks(active.kv, ssm, <<last>>, 1, generated)
        /\ generated' = Append(generated, last')
    BY Zenon DEF DecodeStep
  <1>3. Fits' /\ last' \in Tokens
    BY <1>2, PicksType DEF GreedyInv, PlainInv, Fits
  <1>4. Len(generated') = Len(generated) + 1 /\ ~(Len(generated) >= req.budget)
    BY <1>1, <1>2, <1>3, CallTypes, AppendProperties DEF DecodeOver
  <1>5. Len(generated') <= req.budget
    BY <1>1, <1>4, CallTypes
  <1> QED BY <1>2, <1>3, <1>5 DEF GreedyInv, PlainInv, RoundInv, Rounds

(* What is left in the queue continues the longer answer greedily.         *)
LEMMA GreedyEmitToken ==
    ASSUME CacheInv, GreedyInv, EmitToken
    PROVE  GreedyInv'
  <1>1. TypeOK /\ Shape
    BY DEF CacheInv
  <1>2. /\ pc = "emit" /\ generated' = Append(generated, Head(queue))
        /\ active' = active /\ req' = req /\ last' = last
    BY Zenon DEF EmitToken, cacheVars
  <1>3. \/ pc' = "idle"
        \/ /\ queue' = Tail(queue) /\ ~aborted' /\ Head(queue) \notin StopTokens
           /\ pc' = IF Len(queue) = 1 THEN "decode" ELSE "emit"
           /\ ~(Len(generated') >= req.budget /\ (req.mode # "speculative" \/ Len(queue) = 1))
    BY DEF EmitToken, Answers
  <1>4. CASE pc' = "idle"
    BY <1>4, GreedyIdle
  <1>5. CASE /\ queue' = Tail(queue) /\ ~aborted' /\ Head(queue) \notin StopTokens
             /\ pc' = IF Len(queue) = 1 THEN "decode" ELSE "emit"
             /\ ~(Len(generated') >= req.budget /\ (req.mode # "speculative" \/ Len(queue) = 1))
    <2>1. /\ queue \in Seq(Tokens) /\ queue # <<>> /\ req.mode \in Rounds
          /\ generated \in Seq(Tokens) /\ req.budget \in Nat /\ Len(generated) \in Nat
      BY <1>1, <1>2, CallTypes DEF Shape
    <2>2. RoundInv
      BY DEF GreedyInv
    <2>3. /\ Head(queue) \in Tokens /\ Tail(queue) \in Seq(Tokens)
          /\ Len(queue) \in Nat \ {0} /\ Len(Tail(queue)) = Len(queue) - 1
      BY <2>1, HeadTailProperties, EmptySeq
    <2>4. Whole' = Whole
      BY <1>2, <1>5, <2>1, HeadMoves DEF Whole
    <2>5. /\ generated' \in Seq(Tokens) /\ Len(generated') = Len(generated) + 1
          /\ generated'[Len(generated')] = Head(queue) /\ generated' # <<>>
      BY <1>2, <2>1, <2>3, AppendProperties
    <2>6. Len(Whole) = Len(generated) + Len(queue) /\ Len(Whole) \in Nat
      BY <2>1, <2>3, ConcatAt DEF Whole
    <2>7. ASSUME NEW t PROVE NextOf(t)' = NextOf(t)
      BY <1>2 DEF NextOf, Greedy
    <2>8. \A j \in Len(generated) + 1 .. Len(Whole) : Whole[j] = NextOf(SubSeq(Whole, 1, j - 1))
      BY <1>2, <2>1, <2>2 DEF RoundInv
    <2>9. \A j \in Len(generated') + 1 .. Len(Whole) : j \in Len(generated) + 1 .. Len(Whole)
      BY <2>1, <2>5, <2>6
    <2>10. (\A j \in Len(generated) + 1 .. Len(Whole) :
              Whole[j] = NextOf(SubSeq(Whole, 1, j - 1)))'
      <3>1. PICK W : W = Whole
        OBVIOUS
      <3>2. \A j \in Len(generated') + 1 .. Len(W) : W[j] = NextOf(SubSeq(W, 1, j - 1))
        BY <2>8, <2>9, <3>1, Zenon
      <3>3. \A j \in Len(generated') + 1 .. Len(W) : W[j] = NextOf(SubSeq(W, 1, j - 1))'
        BY <2>7, <3>2
      <3>4. Whole' = W
        BY <2>4, <3>1
      <3> QED BY <3>3, <3>4 DEF NextOf, Greedy
    <2>11. Len(generated') < req'.budget
      <3>1. CASE req.mode # "speculative" \/ Len(queue) = 1
        BY <1>2, <1>5, <2>1, <2>5, <3>1
      <3>2. CASE req.mode = "speculative" /\ Len(queue) # 1
        <4>1. Len(Whole) <= req.budget
          BY <1>2, <2>1, <2>2, <3>2 DEF RoundInv
        <4> QED BY <1>2, <2>1, <2>3, <2>5, <2>6, <3>2, <4>1
      <3> QED BY <3>1, <3>2
    <2>12. pc' = "decode" => queue' = <<>>
      <3>1. Len(Tail(queue)) = 0 => Tail(queue) = <<>>
        BY <2>3, EmptySeq
      <3> QED BY <1>5, <2>3, <3>1
    <2>13. /\ req.mode = "speculative" =>
                 Len(Whole') <= req'.budget /\ Append(active'.kv, last') = req'.prompt \o Whole'
           /\ req.mode # "speculative" => active'.kv = req'.prompt \o Whole'
      BY <1>2, <2>1, <2>2, <2>4 DEF RoundInv
    <2>14. req.mode # "speculative" => last' = NextOf(Whole)'
      <3>1. req.mode # "speculative" => last = NextOf(Whole)
        BY <1>2, <2>1, <2>2 DEF RoundInv
      <3> QED BY <1>2, <2>4, <3>1 DEF NextOf, Greedy
    <2>15. RoundInv'
      BY <1>2, <1>5, <2>5, <2>10, <2>11, <2>12, <2>13, <2>14 DEF RoundInv
    <2>16. req.mode # "plain" /\ pc' \in {"decode", "emit"}
      BY <1>5, <2>1 DEF Rounds
    <2> QED BY <1>2, <2>15, <2>16 DEF GreedyInv, PlainInv
  <1> QED BY <1>3, <1>4, <1>5

(* GreedyInv is inductive: one case per disjunct of Next.                  *)
LEMMA GreedyNext ==
    ASSUME CacheInv, StateInv, GreedyInv, NetworkPicks, [Next]_vars
    PROVE  GreedyInv'
  <1>1. CASE UNCHANGED vars
    <2>1. /\ active' = active /\ req' = req /\ pc' = pc /\ generated' = generated
          /\ last' = last /\ queue' = queue /\ aborted' = aborted
      BY <1>1, Zenon DEF vars, cacheVars, callVars
    <2>2. /\ Fits' = Fits /\ Whole' = Whole
      BY <2>1 DEF Fits, Whole
    <2>3. PlainInv'
      BY <2>1, <2>2 DEF GreedyInv, PlainInv
    <2>4. RoundInv'
      BY <2>1, <2>2 DEF GreedyInv, RoundInv, NextOf, Greedy
    <2> QED BY <2>1, <2>3, <2>4 DEF GreedyInv
  <1>2. CASE \E p \in Prompts, n \in Budgets, m \in Modes : Call(p, n, m)
    BY <1>2, GreedyCall
  <1>3. CASE \E d \in Drafts : Round(d)
    BY <1>3, RoundGreedy
  <1>4. CASE Plan \/ PrefillPlain \/ PrefillSpeculative \/ PrefillDrafted
    BY <1>4, GreedyPlan, GreedyPrefill
  <1>5. CASE Refuse \/ PrefillEnds \/ Finish \/ DecodeThrows \/ RoundThrows
    <2>1. pc' = "idle"
      BY <1>5, Zenon DEF Refuse, PrefillEnds, Finish, DecodeThrows, RoundThrows, Answers
    <2> QED BY <2>1, GreedyIdle
  <1>6. CASE DecodeStep \/ EmitToken
    BY <1>6, GreedyDecodeStep, GreedyEmitToken
  <1> QED BY <1>1, <1>2, <1>3, <1>4, <1>5, <1>6, Zenon DEF Next, Engine
-----------------------------------------------------------------------------
(* Every step of the engine is a step of GreedyDecoder or none             *)

(* The penalty window of the next token.                                   *)
NextWindow ==
    IF req.mode \notin {"plain", "speculative"} THEN <<>>
    ELSE IF generated = <<>> THEN req.prompt ELSE generated

Ended(g, c) == c \/ (g # <<>> /\ g[Len(g)] \in StopTokens) \/ Len(g) = req.budget

(* Handing out the target's own pick, before the answer is complete.       *)
LEMMA EmitRefines ==
    ASSUME TypeOK, pc # "idle", ~Ended(generated, aborted),
           generated' = Append(generated, Greedy(req.prompt \o generated, NextWindow)),
           aborted' \in BOOLEAN, req' = req,
           pc' = "idle" => outcome' = "returned" /\ Ended(generated', aborted')
    PROVE  Abstract!Emit
  <1>1. ~Abstract!Complete
    BY DEF Ended, Abstract!Complete, Abstract!Stopped
  <1>2. Abstract!Window = NextWindow
    BY DEF Abstract!Window, NextWindow
  <1>3. pc' = "idle" => Abstract!Complete'
    BY DEF Ended, Abstract!Complete, Abstract!Stopped
  <1> QED BY <1>1, <1>2, <1>3 DEF Abstract!Emit

(* A call that throws is the abstract Fail.                                *)
LEMMA FailRefines ==
    ASSUME pc # "idle", pc' = "idle", outcome' = "threw", req' = req,
           generated' = generated, aborted' = aborted
    PROVE  Abstract!Fail
  BY DEF Abstract!Fail

(* A step that leaves call, answer and outcome alone is a stutter.         *)
LEMMA StutterRefines ==
    ASSUME pc # "idle", pc' # "idle", req' = req, generated' = generated, aborted' = aborted
    PROVE  UNCHANGED Abstract!greedyVars
  BY DEF Abstract!greedyVars

(* Call is the abstract Start.                                             *)
LEMMA CallRefines ==
    ASSUME TypeOK, NEW p \in Prompts, NEW n \in Budgets, NEW m \in Modes, Call(p, n, m)
    PROVE  Abstract!Start
  <1>1. /\ pc = "idle" /\ pc' = "plan" /\ generated' = <<>> /\ aborted' = FALSE
        /\ req' = [prompt |-> p, budget |-> n, mode |-> m]
    BY DEF Call
  <1>2. outcome # "running"
    BY DEF TypeOK
  <1>3. [prompt |-> req'.prompt, budget |-> req'.budget,
         penalised |-> req'.mode \in {"plain", "speculative"}] \in Abstract!Requests
    BY <1>1 DEF Abstract!Requests
  <1> QED BY <1>1, <1>2, <1>3 DEF Abstract!Start

(* A prefill that hands out its token is the abstract Emit.                *)
LEMMA PrefillRefines ==
    ASSUME CacheInv, StateInv, GreedyInv, PrefillPlain \/ PrefillSpeculative
    PROVE  Abstract!Emit
  <1>1. TypeOK /\ RowsInv
    BY DEF CacheInv
  <1>2. /\ pc = "prefill" /\ req' = req /\ req.mode \in {"plain", "speculative"}
        /\ last' = FirstToken(req.prompt) /\ generated' = <<last'>> /\ aborted' \in BOOLEAN
    BY Zenon DEF PrefillPlain, PrefillSpeculative
  <1>3. /\ generated = <<>> /\ ~aborted /\ req.prompt \in Seq(Tokens)
        /\ req.budget \in Nat \ {0} /\ Len(<<>>) = 0
    BY <1>1, <1>2, CallTypes DEF RowsInv, GreedyInv
  <1>4. ~Ended(generated, aborted)
    BY <1>3 DEF Ended
  <1>5. PICK v : v = last'
    OBVIOUS
  <1>6. v = Greedy(req.prompt, req.prompt)
    BY <1>2, <1>5, FirstIsGreedy
  <1>7. req.prompt \o generated = req.prompt /\ NextWindow = req.prompt
    BY <1>2, <1>3, ConcatEmptySeq DEF NextWindow
  <1>8. generated' = Append(generated, Greedy(req.prompt \o generated, NextWindow))
    BY <1>2, <1>3, <1>5, <1>6, <1>7
  <1>9. pc' = "idle" => outcome' = "returned" /\ Ended(generated', aborted')
    <2>1. CASE PrefillPlain
      BY <2>1 DEF PrefillPlain
    <2>2. CASE PrefillSpeculative
      <3>1. pc' = "idle" => outcome' = "returned" /\
              (aborted' \/ last' \in StopTokens \/ req.budget = 1)
        BY <2>2, Zenon DEF PrefillSpeculative, Answers
      <3>2. Len(<<v>>) = 1 /\ <<v>>[1] = v /\ <<v>> # <<>>
        OBVIOUS
      <3> QED BY <1>2, <1>5, <3>1, <3>2 DEF Ended
    <2> QED BY <2>1, <2>2
  <1> QED BY <1>1, <1>2, <1>4, <1>8, <1>9, EmitRefines

(* The plain loop's pending token is the last one handed out.              *)
LEMMA PlainLast ==
    ASSUME TypeOK, RowsInv, pc = "decode", req.mode = "plain"
    PROVE  /\ generated # <<>> /\ last = generated[Len(generated)]
           /\ Append(active.kv, last) = req.prompt \o generated
           /\ Len(active.kv) = Len(req.prompt) + Len(generated) - 1
  <1>1. generated # <<>> /\ Append(active.kv, last) = req.prompt \o generated
    BY DEF RowsInv
  <1>2. /\ active.kv \in Seq(Tokens) /\ last \in Tokens
        /\ generated \in Seq(Tokens) /\ req.prompt \in Seq(Tokens)
    BY CallTypes, CacheTypes
  <1> QED BY <1>1, <1>2, AllButLast

(* A step of the plain loop is the abstract Emit.                          *)
LEMMA DecodeStepRefines ==
    ASSUME CacheInv, StateInv, DecodeStep
    PROVE  Abstract!Emit
  <1>1. TypeOK /\ RowsInv
    BY DEF CacheInv
  <1>2. /\ pc = "decode" /\ pc' = pc /\ req.mode = "plain" /\ req' = req /\ ~DecodeOver
        /\ last' = Picks(active.kv, ssm, <<last>>, 1, generated)
        /\ generated' = Append(generated, last') /\ aborted' \in BOOLEAN
    BY Zenon DEF DecodeStep
  <1>3. /\ generated # <<>> /\ Append(active.kv, last) = req.prompt \o generated
        /\ Recurrent => active.kv = <<>> \/ ssm = active.kv
    BY <1>1, <1>2 DEF RowsInv, StateInv
  <1>4. /\ active.kv \in Seq(Tokens) /\ ssm \in Seq(Tokens) /\ last \in Tokens
        /\ <<last>> \in Seq(Tokens) /\ Len(<<last>>) = 1 /\ generated \in Seq(Tokens)
        /\ req.prompt \in Seq(Tokens) /\ Len(generated) \in Nat /\ req.budget \in Nat
    BY <1>1, CallTypes, CacheTypes
  <1>5. last = generated[Len(generated)]
    BY <1>1, <1>2, PlainLast
  <1>6. ~Ended(generated, aborted)
    BY <1>2, <1>4, <1>5 DEF DecodeOver, Ended
  <1>7. active.kv \o SubSeq(<<last>>, 1, 1) = req.prompt \o generated
    <2>1. SubSeq(<<last>>, 1, Len(<<last>>)) = <<last>>
      BY <1>4, SubSeqFull
    <2>2. active.kv \o <<last>> = Append(active.kv, last)
      BY <1>4, AppendIsConcat
    <2> QED BY <1>3, <1>4, <2>1, <2>2
  <1>8. last' = Greedy(req.prompt \o generated, generated)
    <2>1. \A w : \A i \in 0 .. Len(<<last>>) :
            Picks(active.kv, ssm, <<last>>, i, w) = Greedy(active.kv \o SubSeq(<<last>>, 1, i), w)
      BY <1>3, <1>4, ForwardInStep, ZenonT(40)
    <2>2. 1 \in 0 .. Len(<<last>>)
      BY <1>4
    <2>3. Picks(active.kv, ssm, <<last>>, 1, generated)
            = Greedy(active.kv \o SubSeq(<<last>>, 1, 1), generated)
      BY <2>1, <2>2, Zenon
    <2> QED BY <1>2, <1>7, <2>3
  <1>9. NextWindow = generated
    BY <1>2, <1>3 DEF NextWindow
  <1> QED BY <1>1, <1>2, <1>6, <1>8, <1>9, EmitRefines

(* Handing out a verified token is the abstract Emit.                      *)
LEMMA EmitTokenRefines ==
    ASSUME CacheInv, GreedyInv, EmitToken
    PROVE  Abstract!Emit
  <1>1. TypeOK /\ Shape /\ RoundInv
    BY DEF CacheInv, GreedyInv
  <1>2. pc = "emit" /\ generated' = Append(generated, Head(queue)) /\ req' = req
    BY Zenon DEF EmitToken
  <1>3. /\ aborted' \in BOOLEAN
        /\ pc' = "idle" => outcome' = "returned" /\
              (aborted' \/ Head(queue) \in StopTokens \/ Len(generated') >= req.budget)
    BY DEF EmitToken, Answers
  <1>4. /\ queue \in Seq(Tokens) /\ queue # <<>> /\ req.mode \in Rounds
        /\ generated \in Seq(Tokens) /\ req.budget \in Nat /\ Len(generated) \in Nat
    BY <1>1, <1>2, CallTypes DEF Shape
  <1>5. /\ ~aborted /\ Len(generated) < req.budget
        /\ generated # <<>> => generated[Len(generated)] \notin StopTokens
        /\ req.mode = "speculative" => generated # <<>>
        /\ \A j \in Len(generated) + 1 .. Len(Whole) : Whole[j] = NextOf(SubSeq(Whole, 1, j - 1))
    BY <1>1, <1>2, <1>4 DEF RoundInv
  <1>6. ~Ended(generated, aborted)
    BY <1>4, <1>5 DEF Ended
  <1>7. Head(queue) \in Tokens /\ Head(queue) = queue[1] /\ Len(queue) \in Nat \ {0}
    BY <1>4, HeadTailProperties, EmptySeq
  <1>8. Head(queue) = NextOf(generated)
    <2>1. /\ Len(Whole) = Len(generated) + Len(queue)
          /\ Whole[Len(generated) + 1] = queue[1]
      <3>1. 1 \in 1 .. Len(queue)
        BY <1>7
      <3> QED BY <1>4, <3>1, ConcatAt DEF Whole
    <2>2. SubSeq(Whole, 1, Len(generated)) = generated
      <3>1. 0 \in 0 .. Len(queue) /\ Len(generated) + 0 = Len(generated)
        BY <1>4, <1>7
      <3>2. SubSeq(generated \o queue, 1, Len(generated) + 0) = generated \o SubSeq(queue, 1, 0)
        BY <1>4, <3>1, ConcatPrefix
      <3>3. generated \o SubSeq(queue, 1, 0) = generated
        BY <1>4, SubSeqEmpty, ConcatEmptySeq
      <3> QED BY <3>1, <3>2, <3>3 DEF Whole
    <2>3. PICK k : k = Len(generated) + 1
      OBVIOUS
    <2>4. k \in Len(generated) + 1 .. Len(Whole) /\ k - 1 = Len(generated)
      BY <1>4, <1>7, <2>1, <2>3
    <2>5. Whole[k] = NextOf(SubSeq(Whole, 1, k - 1))
      BY <1>5, <2>4, Zenon
    <2> QED BY <1>7, <2>1, <2>2, <2>3, <2>4, <2>5
  <1>9. NextOf(generated) = Greedy(req.prompt \o generated, NextWindow)
    BY <1>4, <1>5 DEF NextOf, NextWindow, Rounds
  <1>10. pc' = "idle" => outcome' = "returned" /\ Ended(generated', aborted')
    <2>1. /\ Len(generated') = Len(generated) + 1 /\ generated' # <<>>
          /\ generated'[Len(generated')] = Head(queue)
      BY <1>2, <1>4, <1>7, AppendProperties
    <2>2. Len(generated') >= req.budget => Len(generated') = req.budget
      BY <1>4, <1>5, <2>1
    <2> QED BY <1>2, <1>3, <2>1, <2>2 DEF Ended
  <1> QED BY <1>1, <1>2, <1>3, <1>6, <1>8, <1>9, <1>10, EmitRefines

(* The decode loop ends because the answer is complete: the context has    *)
(* room for the whole budget.                                              *)
LEMMA FinishRefines ==
    ASSUME CacheInv, GreedyInv, Finish
    PROVE  Abstract!Return
  <1>1. TypeOK /\ RowsInv /\ PlainInv
    BY DEF CacheInv, GreedyInv
  <1>2. /\ pc = "decode" /\ pc' = "idle" /\ req.mode = "plain" /\ DecodeOver
        /\ outcome' = "returned" /\ req' = req /\ generated' = generated /\ aborted' = aborted
    BY Zenon DEF Finish, Answers
  <1>3. /\ generated # <<>> /\ Append(active.kv, last) = req.prompt \o generated
        /\ Len(generated) <= req.budget
        /\ Len(req.prompt) + req.budget + 4 <= MaxContext
    BY <1>1, <1>2 DEF RowsInv, PlainInv, Fits, Slack
  <1>4. /\ active.kv \in Seq(Tokens) /\ last \in Tokens /\ generated \in Seq(Tokens)
        /\ req.prompt \in Seq(Tokens) /\ Len(generated) \in Nat /\ req.budget \in Nat
        /\ Len(req.prompt) \in Nat /\ Len(active.kv) \in Nat /\ MaxContext \in Nat
    BY <1>1, CallTypes, CacheTypes, SessionAssumption
  <1>5. last = generated[Len(generated)] /\ Len(active.kv) = Len(req.prompt) + Len(generated) - 1
    BY <1>1, <1>2, PlainLast
  <1>6. ~(Len(active.kv) >= MaxContext)
    BY <1>3, <1>4, <1>5
  <1>7. Ended(generated, aborted)
    BY <1>2, <1>3, <1>4, <1>5, <1>6 DEF DecodeOver, Ended
  <1>8. Abstract!Complete
    BY <1>7 DEF Ended, Abstract!Complete, Abstract!Stopped
  <1> QED BY <1>2, <1>8 DEF Abstract!Return

(* A prefill that ends the call throws or was cancelled.                   *)
LEMMA PrefillEndsRefines ==
    ASSUME CacheInv, PrefillEnds
    PROVE  Abstract!Fail \/ Abstract!CancelPrefill
  <1>1. pc = "prefill" /\ pc' = "idle" /\ req' = req /\ generated' = generated /\ generated = <<>>
    BY DEF PrefillEnds, Answers, CacheInv, RowsInv
  <1>2. \/ outcome' = "threw" /\ aborted' = aborted
        \/ outcome' = "returned" /\ aborted'
    BY DEF PrefillEnds, Answers
  <1>3. CASE outcome' = "threw" /\ aborted' = aborted
    BY <1>1, <1>3, FailRefines
  <1>4. CASE outcome' = "returned" /\ aborted'
    BY <1>1, <1>4 DEF Abstract!CancelPrefill
  <1> QED BY <1>2, <1>3, <1>4

(* Every step maps to an abstract step or a stutter.                       *)
LEMMA StepRefines ==
    ASSUME CacheInv, StateInv, GreedyInv, [Next]_vars
    PROVE  [Abstract!Next]_(Abstract!greedyVars)
  <1>1. TypeOK
    BY DEF CacheInv
  <1>2. CASE UNCHANGED vars
    <2>1. req' = req /\ pc' = pc /\ generated' = generated /\ aborted' = aborted
          /\ outcome' = outcome
      BY <1>2, Zenon DEF vars, callVars
    <2> QED BY <2>1 DEF Abstract!greedyVars
  <1>3. CASE \E p \in Prompts, n \in Budgets, m \in Modes : Call(p, n, m)
    BY <1>1, <1>3, CallRefines DEF Abstract!Next
  <1>4. CASE Plan \/ PrefillDrafted \/ \E d \in Drafts : Round(d)
    <2>1. /\ pc # "idle" /\ pc' # "idle" /\ req' = req /\ generated' = generated
          /\ aborted' = aborted
      BY <1>4 DEF Plan, PrefillDrafted, Round
    <2> QED BY <2>1, StutterRefines
  <1>5. CASE PrefillPlain \/ PrefillSpeculative \/ DecodeStep \/ EmitToken
    BY <1>5, PrefillRefines, DecodeStepRefines, EmitTokenRefines DEF Abstract!Next
  <1>6. CASE Refuse \/ DecodeThrows \/ RoundThrows
    <2>1. /\ pc # "idle" /\ pc' = "idle" /\ outcome' = "threw" /\ req' = req
          /\ generated' = generated /\ aborted' = aborted
      BY <1>6 DEF Refuse, DecodeThrows, RoundThrows, Answers
    <2> QED BY <2>1, FailRefines DEF Abstract!Next
  <1>7. CASE PrefillEnds \/ Finish
    BY <1>7, PrefillEndsRefines, FinishRefines DEF Abstract!Next
  <1> QED BY <1>2, <1>3, <1>4, <1>5, <1>6, <1>7, Zenon DEF Next, Engine

(* The initial states map to initial states.                               *)
LEMMA InitRefines ==
    ASSUME Init
    PROVE  Abstract!Init
  <1>1. pc = "idle" /\ generated = <<>> /\ outcome = "new" /\ aborted = FALSE
    BY DEF Init
  <1>2. TypeOK
    BY CacheInit DEF CacheInv
  <1>3. [prompt |-> req.prompt, budget |-> req.budget,
         penalised |-> req.mode \in {"plain", "speculative"}] \in Abstract!Requests
    BY <1>2, CallTypes DEF Abstract!Requests
  <1> QED BY <1>1, <1>3 DEF Abstract!Init

(* Whatever the prefix cache kept, swapped, truncated or dropped, whatever *)
(* was checkpointed and restored, and whatever the drafters proposed, each *)
(* of the four loops hands out, token by token, the answer the target      *)
(* alone would have picked: within the budget, nothing after a stop or a   *)
(* cancel, and whole unless the call throws (generate, SpeculativeDecoder, *)
(* MtpDecoder, DFlashDecoder).                                             *)
THEOREM EngineImplementsGreedy ==
    ASSUME NetworkPicks, SpeculationIsRestored
    PROVE  Spec => ImplementsGreedy
  <1>1. Init => CacheInv /\ StateInv /\ GreedyInv
    BY CacheInit, StateInit, GreedyInit
  <1>2. CacheInv /\ StateInv /\ GreedyInv /\ [Next]_vars => CacheInv' /\ StateInv' /\ GreedyInv'
    BY CacheNext, StateNext, GreedyNext
  <1>3. Init => Abstract!Init
    BY InitRefines
  <1>4. CacheInv /\ StateInv /\ GreedyInv /\ [Next]_vars => [Abstract!Next]_(Abstract!greedyVars)
    BY StepRefines
  <1> QED BY <1>1, <1>2, <1>3, <1>4, PTL DEF Spec, ImplementsGreedy, Abstract!Spec
=============================================================================
