-------------------------- MODULE RequestScheduler --------------------------
(***************************************************************************)
(* RequestScheduler with its ChunkedPrefillScheduler and PreemptionPolicy  *)
(* over a paged KV pool: admission, the batch schedule of a tick, LIFO     *)
(* preemption with recompute, the commit of an executed schedule and the   *)
(* draining of completed requests.                                         *)
(*                                                                         *)
(* The class is driven by one thread.  Its caller is not part of the       *)
(* repository; it is taken from the loop shape RequestScheduler.hpp and    *)
(* PreemptionPolicy.hpp describe: tick, at most one preemption by policy,  *)
(* the forward, one feed call per assignment whose request is still        *)
(* active, commitProgress with the same schedule.  A feed that runs out of *)
(* blocks is answered as its contract says ("the caller should preempt the *)
(* affected request via preemptOne()", RequestScheduler.hpp:282-286): by   *)
(* preemptOne, and retried until it fits or the request fed was itself the *)
(* victim.  The class has no operation that fails a request.               *)
(***************************************************************************)
EXTENDS PagedKv, FiniteSetsExt

CONSTANTS
    MaxRequests,     \* bound: requests admitted in a behaviour
    PromptLengths,   \* prompt lengths offered
    MaxTokens,       \* max_tokens offered
    MaxActive,       \* _maxActiveRequests
    TokenBudget,     \* _tokenBudget of the ChunkedPrefillScheduler
    ThresholdNum,    \* freeBlockThreshold of the PreemptionPolicy is
    ThresholdDen     \*   ThresholdNum / ThresholdDen

(* The constructors throw on a zero budget or cap and on a threshold that  *)
(* is not in [0, 1]; admit refuses empty prompts and answers.              *)
ASSUME SchedulerAssumption ==
    /\ Owners = 1..MaxRequests /\ MaxRequests \in Nat
    /\ PromptLengths \subseteq Nat \ {0} /\ MaxTokens \subseteq Nat \ {0}
    /\ MaxActive \in Nat \ {0} /\ TokenBudget \in Nat \ {0}
    /\ ThresholdNum \in Nat /\ ThresholdDen \in Nat \ {0}
    /\ ThresholdNum <= ThresholdDen

VARIABLES
    state,    \* _requests[r].state; the vector is in the order of the ids,
              \* which is also that of admit_seq
    req,      \* _requests[r]: prompt length and counters
    nextId,   \* _nextRequestId
    phase,    \* where the caller's loop is
    sched     \* the BatchSchedule the last tick returned

vars == <<state, req, nextId, phase, sched, kvVars>>

States == {"Absent", "Waiting", "Prefilling", "Decoding", "Completed",
           "Preempted", "Drained"}
Phases == {"idle", "ticked", "feeding"}

NoRequest == [prompt |-> 0, pending |-> 0, decoded |-> 0, max |-> 0]
NoSchedule == [decodes |-> {}, chunk |-> [r \in Owners |-> 0]]

Init ==
    /\ KvInit
    /\ state = [r \in Owners |-> "Absent"]
    /\ req = [r \in Owners |-> NoRequest]
    /\ nextId = 1
    /\ phase = "idle"
    /\ sched = NoSchedule

InState(st, S) == {r \in Owners : st[r] \in S}
ActiveIn(st) == InState(st, {"Prefilling", "Decoding"})
Active == ActiveIn(state)
Before(S, r) == {s \in S : s < r}
-----------------------------------------------------------------------------
Admit(prompt, max) ==
    /\ nextId <= MaxRequests
    /\ state' = [state EXCEPT ![nextId] = "Waiting"]
    /\ req' = [req EXCEPT ![nextId] =
                 [prompt |-> prompt, pending |-> prompt, decoded |-> 0, max |-> max]]
    /\ nextId' = nextId + 1
    /\ UNCHANGED <<phase, sched, kvVars>>

(* reenqueuePreempted: back to Waiting, and everything is computed again. *)
Reenqueued == [r \in Owners |-> IF state[r] = "Preempted" THEN "Waiting" ELSE state[r]]

(* Mutant of Restarted: the counters are not reset. *)
RestartedWhereItWas == req

Restarted ==
    [r \in Owners |->
        IF state[r] = "Preempted"
        THEN [req[r] EXCEPT !.pending = req[r].prompt, !.decoded = 0] ELSE req[r]]

(* promoteWaitingToActive: in storage order, up to the cap. *)
Promoted(st, q) ==
    LET waiting == InState(st, {"Waiting"})
        room(r) == Cardinality(ActiveIn(st)) + Cardinality(Before(waiting, r)) < MaxActive
    IN  [r \in Owners |->
            IF r \in waiting /\ room(r)
            THEN IF q[r].pending > 0 THEN "Prefilling" ELSE "Decoding"
            ELSE st[r]]

(* ChunkedPrefillScheduler::schedule: decodes first, one token each, then  *)
(* prefill chunks from what is left of the budget, both in storage order.  *)
Schedule(st, q) ==
    LET decoding   == InState(st, {"Decoding"})
        prefilling == InState(st, {"Prefilling"})
        decodes == {r \in decoding : Cardinality(Before(decoding, r)) < TokenBudget}
        left(r) == TokenBudget - Cardinality(decodes)
                     - MapThenSumSet(LAMBDA s : q[s].pending, Before(prefilling, r))
    IN  [decodes |-> decodes,
         chunk   |-> [r \in Owners |->
                        IF r \in prefilling /\ left(r) > 0
                        THEN IF left(r) < q[r].pending THEN left(r) ELSE q[r].pending
                        ELSE 0]]

Tick ==
    /\ phase = "idle"
    /\ req' = Restarted
    /\ state' = Promoted(Reenqueued, req')
    /\ sched' = Schedule(state', req')
    /\ phase' = "ticked"
    /\ UNCHANGED <<nextId, kvVars>>

(* Mutant of PreemptOne: the smallest admit_seq. *)
PreemptOldest ==
    \E victim \in Active :
        /\ \A r \in Active : r >= victim
        /\ state' = [state EXCEPT ![victim] = "Preempted"]
        /\ ReleaseAll({victim})

(* preemptOne: the newest active request loses its blocks. *)
PreemptOne ==
    \E victim \in Active :
        /\ \A r \in Active : r <= victim
        /\ state' = [state EXCEPT ![victim] = "Preempted"]
        /\ ReleaseAll({victim})

(* Mutant of ShouldPreempt: no sole-active guard. *)
ShouldPreemptTheLast ==
    /\ Cardinality(Active) > 0
    /\ Cardinality(free) * ThresholdDen < ThresholdNum * Cardinality(Blocks)

ShouldPreempt ==
    /\ Cardinality(Active) > 1
    /\ Cardinality(free) * ThresholdDen < ThresholdNum * Cardinality(Blocks)

PolicyPreempt ==
    /\ phase = "ticked"
    /\ ShouldPreempt
    /\ PreemptOne
    /\ phase' = "feeding"
    /\ UNCHANGED <<req, nextId, sched>>

Launch ==
    /\ phase = "ticked"
    /\ ~ShouldPreempt
    /\ phase' = "feeding"
    /\ UNCHANGED <<state, req, nextId, sched, kvVars>>

(* Tokens the sequence of r holds once the schedule has been executed. *)
Target(r) ==
    (req[r].prompt - req[r].pending) + sched.chunk[r]
      + req[r].decoded + (IF r \in sched.decodes THEN 1 ELSE 0)

ToFeed == {r \in Active : ntok[r] < Target(r)}

(* One token of feedPrefillTokens or feedDecodeToken. *)
Feed(r) ==
    /\ phase = "feeding"
    /\ r \in ToFeed
    /\ ~Exhausted(r)
    /\ AppendToken(r)
    /\ UNCHANGED <<state, req, nextId, phase, sched>>

(* The feed returns false with a partial append in place.  preemptOne      *)
(* takes the newest active request, also when it is the only one.          *)
FeedFails(r) ==
    /\ phase = "feeding"
    /\ r \in ToFeed
    /\ Exhausted(r)
    /\ PreemptOne
    /\ UNCHANGED <<req, nextId, phase, sched>>

(* commitProgress(executed, reachedEos): a request that is no longer in    *)
(* the state it was scheduled in is skipped.                               *)
Advanced(r) ==
    IF state[r] = "Prefilling" /\ sched.chunk[r] >= req[r].pending
    THEN [req[r] EXCEPT !.pending = 0]
    ELSE IF state[r] = "Prefilling"
    THEN [req[r] EXCEPT !.pending = @ - sched.chunk[r]]
    ELSE IF state[r] = "Decoding" /\ r \in sched.decodes
    THEN [req[r] EXCEPT !.decoded = @ + 1]
    ELSE req[r]

StateAfter(r, eos) ==
    IF state[r] = "Prefilling" /\ sched.chunk[r] >= req[r].pending
    THEN "Decoding"
    ELSE IF /\ state[r] = "Decoding" /\ r \in sched.decodes
            /\ r \in eos \/ req[r].decoded + 1 >= req[r].max
    THEN "Completed"
    ELSE state[r]

Commit ==
    /\ phase = "feeding"
    /\ ToFeed = {}
    /\ \E eos \in SUBSET sched.decodes :
         state' = [r \in Owners |-> StateAfter(r, eos)]
    /\ req' = [r \in Owners |-> Advanced(r)]
    /\ phase' = "idle"
    /\ sched' = NoSchedule
    /\ UNCHANGED <<nextId, kvVars>>

DrainCompleted ==
    LET done == InState(state, {"Completed"})
    IN  /\ done # {}
        /\ state' = [r \in Owners |-> IF r \in done THEN "Drained" ELSE state[r]]
        /\ req' = [r \in Owners |-> IF r \in done THEN NoRequest ELSE req[r]]
        /\ ReleaseAll(done)
        /\ UNCHANGED <<nextId, phase, sched>>

Loop ==
    \/ Tick \/ PolicyPreempt \/ Launch \/ Commit
    \/ \E r \in Owners : Feed(r) \/ FeedFails(r)

Next ==
    \/ \E p \in PromptLengths, m \in MaxTokens : Admit(p, m)
    \/ Loop
    \/ DrainCompleted

Spec == Init /\ [][Next]_vars

(* The loop thread keeps turning and reaps what has completed. *)
FairSpec == Spec /\ WF_vars(Loop) /\ WF_vars(DrainCompleted)
-----------------------------------------------------------------------------
TypeOK ==
    /\ KvTypeOK
    /\ state \in [Owners -> States]
    /\ req \in [Owners -> [prompt : Nat, pending : Nat, decoded : Nat, max : Nat]]
    /\ nextId \in 1..(MaxRequests + 1)
    /\ phase \in Phases
    /\ sched \in [decodes : SUBSET Owners, chunk : [Owners -> Nat]]

(* Every block is free with no reference, or referenced once by exactly    *)
(* one place of one block table: preemption, partial feeds and draining    *)
(* neither leak a block nor free or hand out one that is in use            *)
(* (PagedKvBlockAllocator::allocate and release).                          *)
BlocksConserved ==
    /\ \A b \in Blocks : b \in free <=> ref[b] = 0
    /\ \A b \in Blocks \ free : \E r \in Owners : b \in BlocksOf(r)
    /\ \A r \in Owners : \A i \in 1..Len(table[r]) : ref[table[r][i]] = 1
    /\ \A r, q \in Owners : \A i \in 1..Len(table[r]), j \in 1..Len(table[q]) :
          table[r][i] = table[q][j] => r = q /\ i = j

(* The sequence of a request holds what the scheduler's counters say has   *)
(* been computed, in just enough blocks, through partial feeds, preemption *)
(* in the middle of an executed schedule and recompute: between iterations *)
(* exactly the prefilled and decoded tokens, nothing for a request that is *)
(* waiting or preempted (feedPrefillTokens against commitProgress).        *)
KvInSync ==
    \A r \in Owners :
        LET done == (req[r].prompt - req[r].pending) + req[r].decoded
            reached == IF r \in Active /\ phase # "idle" THEN Target(r) ELSE done
        IN  /\ (Len(table[r]) - 1) * BlockSize < ntok[r]
            /\ ntok[r] <= Len(table[r]) * BlockSize
            /\ IF state[r] = "Preempted" THEN ntok[r] = 0 ELSE ntok[r] \in done..reached

(* A full block carries the hash of the whole prefix it ends, also when    *)
(* the blocks were recycled from a preempted request, and a block that is  *)
(* not full carries none (appendToken's chain).                            *)
HashChained ==
    \A r \in Owners : \A i \in 1..Len(table[r]) :
        hash[table[r][i]] = IF i * BlockSize <= ntok[r] THEN <<r, i>> ELSE NoHash

(* Service is in order of admission: nobody active was admitted after      *)
(* somebody who waits, preempted or not (preemptOne takes the newest,      *)
(* promoteWaitingToActive the oldest).                                     *)
NoOvertaking ==
    \A a \in Active, w \in InState(state, {"Waiting", "Preempted"}) : a < w

(* Every admitted request completes and is drained.  It is what            *)
(* PreemptionPolicy.hpp:34-41 wants of the sole-active guard ("the classic *)
(* livelock case; the guard prevents it", "fail the request with OOM, not  *)
(* to thrash"); but admit takes requests that no pool state can hold, and  *)
(* the failing feed of a lone one preempts and recomputes it for ever.     *)
Completes ==
    \A r \in Owners : state[r] = "Waiting" ~> state[r] = "Drained"

(* The pool could hold each request alone, from prompt to last token. *)
AllFit == \A r \in Owners :
             req[r].prompt + req[r].max <= Cardinality(Blocks) * BlockSize

(* While every request fits the pool alone, all of them complete although  *)
(* preemption throws their work away: the oldest active request is never   *)
(* the victim while another one is active (PreemptionPolicy's sole-active  *)
(* guard, preemptOne's LIFO choice).                                       *)
CompletesIfAllFit == []AllFit => Completes
=============================================================================
