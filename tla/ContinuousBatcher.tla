------------------------- MODULE ContinuousBatcher -------------------------
(***************************************************************************)
(* The continuous-batching serving loop                                    *)
(* (runtime/serving/ContinuousBatcher.cpp): HTTP threads submit and cancel *)
(* requests, one worker thread admits them into MaxBatch slots, prefills   *)
(* them and steps every occupied slot one token per iteration.             *)
(*                                                                         *)
(* The worker is a program counter.  Its admission passes run under _mtx,  *)
(* so Submit and Stop (which take _mtx) are disabled while it is in one;   *)
(* Cancel takes only the request's own lock.  A forward pass runs without  *)
(* _mtx but touches nothing that another thread touches, so a forward and  *)
(* the locked commit after it form one action: a submit or a cancel during *)
(* the forward has the outcome of one right before it.  The step loops     *)
(* read a slot's cancel flag and hand out its token under two acquisitions *)
(* of the request's lock, so a cancel may come between: the flags are read *)
(* in an action of their own (a slot's flag is of no account to the other  *)
(* slots, so all are read at once).                                        *)
(***************************************************************************)
EXTENDS PrefixStore, SlotDevice, SequencesExt

CONSTANTS Reqs,             \* request handles; each is submitted at most once
          None,             \* no request
          Prompts,          \* token sequences a client may submit
          Tenants,          \* tenant labels, NoTenant among them
          NoTenant,         \* the empty label: auth is off
          GenTokens,        \* what a forward may sample
          StopTokens,       \* eosId and the request's stop ids
          MaxBatch,         \* slots
          MaxInflightCfg,   \* the maxInflight argument of the constructor
          MaxPerTenant,     \* _maxInflightPerTenant, 0 disables it
          MaxNew,           \* generated tokens per request
          PrefillChunk,     \* _prefillChunk, 0: ingest token by token
          PrefillMaxRows,   \* _prefillMaxRows
          AdmitPerIter,     \* _admitPerIter, 0: no cap
          WarmSlot, XSlot, MixedStep, PressureGate, MixedBatch,  \* switches
          MaxFailures       \* bound on engine exceptions in a behaviour

ASSUME BatcherAssumption ==
    /\ MaxBatch \in Nat \ {0} /\ MaxInflightCfg \in Nat /\ MaxPerTenant \in Nat
    /\ MaxNew \in Nat \ {0} /\ PrefillChunk \in Nat /\ PrefillMaxRows \in Nat
    /\ AdmitPerIter \in Nat /\ MaxFailures \in Nat
    /\ {WarmSlot, XSlot, MixedStep, PressureGate, MixedBatch} \subseteq BOOLEAN
    /\ Prompts \subseteq Seq(Nat) /\ GenTokens \subseteq Nat /\ Dummy \in Nat
    /\ None \notin Reqs /\ NoTenant \in Tenants
    \* what the constructor enforces
    /\ WarmSlot \/ XSlot => PrefillChunk > 0 /\ ~Slab
    /\ MixedStep \/ MixedBatch => PrefillMaxRows > 0 /\ PrefillChunk > 0 /\ ~Slab
    /\ XSlot => BlockSize = PrefillChunk
    /\ Slab => PrefillChunk > 0

Slots == 0 .. MaxBatch - 1
MaxInflight == IF MaxInflightCfg > MaxBatch THEN MaxInflightCfg ELSE MaxBatch
NoJob == [slot |-> 0, p |-> 0, active |-> FALSE]

VARIABLES
    running,      \* _running
    signal,       \* a notify of _cv that the sleeping worker has not consumed
    waiting,      \* _waiting, as request handles
    slots,        \* _slots
    warmTick,     \* _warmTick
    req,          \* the ServingRequest handles
    device,       \* ServingSession's per-slot device memory
    store,        \* ServingSession's cross-slot prefix store
    pc,           \* where the worker is in workerLoop
    pressure,     \* prefillPressure of this iteration
    scan,         \* the iterator of the cross-slot pass
    admitted,     \* requests admitted this iteration
    toPrefill,    \* slots admitted this iteration for eager prefill
    job,          \* the chunk loop of prefillSlotAdmitted
    passed,       \* slots the step loop has found not cancelled
    failures      \* engine exceptions so far

vars == <<running, signal, waiting, slots, warmTick, req, device, store, pc,
          pressure, scan, admitted, toPrefill, job, passed, failures>>

workerVars == <<pc, pressure, scan, admitted, toPrefill, job, passed, failures>>

FreshSlot == [req |-> None, pos |-> 0, prefillPos |-> 0, prefillStart |-> 0,
              resident |-> FALSE, residentTokens |-> <<>>, tick |-> 0,
              pin |-> NoPayload]

(* ran counts the prompt tokens a forward was run on for this request.     *)
FreshReq == [st |-> "new", err |-> "", cancelled |-> FALSE, prompt |-> <<>>,
             tenant |-> NoTenant, tokens |-> <<>>, prefillSet |-> FALSE,
             cachedTokens |-> 0, ran |-> 0]

Init ==
    /\ running = TRUE /\ signal = FALSE
    /\ waiting = <<>>
    /\ slots = [i \in Slots |-> FreshSlot] /\ warmTick = 0
    /\ req = [r \in Reqs |-> FreshReq]
    /\ device = [i \in Slots |-> BlankDevice]
    /\ store = EmptyStore
    /\ pc = "top" /\ pressure = TRUE /\ scan = 1 /\ admitted = 0
    /\ toPrefill = <<>> /\ job = NoJob /\ passed = {} /\ failures = 0

-----------------------------------------------------------------------------
(* Derived state                                                           *)

Occupied == {i \in Slots : slots[i].req # None}
Waiting == {waiting[k] : k \in DOMAIN waiting}
InFlight == Len(waiting) + Cardinality(Occupied)
Owner(i) == slots[i].req
PromptAt(i) == req[Owner(i)].prompt
PromptLen(i) == Len(PromptAt(i))
LastTok(i) == Last(req[Owner(i)].tokens)
CancelledUnseen(i) == FALSE                \* mutant: the flag is never read
Cancelled(i) == req[Owner(i)].cancelled
SlotOf(r) == CHOOSE i \in Occupied : slots[i].req = r

(* countTenantLocked *)
InFlightOf(t) ==
    Cardinality({k \in DOMAIN waiting : req[waiting[k]].tenant = t})
      + Cardinality({i \in Occupied : req[Owner(i)].tenant = t})

(* nActive: the batch is the slot prefix that ends at the last occupied    *)
(* slot; a free slot inside it is a hole and is stepped all the same.      *)
ActivePrefix == IF Occupied = {} THEN {} ELSE 0 .. Max(Occupied)

LockHeld == pc \in {"warm", "cross", "cold", "push"}
NotifyNobody == UNCHANGED signal           \* mutant: no notify_all
NotifyWorker == signal' = (signal \/ pc = "idle")

-----------------------------------------------------------------------------
(* HTTP threads                                                            *)

(* The checks of submit, in its order.                                     *)
SubmitOutcomeOneOver(prompt, tenant) ==    \* mutant: > for >= in both caps
    CASE prompt = <<>> -> "empty"
      [] prompt # <<>> /\ Len(prompt) >= MaxContext -> "tooLong"
      [] OTHER ->
          IF ~running THEN "stopped"
          ELSE IF InFlight > MaxInflight THEN "overloaded"
          ELSE IF /\ MaxPerTenant > 0 /\ tenant # NoTenant
                  /\ InFlightOf(tenant) > MaxPerTenant THEN "quota"
          ELSE "accepted"

SubmitOutcome(prompt, tenant) ==
    CASE prompt = <<>> -> "empty"
      [] prompt # <<>> /\ Len(prompt) >= MaxContext -> "tooLong"
      [] OTHER ->
          IF ~running THEN "stopped"
          ELSE IF InFlight >= MaxInflight THEN "overloaded"
          ELSE IF /\ MaxPerTenant > 0 /\ tenant # NoTenant
                  /\ InFlightOf(tenant) >= MaxPerTenant THEN "quota"
          ELSE "accepted"

Submit(r, prompt, tenant) ==
    LET outcome == SubmitOutcome(prompt, tenant)
        handle  == [FreshReq EXCEPT !.prompt = prompt, !.tenant = tenant]
    IN /\ ~LockHeld
       /\ req[r].st = "new"
       /\ IF outcome = "accepted"
          THEN /\ req' = [req EXCEPT ![r] = [handle EXCEPT !.st = "open"]]
               /\ waiting' = Append(waiting, r)
               /\ NotifyWorker
          ELSE /\ req' = [req EXCEPT ![r] = [handle EXCEPT
                              !.st = "done", !.err = outcome,
                              !.cancelled = (outcome = "stopped")]]
               /\ UNCHANGED <<waiting, signal>>
       /\ UNCHANGED <<running, slots, warmTick, device, store, workerVars>>

(* cancel only raises the flag and wakes the worker.  On a finished        *)
(* request the flag is never read again, so that case is left out.         *)
Cancel(r) ==
    /\ req[r].st = "open" /\ ~req[r].cancelled
    /\ req' = [req EXCEPT ![r].cancelled = TRUE]
    /\ NotifyWorker
    /\ UNCHANGED <<running, waiting, slots, warmTick, device, store, workerVars>>

(* The destructor, up to its join.                                         *)
Stop ==
    /\ ~LockHeld
    /\ running
    /\ running' = FALSE
    /\ NotifyWorker
    /\ UNCHANGED <<waiting, slots, warmTick, req, device, store, workerVars>>

-----------------------------------------------------------------------------
(* Ending requests                                                         *)

DoneReq(q, err) == [q EXCEPT !.st = "done", !.err = err]

(* Every site but retireSlot frees a slot this way: occupied = false and   *)
(* req.reset(), the pin and the resident history left as they are.         *)
FreedNot(s) == s                           \* mutant: occupied stays true
Freed(s) == [s EXCEPT !.req = None]

(* retireSlot for the slots in cold (keepWarm = false) and warm (keepWarm  *)
(* = true), in slot order; sl, dv and st are the state it starts from.     *)
RetireSlots(sl, dv, st, cold, warm) ==
    LET gone == cold \cup warm
        kept == {i \in warm : WarmSlot /\ sl[i].residentTokens # <<>>}
        Rank(i) == Cardinality({j \in kept : j <= i})
        Unpins(id) == Cardinality({i \in gone : sl[i].pin = id})
        Retired(i) == [sl[i] EXCEPT
            !.req = None, !.prefillStart = 0, !.pin = NoPayload,
            !.resident = (i \in kept),
            !.residentTokens = IF i \in kept THEN @ ELSE <<>>,
            !.tick = IF i \in kept THEN warmTick + Rank(i) ELSE @]
    IN /\ slots' = [i \in Slots |-> IF i \in gone THEN Retired(i) ELSE sl[i]]
       /\ device' = [i \in Slots |-> IF i \in gone \ kept THEN ClearCkpts(dv[i])
                                     ELSE dv[i]]
       /\ warmTick' = warmTick + Cardinality(kept)
       /\ store' = [st EXCEPT !.index.ref =
                       [id \in DOMAIN @ |-> Release(st.index, id, Unpins(id)).ref[id]]]

(* The stop test of the commit and of the two step loops: nextPos is where *)
(* the token just produced would be fed.                                   *)
StopsAtLength(tok, produced, nextPos) ==   \* mutant: stop ids are not looked at
    produced >= MaxNew \/ nextPos + 1 >= MaxContext

Stops(tok, produced, nextPos) ==
    tok \in StopTokens \/ produced >= MaxNew \/ nextPos + 1 >= MaxContext

(* The slot after its whole prompt was prefilled eagerly: in decode, and   *)
(* done with prefill for the mixed step too.                               *)
IngestedForDecodeOnly(i) ==                \* mutant: prefillPos is left at 0
    [slots[i] EXCEPT !.pos = PromptLen(i),
        !.residentTokens = IF WarmSlot THEN PromptAt(i) ELSE @]

Ingested(i) ==
    [slots[i] EXCEPT !.pos = PromptLen(i), !.prefillPos = PromptLen(i),
        !.residentTokens = IF WarmSlot THEN PromptAt(i) ELSE @]

(* commitPrefilledSlot for the slots in B, which just produced tk.         *)
Commit(B, tk, dv, st, rq) ==
    LET cold == {i \in B : Cancelled(i)}
        warm == {i \in B \ cold : Stops(tk[i], 1, PromptLen(i))}
        sl == [i \in Slots |-> IF i \in B THEN Ingested(i) ELSE slots[i]]
        Told(r, i) == [rq[r] EXCEPT
            !.prefillSet = TRUE, !.cachedTokens = slots[i].prefillStart,
            !.tokens = IF i \in cold THEN @ ELSE Append(@, tk[i]),
            !.st = IF i \in cold \cup warm THEN "done" ELSE @]
    IN /\ req' = [r \in Reqs |-> IF \E i \in B : Owner(i) = r THEN Told(r, SlotOf(r))
                                 ELSE rq[r]]
       /\ RetireSlots(sl, dv, st, cold, warm)

(* A forward that threw fails every request in F; none is retired through  *)
(* retireSlot.  It may have thrown before or after it wrote after.         *)
FailSlots(F, after) ==
    /\ failures < MaxFailures /\ failures' = failures + 1
    /\ req' = [r \in Reqs |-> IF \E i \in F : Owner(i) = r
                              THEN DoneReq(req[r], "failed") ELSE req[r]]
    /\ slots' = [i \in Slots |-> IF i \in F THEN Freed(slots[i]) ELSE slots[i]]
    /\ device' \in {device, after}
    /\ UNCHANGED <<warmTick, store>>

-----------------------------------------------------------------------------
(* workerLoop: the locked top of an iteration                              *)

Shutdown ==
    /\ pc = "top" /\ ~running
    /\ req' = [r \in Reqs |->
                  IF r \in Waiting \/ \E i \in Occupied : Owner(i) = r
                  THEN [DoneReq(req[r], "stopped") EXCEPT !.cancelled = TRUE]
                  ELSE req[r]]
    /\ waiting' = <<>>
    /\ slots' = [i \in Slots |-> IF i \in Occupied THEN Freed(slots[i]) ELSE slots[i]]
    /\ pc' = "exited"
    /\ UNCHANGED <<running, signal, warmTick, device, store, pressure, scan,
                   admitted, toPrefill, job, failures, passed>>

BeginIteration ==
    /\ pc = "top" /\ running
    /\ pressure' = (IF MixedStep /\ PressureGate
                    THEN Len(waiting) > MaxBatch - Cardinality(Occupied) ELSE TRUE)
    /\ admitted' = 0 /\ scan' = 1 /\ toPrefill' = <<>>
    /\ pc' = "warm"
    /\ UNCHANGED <<running, signal, waiting, slots, warmTick, req, device, store,
                   job, passed, failures>>

MayAdmitWithCap == admitted < AdmitPerIter \* mutant: 0 admits nobody
MayAdmit == AdmitPerIter = 0 \/ admitted < AdmitPerIter

LCP(a, b) == Max({n \in 0 .. Len(a) : n <= Len(b) /\ SubSeq(a, 1, n) = SubSeq(b, 1, n)})

(* findWarmSlot: where slot i could resume this prompt, 0 for nowhere.     *)
WarmPos(i, prompt) ==
    LET lcp == LCP(slots[i].residentTokens, prompt)
        best == CkptBestPos(device[i], lcp)
    IN IF /\ slots[i].resident /\ i \notin Occupied
          /\ lcp > 0 /\ lcp < Len(prompt) /\ best < Len(prompt)
       THEN best ELSE 0

WarmFor(prompt) == {i \in Slots : WarmSlot /\ WarmPos(i, prompt) > 0}

(* The slot that skips the most, the most recently used one of those: no   *)
(* two resident slots have the same tick, so there is one at most.         *)
FindWarmSlot(prompt) ==
    {i \in WarmFor(prompt) : \A j \in WarmFor(prompt) :
        \/ WarmPos(j, prompt) < WarmPos(i, prompt)
        \/ /\ WarmPos(j, prompt) = WarmPos(i, prompt)
           /\ slots[j].tick <= slots[i].tick}

(* pickColdSlot: the lowest free slot that is not resident, else the least *)
(* recently used resident one; none when every slot is occupied.           *)
PickColdSlot ==
    LET free == Slots \ Occupied
    IN {i \in free : \A j \in free \ {i} :
           IF slots[i].resident
           THEN slots[j].resident /\ slots[i].tick < slots[j].tick
           ELSE slots[j].resident \/ i < j}

(* The assignments the three passes share.                                 *)
AdmitTo(i, r, start, pin, eager) ==
    /\ slots' = [slots EXCEPT ![i] = [slots[i] EXCEPT
            !.req = r, !.pos = 0, !.prefillPos = 0, !.prefillStart = start,
            !.resident = FALSE, !.pin = pin,
            !.residentTokens = IF start = 0 THEN <<>> ELSE @]]
    /\ toPrefill' = IF PrefillChunk > 0 /\ eager THEN Append(toPrefill, i)
                    ELSE toPrefill
    /\ admitted' = admitted + 1
    /\ UNCHANGED <<running, signal, warmTick, req, pressure, job, failures,
                   passed>>

(* admitWarmSlots.  A request passed over stays without a match for the    *)
(* rest of the pass (admitting only takes resident slots away), so the     *)
(* pass admits the first request that has one until there is none left.    *)
WarmHits == {k \in DOMAIN waiting : WarmFor(req[waiting[k]].prompt) # {}}

AdmitWarm ==
    /\ pc = "warm" /\ MayAdmit /\ WarmHits # {}
    /\ \E k \in WarmHits :
          LET prompt == req[waiting[k]].prompt
          IN /\ \A l \in WarmHits : k <= l
             /\ \E i \in FindWarmSlot(prompt) :
                   /\ AdmitTo(i, waiting[k], WarmPos(i, prompt), NoPayload, TRUE)
                   /\ device' = [device EXCEPT ![i] =
                         PruneCkpts(@, LCP(slots[i].residentTokens, prompt))]
             /\ waiting' = RemoveAt(waiting, k)
    /\ UNCHANGED <<store, pc, scan>>

EndWarm ==
    /\ pc = "warm" /\ ~(MayAdmit /\ WarmHits # {})
    /\ pc' = "cross"
    /\ UNCHANGED <<running, signal, waiting, slots, warmTick, req, device,
                   store, pressure, scan, admitted, toPrefill, job, failures,
                   passed>>

(* admitCrossSlots, one request per action.                                *)
CrossMore == XSlot /\ MayAdmit /\ scan <= Len(waiting)
CrossPrompt == req[waiting[scan]].prompt
CrossId == LookupImage(store, CrossPrompt)
CrossUsable ==
    CrossId # NoPayload /\ store.images[CrossId].pos < Len(CrossPrompt)

AdmitCross ==
    /\ pc = "cross" /\ CrossMore /\ CrossUsable /\ Slots \ Occupied # {}
    /\ \E i \in PickColdSlot, img \in {store.images[CrossId]} :
          /\ AdmitTo(i, waiting[scan], img.pos, CrossId, TRUE)
          /\ device' = [device EXCEPT ![i] = ClearCkpts(RestoreImage(@, img))]
    /\ store' = AcquireImage(TouchLookup(store, CrossPrompt), CrossId)
    /\ waiting' = RemoveAt(waiting, scan)
    /\ UNCHANGED <<pc, scan>>

SkipCross ==
    /\ pc = "cross" /\ CrossMore /\ ~CrossUsable
    /\ store' = TouchLookup(store, CrossPrompt)
    /\ scan' = scan + 1
    /\ UNCHANGED <<running, signal, waiting, slots, warmTick, req, device, pc,
                   pressure, admitted, toPrefill, job, failures, passed>>

EndCross ==
    /\ pc = "cross"
    /\ \/ ~CrossMore /\ UNCHANGED store
       \/ /\ CrossMore /\ CrossUsable /\ Slots \ Occupied = {}
          /\ store' = TouchLookup(store, CrossPrompt)
    /\ pc' = "cold"
    /\ UNCHANGED <<running, signal, waiting, slots, warmTick, req, device,
                   pressure, scan, admitted, toPrefill, job, failures, passed>>

(* admitColdSlots                                                          *)
ColdMore == waiting # <<>> /\ MayAdmit /\ Slots \ Occupied # {}

AdmitCold ==
    /\ pc = "cold" /\ ColdMore
    /\ \E i \in PickColdSlot :
          /\ AdmitTo(i, Head(waiting), 0, NoPayload,
                     ~MixedStep \/ (PressureGate /\ ~pressure))
          /\ device' = [device EXCEPT ![i] = ClearCkpts(@)]
    /\ waiting' = Tail(waiting)
    /\ UNCHANGED <<store, pc, scan>>

(* With nothing admitted the worker goes to sleep on _cv: the predicate is *)
(* false here, it was evaluated under the lock the passes hold.            *)
EndAdmission ==
    /\ pc = "cold" /\ ~ColdMore
    /\ pc' = IF Occupied = {} THEN "idle" ELSE "prefill"
    /\ signal' = FALSE
    /\ UNCHANGED <<running, waiting, slots, warmTick, req, device, store,
                   pressure, scan, admitted, toPrefill, job, failures, passed>>

WakesForWorkOnly == waiting # <<>>         \* mutant: _running is not tested
WakePredicate == ~running \/ waiting # <<>>

Wake ==
    /\ pc = "idle" /\ signal
    /\ signal' = FALSE
    /\ pc' = IF WakePredicate THEN "top" ELSE "idle"
    /\ UNCHANGED <<running, waiting, slots, warmTick, req, device, store,
                   pressure, scan, admitted, toPrefill, job, failures, passed>>

-----------------------------------------------------------------------------
(* Eager prefill of the slots admitted this iteration                      *)

Batched == MixedBatch \/ MixedStep

(* The work list once its first n slots are dealt with.                    *)
RestOfListOneShort(n) == SubSeq(toPrefill, n, Len(toPrefill))  \* mutant: off by one
RestOfList(n) == SubSeq(toPrefill, n + 1, Len(toPrefill))

(* prefillSlotAdmitted: alone, in chunks from prefillStart; a resumed slot *)
(* first gets back the checkpoint taken there.                             *)
ResumeAtZero(i) == 0                       \* mutant: the hit is not used
ResumeAt(i) == slots[i].prefillStart

PrefillBegin ==
    /\ pc = "prefill" /\ ~job.active /\ toPrefill # <<>>
    /\ LET i == Head(toPrefill)
           start == ResumeAt(i)
       IN /\ Batched => PromptLen(i) > PrefillMaxRows
          /\ job' = [slot |-> i, p |-> start, active |-> TRUE]
          /\ device' = [device EXCEPT ![i] =
                           IF start > 0 THEN RestoreCkpt(@, start) ELSE @]
    /\ toPrefill' = RestOfList(1)
    /\ UNCHANGED <<running, signal, waiting, slots, warmTick, req, store, pc,
                   pressure, scan, admitted, failures, passed>>

ChunkLen == Min({PrefillChunk, PromptLen(job.slot) - job.p})
ChunkEnd == job.p + ChunkLen
ChunkTokens == SubSeq(PromptAt(job.slot), job.p + 1, ChunkEnd)

(* The device after this chunk's forward and its checkpoint, and the store *)
(* after the producer's snapshot at the deepest block boundary.            *)
ChunkDevice ==
    LET fed == PrefillForward(device[job.slot], ChunkTokens, job.p)
    IN [device EXCEPT ![job.slot] =
           IF WarmSlot THEN CaptureCkpt(fed, ChunkEnd) ELSE fed]

ChunkStore ==
    LET deepest == (PromptLen(job.slot) \div PrefillChunk) * PrefillChunk
    IN IF XSlot /\ ChunkEnd = deepest
       THEN Snapshot(store, SubSeq(PromptAt(job.slot), 1, deepest),
                     ImageOf(ChunkDevice[job.slot], deepest))
       ELSE store

ChunkReq == [req EXCEPT ![Owner(job.slot)].ran = @ + ChunkLen]

PrefillChunkStep ==
    /\ pc = "prefill" /\ job.active /\ ChunkEnd < PromptLen(job.slot)
    /\ device' = ChunkDevice /\ store' = ChunkStore /\ req' = ChunkReq
    /\ job' = [job EXCEPT !.p = ChunkEnd]
    /\ UNCHANGED <<running, signal, waiting, slots, warmTick, pc, pressure,
                   scan, admitted, toPrefill, failures, passed>>

PrefillLastChunk(tok) ==
    /\ pc = "prefill" /\ job.active /\ ChunkEnd = PromptLen(job.slot)
    /\ \E dv \in {ChunkDevice}, st \in {DrainFrees(ChunkStore)} :
          Commit({job.slot}, [i \in {job.slot} |-> tok], dv, st, ChunkReq)
    /\ job' = NoJob
    /\ UNCHANGED <<running, signal, waiting, pc, pressure, scan, admitted,
                   toPrefill, failures, passed>>

PrefillFail ==
    /\ pc = "prefill" /\ job.active
    /\ FailSlots({job.slot}, ChunkDevice)
    /\ job' = NoJob
    /\ UNCHANGED <<running, signal, waiting, pc, pressure, scan, admitted,
                   toPrefill, passed>>

(* prefillSlotRunBatched: one ragged forward over the longest run of       *)
(* consecutive slots that fits PrefillMaxRows, every prompt from 0.        *)
BatchFits(n) ==
    /\ \A k \in 2 .. n : toPrefill[k] = toPrefill[k - 1] + 1
    /\ SumFunction([k \in 1 .. n |-> PromptLen(toPrefill[k])]) <= PrefillMaxRows

BatchSize == Max({1} \cup {n \in 2 .. Len(toPrefill) : BatchFits(n)})
BatchSlots == {toPrefill[k] : k \in 1 .. BatchSize}

BatchReady ==
    /\ pc = "prefill" /\ ~job.active /\ toPrefill # <<>> /\ Batched
    /\ PromptLen(Head(toPrefill)) <= PrefillMaxRows

BatchDevice == [i \in Slots |-> IF i \in BatchSlots
                                THEN PrefillForward(device[i], PromptAt(i), 0)
                                ELSE device[i]]

PrefillBatch ==
    /\ BatchReady
    /\ \E tk \in [BatchSlots -> GenTokens] :
          Commit(BatchSlots, tk, BatchDevice, store,
                 [r \in Reqs |-> IF \E i \in BatchSlots : Owner(i) = r
                                 THEN [req[r] EXCEPT !.ran = @ + Len(req[r].prompt)]
                                 ELSE req[r]])
    /\ toPrefill' = RestOfList(BatchSize)
    /\ UNCHANGED <<running, signal, waiting, pc, pressure, scan, admitted, job,
                   failures, passed>>

PrefillBatchFail ==
    /\ BatchReady
    /\ FailSlots(BatchSlots, BatchDevice)
    /\ toPrefill' = RestOfList(BatchSize)
    /\ UNCHANGED <<running, signal, waiting, pc, pressure, scan, admitted, job,
                   passed>>

PrefillDone ==
    /\ pc = "prefill" /\ ~job.active /\ toPrefill = <<>>
    /\ pc' = IF Occupied = {} THEN "top" ELSE "step"
    /\ UNCHANGED <<running, signal, waiting, slots, warmTick, req, device,
                   store, pressure, scan, admitted, toPrefill, job, failures,
                   passed>>

-----------------------------------------------------------------------------
(* The step of an iteration                                                *)

StepFrame == /\ pc' = "top" /\ passed' = {}
             /\ UNCHANGED <<running, signal, waiting, pressure, scan, admitted,
                            toPrefill, job>>

(* The forward of the step has returned, and the loop over its tokens asks *)
(* every slot whether its request was cancelled.  The forward itself reads *)
(* no flag and is part of the action that hands the tokens out.            *)
CheckCancelled ==
    /\ pc = "step"
    /\ passed' = {i \in Occupied : ~Cancelled(i)}
    /\ pc' = "push"
    /\ UNCHANGED <<running, signal, waiting, slots, warmTick, req, device, store,
                   pressure, scan, admitted, toPrefill, job, failures>>

FoundCancelled(i) == i \notin passed

Prefilling == {i \in Occupied : slots[i].prefillPos < PromptLen(i)}
InBand == MixedStep /\ Prefilling # {}
MixedTurn == pc = "push" /\ InBand
DecodeTurn == pc = "push" /\ ~InBand

(* runMixedStep: every slot of the prefix gets one row, and the prefilling *)
(* ones share what is left of PrefillMaxRows in slot order.                *)
Wanted(i) == Min({PrefillChunk, PromptLen(i) - slots[i].prefillPos})

MixedChunk(i) ==
    LET rows == Cardinality(ActivePrefix)
        extra == IF PrefillMaxRows > rows THEN PrefillMaxRows - rows ELSE 0
        before == SumFunctionOnSet([j \in Prefilling |-> Wanted(j) - 1],
                                   {j \in Prefilling : j < i})
        left == IF extra > before THEN extra - before ELSE 0
    IN 1 + Min({Wanted(i) - 1, left})

MixedStartAtPos(i) == slots[i].pos         \* mutant: one counter for both
MixedStart(i) == IF i \in Prefilling THEN slots[i].prefillPos ELSE slots[i].pos

MixedForward(i) ==
    IF i \in Prefilling
    THEN PrefillForward(device[i], SubSeq(PromptAt(i), slots[i].prefillPos + 1,
                                          slots[i].prefillPos + MixedChunk(i)),
                        MixedStart(i))
    ELSE IF i \in Occupied THEN PrefillForward(device[i], <<LastTok(i)>>, MixedStart(i))
    ELSE IF i \in ActivePrefix THEN PrefillForward(device[i], <<Dummy>>, 0)
    ELSE device[i]

MixedStepRun ==
    LET dead == {i \in Occupied : FoundCancelled(i)}
        ends == {i \in Prefilling : slots[i].prefillPos + MixedChunk(i) = PromptLen(i)}
        emits == (ends \cup (Occupied \ Prefilling)) \ dead
        NextPos(i) == IF i \in ends THEN PromptLen(i) ELSE slots[i].pos + 1
        Ran(i) == IF i \in Prefilling THEN MixedChunk(i) ELSE 0
    IN /\ MixedTurn
       /\ device' = [i \in Slots |-> MixedForward(i)]
       /\ \E tk \in [emits -> GenTokens] :
            LET stops == {i \in emits :
                    Stops(tk[i], Len(req[Owner(i)].tokens) + 1, NextPos(i))}
                Told(r, i) == [req[r] EXCEPT
                    !.ran = @ + Ran(i),
                    !.tokens = IF i \in emits THEN Append(@, tk[i]) ELSE @,
                    !.st = IF i \in stops \cup dead THEN "done" ELSE @]
                Stepped(i) == [slots[i] EXCEPT
                    !.prefillPos = IF i \in Prefilling THEN @ + MixedChunk(i) ELSE @,
                    !.pos = IF i \in emits THEN NextPos(i) ELSE @]
            IN /\ req' = [r \in Reqs |-> IF \E i \in Occupied : Owner(i) = r
                                         THEN Told(r, SlotOf(r)) ELSE req[r]]
               /\ slots' = [i \in Slots |->
                              IF i \notin Occupied THEN slots[i]
                              ELSE IF i \in stops \cup dead THEN Freed(slots[i])
                              ELSE Stepped(i)]
       /\ UNCHANGED <<warmTick, store, failures>>
       /\ StepFrame

MixedStepFail ==
    /\ pc = "step" /\ InBand
    /\ FailSlots(Occupied, [i \in Slots |-> MixedForward(i)])
    /\ StepFrame

(* The decode step over the active prefix, and the distribution of its     *)
(* tokens; a slot still inside its prompt (PrefillChunk = 0) is fed the    *)
(* next prompt token and keeps its sampled token to itself.                *)
StepToken(i) ==
    IF slots[i].pos < PromptLen(i) THEN PromptAt(i)[slots[i].pos + 1] ELSE LastTok(i)

DecodeForward(i) ==
    IF i \in Occupied THEN StepForward(device[i], StepToken(i), slots[i].pos)
    ELSE IF i \in ActivePrefix THEN StepForward(device[i], Dummy, 0)
    ELSE device[i]

(* Nothing bounds a slab in the step: one that is full is written past its *)
(* end, over whatever follows it, which may be rows of any slab.           *)
Overrunning == {i \in ActivePrefix : Full(device[i])}
StrayToken(i) == IF i \in Occupied THEN StepToken(i) ELSE Dummy

DecodeDevices ==
    {[j \in Slots |-> DecodeForward(j)]} \cup
    {[j \in Slots |-> Overwritten(DecodeForward(j), {k \in Rows : <<j, k>> \in hit},
                                  StrayToken(i))] :
        i \in Overrunning, hit \in SUBSET (Slots \X Rows)}

DecodeStep ==
    LET cold == {i \in Occupied : FoundCancelled(i)}
        gens == {i \in Occupied \ cold : slots[i].pos + 1 >= PromptLen(i)}
        Ran(i) == IF slots[i].pos < PromptLen(i) THEN 1 ELSE 0
    IN /\ DecodeTurn
       /\ \E tk \in [gens -> GenTokens], dv \in DecodeDevices :
            LET stops == {i \in gens :
                    Stops(tk[i], Len(req[Owner(i)].tokens) + 1, slots[i].pos + 1)}
                Told(r, i) == [req[r] EXCEPT
                    !.ran = @ + Ran(i),
                    !.tokens = IF i \in gens THEN Append(@, tk[i]) ELSE @,
                    !.st = IF i \in stops \cup cold THEN "done" ELSE @]
                sl == [i \in Slots |-> IF i \in Occupied \ (cold \cup stops)
                                       THEN [slots[i] EXCEPT !.pos = @ + 1]
                                       ELSE slots[i]]
            IN /\ req' = [r \in Reqs |-> IF \E i \in Occupied : Owner(i) = r
                                         THEN Told(r, SlotOf(r)) ELSE req[r]]
               /\ RetireSlots(sl, dv, store, cold, stops)
       /\ UNCHANGED failures
       /\ StepFrame

DecodeFail ==
    /\ pc = "step" /\ ~InBand
    /\ \E dv \in DecodeDevices : FailSlots(Occupied, dv)
    /\ StepFrame

-----------------------------------------------------------------------------
Worker ==
    \/ Shutdown \/ BeginIteration
    \/ AdmitWarm \/ EndWarm \/ AdmitCross \/ SkipCross \/ EndCross
    \/ AdmitCold \/ EndAdmission \/ Wake
    \/ PrefillBegin \/ PrefillChunkStep \/ PrefillFail
    \/ \E tok \in GenTokens : PrefillLastChunk(tok)
    \/ PrefillBatch \/ PrefillBatchFail \/ PrefillDone
    \/ CheckCancelled \/ MixedStepRun \/ MixedStepFail \/ DecodeStep \/ DecodeFail

Client ==
    \/ \E r \in Reqs, p \in Prompts, t \in Tenants : Submit(r, p, t)
    \/ \E r \in Reqs : Cancel(r)
    \/ Stop

(* Every handle has been used and the worker sleeps or has returned.       *)
Quiescent ==
    /\ pc \in {"idle", "exited"} /\ ~signal
    /\ \A r \in Reqs : req[r].st = "done"
    /\ UNCHANGED vars

Next == Worker \/ Client \/ Quiescent

Spec == Init /\ [][Next]_vars

(* The worker thread keeps being scheduled.  Nothing obliges a client to   *)
(* submit, cancel or stop.                                                 *)
FairSpec == Spec /\ WF_vars(Worker)

-----------------------------------------------------------------------------
(* Properties                                                              *)

(* Every variable has the type its declaration says.                       *)
TypeOK ==
    /\ {running, signal, pressure} \subseteq BOOLEAN
    /\ waiting \in Seq(Reqs)
    /\ slots \in [Slots -> [req : Reqs \cup {None}, pos : Nat, prefillPos : Nat,
                            prefillStart : Nat, resident : BOOLEAN,
                            residentTokens : Seq(Nat), tick : Nat, pin : Nat]]
    /\ warmTick \in Nat
    /\ req \in [Reqs -> [st : {"new", "open", "done"},
                         err : {"", "empty", "tooLong", "stopped", "overloaded",
                                "quota", "failed"},
                         cancelled : BOOLEAN, prompt : Seq(Nat), tenant : Tenants,
                         tokens : Seq(GenTokens), prefillSet : BOOLEAN,
                         cachedTokens : Nat, ran : Nat]]
    /\ \A i \in Slots : /\ device[i].kv \in [Rows -> Nat \cup {Empty}]
                        /\ device[i].ssm \in Seq(Nat)
                        /\ device[i].len \in Nat
                        /\ Len(device[i].ring) <= RingCap
    /\ store.pendingFree \subseteq Nat /\ store.nextId \in Nat
    /\ pc \in {"top", "warm", "cross", "cold", "idle", "prefill", "step", "push",
              "exited"}
    /\ scan \in Nat /\ admitted \in Nat /\ toPrefill \in Seq(Slots)
    /\ job \in [slot : Slots, p : Nat, active : BOOLEAN]
    /\ passed \subseteq Slots
    /\ failures \in 0 .. MaxFailures

(* A request that is still owed an answer is in exactly one place, the     *)
(* queue or one slot, and nothing else is: no request is lost between the  *)
(* admission passes, run in two slots, or still held after it was ended.   *)
Placement ==
    /\ \A r \in Reqs : (req[r].st = "open") <=> (r \in Waiting \/ \E i \in Occupied : Owner(i) = r)
    /\ \A i \in Occupied : Owner(i) \notin Waiting
    /\ \A i, j \in Occupied : Owner(i) = Owner(j) => i = j
    /\ \A k, l \in DOMAIN waiting : waiting[k] = waiting[l] => k = l

(* Admission control: queue and slots together never exceed _maxInflight,  *)
(* whatever mix of the three admission passes, of failures and of cancels  *)
(* frees and fills the slots.                                              *)
InflightBounded == InFlight <= MaxInflight

(* The quota of a labelled tenant bounds its queued and running requests   *)
(* together, whatever mix of submits, admissions, endings and failures     *)
(* moves them; requests without a label are not counted.                   *)
TenantBounded ==
    MaxPerTenant > 0 =>
        \A t \in Tenants \ {NoTenant} : InFlightOf(t) <= MaxPerTenant

(* The work list of the eager prefill names each of its slots once, only   *)
(* slots that are occupied, and never the slot being prefilled; it is used *)
(* up before the step, so no forward is run for a slot that was freed      *)
(* meanwhile ("the slot cannot have been re-used mid-prefill; the guards   *)
(* are defensive", ContinuousBatcher.cpp:632-633).                         *)
WorkList ==
    /\ \A k \in DOMAIN toPrefill : toPrefill[k] \in Occupied
    /\ \A k, l \in DOMAIN toPrefill : toPrefill[k] = toPrefill[l] => k = l
    /\ pc \in {"top", "step", "push", "idle", "exited"} => toPrefill = <<>>
    /\ job.active => /\ pc = "prefill" /\ job.slot \in Occupied
                     /\ \A k \in DOMAIN toPrefill : toPrefill[k] # job.slot

(* The worker never sleeps on work: it is idle with no wake-up pending     *)
(* only while the queue and the slots are empty and nobody has asked it to *)
(* stop.                                                                   *)
NoLostWakeup ==
    pc = "idle" /\ ~signal => waiting = <<>> /\ Occupied = {} /\ running

(* What slot i has been fed, and how much of it the next forward on the    *)
(* slot builds upon.                                                       *)
Fed(i) == PromptAt(i) \o req[Owner(i)].tokens

Resumes(i) ==
    /\ i \in {toPrefill[k] : k \in DOMAIN toPrefill}
    /\ Batched => PromptLen(i) > PrefillMaxRows

BuildsOn(i) ==
    IF Resumes(i) THEN slots[i].prefillStart
    ELSE IF job.active /\ job.slot = i THEN job.p
    ELSE Max({slots[i].pos, slots[i].prefillPos})

(* Every KV row that the next forward of an occupied slot attends to was   *)
(* computed from that request's own tokens: no row of an earlier request,  *)
(* of another tenant's shared prefix or of an idle hole's dummy survives   *)
(* below the slot's position.                                              *)
KvFaithful ==
    \A i \in Occupied : /\ BuildsOn(i) < MaxContext
                        /\ \A k \in 0 .. BuildsOn(i) - 1 :
                              device[i].kv[k] = Fed(i)[k + 1]

(* Rows are written within their slab: what KvCache.hpp:168-170 leaves to  *)
(* the caller of writeSlotK and writeSlotV ("Caller will write T rows      *)
(* starting here, T <= maxSeq - length()").  It is not so of a slab that   *)
(* lies idle below the active prefix's end.                                *)
SlabsWithinBounds == Slab => \A i \in Slots : device[i].len <= MaxContext

(* The recurrent state of a slot in use has absorbed exactly the tokens    *)
(* below the slot's position: resuming a checkpoint or a shared image puts *)
(* it back at the right point, and a sequence start zeroes it.             *)
SsmFaithful ==
    \A i \in Occupied :
        BuildsOn(i) > 0 /\ ~Slab /\ ~Resumes(i) =>
            device[i].ssm = SubSeq(Fed(i), 1, BuildsOn(i))

(* The checkpoint ring of a slot in use or kept warm holds recurrent       *)
(* states of prefixes of the slot's own key, in ascending order and within *)
(* kMaxPerSlot: nothing from beyond the point where the previous request   *)
(* diverged is left.                                                       *)
RingFaithful ==
    \A i \in Slots :
        i \in Occupied \/ slots[i].resident =>
            LET key == IF i \in Occupied THEN PromptAt(i) ELSE slots[i].residentTokens
                ring == device[i].ring
            IN /\ \A k \in DOMAIN ring :
                     /\ ring[k].pos <= Len(key)
                     /\ ring[k].ssm = SubSeq(key, 1, ring[k].pos)
               /\ \A k \in 2 .. Len(ring) : ring[k - 1].pos < ring[k].pos
               /\ Len(ring) <= RingCap

(* An image in the cross-slot store is the device state of exactly the     *)
(* tokens it is keyed by, and the images, the index entries and the images *)
(* waiting to be freed account for each other.                             *)
StoreFaithful ==
    /\ DOMAIN store.images = Payloads(store.index)
    /\ DOMAIN store.images \cap store.pendingFree = {}
    /\ \A id \in DOMAIN store.images :
          LET key == store.index.tok[id]
              img == store.images[id]
          IN /\ img.pos = Len(key) /\ img.ssm = key
             /\ \A k \in 0 .. img.pos - 1 : img.kv[k] = key[k + 1]

(* An image a live slot was restored from stays in the store, pinned once  *)
(* for every such slot.                                                    *)
LivePinned ==
    \A id \in {slots[i].pin : i \in Occupied} \ {NoPayload} :
        /\ id \in DOMAIN store.images
        /\ store.index.ref[id] >= Cardinality({i \in Occupied : slots[i].pin = id})

(* A pin is given back when its request ends: no entry is pinned by more   *)
(* than the live slots that restored it, so LRU can always reclaim it.     *)
(* ContinuousBatcher.hpp:249-252 says so ("Released back to the store on   *)
(* retire so LRU eviction can reclaim it"); it is not so where a request   *)
(* ends without retireSlot, which is the only place that releases.         *)
PinsReleased ==
    pc # "exited" =>
        \A id \in Payloads(store.index) :
            store.index.ref[id] = Cardinality({i \in Occupied : slots[i].pin = id})

(* A request that ended without an error and without a cancel has a whole  *)
(* answer: a stop token last, all of MaxNew, or the context used up; and a *)
(* stop token is never followed by another token.                          *)
AnswerWhole ==
    \A r \in Reqs :
        LET q == req[r]
            n == Len(q.tokens)
        IN /\ n <= MaxNew
           /\ \A k \in 1 .. n - 1 : q.tokens[k] \notin StopTokens
           /\ q.st = "done" /\ q.err = "" /\ ~q.cancelled =>
                 /\ n > 0
                 /\ \/ q.tokens[n] \in StopTokens \/ n = MaxNew
                    \/ Len(q.prompt) + n >= MaxContext
           /\ q.st = "open" /\ n > 0 => q.tokens[n] \notin StopTokens /\ n < MaxNew

(* No prompt token is run twice: the eager and the in-band prefill never   *)
(* both fire for one slot, and a resumed prompt is fed from where it left. *)
PrefilledOnce == \A r \in Reqs : req[r].ran <= Len(req[r].prompt)

(* What a request reports as reused (cachedTokens, ContinuousBatcher.hpp   *)
(* :79-82) and the prompt tokens its forwards ran on make up the prompt,   *)
(* with one exception: the batched prefill runs a prompt from 0 also where *)
(* admission had found it resumable, and what was skipped on paper is then *)
(* run all the same.                                                       *)
UsageAccounted ==
    \A r \in Reqs :
        LET q == req[r]
        IN q.prefillSet =>
              \/ q.cachedTokens + q.ran = Len(q.prompt)
              \/ Batched /\ q.ran = Len(q.prompt) /\ q.ran <= PrefillMaxRows

(* The slots and the worker together implement the life of a request.      *)
Phase(r) == IF req[r].st # "open" THEN req[r].st
            ELSE IF r \in Waiting THEN "queued" ELSE "running"

Outcome(r) == IF req[r].st # "done" THEN ""
              ELSE IF req[r].err # "" THEN "error"
              ELSE IF req[r].cancelled THEN "cancelled" ELSE "answered"

Lifecycle == INSTANCE RequestLifecycle WITH
    Text <- GenTokens, MaxAnswer <- MaxNew, MaxQueue <- MaxInflight,
    MaxRunning <- MaxBatch,
    phase <- [r \in Reqs |-> Phase(r)],
    answer <- [r \in Reqs |-> req[r].tokens],
    outcome <- [r \in Reqs |-> Outcome(r)],
    raised <- {r \in Reqs : req[r].cancelled},
    cleared <- {Owner(i) : i \in passed}

(* Every handle a client holds behaves as RequestLifecycle says: tokens    *)
(* are only appended and only while running, a cancelled request gets at   *)
(* most the one that its step was about to hand out, done is final, and    *)
(* the capacities hold at every step.                                      *)
ImplementsLifecycle == Lifecycle!Spec

(* Every accepted request is eventually ended, by an answer or an error.   *)
Served == \A r \in Reqs : req[r].st = "open" ~> req[r].st = "done"

(* The destructor's join returns: once stopped, the worker exits with      *)
(* nothing left open.                                                      *)
StopJoins == ~running ~> (pc = "exited" /\ \A r \in Reqs : req[r].st # "open")
=============================================================================
