-------------------------- MODULE AttachedModelPool --------------------------
(***************************************************************************)
(* AttachedModelPool: an LRU pool of materialised models with pinning.     *)
(*                                                                         *)
(* A payload is an engine out of Engines.  The factory builds one that is  *)
(* not in use, so a freed engine's place may be taken by the engine of     *)
(* another model: a handle that outlives its slot would reach that one.    *)
(*                                                                         *)
(* The pool has one mutex and one condition variable.  What a thread does  *)
(* between locking and unlocking (or waiting) is one step.  The threads    *)
(* and where each of them is in acquire() belong to RequestDispatcher,     *)
(* whose module extends this one.                                          *)
(***************************************************************************)
EXTENDS Integers, FiniteSets

CONSTANTS
    Threads,     \* the HTTP worker threads that call acquire
    Pooled,      \* _known: the models the pool may materialise
    Engines,     \* the engines the factory builds
    None,        \* no model, no engine
    Capacity     \* _capacity

(* The constructor turns a capacity of 0 into 1. *)
ASSUME PoolAssumption ==
    /\ Capacity \in Nat \ {0}
    /\ IsFiniteSet(Threads) /\ IsFiniteSet(Pooled)
    /\ None \notin Engines

VARIABLES
    resident,    \* the keys of _resident
    payload,     \* _resident[m].payload
    refs,        \* _resident[m].refs
    lastUsed,    \* _resident[m].lastUsed
    clock,       \* _clock
    switching,   \* _switching
    asleep       \* the threads blocked in _cv.wait

poolVars == <<resident, payload, refs, lastUsed, clock, switching, asleep>>

PoolTypeOK ==
    /\ resident \in SUBSET Pooled
    /\ payload \in [Pooled -> Engines \cup {None}]
    /\ refs \in [Pooled -> Nat]
    /\ lastUsed \in [Pooled -> Nat]
    /\ clock \in Nat
    /\ switching \in BOOLEAN
    /\ asleep \in SUBSET Threads

PoolInit ==
    /\ resident = {}
    /\ payload = [m \in Pooled |-> None]
    /\ refs = [m \in Pooled |-> 0]
    /\ lastUsed = [m \in Pooled |-> 0]
    /\ clock = 0
    /\ switching = FALSE
    /\ asleep = {}
-----------------------------------------------------------------------------
(* The resident models no handle pins, and the least recently used of them. *)
Unpinned == {m \in resident : refs[m] = 0}
Oldest(S) == {m \in S : \A n \in S : lastUsed[m] <= lastUsed[n]}
(* Mutant of Full: off by one. *)
Overfull == Cardinality(resident) > Capacity

Full == Cardinality(resident) >= Capacity

(* Mutant of Hit: the pin is not counted. *)
HitUnpinned(m) ==
    /\ m \in resident
    /\ clock' = clock + 1
    /\ lastUsed' = [lastUsed EXCEPT ![m] = clock + 1]
    /\ UNCHANGED <<resident, payload, refs, switching, asleep>>

(* acquire finds the model: it pins it. *)
Hit(m) ==
    /\ m \in resident
    /\ refs' = [refs EXCEPT ![m] = @ + 1]
    /\ clock' = clock + 1
    /\ lastUsed' = [lastUsed EXCEPT ![m] = clock + 1]
    /\ UNCHANGED <<resident, payload, switching, asleep>>

(* acquire misses while another thread materialises: it waits. *)
AwaitSwitch(c, m) ==
    /\ m \notin resident
    /\ switching
    /\ asleep' = asleep \cup {c}
    /\ UNCHANGED <<resident, payload, refs, lastUsed, clock, switching>>

(* Room for one more: there is some, or the victim's engine is destroyed.  *)
(* The code loops; the pool never holds more than Capacity models, so one  *)
(* victim is enough.                                                       *)
MakeRoom ==
    /\ \/ ~Full /\ UNCHANGED <<resident, payload, refs, lastUsed>>
       \/ /\ Full
          /\ \E v \in Oldest(Unpinned) :
                /\ resident' = resident \ {v}
                /\ payload' = [payload EXCEPT ![v] = None]
                /\ refs' = [refs EXCEPT ![v] = 0]
                /\ lastUsed' = [lastUsed EXCEPT ![v] = 0]
    /\ switching' = TRUE
    /\ UNCHANGED <<clock, asleep>>

(* Every slot is pinned: the thread that switches waits for a release. *)
AwaitRelease(c) ==
    /\ Full
    /\ Unpinned = {}
    /\ switching' = TRUE
    /\ asleep' = asleep \cup {c}
    /\ UNCHANGED <<resident, payload, refs, lastUsed, clock>>

(* The factory returned the engine e for m: the switch is over, the        *)
(* waiters are woken and the slot is inserted with one pin.                *)
Materialised(m, e) ==
    /\ switching' = FALSE
    /\ asleep' = {}
    /\ resident' = resident \cup {m}
    /\ payload' = [payload EXCEPT ![m] = e]
    /\ refs' = [refs EXCEPT ![m] = 1]
    /\ clock' = clock + 1
    /\ lastUsed' = [lastUsed EXCEPT ![m] = clock + 1]

(* Mutant of MaterialiseFailed: nobody is told. *)
FailedSilently ==
    /\ switching' = FALSE
    /\ UNCHANGED <<resident, payload, refs, lastUsed, clock, asleep>>

(* The factory threw or returned null. *)
MaterialiseFailed ==
    /\ switching' = FALSE
    /\ asleep' = {}
    /\ UNCHANGED <<resident, payload, refs, lastUsed, clock>>

(* Mutant of Release: the waiters are not woken. *)
ReleaseSilently(m) ==
    /\ IF m \in resident /\ refs[m] > 0
       THEN refs' = [refs EXCEPT ![m] = @ - 1]
       ELSE UNCHANGED refs
    /\ UNCHANGED <<resident, payload, lastUsed, clock, switching, asleep>>

(* ~Handle: one pin less, and the last one wakes the waiters. *)
Release(m) ==
    /\ IF m \in resident /\ refs[m] > 0
       THEN /\ refs' = [refs EXCEPT ![m] = @ - 1]
            /\ asleep' = IF refs[m] = 1 THEN {} ELSE asleep
       ELSE UNCHANGED <<refs, asleep>>
    /\ UNCHANGED <<resident, payload, lastUsed, clock, switching>>

(* _cv.wait may return without a notification. *)
SpuriousWakeup(c) ==
    /\ c \in asleep
    /\ asleep' = asleep \ {c}
    /\ UNCHANGED <<resident, payload, refs, lastUsed, clock, switching>>
=============================================================================
