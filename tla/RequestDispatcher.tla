-------------------------- MODULE RequestDispatcher --------------------------
(***************************************************************************)
(* A chat request from its HTTP worker thread's point of view:             *)
(* RequestDispatcher::resolveTarget picks an eager engine or pins a pooled *)
(* one, ChatCompletionHandler prepares the request, registers it with the  *)
(* RequestTracker, generates under the target's mutex (or in the target's  *)
(* batcher), may decode once more to salvage a broken tool call, and drops *)
(* the pin when the response is done.                                      *)
(*                                                                         *)
(* A streaming request returns from the handler before it generates: the   *)
(* pin moves into the stream state, and httplib runs the content provider  *)
(* later, or never when the client has gone.                               *)
(*                                                                         *)
(* Tokens, prompts and responses are left out, and so is which check       *)
(* refuses a request.                                                      *)
(***************************************************************************)
EXTENDS AttachedModelPool

CONSTANTS
    Eager,        \* the default model and the extras: engines of their own
    Batched,      \* the models whose engine is driven by a batcher
    MaxRequests   \* bound: requests in a behaviour

ASSUME DispatcherAssumption ==
    /\ Eager \cap Pooled = {} /\ Eager \cap Engines = {} /\ None \notin Eager \cup Pooled
    /\ MaxRequests \in Nat

VARIABLES
    pc,         \* where each thread is
    model,      \* the model its request names
    engine,     \* Target.engine: the engine its request uses
    tracked,    \* RequestTracker::_requests, by thread
    arrived     \* requests so far

vars == <<poolVars, pc, model, engine, tracked, arrived>>

Running == {"run", "generate", "tail", "rerun", "regenerate"}
Holding == {"prepare", "provider", "release"} \cup Running
Phases == {"idle", "acquire", "await", "drain", "load"} \cup Holding
Models == Eager \cup Pooled

TypeOK ==
    /\ PoolTypeOK
    /\ pc \in [Threads -> Phases]
    /\ model \in [Threads -> Models \cup {None}]
    /\ engine \in [Threads -> Engines \cup Eager \cup {None}]
    /\ tracked \in SUBSET Threads
    /\ arrived \in 0..MaxRequests

Init ==
    /\ PoolInit
    /\ pc = [c \in Threads |-> "idle"]
    /\ model = [c \in Threads |-> None]
    /\ engine = [c \in Threads |-> None]
    /\ tracked = {}
    /\ arrived = 0

Goto(c, p) == pc' = [pc EXCEPT ![c] = p]
-----------------------------------------------------------------------------
(* The request never gets a target: parse error, thermal admission, load   *)
(* shedding, tenant quota or an unknown model.                             *)
Reject(c) ==
    /\ pc[c] = "idle"
    /\ arrived < MaxRequests
    /\ arrived' = arrived + 1
    /\ UNCHANGED <<poolVars, pc, model, engine, tracked>>

(* The eager engines come first and need no pin. *)
ResolveEager(c, m) ==
    /\ pc[c] = "idle"
    /\ arrived < MaxRequests
    /\ m \in Eager
    /\ arrived' = arrived + 1
    /\ model' = [model EXCEPT ![c] = m]
    /\ engine' = [engine EXCEPT ![c] = m]
    /\ Goto(c, "prepare")
    /\ UNCHANGED <<poolVars, tracked>>

ResolvePooled(c, m) ==
    /\ pc[c] = "idle"
    /\ arrived < MaxRequests
    /\ m \in Pooled
    /\ arrived' = arrived + 1
    /\ model' = [model EXCEPT ![c] = m]
    /\ Goto(c, "acquire")
    /\ UNCHANGED <<poolVars, engine, tracked>>

(* One turn of acquire's loop: at its start, or woken from the wait. *)
Acquire(c) ==
    /\ pc[c] = "acquire" \/ (pc[c] = "await" /\ c \notin asleep)
    /\ \/ /\ Hit(model[c])
          /\ engine' = [engine EXCEPT ![c] = payload[model[c]]]
          /\ Goto(c, "prepare")
       \/ /\ AwaitSwitch(c, model[c])
          /\ Goto(c, "await")
          /\ UNCHANGED engine
       \/ /\ model[c] \notin resident /\ ~switching
          /\ \/ MakeRoom /\ Goto(c, "load")
             \/ AwaitRelease(c) /\ Goto(c, "drain")
          /\ UNCHANGED engine
    /\ UNCHANGED <<model, tracked, arrived>>

(* The switching thread is woken and looks for a victim again. *)
Drained(c) ==
    /\ pc[c] = "drain" /\ c \notin asleep
    /\ \/ MakeRoom /\ Goto(c, "load")
       \/ AwaitRelease(c) /\ UNCHANGED pc
    /\ UNCHANGED <<model, engine, tracked, arrived>>

InUse == {payload[m] : m \in resident}

Load(c, e) ==
    /\ pc[c] = "load"
    /\ Materialised(model[c], e)
    /\ engine' = [engine EXCEPT ![c] = e]
    /\ Goto(c, "prepare")
    /\ UNCHANGED <<model, tracked, arrived>>

(* The factory throws: resolveTarget answers 503. *)
LoadFails(c) ==
    /\ pc[c] = "load"
    /\ MaterialiseFailed
    /\ model' = [model EXCEPT ![c] = None]
    /\ Goto(c, "idle")
    /\ UNCHANGED <<engine, tracked, arrived>>
-----------------------------------------------------------------------------
(* prepareChatRequest answers 400, and the target goes out of scope. *)
PrepareFails(c) ==
    /\ pc[c] = "prepare"
    /\ Goto(c, "release")
    /\ UNCHANGED <<poolVars, model, engine, tracked, arrived>>

(* handleBlocking goes on in the same thread. *)
HandleBlocking(c) ==
    /\ pc[c] = "prepare"
    /\ tracked' = tracked \cup {c}
    /\ Goto(c, "run")
    /\ UNCHANGED <<poolVars, model, engine, arrived>>

(* Mutant of HandleStream: the pin stays in the local target and dies with *)
(* it when the handler returns.                                            *)
HandleStreamDroppingPin(c) ==
    /\ pc[c] = "prepare"
    /\ IF model[c] \in Pooled THEN Release(model[c]) ELSE UNCHANGED poolVars
    /\ Goto(c, "provider")
    /\ UNCHANGED <<model, engine, tracked, arrived>>

(* handleStream returns; the stream state keeps the pin. *)
HandleStream(c) ==
    /\ pc[c] = "prepare"
    /\ Goto(c, "provider")
    /\ UNCHANGED <<poolVars, model, engine, tracked, arrived>>

RunStreamSession(c) ==
    /\ pc[c] = "provider"
    /\ tracked' = tracked \cup {c}
    /\ Goto(c, "run")
    /\ UNCHANGED <<poolVars, model, engine, arrived>>

(* The client went before the provider ran. *)
StreamDropped(c) ==
    /\ pc[c] = "provider"
    /\ Goto(c, "release")
    /\ UNCHANGED <<poolVars, model, engine, tracked, arrived>>

(* The engine's mutex is free; a batcher's engine has no such lock. *)
CanGenerate(c) ==
    \/ model[c] \in Batched
    \/ \A d \in Threads \ {c} :
          ~(pc[d] \in {"generate", "regenerate"} /\ engine[d] = engine[c])

Generate(c) ==
    /\ \/ pc[c] = "run" /\ Goto(c, "generate")
       \/ pc[c] = "rerun" /\ Goto(c, "regenerate")
    /\ CanGenerate(c)
    /\ UNCHANGED <<poolVars, model, engine, tracked, arrived>>

(* generate returned or threw, or (from "run") n > 1 was refused. *)
Generated(c) ==
    /\ pc[c] \in {"run", "generate"}
    /\ Goto(c, "tail")
    /\ UNCHANGED <<poolVars, model, engine, tracked, arrived>>

(* One forced re-decode of a tool call that did not parse. *)
Salvage(c) ==
    /\ pc[c] = "tail"
    /\ Goto(c, "rerun")
    /\ UNCHANGED <<poolVars, model, engine, tracked, arrived>>

(* The tracker's guard is destroyed before the pin. *)
Respond(c) ==
    /\ pc[c] \in {"tail", "regenerate"}
    /\ tracked' = tracked \ {c}
    /\ Goto(c, "release")
    /\ UNCHANGED <<poolVars, model, engine, arrived>>

Unpin(c) ==
    /\ pc[c] = "release"
    /\ IF model[c] \in Pooled THEN Release(model[c]) ELSE UNCHANGED poolVars
    /\ engine' = [engine EXCEPT ![c] = None]
    /\ model' = [model EXCEPT ![c] = None]
    /\ Goto(c, "idle")
    /\ UNCHANGED <<tracked, arrived>>

Wakeup(c) == SpuriousWakeup(c) /\ UNCHANGED <<pc, model, engine, tracked, arrived>>

(* What a thread does once it has a request. *)
Step(c) ==
    \/ Acquire(c) \/ Drained(c) \/ LoadFails(c)
    \/ \E e \in Engines \ InUse : Load(c, e)
    \/ PrepareFails(c) \/ HandleBlocking(c) \/ HandleStream(c)
    \/ RunStreamSession(c) \/ StreamDropped(c)
    \/ Generate(c) \/ Generated(c) \/ Salvage(c) \/ Respond(c) \/ Unpin(c)

Next ==
    \E c \in Threads :
       \/ Reject(c)
       \/ \E m \in Models : ResolveEager(c, m) \/ ResolvePooled(c, m)
       \/ Step(c)
       \/ Wakeup(c)

Spec == Init /\ [][Next]_vars

(* Threads run; the factory and the engines return.  Nothing is assumed of *)
(* arrivals and of spurious wakeups.                                       *)
FairSpec == Spec /\ \A c \in Threads : WF_vars(Step(c))
-----------------------------------------------------------------------------
Pins(c, m) == pc[c] \in Holding /\ model[c] = m

(* The reference count of a slot is the number of requests whose handle is *)
(* alive, stream states included (Handle, AttachedModelPool::release).     *)
PinsExact ==
    \A m \in Pooled : refs[m] = Cardinality({c \in Threads : Pins(c, m)})

(* A request never uses an engine that was freed or replaced: while it     *)
(* runs, its model is resident with the very engine acquire handed out.    *)
EngineLive ==
    \A c \in Threads : \A m \in Pooled :
       Pins(c, m) => m \in resident /\ payload[m] = engine[c]

(* The memory the pool promises to bound: resident models and the one the  *)
(* factory is building never exceed the capacity together.                 *)
WithinCapacity ==
    Cardinality(resident) + Cardinality({c \in Threads : pc[c] = "load"}) <= Capacity

(* No wakeup is lost: who waits for a switch has a thread that is still    *)
(* switching, and who drains has every slot pinned by a request that will  *)
(* release it.                                                             *)
SleeperHasWaker ==
    \A c \in asleep :
       \/ /\ pc[c] = "drain"
          /\ \A m \in resident : \E d \in Threads : Pins(d, m)
       \/ /\ pc[c] = "await"
          /\ \E d \in Threads : pc[d] \in {"load", "drain"}

(* Every request is answered: nobody waits for a pin, a switch or an       *)
(* engine's mutex for ever (finitely many requests).                       *)
Answered == \A c \in Threads : (pc[c] # "idle") ~> (pc[c] = "idle")
=============================================================================
