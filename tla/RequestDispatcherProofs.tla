----------------------- MODULE RequestDispatcherProofs -----------------------
(***************************************************************************)
(* Proofs about RequestDispatcher: the pins of the model pool are exact, a *)
(* request's engine is never freed under it, the pool stays within its     *)
(* capacity and no wakeup is lost, for any number of threads, models and   *)
(* engines.                                                                *)
(***************************************************************************)
EXTENDS RequestDispatcher, FiniteSetTheorems, TLAPS

(* The threads whose request holds a handle on m. *)
Holders(p, md, m) == {c \in Threads : p[c] \in Holding /\ md[c] = m}

Switcher(c) == pc[c] \in {"load", "drain"}

(* The switch token has exactly one owner, and its model is not resident. *)
SwitchSound ==
    /\ switching => \E c \in Threads : Switcher(c)
    /\ \A c, d \in Threads : Switcher(c) /\ Switcher(d) => c = d
    /\ \A c \in Threads : Switcher(c) => switching /\ model[c] \in Pooled \ resident

AcquiresPooled == \A c \in Threads : pc[c] \in {"acquire", "await"} => model[c] \in Pooled

AbsentUnpinned == \A m \in Pooled \ resident : refs[m] = 0

RoomToLoad ==
    /\ Cardinality(resident) <= Capacity
    /\ \A c \in Threads : pc[c] = "load" => ~Full

SleepSound ==
    \A c \in asleep : \/ pc[c] = "await" /\ switching
                      \/ pc[c] = "drain" /\ Unpinned = {}

IInv ==
    /\ TypeOK /\ PinsExact /\ EngineLive
    /\ SwitchSound /\ AcquiresPooled /\ AbsentUnpinned /\ RoomToLoad /\ SleepSound
-----------------------------------------------------------------------------
(* Only finitely many requests hold a model's engine.                      *)
LEMMA HoldersFinite ==
    ASSUME NEW p, NEW md, NEW m
    PROVE  /\ IsFiniteSet(Holders(p, md, m))
           /\ Cardinality(Holders(p, md, m)) \in Nat
<1>1. Holders(p, md, m) \subseteq Threads
  BY DEF Holders
<1>2. IsFiniteSet(Holders(p, md, m))
  BY <1>1, FS_Subset, PoolAssumption
<1> QED BY <1>2, FS_CardinalityType

(* A count of zero means that nobody holds the engine.                     *)
LEMMA HoldersEmpty ==
    ASSUME NEW p, NEW md, NEW m, Cardinality(Holders(p, md, m)) = 0
    PROVE  Holders(p, md, m) = {}
BY HoldersFinite, FS_EmptySet

(* A thread that starts to hold a handle is one holder more. *)
LEMMA HoldersGain ==
    ASSUME NEW p, NEW q, NEW md, NEW c \in Threads,
           p[c] \notin Holding, q[c] \in Holding,
           \A d \in Threads : d # c => q[d] = p[d], NEW m
    PROVE  Cardinality(Holders(q, md, m)) =
             Cardinality(Holders(p, md, m)) + (IF md[c] = m THEN 1 ELSE 0)
<1>1. CASE md[c] = m
  <2>1. Holders(q, md, m) = Holders(p, md, m) \cup {c}
    BY <1>1 DEF Holders
  <2>2. c \notin Holders(p, md, m)
    BY DEF Holders
  <2> QED BY <1>1, <2>1, <2>2, HoldersFinite, FS_AddElement
<1>2. CASE md[c] # m
  <2>1. Holders(q, md, m) = Holders(p, md, m)
    BY <1>2 DEF Holders
  <2> QED BY <1>2, <2>1, HoldersFinite
<1> QED BY <1>1, <1>2

(* PinsExact in terms of Holders. *)
LEMMA PinsAreHolders ==
    PinsExact <=> \A m \in Pooled : refs[m] = Cardinality(Holders(pc, model, m))
BY DEF PinsExact, Pins, Holders
-----------------------------------------------------------------------------
(* At the start no model is resident and nobody holds an engine.           *)
LEMMA InitIInv == Init => IInv
<1> SUFFICES ASSUME Init PROVE IInv
  OBVIOUS
<1>1. TypeOK
  <2>1. PoolTypeOK
    BY DEF Init, PoolInit, PoolTypeOK
  <2>2. arrived \in 0..MaxRequests
    BY DispatcherAssumption DEF Init
  <2>3. /\ pc \in [Threads -> Phases]
        /\ model \in [Threads -> Models \cup {None}]
        /\ engine \in [Threads -> Engines \cup Eager \cup {None}]
        /\ tracked \in SUBSET Threads
    BY DEF Init, Phases
  <2> QED BY <2>1, <2>2, <2>3 DEF TypeOK
<1>2. \A m : Holders(pc, model, m) = {}
  BY DEF Init, Holders, Holding, Running
<1>3. PinsExact
  BY <1>2, FS_EmptySet, PinsAreHolders DEF Init, PoolInit
<1>4. EngineLive
  BY <1>2 DEF EngineLive, Pins, Holders
<1>5. RoomToLoad
  BY FS_EmptySet, PoolAssumption DEF RoomToLoad, Init, PoolInit
<1>6. SwitchSound /\ AcquiresPooled /\ AbsentUnpinned /\ SleepSound
  BY DEF SwitchSound, Switcher, AcquiresPooled, AbsentUnpinned, SleepSound, Init, PoolInit
<1> QED BY <1>1, <1>3, <1>4, <1>5, <1>6 DEF IInv
-----------------------------------------------------------------------------
(* The steps between acquiring and dropping the handle: only the program   *)
(* counter of one thread, within Holding, and the tracker move.            *)
Quiet(c) ==
    /\ pc[c] \in Holding
    /\ \E q \in Holding : Goto(c, q)
    /\ tracked' \in SUBSET Threads
    /\ UNCHANGED <<poolVars, model, engine, arrived>>

(* A step of a thread that goes on holding its handle keeps IInv.          *)
LEMMA QuietStep ==
    ASSUME IInv, NEW c \in Threads, Quiet(c)
    PROVE  IInv'
<1> USE DEF IInv
<1>1. PICK q \in Holding : pc' = [pc EXCEPT ![c] = q]
  BY DEF Quiet, Goto
<1>2. /\ q \in Phases /\ q \notin {"load", "drain", "acquire", "await", "idle"}
      /\ pc[c] \notin {"load", "drain", "acquire", "await", "idle"}
  BY DEF Phases, Holding, Running, Quiet
<1>3. \A d \in Threads : /\ pc'[d] \in Holding <=> pc[d] \in Holding
                         /\ \A x \in {"load", "drain", "acquire", "await"} :
                               pc'[d] = x <=> pc[d] = x
  BY <1>1, <1>2 DEF TypeOK, Quiet
<1>4. TypeOK'
  BY <1>1, <1>2 DEF TypeOK, PoolTypeOK, Quiet, poolVars
<1>5. PinsExact'
  <2>1. \A m : Holders(pc', model', m) = Holders(pc, model, m)
    BY <1>3 DEF Holders, Quiet
  <2> QED BY <2>1 DEF PinsExact, Pins, Holders, Quiet, poolVars
<1>6. EngineLive'
  BY <1>3 DEF EngineLive, Pins, Quiet, poolVars
<1>7. SwitchSound' /\ AcquiresPooled'
  BY <1>3 DEF SwitchSound, AcquiresPooled, Switcher, Quiet, poolVars
<1>8. AbsentUnpinned'
  BY DEF AbsentUnpinned, Quiet, poolVars
<1>9. RoomToLoad'
  BY <1>3 DEF RoomToLoad, Full, Quiet, poolVars
<1>10. SleepSound'
  BY <1>3 DEF SleepSound, Unpinned, Quiet, poolVars, TypeOK, PoolTypeOK
<1> QED BY <1>4, <1>5, <1>6, <1>7, <1>8, <1>9, <1>10
-----------------------------------------------------------------------------
(* A thread about to switch: it owns the token, or nobody does. *)
Entering(c) ==
    /\ model[c] \in Pooled \ resident
    /\ c \notin asleep
    /\ pc[c] = "drain" \/ (pc[c] \in {"acquire", "await"} /\ ~switching)

(* The thread that enters the switch is the only switcher, and no holder   *)
(* changes.                                                                *)
LEMMA SwitchEntered ==
    ASSUME IInv, NEW c \in Threads, Entering(c), NEW q \in {"load", "drain"},
           Goto(c, q), switching' = TRUE, resident' \in SUBSET resident,
           UNCHANGED <<model, engine, tracked, arrived>>
    PROVE  /\ pc' \in [Threads -> Phases]
           /\ \A d \in Threads : pc'[d] = IF d = c THEN q ELSE pc[d]
           /\ \A d \in Threads : d # c => ~Switcher(d)
           /\ \A m : Holders(pc', model', m) = Holders(pc, model, m)
           /\ SwitchSound' /\ AcquiresPooled'
<1> USE DEF IInv
<1>1. /\ \A d \in Threads : pc'[d] = IF d = c THEN q ELSE pc[d]
      /\ pc' \in [Threads -> Phases]
  BY DEF TypeOK, Goto, Phases
<1>2. \A d \in Threads : d # c => ~Switcher(d)
  BY DEF SwitchSound, Switcher, Entering
<1>3. \A m : Holders(pc', model', m) = Holders(pc, model, m)
  BY <1>1 DEF Holders, Holding, Running, Entering
<1>4. SwitchSound'
  BY <1>1, <1>2 DEF SwitchSound, Switcher, Entering
<1>5. AcquiresPooled'
  BY <1>1 DEF AcquiresPooled
<1> QED BY <1>1, <1>2, <1>3, <1>4, <1>5

(* Evicting an unpinned model, or finding room, makes room for the load.   *)
LEMMA MakeRoomStep ==
    ASSUME IInv, NEW c \in Threads, Entering(c), MakeRoom, Goto(c, "load"),
           UNCHANGED <<model, engine, tracked, arrived>>
    PROVE  IInv'
<1> USE DEF IInv
<1>1. resident' \in SUBSET resident /\ switching' = TRUE
  BY DEF MakeRoom
<1>2. /\ pc' \in [Threads -> Phases]
      /\ \A d \in Threads : pc'[d] = IF d = c THEN "load" ELSE pc[d]
      /\ \A d \in Threads : d # c => ~Switcher(d)
      /\ \A m : Holders(pc', model', m) = Holders(pc, model, m)
      /\ SwitchSound' /\ AcquiresPooled'
  BY <1>1, SwitchEntered
<1>3. SleepSound'
  BY <1>1, <1>2 DEF SleepSound, MakeRoom, Switcher, Entering, TypeOK, PoolTypeOK
<1>4. IsFiniteSet(resident)
  BY FS_Subset, PoolAssumption DEF TypeOK, PoolTypeOK
<1>5. CASE ~Full /\ UNCHANGED <<resident, payload, refs, lastUsed>>
  <2>1. TypeOK'
    BY <1>1, <1>2, <1>5 DEF TypeOK, PoolTypeOK, MakeRoom
  <2>2. PinsExact'
    BY <1>2, <1>5 DEF PinsExact, Pins, Holders
  <2>3. EngineLive'
    BY <1>2, <1>5 DEF EngineLive, Pins, Holding, Running
  <2>4. AbsentUnpinned' /\ RoomToLoad'
    BY <1>5 DEF AbsentUnpinned, RoomToLoad, Full
  <2> QED BY <1>2, <1>3, <2>1, <2>2, <2>3, <2>4
<1>6. CASE Full /\ \E v \in Oldest(Unpinned) :
                /\ resident' = resident \ {v}
                /\ payload' = [payload EXCEPT ![v] = None]
                /\ refs' = [refs EXCEPT ![v] = 0]
                /\ lastUsed' = [lastUsed EXCEPT ![v] = 0]
  <2>1. PICK v \in Unpinned :
                /\ resident' = resident \ {v}
                /\ payload' = [payload EXCEPT ![v] = None]
                /\ refs' = [refs EXCEPT ![v] = 0]
                /\ lastUsed' = [lastUsed EXCEPT ![v] = 0]
    BY <1>6 DEF Oldest
  <2>2. v \in resident /\ v \in Pooled /\ refs[v] = 0
    BY <2>1 DEF Unpinned, TypeOK, PoolTypeOK
  <2>3. refs' = refs
    BY <2>1, <2>2 DEF TypeOK, PoolTypeOK
  <2>4. Holders(pc, model, v) = {}
    BY <2>2, PinsAreHolders, HoldersEmpty
  <2>5. TypeOK'
    BY <1>1, <1>2, <2>1, <2>2 DEF TypeOK, PoolTypeOK, MakeRoom
  <2>6. PinsExact'
    BY <1>2, <2>3 DEF PinsExact, Pins, Holders
  <2>7. EngineLive'
    BY <1>2, <2>1, <2>4 DEF EngineLive, Pins, Holders, Holding, Running, TypeOK, PoolTypeOK
  <2>8. AbsentUnpinned'
    BY <2>1, <2>2, <2>3 DEF AbsentUnpinned
  <2>9. RoomToLoad'
    <3>1. Cardinality(resident') = Cardinality(resident) - 1
      BY <1>4, <2>1, <2>2, FS_RemoveElement
    <3>2. Cardinality(resident) \in Nat
      BY <1>4, FS_CardinalityType
    <3> QED BY <3>1, <3>2, PoolAssumption DEF RoomToLoad, Full
  <2> QED BY <1>2, <1>3, <2>5, <2>6, <2>7, <2>8, <2>9
<1> QED BY <1>5, <1>6 DEF MakeRoom

(* Waiting for a release is only entered when every slot is pinned.        *)
LEMMA AwaitReleaseStep ==
    ASSUME IInv, NEW c \in Threads, Entering(c), AwaitRelease(c), Goto(c, "drain"),
           UNCHANGED <<model, engine, tracked, arrived>>
    PROVE  IInv'
<1> USE DEF IInv
<1>2. /\ pc' \in [Threads -> Phases]
      /\ \A d \in Threads : pc'[d] = IF d = c THEN "drain" ELSE pc[d]
      /\ \A d \in Threads : d # c => ~Switcher(d)
      /\ \A m : Holders(pc', model', m) = Holders(pc, model, m)
      /\ SwitchSound' /\ AcquiresPooled'
  BY SwitchEntered DEF AwaitRelease
<1>3. SleepSound'
  BY <1>2 DEF SleepSound, AwaitRelease, Unpinned, Switcher, TypeOK, PoolTypeOK
<1>4. TypeOK'
  BY <1>2 DEF TypeOK, PoolTypeOK, AwaitRelease
<1>5. PinsExact'
  BY <1>2 DEF PinsExact, Pins, Holders, AwaitRelease
<1>6. EngineLive'
  BY <1>2 DEF EngineLive, Pins, Holding, Running, AwaitRelease
<1>7. AbsentUnpinned' /\ RoomToLoad'
  BY <1>2 DEF AbsentUnpinned, RoomToLoad, Full, AwaitRelease, Switcher
<1> QED BY <1>2, <1>3, <1>4, <1>5, <1>6, <1>7
-----------------------------------------------------------------------------
(* A hit pins the resident model for one more holder.                      *)
LEMMA HitStep ==
    ASSUME IInv, NEW c \in Threads, pc[c] \in {"acquire", "await"}, c \notin asleep,
           Hit(model[c]), engine' = [engine EXCEPT ![c] = payload[model[c]]],
           Goto(c, "prepare"), UNCHANGED <<model, tracked, arrived>>
    PROVE  IInv'
<1> USE DEF IInv
<1>1. /\ "prepare" \in Holding /\ "prepare" \in Phases /\ pc[c] \notin Holding
      /\ model[c] \in Pooled
  BY DEF Holding, Running, Phases, AcquiresPooled
<1>2. /\ pc' = [pc EXCEPT ![c] = "prepare"]
      /\ \A d \in Threads : pc'[d] = IF d = c THEN "prepare" ELSE pc[d]
  BY DEF TypeOK, Goto
<1>3. TypeOK'
  BY <1>1, <1>2 DEF TypeOK, PoolTypeOK, Hit
<1>4. PinsExact'
  <2>1. ASSUME NEW m \in Pooled
        PROVE  Cardinality(Holders(pc', model, m)) =
                 Cardinality(Holders(pc, model, m)) + (IF model[c] = m THEN 1 ELSE 0)
    <3>1. pc'[c] \in Holding /\ \A d \in Threads : d # c => pc'[d] = pc[d]
      BY <1>1, <1>2
    <3> QED BY <1>1, <3>1, HoldersGain
  <2>2. \A m \in Pooled : refs'[m] = refs[m] + (IF model[c] = m THEN 1 ELSE 0)
    BY <1>1 DEF Hit, TypeOK, PoolTypeOK
  <2>3. \A m \in Pooled : refs[m] = Cardinality(Holders(pc, model, m))
    BY PinsAreHolders
  <2>4. \A m \in Pooled : refs'[m] = Cardinality(Holders(pc', model', m))
    BY <2>1, <2>2, <2>3
  <2> QED BY <2>4 DEF PinsExact, Pins, Holders
<1>5. EngineLive'
  BY <1>1, <1>2 DEF EngineLive, Pins, Hit, TypeOK, PoolTypeOK
<1>6. SwitchSound' /\ AcquiresPooled'
  BY <1>1, <1>2 DEF SwitchSound, AcquiresPooled, Switcher, Hit
<1>7. AbsentUnpinned' /\ RoomToLoad'
  BY <1>2 DEF AbsentUnpinned, RoomToLoad, Full, Hit, TypeOK, PoolTypeOK
<1>8. SleepSound'
  BY <1>2 DEF SleepSound, Unpinned, Hit, TypeOK, PoolTypeOK
<1> QED BY <1>3, <1>4, <1>5, <1>6, <1>7, <1>8

(* Waiting for a switch is only entered while one is in progress.          *)
LEMMA AwaitSwitchStep ==
    ASSUME IInv, NEW c \in Threads, pc[c] \in {"acquire", "await"},
           AwaitSwitch(c, model[c]), Goto(c, "await"),
           UNCHANGED <<model, engine, tracked, arrived>>
    PROVE  IInv'
<1> USE DEF IInv
<1>2. /\ pc' \in [Threads -> Phases]
      /\ \A d \in Threads : pc'[d] = IF d = c THEN "await" ELSE pc[d]
  BY DEF TypeOK, Goto, Phases
<1>3. TypeOK'
  BY <1>2 DEF TypeOK, PoolTypeOK, AwaitSwitch
<1>4. PinsExact'
  <2>1. \A m : Holders(pc', model', m) = Holders(pc, model, m)
    BY <1>2 DEF Holders, Holding, Running
  <2> QED BY <2>1 DEF PinsExact, Pins, Holders, AwaitSwitch
<1>5. EngineLive'
  BY <1>2 DEF EngineLive, Pins, Holding, Running, AwaitSwitch
<1>6. SwitchSound' /\ AcquiresPooled'
  BY <1>2 DEF SwitchSound, AcquiresPooled, Switcher, AwaitSwitch
<1>7. AbsentUnpinned' /\ RoomToLoad'
  BY <1>2 DEF AbsentUnpinned, RoomToLoad, Full, AwaitSwitch
<1>8. SleepSound'
  BY <1>2 DEF SleepSound, Unpinned, AwaitSwitch, TypeOK, PoolTypeOK
<1> QED BY <1>3, <1>4, <1>5, <1>6, <1>7, <1>8

(* acquire, whichever of its branches it takes, keeps IInv.                *)
LEMMA AcquireStep ==
    ASSUME IInv, NEW c \in Threads, Acquire(c)
    PROVE  IInv'
<1>1. c \notin asleep /\ pc[c] \in {"acquire", "await"} /\ model[c] \in Pooled
  BY DEF Acquire, IInv, SleepSound, AcquiresPooled
<1>2. CASE Hit(model[c]) /\ engine' = [engine EXCEPT ![c] = payload[model[c]]]
           /\ Goto(c, "prepare")
  BY <1>1, <1>2, HitStep DEF Acquire
<1>3. CASE AwaitSwitch(c, model[c]) /\ Goto(c, "await") /\ UNCHANGED engine
  BY <1>1, <1>3, AwaitSwitchStep DEF Acquire
<1>4. CASE model[c] \notin resident /\ ~switching /\ UNCHANGED engine
           /\ ((MakeRoom /\ Goto(c, "load")) \/ (AwaitRelease(c) /\ Goto(c, "drain")))
  <2>1. Entering(c)
    BY <1>1, <1>4 DEF Entering
  <2>2. UNCHANGED <<model, engine, tracked, arrived>>
    BY <1>4 DEF Acquire
  <2>3. CASE MakeRoom /\ Goto(c, "load")
    BY <2>1, <2>2, <2>3, MakeRoomStep
  <2>4. CASE AwaitRelease(c) /\ Goto(c, "drain")
    BY <2>1, <2>2, <2>4, AwaitReleaseStep
  <2> QED BY <1>4, <2>3, <2>4
<1> QED BY <1>2, <1>3, <1>4 DEF Acquire

(* A switcher woken by a release evicts, or waits again.                   *)
LEMMA DrainedStep ==
    ASSUME IInv, NEW c \in Threads, Drained(c)
    PROVE  IInv'
<1>1. Entering(c)
  BY DEF Drained, Entering, IInv, SwitchSound, Switcher
<1>2. UNCHANGED pc => Goto(c, "drain")
  BY DEF Drained, Goto, IInv, TypeOK
<1> QED BY <1>1, <1>2, MakeRoomStep, AwaitReleaseStep DEF Drained
-----------------------------------------------------------------------------
(* A finished load makes its model resident, with one pin.                 *)
LEMMA LoadStep ==
    ASSUME IInv, NEW c \in Threads, NEW e \in Engines, Load(c, e)
    PROVE  IInv'
<1> USE DEF IInv
<1>1. /\ pc[c] = "load" /\ model[c] \in Pooled \ resident
      /\ "prepare" \in Holding /\ "prepare" \in Phases /\ pc[c] \notin Holding
  BY DEF Load, SwitchSound, Switcher, Holding, Running, Phases
<1>2. \A d \in Threads : pc'[d] = IF d = c THEN "prepare" ELSE pc[d]
  BY DEF Load, TypeOK, Goto
<1>3. TypeOK'
  <2>1. PoolTypeOK'
    <3>1. switching' \in BOOLEAN
      BY DEF Load, Materialised
    <3>2. /\ resident' \in SUBSET Pooled /\ clock' \in Nat /\ asleep' \in SUBSET Threads
          /\ payload' \in [Pooled -> Engines \cup {None}]
      BY <1>1 DEF TypeOK, PoolTypeOK, Load, Materialised
    <3>3. refs' \in [Pooled -> Nat] /\ lastUsed' \in [Pooled -> Nat]
      BY <1>1 DEF TypeOK, PoolTypeOK, Load, Materialised
    <3> QED BY <3>1, <3>2, <3>3 DEF PoolTypeOK
  <2> QED BY <1>1, <2>1 DEF TypeOK, Load, Goto
<1>4. PinsExact'
  <2>1. ASSUME NEW m \in Pooled
        PROVE  Cardinality(Holders(pc', model, m)) =
                 Cardinality(Holders(pc, model, m)) + (IF model[c] = m THEN 1 ELSE 0)
    <3>1. pc'[c] \in Holding /\ \A d \in Threads : d # c => pc'[d] = pc[d]
      BY <1>1, <1>2
    <3> QED BY <1>1, <3>1, HoldersGain
  <2>2. refs[model[c]] = 0
    BY <1>1 DEF AbsentUnpinned
  <2>3. \A m \in Pooled : refs'[m] = refs[m] + (IF model[c] = m THEN 1 ELSE 0)
    BY <1>1, <2>2 DEF Load, Materialised, TypeOK, PoolTypeOK
  <2>4. \A m \in Pooled : refs[m] = Cardinality(Holders(pc, model, m))
    BY PinsAreHolders
  <2>5. \A m \in Pooled : refs'[m] = Cardinality(Holders(pc', model', m))
    BY <2>1, <2>3, <2>4 DEF Load
  <2> QED BY <2>5 DEF PinsExact, Pins, Holders
<1>5. EngineLive'
  <2>1. \A d \in Threads : d # c /\ pc[d] \in Holding => model[d] # model[c]
    BY <1>1 DEF EngineLive, Pins
  <2> QED BY <1>1, <1>2, <2>1 DEF EngineLive, Pins, Load, Materialised, TypeOK, PoolTypeOK
<1>6. \A d \in Threads : ~Switcher(d)'
  BY <1>1, <1>2 DEF SwitchSound, Switcher
<1>7. SwitchSound' /\ AcquiresPooled'
  BY <1>2, <1>6 DEF SwitchSound, AcquiresPooled, Load, Materialised
<1>8. AbsentUnpinned' /\ SleepSound'
  BY <1>1 DEF AbsentUnpinned, SleepSound, Load, Materialised, TypeOK, PoolTypeOK
<1>9. RoomToLoad'
  <2>1. IsFiniteSet(resident)
    BY FS_Subset, PoolAssumption DEF TypeOK, PoolTypeOK
  <2>2. Cardinality(resident') = Cardinality(resident) + 1
    BY <1>1, <2>1, FS_AddElement DEF Load, Materialised
  <2>3. Cardinality(resident) \in Nat /\ Cardinality(resident) < Capacity
    BY <1>1, <2>1, FS_CardinalityType, PoolAssumption DEF RoomToLoad, Full
  <2> QED BY <1>6, <2>2, <2>3, PoolAssumption DEF RoomToLoad, Switcher
<1> QED BY <1>3, <1>4, <1>5, <1>7, <1>8, <1>9

(* A failed load gives the switch token back and leaves nothing resident.  *)
LEMMA LoadFailsStep ==
    ASSUME IInv, NEW c \in Threads, LoadFails(c)
    PROVE  IInv'
<1> USE DEF IInv
<1>1. \A d \in Threads : /\ pc'[d] = IF d = c THEN "idle" ELSE pc[d]
                         /\ model'[d] = IF d = c THEN None ELSE model[d]
  BY DEF LoadFails, TypeOK, Goto
<1>2. pc[c] \notin Holding /\ pc'[c] \notin Holding
  BY <1>1 DEF LoadFails, Holding, Running
<1>3. TypeOK'
  BY DEF TypeOK, PoolTypeOK, LoadFails, MaterialiseFailed, Goto, Phases
<1>4. PinsExact'
  <2>1. \A m : Holders(pc', model', m) = Holders(pc, model, m)
    BY <1>1, <1>2 DEF Holders
  <2> QED BY <2>1 DEF PinsExact, Pins, Holders, LoadFails, MaterialiseFailed
<1>5. EngineLive'
  BY <1>1, <1>2 DEF EngineLive, Pins, LoadFails, MaterialiseFailed
<1>6. \A d \in Threads : ~Switcher(d)'
  BY <1>1 DEF SwitchSound, Switcher, LoadFails
<1>7. SwitchSound' /\ AcquiresPooled'
  BY <1>1, <1>6 DEF SwitchSound, AcquiresPooled, LoadFails, MaterialiseFailed
<1>8. AbsentUnpinned' /\ SleepSound' /\ RoomToLoad'
  BY <1>6 DEF AbsentUnpinned, SleepSound, RoomToLoad, Switcher, LoadFails, MaterialiseFailed
<1> QED BY <1>3, <1>4, <1>5, <1>7, <1>8

(* A request arrives: nothing is held yet of a pooled model. *)
LEMMA ResolveStep ==
    ASSUME IInv, NEW c \in Threads, NEW m \in Models,
           ResolveEager(c, m) \/ ResolvePooled(c, m)
    PROVE  IInv'
<1> USE DEF IInv
<1>1. PICK q \in {"prepare", "acquire"} :
         /\ \A d \in Threads : /\ pc'[d] = IF d = c THEN q ELSE pc[d]
                               /\ model'[d] = IF d = c THEN m ELSE model[d]
                               /\ d # c => engine'[d] = engine[d]
         /\ q = "prepare" => m \in Eager
         /\ q = "acquire" => m \in Pooled
  BY DEF ResolveEager, ResolvePooled, TypeOK, Goto
<1>2. UNCHANGED poolVars /\ pc[c] = "idle"
  BY DEF ResolveEager, ResolvePooled
<1>3. TypeOK'
  BY DispatcherAssumption
  DEF TypeOK, PoolTypeOK, poolVars, ResolveEager, ResolvePooled, Goto, Phases, Holding
<1>4. \A n \in Pooled : \A d \in Threads : Pins(d, n)' <=> Pins(d, n)
  BY <1>1, <1>2, DispatcherAssumption DEF Pins, Holding, Running
<1>5. PinsExact'
  <2>1. \A n \in Pooled : {d \in Threads : Pins(d, n)}' = {d \in Threads : Pins(d, n)}
    BY <1>4
  <2> QED BY <1>2, <2>1 DEF PinsExact, poolVars
<1>6. EngineLive'
  BY <1>1, <1>2, <1>4 DEF EngineLive, poolVars, Pins, Holding, Running
<1>7. SwitchSound' /\ AcquiresPooled'
  BY <1>1, <1>2 DEF SwitchSound, AcquiresPooled, Switcher, poolVars
<1>8. AbsentUnpinned' /\ RoomToLoad'
  BY <1>1, <1>2 DEF AbsentUnpinned, RoomToLoad, Full, poolVars
<1>9. SleepSound'
  BY <1>1, <1>2 DEF SleepSound, Unpinned, poolVars, TypeOK, PoolTypeOK
<1> QED BY <1>3, <1>5, <1>6, <1>7, <1>8, <1>9

(* A release takes away the pin of exactly the holder that leaves.         *)
LEMMA UnpinStep ==
    ASSUME IInv, NEW c \in Threads, Unpin(c)
    PROVE  IInv'
<1> USE DEF IInv
<1>1. \A d \in Threads : /\ pc'[d] = IF d = c THEN "idle" ELSE pc[d]
                         /\ model'[d] = IF d = c THEN None ELSE model[d]
                         /\ d # c => engine'[d] = engine[d]
  BY DEF Unpin, TypeOK, Goto
<1>2. pc[c] = "release" /\ pc[c] \in Holding /\ pc'[c] \notin Holding
  BY <1>1 DEF Unpin, Holding, Running
<1>3. UNCHANGED <<resident, payload, switching>>
  BY DEF Unpin, Release, poolVars
<1>4. /\ \A m \in Pooled : refs'[m] = refs[m] - (IF model[c] = m THEN 1 ELSE 0)
      /\ refs' \in [Pooled -> Nat]
  <2>1. model[c] \in Pooled => model[c] \in resident /\ refs[model[c]] > 0
    <3>1. SUFFICES ASSUME model[c] \in Pooled
                   PROVE  model[c] \in resident /\ refs[model[c]] > 0
      OBVIOUS
    <3>2. c \in Holders(pc, model, model[c])
      BY <1>2 DEF Holders
    <3>3. refs[model[c]] # 0
      BY <3>1, <3>2, PinsAreHolders, HoldersEmpty
    <3> QED BY <1>2, <3>1, <3>3 DEF EngineLive, Pins, TypeOK, PoolTypeOK
  <2>2. CASE model[c] \in Pooled
    BY <2>1, <2>2 DEF Unpin, Release, TypeOK, PoolTypeOK
  <2>3. CASE model[c] \notin Pooled
    BY <2>3 DEF Unpin, poolVars, TypeOK, PoolTypeOK
  <2> QED BY <2>2, <2>3
<1>5. asleep' \in SUBSET asleep /\ (asleep' = {} \/ \A m \in resident : refs[m] # 0 => refs'[m] # 0)
  <2>1. CASE model[c] \in Pooled
    BY <2>1 DEF Unpin, Release, TypeOK, PoolTypeOK
  <2>2. CASE model[c] \notin Pooled
    BY <2>2 DEF Unpin, poolVars
  <2> QED BY <2>1, <2>2
<1>6. TypeOK'
  <2>1. PoolTypeOK'
    <3>1. lastUsed' = lastUsed /\ clock' = clock
      BY DEF Unpin, Release, poolVars
    <3> QED BY <1>3, <1>4, <1>5, <3>1 DEF TypeOK, PoolTypeOK
  <2> QED BY <2>1 DEF TypeOK, Unpin, Goto, Phases
<1>7. PinsExact'
  <2>1. ASSUME NEW m \in Pooled
        PROVE  Cardinality(Holders(pc', model', m)) =
                 Cardinality(Holders(pc, model, m)) - (IF model[c] = m THEN 1 ELSE 0)
    <3>1. IsFiniteSet(Holders(pc, model, m)) /\ Cardinality(Holders(pc, model, m)) \in Nat
      BY HoldersFinite
    <3>2. CASE model[c] = m
      <4>1. Holders(pc', model', m) = Holders(pc, model, m) \ {c}
        BY <1>1, <1>2, <3>2 DEF Holders
      <4>2. c \in Holders(pc, model, m)
        BY <1>2, <3>2 DEF Holders
      <4> QED BY <3>1, <3>2, <4>1, <4>2, FS_RemoveElement
    <3>3. CASE model[c] # m
      <4>1. Holders(pc', model', m) = Holders(pc, model, m)
        BY <1>1, <1>2, <3>3 DEF Holders
      <4> QED BY <3>1, <3>3, <4>1
    <3> QED BY <3>2, <3>3
  <2>2. \A m \in Pooled : refs[m] = Cardinality(Holders(pc, model, m))
    BY PinsAreHolders
  <2>3. \A m \in Pooled : refs'[m] = Cardinality(Holders(pc', model', m))
    BY <1>4, <2>1, <2>2
  <2> QED BY <2>3 DEF PinsExact, Pins, Holders
<1>8. EngineLive'
  BY <1>1, <1>2, <1>3 DEF EngineLive, Pins
<1>9. SwitchSound' /\ AcquiresPooled'
  BY <1>1, <1>2, <1>3 DEF SwitchSound, AcquiresPooled, Switcher
<1>10. AbsentUnpinned'
  <2>1. \A m \in Pooled \ resident : model[c] # m
    BY <1>2 DEF EngineLive, Pins
  <2> QED BY <1>3, <1>4, <2>1 DEF AbsentUnpinned, TypeOK, PoolTypeOK
<1>11. RoomToLoad'
  BY <1>1, <1>2, <1>3 DEF RoomToLoad, Full
<1>12. SleepSound'
  BY <1>1, <1>2, <1>3, <1>5 DEF SleepSound, Unpinned, TypeOK, PoolTypeOK
<1> QED BY <1>6, <1>7, <1>8, <1>9, <1>10, <1>11, <1>12

(* Nothing but the tracker's counter or a sleeping thread changes. *)
LEMMA IdleStep ==
    ASSUME IInv, NEW c \in Threads, Reject(c) \/ Wakeup(c) \/ UNCHANGED vars
    PROVE  IInv'
<1> USE DEF IInv
<1>1. /\ UNCHANGED <<resident, payload, refs, lastUsed, clock, switching, pc, model, engine, tracked>>
      /\ asleep' \in SUBSET asleep
  BY DEF Reject, Wakeup, SpuriousWakeup, vars, poolVars
<1>2. arrived' \in 0..MaxRequests
  BY DispatcherAssumption DEF Reject, Wakeup, vars, TypeOK
<1>3. TypeOK'
  BY <1>1, <1>2 DEF TypeOK, PoolTypeOK
<1>4. PinsExact' /\ EngineLive'
  BY <1>1 DEF PinsExact, EngineLive, Pins
<1>5. SwitchSound' /\ AcquiresPooled' /\ AbsentUnpinned' /\ RoomToLoad'
  BY <1>1 DEF SwitchSound, AcquiresPooled, AbsentUnpinned, RoomToLoad, Switcher, Full
<1>6. SleepSound'
  BY <1>1 DEF SleepSound, Unpinned
<1> QED BY <1>3, <1>4, <1>5, <1>6

(* IInv is inductive: one case per disjunct of Next.                       *)
LEMMA NextIInv == IInv /\ [Next]_vars => IInv'
<1> SUFFICES ASSUME IInv, [Next]_vars PROVE IInv'
  OBVIOUS
<1>1. ASSUME NEW c \in Threads, Reject(c) \/ Wakeup(c) PROVE IInv'
  BY <1>1, IdleStep
<1>2. ASSUME NEW c \in Threads, NEW m \in Models, ResolveEager(c, m) \/ ResolvePooled(c, m)
      PROVE  IInv'
  BY <1>2, ResolveStep
<1>3. ASSUME NEW c \in Threads, Step(c) PROVE IInv'
  <2>1. CASE Acquire(c) \/ Drained(c) \/ LoadFails(c) \/ Unpin(c)
    BY <2>1, AcquireStep, DrainedStep, LoadFailsStep, UnpinStep
  <2>2. CASE \E e \in Engines \ InUse : Load(c, e)
    BY <2>2, LoadStep
  <2>3. CASE \/ PrepareFails(c) \/ HandleBlocking(c) \/ HandleStream(c)
             \/ RunStreamSession(c) \/ StreamDropped(c)
             \/ Generate(c) \/ Generated(c) \/ Salvage(c) \/ Respond(c)
    <3>1. Quiet(c)
      <4>1. /\ pc[c] \in Holding /\ tracked' \in SUBSET Threads
            /\ UNCHANGED <<poolVars, model, engine, arrived>>
        BY <2>3 DEF PrepareFails, HandleBlocking, HandleStream, RunStreamSession,
          StreamDropped, Generate, Generated, Salvage, Respond, Holding, Running, IInv, TypeOK
      <4>2. \E q \in Holding : Goto(c, q)
        <5>1. {"run", "provider", "release", "generate", "regenerate", "tail", "rerun"} \subseteq Holding
          BY DEF Holding, Running
        <5> QED BY <2>3, <5>1 DEF PrepareFails, HandleBlocking, HandleStream, RunStreamSession,
          StreamDropped, Generate, Generated, Salvage, Respond
      <4> QED BY <4>1, <4>2 DEF Quiet
    <3> QED BY <3>1, QuietStep
  <2> QED BY <1>3, <2>1, <2>2, <2>3 DEF Step
<1>4. CASE UNCHANGED vars
  <2>1. CASE Threads = {}
    BY <1>4, <2>1 DEF IInv, vars, poolVars, TypeOK, PoolTypeOK, PinsExact, EngineLive, Pins,
       SwitchSound, Switcher, AcquiresPooled, AbsentUnpinned, RoomToLoad, Full, SleepSound, Unpinned
  <2> QED BY <1>4, <2>1, IdleStep
<1> QED BY <1>1, <1>2, <1>3, <1>4 DEF Next

(* In every behaviour the inductive invariant holds. *)
THEOREM Inductive == Spec => []IInv
BY InitIInv, NextIInv, PTL DEF Spec

(* A slot's reference count is exactly the number of live handles on it,   *)
(* whatever the interleaving of acquires, streams and failures.            *)
THEOREM PinsExactHolds == Spec => []PinsExact
<1>1. IInv => PinsExact
  BY DEF IInv
<1> QED BY <1>1, Inductive, PTL

(* No request ever runs on an engine that was evicted under it.            *)
THEOREM EngineLiveHolds == Spec => []EngineLive
<1>1. IInv => EngineLive
  BY DEF IInv
<1> QED BY <1>1, Inductive, PTL

(* Resident and loading models together never exceed the capacity.         *)
THEOREM WithinCapacityHolds == Spec => []WithinCapacity
<1>1. IInv => WithinCapacity
  <2> SUFFICES ASSUME IInv PROVE WithinCapacity
    OBVIOUS
  <2> DEFINE L == {c \in Threads : pc[c] = "load"}
  <2>1. IsFiniteSet(resident)
    BY FS_Subset, PoolAssumption DEF IInv, TypeOK, PoolTypeOK
  <2>2. Cardinality(resident) \in Nat
    BY <2>1, FS_CardinalityType
  <2>3. CASE L = {}
    <3>1. Cardinality(L) = 0
      BY <2>3, FS_EmptySet
    <3> QED BY <2>2, <3>1 DEF IInv, RoomToLoad, WithinCapacity
  <2>4. CASE L # {}
    <3>1. PICK c \in Threads : pc[c] = "load"
      BY <2>4
    <3>2. L = {c}
      BY <3>1 DEF IInv, SwitchSound, Switcher
    <3>3. Cardinality(L) = 1
      BY <3>2, FS_Singleton
    <3>4. ~Full
      BY <3>1 DEF IInv, RoomToLoad
    <3> QED BY <2>2, <3>3, <3>4, PoolAssumption DEF WithinCapacity, Full
  <2> QED BY <2>3, <2>4
<1> QED BY <1>1, Inductive, PTL

(* A thread that sleeps in acquire has another that will wake it.          *)
THEOREM SleeperHasWakerHolds == Spec => []SleeperHasWaker
<1>1. IInv => SleeperHasWaker
  <2> SUFFICES ASSUME IInv, NEW c \in asleep
               PROVE  \/ /\ pc[c] = "drain"
                         /\ \A m \in resident : \E d \in Threads : Pins(d, m)
                      \/ /\ pc[c] = "await"
                         /\ \E d \in Threads : pc[d] \in {"load", "drain"}
    BY DEF SleeperHasWaker
  <2>1. CASE pc[c] = "await" /\ switching
    BY <2>1 DEF IInv, SwitchSound, Switcher
  <2>2. CASE pc[c] = "drain" /\ Unpinned = {}
    <3>1. ASSUME NEW m \in resident PROVE \E d \in Threads : Pins(d, m)
      <4>1. m \in Pooled /\ refs[m] # 0
        BY <2>2 DEF Unpinned, IInv, TypeOK, PoolTypeOK
      <4>2. Cardinality(Holders(pc, model, m)) # 0
        BY <4>1, PinsAreHolders DEF IInv
      <4>3. Holders(pc, model, m) # {}
        BY <4>2, FS_EmptySet
      <4> QED BY <4>3 DEF Holders, Pins
    <3> QED BY <2>2, <3>1
  <2> QED BY <2>1, <2>2 DEF IInv, SleepSound
<1> QED BY <1>1, Inductive, PTL
=============================================================================
