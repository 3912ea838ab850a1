------------------------- MODULE ModelEngine_proofs -------------------------
(***************************************************************************)
(* What holds of ModelEngine for any number of pages, messages and models: *)
(* the coordinator is a lock.                                              *)
(*                                                                         *)
(* CoordinatorExcludes speaks of where calls are; the code only keeps two  *)
(* fields, flight and gate.  LockInv ties them: the owner of the flight is *)
(* the one call inside a load, the holder of the gate the one call inside  *)
(* an exclusive section, and a generation begins with no flight up, which  *)
(* stays so because a flight is only taken with the gate open.             *)
(***************************************************************************)
EXTENDS ModelEngine, TLAPS

LockInv ==
    /\ pc \in [Calls -> PCs]
    /\ flight \in Calls \cup {None} /\ gate \in Calls \cup {None}
    /\ \A c \in Calls : pc[c] \in LoadPCs <=> flight = c
    /\ \A c \in Calls : pc[c] \in GatePCs <=> gate = c
    /\ \A c \in Calls : pc[c] = "generating" => flight = None

\* With every call at its first line, flight and gate are free.
LEMMA LockInvInit == Init => LockInv
BY EngineAssumption DEF Init, LockInv, PCs, LoadPCs, GatePCs

\* Neither field changes: a call moves without crossing either section's border.
LEMMA Move ==
    ASSUME LockInv, NEW c \in Calls, NEW to \in PCs,
           pc' = [pc EXCEPT ![c] = to], UNCHANGED <<flight, gate>>,
           pc[c] \in LoadPCs <=> to \in LoadPCs,
           pc[c] \in GatePCs <=> to \in GatePCs,
           to = "generating" => flight = None
    PROVE  LockInv'
BY DEF LockInv

\* A flight lands: the load leaves its section and the field is cleared.
LEMMA LandKeepsLock ==
    ASSUME LockInv, NEW c \in Calls, pc[c] \in LoadPCs, NEW ok, Land(c, ok)
    PROVE  LockInv'
BY EngineAssumption DEF LockInv, Land, Goto, PCs, LoadPCs, GatePCs

\* An exclusive section ends: its call leaves and the gate is opened.
LEMMA OverKeepsLock ==
    ASSUME LockInv, NEW c \in Calls, pc[c] \in GatePCs, Over(c)
    PROVE  LockInv'
BY EngineAssumption DEF LockInv, Over, Release, Goto, PCs, LoadPCs, GatePCs

\* An exclusive section begins, with the gate open and no generation running in it.
LEMMA TakingTheGate ==
    ASSUME LockInv, NEW c \in Calls, NEW to \in {"draining", "unloading"},
           pc[c] = "loop", gate = None, gate' = c, flight' = flight,
           pc' = [pc EXCEPT ![c] = to]
    PROVE  LockInv'
BY EngineAssumption DEF LockInv, PCs, LoadPCs, GatePCs

LEMMA LockInvStep == LockInv /\ [Next]_vars => LockInv'
<1> SUFFICES ASSUME LockInv, [Next]_vars PROVE LockInv'
    OBVIOUS
<1>1. CASE UNCHANGED vars
    BY <1>1 DEF vars, place, coordinator, LockInv
<1>2. ASSUME NEW c \in Calls, Message(c) PROVE LockInv'
    <2>1. PICK to \in {"interrupting", "loop"} : pc' = [pc EXCEPT ![c] = to]
        BY <1>2 DEF Message, Goto
    <2> QED
        BY <1>2, <2>1, Move DEF Message, coordinator, PCs, LoadPCs, GatePCs
<1>3. ASSUME NEW c \in Calls, Continue(c) PROVE LockInv'
    <2>1. CASE AwaitGate(c) \/ Join(c) \/ AwaitOtherModel(c)
        <3>1. PICK to \in {"loop", "joined"} : pc' = [pc EXCEPT ![c] = to]
            BY <2>1 DEF AwaitGate, Join, AwaitOtherModel, Await
        <3>2. pc[c] = "loop" /\ UNCHANGED <<flight, gate>>
            BY <2>1 DEF AwaitGate, Join, AwaitOtherModel, At, coordinator
        <3> QED
            BY <3>1, <3>2, Move DEF PCs, LoadPCs, GatePCs
    <2>2. CASE JoinedSettles(c)
        BY <2>2, Move DEF JoinedSettles, At, Goto, PCs, LoadPCs, GatePCs
    <2>3. CASE TakeOff(c)
        BY <2>3, EngineAssumption DEF TakeOff, At, Goto, LockInv, PCs, LoadPCs, GatePCs
    <2>4. CASE StartLoad(c)
        <3>1. pc[c] = "created"
            BY <2>4 DEF StartLoad, At
        <3>2. CASE engine # None /\ loadedModel = model[c]
            BY <2>4, <3>1, <3>2, LandKeepsLock DEF StartLoad, LoadPCs
        <3>3. CASE ~(engine # None /\ loadedModel = model[c])
            BY <2>4, <3>1, <3>3, Move DEF StartLoad, Goto, coordinator, PCs, LoadPCs, GatePCs
        <3> QED
            BY <3>2, <3>3
    <2>5. CASE ReloadRejected(c) \/ ReloadResolved(c)
        <3>1. pc[c] = "reloading"
            BY <2>5 DEF ReloadRejected, ReloadResolved, At
        <3>2. (\E ok \in BOOLEAN : Land(c, ok)) \/ Discard(c)
            BY <2>5 DEF ReloadRejected, ReloadResolved
        <3>3. CASE Discard(c)
            BY <3>1, <3>3, Move DEF Discard, Goto, coordinator, PCs, LoadPCs, GatePCs
        <3> QED
            BY <3>1, <3>2, <3>3, LandKeepsLock DEF LoadPCs
    <2>6. CASE Discarded(c)
        BY <2>6, LandKeepsLock DEF Discarded, At, LoadPCs
    <2>7. CASE GenerateTakesGate(c)
        BY <2>7, TakingTheGate DEF GenerateTakesGate, At, Await
    <2>8. CASE Generate(c)
        <3>1. pc[c] = "draining" /\ flight = None
            BY <2>8 DEF Generate, At
        <3>2. CASE Over(c)
            BY <3>1, <3>2, OverKeepsLock DEF GatePCs
        <3>3. CASE ~Over(c)
            BY <2>8, <3>1, <3>3, Move DEF Generate, Goto, coordinator, PCs, LoadPCs, GatePCs
        <3> QED
            BY <3>2, <3>3
    <2>9. CASE Generated(c) \/ Unloaded(c)
        BY <2>9, OverKeepsLock DEF Generated, Unloaded, At, GatePCs
    <2>10. CASE Interrupted(c)
        BY <2>10, Move DEF Interrupted, At, Goto, coordinator, PCs, LoadPCs, GatePCs
    <2>11. CASE Cancel(c)
        <3>1. PICK to \in {"draining", "unloading"} : pc' = [pc EXCEPT ![c] = to]
            BY <2>11 DEF Cancel, Await, Goto
        <3> QED
            BY <2>11, <3>1, TakingTheGate DEF Cancel, At
    <2>12. CASE Cancelled(c)
        BY <2>12, Move DEF Cancelled, At, Await, coordinator, PCs, LoadPCs, GatePCs
    <2> QED
        BY <1>3, <2>1, <2>2, <2>3, <2>4, <2>5, <2>6, <2>7, <2>8, <2>9, <2>10, <2>11, <2>12
        DEF Continue
<1>4. ASSUME NEW c \in Calls, EngineEvent(c) PROVE LockInv'
    BY <1>4 DEF EngineEvent, place, coordinator, LockInv
<1> QED
    BY <1>1, <1>2, <1>3, <1>4 DEF Next

\* The coordinator is a lock: one load at a time, one holder of the gate at a
\* time, and an answer is written with no load in progress.
THEOREM CoordinatorIsALock == Spec => []CoordinatorExcludes
<1>1. LockInv => CoordinatorExcludes
    BY EngineAssumption DEF LockInv, CoordinatorExcludes
<1> QED
    BY LockInvInit, LockInvStep, <1>1, PTL DEF Spec
-----------------------------------------------------------------------------
(***************************************************************************)
(* What the engine holds.  The worker keeps two fields, engine and         *)
(* loadedModel, and learns of the GPU only through the promises of the     *)
(* calls it made.  EngineInv says what a load that is under way knows:     *)
(* nothing is advertised while it reloads; the object it reloads is the    *)
(* engine in use for as long as nobody has aborted the reload; and between *)
(* the end of a reload and its continuation nobody else can run, which is  *)
(* why an unload never takes an engine whose reload has just succeeded.    *)
(***************************************************************************)
EngineTypes ==
    /\ model \in [Calls -> Models]
    /\ using \in [Calls -> Calls \cup {None}]
    /\ work \in [Calls -> Work]
    /\ holds \in [Calls -> Models \cup {None}]
    /\ engine \in Calls \cup {None}

\* A reload has ended and its continuation has not run.
Landing(c) == pc[c] = "reloading" /\ work[c] = "ok"

\* What a load knows of the object it works on.
LoadKnows(c) ==
    /\ pc[c] \in {"new", "interrupting", "loop", "created"} => using[c] = None
    /\ pc[c] = "reloading" =>
        /\ loadedModel = None /\ using[c] \in Calls /\ work[c] # "none"
        /\ work[c] # "bad" => using[c] = engine
        /\ holds[using[c]] = IF work[c] = "ok" THEN model[c] ELSE None
    /\ pc[c] = "discarding" => using[c] \in Calls /\ holds[using[c]] = None

EngineInv ==
    /\ LockInv
    /\ EngineTypes
    /\ \A c \in Calls : LoadKnows(c)
    /\ \A c, d \in Calls : Landing(c) /\ Runnable(d) => c = d
    /\ AdvertisedIsHeld
    /\ NoOrphanWeights

\* At the beginning no engine exists.
LEMMA EngineInvInit == Init => EngineInv
<1> SUFFICES ASSUME Init PROVE EngineInv
    OBVIOUS
<1>1. LockInv
    BY LockInvInit
<1> QED
    BY <1>1, EngineAssumption
    DEF Init, EngineInv, EngineTypes, LoadKnows, Landing, AdvertisedIsHeld, NoOrphanWeights, Work

\* A continuation runs only when no reload of another call has just ended.
LEMMA AloneAfterReload ==
    ASSUME EngineInv, NEW c \in Calls, Runnable(c), pc[c] # "reloading"
    PROVE  \A d \in Calls : ~Landing(d)
BY DEF EngineInv, Landing

\* A call moves on without touching the engine: a call that has never loaded, one
\* whose object holds nothing, or one that holds the gate.
LEMMA MoveKeepsEngine ==
    ASSUME EngineInv, LockInv', NEW c \in Calls, NEW to \in PCs,
           pc' = [pc EXCEPT ![c] = to],
           UNCHANGED <<model, engine, loadedModel, gpu>>,
           \A d \in Calls : ~Landing(d),
           to \notin {"reloading", "discarding", "generating"},
           to \in {"new", "interrupting", "loop", "created"} =>
               pc[c] \in {"new", "interrupting", "loop", "created"},
           pc[c] # "reloading"
    PROVE  EngineInv'
<1> USE EngineAssumption DEF EngineInv, gpu
<1>1. EngineTypes'
    BY DEF EngineTypes
<1>2. \A d \in Calls : ~Landing(d)'
    BY DEF Landing, LockInv
<1>3. \A d \in Calls : LoadKnows(d)'
    BY DEF LoadKnows, LockInv
<1>4. AdvertisedIsHeld'
    BY DEF AdvertisedIsHeld, LockInv
<1>5. NoOrphanWeights'
    <2> SUFFICES ASSUME NEW e \in Calls, holds[e] # None, engine # e
                 PROVE  \E d \in Calls : using[d] = e /\ pc'[d] \in LoadPCs
        BY DEF NoOrphanWeights
    <2>1. PICK d \in Calls : using[d] = e /\ pc[d] \in LoadPCs
        BY DEF NoOrphanWeights
    <2>2. d # c
        BY <2>1 DEF LoadKnows, LoadPCs
    <2> QED
        BY <2>1, <2>2 DEF LockInv
<1> QED
    BY <1>1, <1>2, <1>3, <1>4, <1>5

\* A load begins: what was advertised no longer is, and the weights go.
LEMMA StartLoadKeepsEngine ==
    ASSUME EngineInv, LockInv', NEW c \in Calls, StartLoad(c)
    PROVE  EngineInv'
<1> USE EngineAssumption DEF EngineInv
<1>1. pc[c] = "created" /\ flight = c /\ \A d \in Calls : ~Landing(d)
    BY AloneAfterReload DEF StartLoad, At, LockInv, LoadPCs
<1>2. using[c] = None
    BY <1>1 DEF LoadKnows
<1>3. CASE engine # None /\ loadedModel = model[c]
    BY <1>1, <1>3, MoveKeepsEngine DEF StartLoad, Land, Goto, msg, PCs
<1>4. CASE ~(engine # None /\ loadedModel = model[c])
    <2>1. /\ loadedModel' = None /\ model' = model
          /\ engine' \in Calls /\ (engine # None => engine' = engine)
          /\ pc' = [pc EXCEPT ![c] = "reloading"]
          /\ using' = [using EXCEPT ![c] = engine']
          /\ work' = [work EXCEPT ![c] = "pending"]
          /\ holds' = [holds EXCEPT ![engine'] = None]
        BY <1>4 DEF StartLoad, AskReload, Goto, msg, EngineTypes
    <2>2. EngineTypes'
        BY <2>1 DEF EngineTypes, Work
    <2>3. \A d \in Calls \ {c} : pc[d] \notin LoadPCs /\ pc[d] # "generating"
        BY <1>1 DEF LockInv
    <2>4. \A d \in Calls : ~Landing(d)'
        BY <1>1, <2>1, <2>3 DEF Landing, LockInv, EngineTypes, LoadPCs
    <2>5. \A d \in Calls : LoadKnows(d)'
        BY <2>1, <2>3 DEF LoadKnows, LockInv, EngineTypes, LoadPCs
    <2>6. AdvertisedIsHeld'
        BY <2>1, <2>3 DEF AdvertisedIsHeld, LockInv, EngineTypes
    <2>7. NoOrphanWeights'
        BY <1>2, <2>1 DEF NoOrphanWeights, LockInv, EngineTypes
    <2> QED
        BY <2>2, <2>4, <2>5, <2>6, <2>7
<1> QED
    BY <1>3, <1>4

\* A load gives its object up: nobody else loads, and what it held is gone.
LEMMA DiscardKeepsEngine ==
    ASSUME EngineInv, LockInv', NEW c \in Calls, pc[c] = "reloading", Discard(c),
           engine' = engine \/ (engine' = None /\ engine = using[c]),
           loadedModel' \in {loadedModel, None}, model' = model
    PROVE  EngineInv'
<1> USE EngineAssumption DEF EngineInv
<1>1. \A d \in Calls \ {c} : pc[d] \notin LoadPCs /\ pc[d] # "generating"
    BY DEF LockInv, LoadPCs
<1>2. using[c] \in Calls /\ loadedModel' = None
    BY DEF LoadKnows
<1>3. /\ pc' = [pc EXCEPT ![c] = "discarding"]
      /\ using' = using /\ work' \in [Calls -> Work]
      /\ holds' = [holds EXCEPT ![using[c]] = None]
    BY DEF Discard, AskUnload, Goto, EngineTypes, Work
<1>4. EngineTypes'
    BY <1>3 DEF EngineTypes
<1>5. \A d \in Calls : ~Landing(d)'
    BY <1>1, <1>3 DEF Landing, LockInv, LoadPCs
<1>6. \A d \in Calls : LoadKnows(d)'
    BY <1>1, <1>2, <1>3 DEF LoadKnows, LockInv, EngineTypes, LoadPCs
<1>7. AdvertisedIsHeld'
    BY <1>1, <1>2, <1>3 DEF AdvertisedIsHeld, LockInv
<1>8. NoOrphanWeights'
    BY <1>2, <1>3 DEF NoOrphanWeights, LockInv, EngineTypes, LoadPCs
<1> QED
    BY <1>4, <1>5, <1>6, <1>7, <1>8

\* A load that has reloaded lands: its object is the engine in use, or holds nothing.
LEMMA LandKeepsEngine ==
    ASSUME EngineInv, LockInv', NEW c \in Calls, NEW ok, pc[c] = "reloading", Land(c, ok),
           UNCHANGED <<model, engine, gpu>>,
           \/ work[c] = "ok" /\ loadedModel' \in {loadedModel, model[c]}
           \/ work[c] = "bad" /\ loadedModel' = loadedModel
    PROVE  EngineInv'
<1> USE EngineAssumption DEF EngineInv, gpu
<1>1. \A d \in Calls \ {c} : pc[d] \notin LoadPCs /\ pc[d] # "generating"
    BY DEF LockInv, LoadPCs
<1>2. /\ loadedModel = None /\ using[c] \in Calls
      /\ work[c] = "ok" => using[c] = engine /\ holds[engine] = model[c]
      /\ work[c] = "bad" => holds[using[c]] = None
    BY DEF LoadKnows
<1>3. pc' = [pc EXCEPT ![c] = "done"]
    BY DEF Land, Goto
<1>4. EngineTypes'
    BY DEF EngineTypes
<1>5. \A d \in Calls : ~Landing(d)'
    BY <1>1, <1>3 DEF Landing, LockInv, LoadPCs
<1>6. \A d \in Calls : LoadKnows(d)'
    BY <1>1, <1>3 DEF LoadKnows, LockInv, LoadPCs
<1>7. AdvertisedIsHeld'
    BY <1>1, <1>2, <1>3 DEF AdvertisedIsHeld, LockInv
<1>8. NoOrphanWeights'
    BY <1>1, <1>2, <1>3 DEF NoOrphanWeights, LockInv
<1> QED
    BY <1>4, <1>5, <1>6, <1>7, <1>8

\* An unload takes the engine away: whoever was reloading it learns so.
LEMMA CancelKeepsEngine ==
    ASSUME EngineInv, LockInv', NEW c \in Calls, Cancel(c)
    PROVE  EngineInv'
<1> USE EngineAssumption DEF EngineInv
<1>1. /\ pc[c] = "loop" /\ gate = None /\ \A d \in Calls : ~Landing(d)
      /\ engine' = None /\ loadedModel' = None /\ model' = model
    BY AloneAfterReload DEF Cancel, At, msg
<1>2. \A d \in Calls : pc[d] # "generating"
    BY <1>1 DEF LockInv, GatePCs
<1>3. PICK to \in {"draining", "unloading"} : pc' = [pc EXCEPT ![c] = to]
    BY DEF Cancel, Await, Goto
<1>4. \A d \in Calls : pc'[d] \in LoadPCs => d # c /\ pc'[d] = pc[d]
    BY <1>3 DEF LockInv, LoadPCs
<1>5. /\ using' \in [Calls -> Calls \cup {None}] /\ \A d \in Calls \ {c} : using'[d] = using[d]
      /\ work' \in [Calls -> Work]
      /\ \A d \in Calls \ {c} :
            work'[d] = IF pc[d] = "reloading" /\ using[d] = engine /\ work[d] = "pending"
                       THEN "bad" ELSE work[d]
      /\ holds' \in [Calls -> Models \cup {None}]
      /\ \A e \in Calls : holds'[e] = IF e = engine THEN None ELSE holds[e]
    <2>1. CASE engine = None
        <3>1. UNCHANGED gpu
            BY <2>1 DEF Cancel
        <3>2. \A d \in Calls : ~(pc[d] = "reloading" /\ using[d] = engine)
            BY <2>1 DEF LoadKnows
        <3> QED
            BY <2>1, <3>1, <3>2 DEF gpu, EngineTypes
    <2>2. CASE engine # None
        <3>1. AskUnload(c, engine)
            BY <2>2 DEF Cancel
        <3> QED
            BY <2>2, <3>1 DEF AskUnload, EngineTypes, Work
    <2> QED
        BY <2>1, <2>2
<1>6. EngineTypes'
    BY <1>1, <1>5 DEF EngineTypes
<1>7. \A d \in Calls : ~Landing(d)'
    BY <1>1, <1>3, <1>4, <1>5 DEF Landing, LockInv, LoadPCs
<1>8. \A d \in Calls : LoadKnows(d)'
    <2> TAKE d \in Calls
    <2>1. CASE d = c
        BY <1>3, <2>1 DEF LoadKnows, LockInv
    <2>2. CASE d # c
        <3>1. pc'[d] = pc[d] /\ using'[d] = using[d]
            BY <1>3, <1>5, <2>2 DEF LockInv
        <3>2. work[d] = "ok" => pc[d] # "reloading"
            BY <1>1 DEF Landing
        <3>3. pc[d] = "reloading" => work'[d] = "bad"
            BY <1>5, <2>2, <3>2 DEF LoadKnows, EngineTypes, Work
        <3> QED
            BY <1>1, <1>5, <2>2, <3>1, <3>2, <3>3 DEF LoadKnows, EngineTypes
    <2> QED
        BY <2>1, <2>2
<1>9. AdvertisedIsHeld'
    BY <1>1, <1>2, <1>3 DEF AdvertisedIsHeld, LockInv
<1>10. NoOrphanWeights'
    <2> SUFFICES ASSUME NEW e \in Calls, holds'[e] # None
                 PROVE  \E d \in Calls : using'[d] = e /\ pc'[d] \in LoadPCs
        BY DEF NoOrphanWeights
    <2>1. engine # e /\ holds[e] # None
        BY <1>5
    <2>2. PICK d \in Calls : using[d] = e /\ pc[d] \in LoadPCs
        BY <2>1 DEF NoOrphanWeights
    <2>3. d # c
        BY <1>1, <2>2 DEF LoadPCs
    <2> QED
        BY <1>3, <1>5, <2>2, <2>3 DEF LockInv
<1> QED
    BY <1>6, <1>7, <1>8, <1>9, <1>10

\* An answer begins only on the engine that holds the model asked for.
LEMMA GenerateKeepsEngine ==
    ASSUME EngineInv, LockInv', NEW c \in Calls, Generate(c)
    PROVE  EngineInv'
<1> USE EngineAssumption DEF EngineInv
<1>1. pc[c] = "draining" /\ (\A d \in Calls : ~Landing(d)) /\ UNCHANGED <<model, engine, loadedModel, holds>>
    BY AloneAfterReload DEF Generate, At, msg, owner
<1>2. CASE engine = None \/ loadedModel # model[c]
    BY <1>1, <1>2, MoveKeepsEngine DEF Generate, Over, Goto, gpu, PCs
<1>3. CASE engine # None /\ loadedModel = model[c]
    <2>1. /\ pc' = [pc EXCEPT ![c] = "generating"]
          /\ using' = [using EXCEPT ![c] = engine]
          /\ work' = [work EXCEPT ![c] = "pending"]
        BY <1>3 DEF Generate, Goto
    <2>2. EngineTypes'
        BY <1>1, <2>1 DEF EngineTypes, Work
    <2>3. \A d \in Calls : ~Landing(d)'
        BY <1>1, <2>1 DEF Landing, LockInv, EngineTypes
    <2>4. \A d \in Calls : LoadKnows(d)'
        BY <1>1, <2>1 DEF LoadKnows, LockInv, EngineTypes
    <2>5. loadedModel # None
        BY <1>3 DEF EngineTypes
    <2>6. AdvertisedIsHeld'
        BY <1>1, <1>3, <2>1, <2>5 DEF AdvertisedIsHeld, LockInv, EngineTypes
    <2>7. NoOrphanWeights'
        BY <1>1, <2>1 DEF NoOrphanWeights, LockInv, EngineTypes, LoadPCs
    <2> QED
        BY <2>2, <2>3, <2>4, <2>6, <2>7
<1> QED
    BY <1>2, <1>3

\* The engine finishes what one call asked of it; everybody else is asleep.
LEMMA EventKeepsEngine ==
    ASSUME EngineInv, LockInv', NEW c \in Calls, EngineEvent(c)
    PROVE  EngineInv'
<1> USE EngineAssumption DEF EngineInv
<1>1. /\ pc' = pc /\ using' = using /\ model' = model /\ engine' = engine /\ loadedModel' = loadedModel
      /\ awaits' = awaits /\ waiters' = waiters /\ settled' = settled
      /\ \A d \in Calls : ~Runnable(d)
    BY DEF EngineEvent, Quiet, msg, place, coordinator, owner
<1>2. PICK result \in {"ok", "bad"} :
        /\ work' = [work EXCEPT ![c] = result]
        /\ holds' = IF pc[c] = "reloading" /\ result = "ok"
                    THEN [holds EXCEPT ![using[c]] = model[c]] ELSE holds
    BY DEF EngineEvent
<1>3. EngineTypes'
    BY <1>1, <1>2 DEF EngineTypes, Work
<1>4. \A d \in Calls \ {c} : ~Runnable(d)'
    BY <1>1, <1>2 DEF Runnable, Resolved, EngineTypes
<1>5. \A d, e \in Calls : Landing(d)' /\ Runnable(e)' => d = e
    <2>1. \A d \in Calls : Landing(d)' => Runnable(d)'
        BY DEF Landing, Runnable
    <2> QED
        BY <1>4, <2>1
<1>6. \A d \in Calls : pc[c] = "reloading" /\ d # c => pc[d] \notin LoadPCs /\ pc[d] # "generating"
    BY DEF LockInv, LoadPCs
<1>7. \A d \in Calls : LoadKnows(d)'
    <2> TAKE d \in Calls
    <2>1. CASE d = c
        BY <1>1, <1>2, <2>1 DEF LoadKnows, EngineTypes, EngineEvent
    <2>2. CASE d # c
        BY <1>1, <1>2, <1>6, <2>2 DEF LoadKnows, EngineTypes, LoadPCs
    <2> QED
        BY <2>1, <2>2
<1>8. AdvertisedIsHeld'
    <2>1. CASE pc[c] = "reloading"
        <3>1. loadedModel = None
            BY <2>1 DEF LoadKnows
        <3> QED
            BY <1>1, <1>6, <2>1, <3>1 DEF AdvertisedIsHeld
    <2>2. CASE pc[c] # "reloading"
        BY <1>1, <1>2, <2>2 DEF AdvertisedIsHeld, EngineTypes
    <2> QED
        BY <2>1, <2>2
<1>9. NoOrphanWeights'
    BY <1>1, <1>2 DEF NoOrphanWeights, EngineTypes, LoadPCs
<1> QED
    BY <1>3, <1>5, <1>7, <1>8, <1>9

LEMMA EngineInvStep == EngineInv /\ [Next]_vars => EngineInv'
<1> SUFFICES ASSUME EngineInv, [Next]_vars PROVE EngineInv'
    OBVIOUS
<1>1. LockInv'
    BY LockInvStep DEF EngineInv
<1>2. CASE UNCHANGED vars
    BY <1>1, <1>2
    DEF vars, msg, place, coordinator, owner, gpu, EngineInv, EngineTypes, LoadKnows, Landing,
        Runnable, Resolved, AdvertisedIsHeld, NoOrphanWeights
<1>3. ASSUME NEW c \in Calls, Message(c) PROVE EngineInv'
    <2>1. PICK to \in {"interrupting", "loop"} : pc' = [pc EXCEPT ![c] = to]
        BY <1>3 DEF Message, Goto
    <2>2. \A d \in Calls : ~Landing(d)
        BY <1>3 DEF Message, Quiet, Landing, Runnable
    <2> QED
        BY <1>1, <1>3, <2>1, <2>2, MoveKeepsEngine DEF Message, msg, PCs
<1>4. ASSUME NEW c \in Calls, Continue(c) PROVE EngineInv'
    <2>1. CASE AwaitGate(c) \/ Join(c) \/ AwaitOtherModel(c) \/ TakeOff(c) \/ GenerateTakesGate(c)
        <3>1. PICK to \in {"loop", "joined", "created", "draining"} : pc' = [pc EXCEPT ![c] = to]
            BY <2>1 DEF AwaitGate, Join, AwaitOtherModel, TakeOff, GenerateTakesGate, Await, Goto
        <3>2. pc[c] = "loop" /\ Runnable(c) /\ UNCHANGED <<model, engine, loadedModel, gpu>>
            BY <2>1 DEF AwaitGate, Join, AwaitOtherModel, TakeOff, GenerateTakesGate, At, msg, owner
        <3>3. \A d \in Calls : ~Landing(d)
            BY <3>2, AloneAfterReload
        <3>4. /\ to \in PCs \ {"reloading", "discarding", "generating"} /\ pc[c] # "reloading"
              /\ to \in {"new", "interrupting", "loop", "created"} =>
                    pc[c] \in {"new", "interrupting", "loop", "created"}
            BY <3>1, <3>2 DEF PCs, LoadPCs, GatePCs
        <3> QED
            BY <1>1, <3>1, <3>2, <3>3, <3>4, MoveKeepsEngine
    <2>2. CASE JoinedSettles(c) \/ Discarded(c) \/ Generated(c) \/ Interrupted(c) \/ Cancelled(c) \/ Unloaded(c)
        <3>1. PICK to \in {"done", "loop", "draining"} :
                 pc' = [pc EXCEPT ![c] = to] /\ (to = "loop" => pc[c] = "interrupting")
            BY <2>2 DEF JoinedSettles, Discarded, Generated, Interrupted, Cancelled, Unloaded, Await,
                        Goto, Land, Over, At
        <3>2. pc[c] # "reloading" /\ Runnable(c) /\ UNCHANGED <<model, engine, loadedModel, gpu>>
            BY <2>2 DEF JoinedSettles, Discarded, Generated, Interrupted, Cancelled, Unloaded, At, msg, owner
        <3>3. \A d \in Calls : ~Landing(d)
            BY <3>2, AloneAfterReload
        <3>4. /\ to \in PCs \ {"reloading", "discarding", "generating"} /\ pc[c] # "reloading"
              /\ to \in {"new", "interrupting", "loop", "created"} =>
                    pc[c] \in {"new", "interrupting", "loop", "created"}
            BY <3>1, <3>2 DEF PCs, LoadPCs, GatePCs
        <3> QED
            BY <1>1, <3>1, <3>2, <3>3, <3>4, MoveKeepsEngine
    <2>3. CASE StartLoad(c)
        BY <1>1, <2>3, StartLoadKeepsEngine
    <2>4. CASE ReloadRejected(c)
        <3>1. pc[c] = "reloading" /\ work[c] = "bad" /\ model' = model
            BY <2>4 DEF ReloadRejected, At, msg
        <3>2. /\ engine' = engine \/ (engine' = None /\ engine = using[c])
              /\ loadedModel' \in {loadedModel, None}
            BY <2>4 DEF ReloadRejected, Disown
        <3>3. CASE Discard(c)
            BY <1>1, <3>1, <3>2, <3>3, DiscardKeepsEngine
        <3>4. CASE Fresh(c) /\ engine # c /\ Land(c, FALSE) /\ UNCHANGED gpu
            BY <1>1, <2>4, <3>1, <3>4, LandKeepsEngine DEF ReloadRejected, Disown, Fresh
        <3> QED
            BY <2>4, <3>3, <3>4 DEF ReloadRejected
    <2>5. CASE ReloadResolved(c)
        <3>1. pc[c] = "reloading" /\ work[c] = "ok" /\ model' = model
            BY <2>5 DEF ReloadResolved, At, msg
        <3>2. CASE Discard(c) /\ Fresh(c) /\ engine' = (IF engine = c THEN None ELSE engine)
                   /\ UNCHANGED loadedModel
            BY <1>1, <3>1, <3>2, DiscardKeepsEngine DEF Fresh
        <3>3. CASE /\ UNCHANGED <<engine, gpu>> /\ loadedModel' \in {loadedModel, model[c]}
                   /\ \E ok \in BOOLEAN : Land(c, ok)
            BY <1>1, <3>1, <3>3, LandKeepsEngine
        <3> QED
            BY <2>5, <3>2, <3>3 DEF ReloadResolved
    <2>6. CASE Generate(c)
        BY <1>1, <2>6, GenerateKeepsEngine
    <2>7. CASE Cancel(c)
        BY <1>1, <2>7, CancelKeepsEngine
    <2> QED
        BY <1>4, <2>1, <2>2, <2>3, <2>4, <2>5, <2>6, <2>7 DEF Continue
<1>5. ASSUME NEW c \in Calls, EngineEvent(c) PROVE EngineInv'
    BY <1>1, <1>5, EventKeepsEngine
<1> QED
    BY <1>2, <1>3, <1>4, <1>5 DEF Next

LEMMA EngineInvariant == Spec => []EngineInv
BY EngineInvInit, EngineInvStep, PTL DEF Spec

\* Whatever pages load, generate and unload, and however their calls meet: the
\* model the worker names is the one on the GPU, and an answer under way is
\* written by the model it was asked of.
THEOREM AdvertisedModelIsHeld == Spec => []AdvertisedIsHeld
<1>1. EngineInv => AdvertisedIsHeld
    BY DEF EngineInv
<1> QED
    BY EngineInvariant, <1>1, PTL

\* No engine keeps its weights once neither the worker nor a load can reach it.
THEOREM WeightsAreReachable == Spec => []NoOrphanWeights
<1>1. EngineInv => NoOrphanWeights
    BY DEF EngineInv
<1> QED
    BY EngineInvariant, <1>1, PTL
=============================================================================
