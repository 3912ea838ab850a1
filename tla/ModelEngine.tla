---------------------------- MODULE ModelEngine ----------------------------
(***************************************************************************)
(* The inference engine of the service worker: load, generate and unload   *)
(* of service-worker.ts under ModelLoadCoordinator.                        *)
(*                                                                         *)
(* Every message of a page starts one call.  A call runs until it awaits a *)
(* promise; continuations whose promise is settled (Runnable) all run      *)
(* before the next event (a message, or the engine finishing something):   *)
(* those that await one promise in the order they began to await it, the   *)
(* others in any order.  A promise is named by the call that settles it:   *)
(* the flight of a load, the gate of a generate or an unload.  An          *)
(* MLCEngine object is named by the load that created it.                  *)
(***************************************************************************)
EXTENDS Naturals, Sequences

CONSTANTS
    Calls,    \* messages the pages may send (bound)
    Models,
    None

ASSUME EngineAssumption == None \notin Calls \cup Models

VARIABLES
    kind,        \* [Calls -> load, generate or unload]
    model,       \* [Calls -> the model the message names]
    pc,          \* [Calls -> the await the call is suspended at]
    awaits,      \* [Calls -> whose promise it awaits, if any]
    waiters,     \* [Calls -> who awaits its promise, oldest first]
    flight,      \* ModelLoadCoordinator.flight: the load that owns it
    gate,        \* ModelLoadCoordinator.exclusiveGate: the call that holds it
    settled,     \* the calls whose flight or gate promise is settled
    loaded,      \* the loads that resolved, not rejected
    engine,      \* the engine in use
    loadedModel, \* the model it is said to hold
    generation,  \* loadGeneration
    started,     \* [Calls -> loadGeneration when the load started]
    using,       \* [Calls -> the engine object it works on]
    work,        \* [Calls -> state of what it asked of that object]
    holds        \* [engine objects -> the model whose weights it holds]

coordinator == <<flight, gate, settled, loaded>>
owner       == <<engine, loadedModel, generation>>
place == <<pc, awaits, waiters>>
msg   == <<kind, model>>
gpu   == <<using, work, holds>>
vars  == <<msg, place, coordinator, owner, started, gpu>>

LoadPCs == {"created", "reloading", "discarding"}   \* a load whose flight is up
GatePCs == {"draining", "generating", "unloading"}  \* a call that holds the gate
PCs     == {"new", "loop", "joined", "interrupting", "done"} \cup LoadPCs \cup GatePCs
Work    == {"none", "pending", "ok", "bad"}

TypeOK ==
    /\ kind \in [Calls -> {"load", "generate", "unload"}]
    /\ model \in [Calls -> Models]
    /\ pc \in [Calls -> PCs]
    /\ awaits \in [Calls -> Calls \cup {None}]
    /\ waiters \in [Calls -> Seq(Calls)]
    /\ flight \in Calls \cup {None} /\ gate \in Calls \cup {None}
    /\ settled \subseteq Calls /\ loaded \subseteq settled
    /\ engine \in Calls \cup {None} /\ loadedModel \in Models \cup {None}
    /\ generation \in Nat /\ started \in [Calls -> Nat]
    /\ using \in [Calls -> Calls \cup {None}]
    /\ work \in [Calls -> Work]
    /\ holds \in [Calls -> Models \cup {None}]

Init ==
    /\ kind \in [Calls -> {"load", "generate", "unload"}]
    /\ model \in [Calls -> Models]
    /\ pc = [c \in Calls |-> "new"]
    /\ awaits = [c \in Calls |-> None]
    /\ waiters = [c \in Calls |-> <<>>]
    /\ flight = None /\ gate = None /\ settled = {} /\ loaded = {}
    /\ engine = None /\ loadedModel = None /\ generation = 0
    /\ started = [c \in Calls |-> 0]
    /\ using = [c \in Calls |-> None]
    /\ work = [c \in Calls |-> "none"]
    /\ holds = [c \in Calls |-> None]
-----------------------------------------------------------------------------
Resolved(c) == awaits[c] # None => awaits[c] \in settled /\ Head(waiters[awaits[c]]) = c
Runnable(c) ==
    \/ pc[c] \in {"created", "interrupting"}
    \/ pc[c] \in {"loop", "joined", "draining"} /\ Resolved(c)
    \/ pc[c] \in {"reloading", "discarding", "generating", "unloading"} /\ work[c] # "pending"
Quiet == \A c \in Calls : ~Runnable(c)

Left(c) == [p \in Calls |-> IF awaits[c] = p THEN Tail(waiters[p]) ELSE waiters[p]]
Goto(c, to) ==
    /\ pc' = [pc EXCEPT ![c] = to]
    /\ awaits' = [awaits EXCEPT ![c] = None]
    /\ waiters' = Left(c)
Await(c, to, promise) ==
    /\ pc' = [pc EXCEPT ![c] = to]
    /\ awaits' = [awaits EXCEPT ![c] = promise]
    /\ waiters' = IF promise = None THEN Left(c)
                  ELSE [Left(c) EXCEPT ![promise] = Append(@, c)]
At(c, here) == pc[c] = here /\ Runnable(c)

\* engine.reload(model): the weights in place go first.
AskReload(c, e) ==
    /\ using' = [using EXCEPT ![c] = e]
    /\ work' = [work EXCEPT ![c] = "pending"]
    /\ holds' = [holds EXCEPT ![e] = None]

\* engine.unload(): drops the weights and aborts a reload in progress.
AskUnload(c, e) ==
    /\ using' = [using EXCEPT ![c] = e]
    /\ work' = [d \in Calls |->
            IF d = c THEN "pending"
            ELSE IF pc[d] = "reloading" /\ using[d] = e /\ work[d] = "pending" THEN "bad"
            ELSE work[d]]
    /\ holds' = [holds EXCEPT ![e] = None]

\* The flight's finally, and what its promise becomes.
Land(c, ok) ==
    /\ Goto(c, "done")
    /\ flight' = IF flight = c THEN None ELSE flight
    /\ settled' = settled \cup {c}
    /\ loaded' = IF ok THEN loaded \cup {c} ELSE loaded
    /\ UNCHANGED gate
-----------------------------------------------------------------------------
(***************************************************************************)
(* load: ModelLoadCoordinator.run around the worker's start function.      *)
(***************************************************************************)
Message(c) ==
    /\ pc[c] = "new" /\ Quiet
    /\ IF kind[c] = "unload"
       THEN Goto(c, "interrupting") /\ generation' = generation + 1
       ELSE Goto(c, "loop") /\ UNCHANGED generation
    /\ UNCHANGED <<msg, coordinator, engine, loadedModel, started, gpu>>

AwaitGate(c) ==
    /\ At(c, "loop") /\ gate # None
    /\ Await(c, "loop", gate)
    /\ UNCHANGED <<msg, coordinator, owner, started, gpu>>

Join(c) ==
    /\ kind[c] = "load" /\ At(c, "loop")
    /\ gate = None /\ flight # None /\ model[flight] = model[c]
    /\ Await(c, "joined", flight)
    /\ UNCHANGED <<msg, coordinator, owner, started, gpu>>

AwaitOtherModel(c) ==
    /\ kind[c] = "load" /\ At(c, "loop")
    /\ gate = None /\ flight # None /\ model[flight] # model[c]
    /\ Await(c, "loop", flight)
    /\ UNCHANGED <<msg, coordinator, owner, started, gpu>>

JoinedSettles(c) ==
    /\ At(c, "joined")
    /\ Goto(c, "done")
    /\ loaded' = IF awaits[c] \in loaded THEN loaded \cup {c} ELSE loaded
    /\ settled' = settled \cup {c}
    /\ UNCHANGED <<msg, flight, gate, owner, started, gpu>>

\* Mutant of TakeOff: a load does not look at the gate.
TakeOffUngated(c) ==
    /\ kind[c] = "load" /\ At(c, "loop")
    /\ flight = None
    /\ flight' = c
    /\ Goto(c, "created")
    /\ UNCHANGED <<msg, gate, settled, loaded, owner, started, gpu>>

\* start runs in a continuation of its own, after this one.
TakeOff(c) ==
    /\ kind[c] = "load" /\ At(c, "loop")
    /\ gate = None /\ flight = None
    /\ flight' = c
    /\ Goto(c, "created")
    /\ UNCHANGED <<msg, gate, settled, loaded, owner, started, gpu>>

\* Mutant of StartLoad: the old model is still advertised during the reload.
StartLoadAdvertised(c) ==
    /\ At(c, "created")
    /\ generation' = generation + 1
    /\ started' = [started EXCEPT ![c] = generation + 1]
    /\ IF engine # None /\ loadedModel = model[c]
       THEN Land(c, TRUE) /\ UNCHANGED <<engine, loadedModel, gpu>>
       ELSE /\ UNCHANGED loadedModel
            /\ engine' = IF engine = None THEN c ELSE engine
            /\ AskReload(c, engine')
            /\ Goto(c, "reloading")
            /\ UNCHANGED coordinator
    /\ UNCHANGED msg

StartLoad(c) ==
    /\ At(c, "created")
    /\ generation' = generation + 1
    /\ started' = [started EXCEPT ![c] = generation + 1]
    /\ IF engine # None /\ loadedModel = model[c]
       THEN Land(c, TRUE) /\ UNCHANGED <<engine, loadedModel, gpu>>
       ELSE /\ loadedModel' = None
            /\ engine' = IF engine = None THEN c ELSE engine
            /\ AskReload(c, engine')
            /\ Goto(c, "reloading")
            /\ UNCHANGED coordinator
    /\ UNCHANGED msg

Fresh(c) == using[c] = c
Discard(c) == AskUnload(c, using[c]) /\ Goto(c, "discarding") /\ UNCHANGED coordinator
Disown(c) == IF engine = using[c] THEN engine' = None /\ loadedModel' = None
                                  ELSE UNCHANGED <<engine, loadedModel>>

\* The catch around reload.  A new engine someone else took over is left alone.
ReloadRejected(c) ==
    /\ At(c, "reloading") /\ work[c] = "bad"
    /\ Disown(c)
    /\ IF Fresh(c) /\ engine # c THEN Land(c, FALSE) /\ UNCHANGED gpu
                                 ELSE Discard(c)
    /\ UNCHANGED <<msg, generation, started>>

\* Mutant of ReloadResolved: a reload that was overtaken is dropped, not unloaded.
OvertakenIsDropped(c) ==
    /\ At(c, "reloading") /\ work[c] = "ok"
    /\ IF started[c] = generation
       THEN loadedModel' = model[c] /\ Land(c, TRUE) /\ UNCHANGED engine
       ELSE /\ engine' = IF Fresh(c) /\ engine = c THEN None ELSE engine
            /\ Land(c, FALSE) /\ UNCHANGED loadedModel
    /\ UNCHANGED <<msg, generation, started, gpu>>

ReloadResolved(c) ==
    /\ At(c, "reloading") /\ work[c] = "ok"
    /\ \/ /\ started[c] = generation
          /\ loadedModel' = model[c]
          /\ Land(c, TRUE)
          /\ UNCHANGED <<engine, gpu>>
       \/ /\ started[c] # generation /\ Fresh(c)
          /\ engine' = IF engine = c THEN None ELSE engine
          /\ Discard(c)
          /\ UNCHANGED loadedModel
       \/ /\ started[c] # generation /\ ~Fresh(c)
          /\ Land(c, FALSE)
          /\ UNCHANGED <<engine, loadedModel, gpu>>
    /\ UNCHANGED <<msg, generation, started>>

Discarded(c) ==
    /\ At(c, "discarding")
    /\ Land(c, FALSE)
    /\ UNCHANGED <<msg, owner, started, gpu>>
-----------------------------------------------------------------------------
(***************************************************************************)
(* generate under runExclusive, unload under cancelAndRunExclusive.        *)
(***************************************************************************)
\* Mutant of Over: the gate is forgotten, but nobody is told.
OverUntold(c) ==
    /\ Goto(c, "done")
    /\ gate' = IF gate = c THEN None ELSE gate
    /\ UNCHANGED <<flight, settled, loaded>>

Release(c) == gate' = IF gate = c THEN None ELSE gate
Over(c) ==
    /\ Goto(c, "done")
    /\ Release(c)
    /\ settled' = settled \cup {c}
    /\ UNCHANGED <<flight, loaded>>

\* The gate keeps new flights out, so waitForIdle never awaits a second one.
GenerateTakesGate(c) ==
    /\ kind[c] = "generate" /\ At(c, "loop")
    /\ gate = None
    /\ gate' = c
    /\ Await(c, "draining", flight)
    /\ UNCHANGED <<msg, flight, settled, loaded, owner, started, gpu>>

Generate(c) ==
    /\ kind[c] = "generate" /\ At(c, "draining") /\ flight = None
    /\ IF engine = None \/ loadedModel # model[c]
       THEN Over(c) /\ UNCHANGED <<using, work>>
       ELSE /\ Goto(c, "generating")
            /\ using' = [using EXCEPT ![c] = engine]
            /\ work' = [work EXCEPT ![c] = "pending"]
            /\ UNCHANGED coordinator
    /\ UNCHANGED <<msg, owner, started, holds>>

Generated(c) ==
    /\ At(c, "generating")
    /\ Over(c)
    /\ UNCHANGED <<msg, owner, started, gpu>>

Interrupted(c) ==
    /\ At(c, "interrupting")
    /\ Goto(c, "loop")
    /\ UNCHANGED <<msg, coordinator, owner, started, gpu>>

\* Take the gate, and cancel in the same breath.
Cancel(c) ==
    /\ kind[c] = "unload" /\ At(c, "loop")
    /\ gate = None
    /\ gate' = c
    /\ engine' = None /\ loadedModel' = None
    /\ IF engine = None
       THEN Await(c, "draining", flight) /\ UNCHANGED gpu
       ELSE Goto(c, "unloading") /\ AskUnload(c, engine)
    /\ UNCHANGED <<msg, flight, settled, loaded, generation, started>>

\* Whether the engine's unload resolved or rejected.
Cancelled(c) ==
    /\ At(c, "unloading")
    /\ Await(c, "draining", flight)
    /\ UNCHANGED <<msg, coordinator, owner, started, gpu>>

Unloaded(c) ==
    /\ kind[c] = "unload" /\ At(c, "draining") /\ flight = None
    /\ Over(c)
    /\ UNCHANGED <<msg, owner, started, gpu>>
-----------------------------------------------------------------------------
\* The engine finishes a reload, an unload or an answer, well or badly.
EngineEvent(c) ==
    /\ Quiet
    /\ pc[c] \in {"reloading", "discarding", "unloading", "generating"}
    /\ work[c] = "pending"
    /\ \E result \in {"ok", "bad"} :
        /\ work' = [work EXCEPT ![c] = result]
        /\ holds' = IF pc[c] = "reloading" /\ result = "ok"
                    THEN [holds EXCEPT ![using[c]] = model[c]] ELSE holds
    /\ UNCHANGED <<msg, place, coordinator, owner, started, using>>

Continue(c) ==
    \/ AwaitGate(c) \/ Join(c) \/ AwaitOtherModel(c) \/ JoinedSettles(c) \/ TakeOff(c)
    \/ StartLoad(c) \/ ReloadRejected(c) \/ ReloadResolved(c) \/ Discarded(c)
    \/ GenerateTakesGate(c) \/ Generate(c) \/ Generated(c)
    \/ Interrupted(c) \/ Cancel(c) \/ Cancelled(c) \/ Unloaded(c)

Next == \E c \in Calls : Message(c) \/ Continue(c) \/ EngineEvent(c)

Spec == Init /\ [][Next]_vars
\* Continuations run; the engine finishes or fails what it was asked; pages owe nothing.
FairSpec == Spec /\ \A c \in Calls : WF_vars(Continue(c)) /\ WF_vars(EngineEvent(c))
-----------------------------------------------------------------------------
(***************************************************************************)
(* Properties.                                                             *)
(***************************************************************************)
\* The coordinator is a lock: one load at a time, one gate holder at a time,
\* and a generation is alone, with no load in progress.
CoordinatorExcludes ==
    /\ \A c, d \in Calls : pc[c] \in LoadPCs /\ pc[d] \in LoadPCs => c = d
    /\ \A c, d \in Calls : pc[c] \in GatePCs /\ pc[d] \in GatePCs => c = d
    /\ \A c, d \in Calls : pc[c] = "generating" => pc[d] \notin LoadPCs

\* "No previous model may be advertised as usable": the model the worker names
\* is the one its engine holds, and an answer is written by the model asked for.
AdvertisedIsHeld ==
    /\ loadedModel # None => engine # None /\ holds[engine] = loadedModel
    /\ \A c \in Calls : pc[c] = "generating" /\ work[c] = "pending" =>
            using[c] = engine /\ holds[engine] = model[c]

\* Weights are never left on the GPU in an engine nobody can reach any more.
NoOrphanWeights ==
    \A e \in Calls : holds[e] # None =>
        engine = e \/ \E c \in Calls : using[c] = e /\ pc[c] \in LoadPCs

\* Every message is answered: loads, answers and unloads never wait on each
\* other for ever.
EveryCallEnds == \A c \in Calls : (pc[c] # "new") ~> (pc[c] = "done")

\* cancelAndRunExclusive: "block new loads, cancel the active one, then wait
\* until its promise has observed that cancellation": an unload that is over
\* leaves no engine.
UnloadLeavesNoEngine ==
    [][\A c \in Calls : kind[c] = "unload" /\ pc[c] # "done" /\ pc'[c] = "done"
                            => engine' = None]_vars
=============================================================================
