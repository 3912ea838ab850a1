---------------------------- MODULE EngineClient ----------------------------
(***************************************************************************)
(* The page's client of the inference engines: webllm-client.ts over       *)
(* service-worker-lifecycle.ts and activity-timeout.ts.  It prefers the    *)
(* engine of the service worker, which the browser may stop at any moment  *)
(* and start anew behind the same controller, and falls back to a worker   *)
(* of its own.                                                             *)
(*                                                                         *)
(* The service worker is seen from the page: what it holds, and whether a  *)
(* request reached an instance that still runs (ModelEngine is the inside  *)
(* of it).  One operation, a load or an answer, is in flight at a time:    *)
(* the store above (Readiness) sees to that.                               *)
(***************************************************************************)
EXTENDS Naturals

CONSTANTS
    Model,  \* the rungs of the tier ladder, best first: 1, 2, ...
    None

ASSUME ClientAssumption == Model \subseteq Nat /\ None \notin Model

VARIABLES
    controlled,  \* navigator.serviceWorker.controller is there
    holds,       \* the model the service worker has loaded
    pending,     \* [Request -> serviceLifecycle.pending]: absent, posted to the
                 \* running instance, or lost with the one it was posted to
    instance,    \* the boot id last observed: of no, the running or a past instance
    beating,     \* heartbeatTimer is set
    serviceModel, dedicatedModel, requestedModel,
    op           \* the load or answer in flight, and how the last one ended

worker == <<controlled, holds>>
link   == <<pending, instance, beating>>
client == <<worker, link, serviceModel, dedicatedModel, requestedModel, op>>

Request == {"beat", "probe", "load", "answer", "abort"}
\* load: webLlmClient.load; first: an answer of the service worker; recover: its
\* reload and second try; resume: a load made by generate; own: a dedicated answer
\* or a call of the CPU engine (Readiness), the only one of the cload, canswer stages.
Kind   == {"load", "first", "recover", "again", "resume", "own"}
Stage  == {"idle", "wait", "probe", "load", "answer", "dload", "danswer",
           "cload", "canswer", "over"}
End    == {"ok", "storage", "memory", "transient"}

Idle == [kind |-> "load", stage |-> "idle", model |-> None, retried |-> FALSE, end |-> "ok"]

ClientTypeOK ==
    /\ controlled \in BOOLEAN /\ beating \in BOOLEAN
    /\ holds \in Model \cup {None}
    /\ pending \in [Request -> {"no", "live", "lost"}]
    /\ instance \in {"none", "current", "past"}
    /\ {serviceModel, dedicatedModel, requestedModel} \subseteq Model \cup {None}
    /\ op \in [kind : Kind, stage : Stage, model : Model \cup {None},
               retried : BOOLEAN, end : End]

Silent == [r \in Request |-> "no"]

ClientInit ==
    /\ controlled \in BOOLEAN /\ holds = None
    /\ pending = Silent /\ instance = "none" /\ beating = FALSE
    /\ serviceModel = None /\ dedicatedModel = None /\ requestedModel = None
    /\ op = Idle
-----------------------------------------------------------------------------
(* How the operation in flight goes on. *)

Ended(o, end) == [o EXCEPT !.stage = "over", !.end = end]

\* withActivityTimeout, serviceRequest and the worker's own errors, as they are
\* told apart by load, generateService and classifyModelLoadFailure.
Classified(e) == IF e \in {"storage", "memory"} THEN e ELSE "transient"
Recoverable == {"restarted", "timeout", "notLoaded"}

\* Mutant of Failed: a restarted worker is tried again however often it restarts.
FailedForgetful(o, e) ==
    IF o.stage \in {"dload", "danswer"} THEN Ended(o, Classified(e))
    ELSE CASE o.kind = "load" /\ e = "restarted" -> [o EXCEPT !.stage = "wait"]
           [] o.kind = "resume" -> [o EXCEPT !.stage = "dload"]
           [] o.kind = "first" /\ e \in Recoverable ->
                 [o EXCEPT !.kind = "recover", !.stage = "wait"]
           [] OTHER -> Ended(o, Classified(e))

\* The step of o in flight rejected with e: load tries once more when the worker
\* restarted, a resumed load falls back to the dedicated worker whatever the
\* error, and a first answer reloads its model.
Failed(o, e) ==
    IF o.stage \in {"dload", "danswer"} THEN Ended(o, Classified(e))
    ELSE CASE o.kind = "load" /\ e = "restarted" /\ ~o.retried ->
                 [o EXCEPT !.stage = "wait", !.retried = TRUE]
           [] o.kind = "resume" -> [o EXCEPT !.stage = "dload"]
           [] o.kind = "first" /\ e \in Recoverable ->
                 [o EXCEPT !.kind = "recover", !.stage = "wait"]
           [] OTHER -> Ended(o, Classified(e))

\* rejectAll(RESTARTED): whatever awaits the service worker is told.
Orphaned == IF op.stage \in Request THEN Failed(op, "restarted") ELSE op

\* invalidateServiceClient()
Invalidate ==
    /\ serviceModel' = None /\ beating' = FALSE /\ instance' = "none"
    /\ pending' = Silent

\* observeInstance(the running instance) as request r is answered, then the
\* requests posted next.  A replaced instance rejects all that is pending, and a
\* ping rejected so invalidates the client before anything is posted.
Observe(r, posted) ==
    LET replaced == instance = "past"
        pinged   == replaced /\ r # "beat" /\ pending["beat"] # "no"
    IN  /\ pending' = [q \in Request |-> IF q \in posted THEN "live"
                                      ELSE IF replaced \/ q = r THEN "no" ELSE pending[q]]
        /\ instance' = IF pinged THEN "none" ELSE "current"
        /\ serviceModel' = IF pinged THEN None ELSE serviceModel
        /\ beating' = (beating /\ ~pinged)

Post(r) == pending' = [pending EXCEPT ![r] = "live"]
-----------------------------------------------------------------------------
(* The operations. *)

\* Mutant of Load: the model asked for first is kept for the reloads.
LoadOfFirst(m) ==
    /\ op' = [Idle EXCEPT !.stage = "wait", !.model = m]
    /\ requestedModel' = IF requestedModel = None THEN m ELSE requestedModel
    /\ serviceModel' = None /\ dedicatedModel' = None
    /\ beating' = FALSE
    /\ UNCHANGED <<worker, pending, instance>>

\* load(m): an old ping may still be pending.
Load(m) ==
    /\ op' = [Idle EXCEPT !.stage = "wait", !.model = m]
    /\ requestedModel' = m /\ serviceModel' = None /\ dedicatedModel' = None
    /\ beating' = FALSE
    /\ UNCHANGED <<worker, pending, instance>>

\* generate(): by the engine that has the model, or by loading it again.
Generate ==
    /\ \/ /\ serviceModel # None
          /\ op' = [Idle EXCEPT !.kind = "first", !.stage = "answer", !.model = serviceModel]
          /\ Post("answer")
       \/ /\ serviceModel = None /\ dedicatedModel # None
          /\ op' = [Idle EXCEPT !.kind = "own", !.stage = "danswer", !.model = dedicatedModel]
          /\ UNCHANGED pending
       \/ /\ serviceModel = None /\ dedicatedModel = None
          /\ op' = [Idle EXCEPT !.kind = "resume", !.stage = "wait", !.model = requestedModel]
          /\ UNCHANGED pending
    /\ UNCHANGED <<worker, instance, beating, serviceModel, dedicatedModel, requestedModel>>

\* abort(), asked once (bound).  Its request has no deadline.
Abort ==
    /\ op.stage # "idle" /\ serviceModel # None /\ pending["abort"] = "no"
    /\ Post("abort")
    /\ UNCHANGED <<worker, instance, beating, serviceModel, dedicatedModel, requestedModel, op>>

\* waitForController(): it is there, or not within two seconds.
Wait ==
    /\ op.stage = "wait"
    /\ IF controlled
       THEN op' = [op EXCEPT !.stage = "probe"] /\ Post("probe") /\ UNCHANGED beating
       ELSE /\ op' = IF op.kind = "recover" THEN Ended(op, "transient")
                                            ELSE [op EXCEPT !.stage = "dload"]
            /\ beating' = (beating /\ op.kind # "load")
            /\ UNCHANGED pending
    /\ UNCHANGED <<worker, instance, serviceModel, dedicatedModel, requestedModel>>

\* The ping of probeServiceInstance(5_000) answers.
Probed ==
    /\ op.stage = "probe" /\ pending["probe"] = "live"
    /\ op' = [op EXCEPT !.stage = "load"]
    /\ Observe("probe", {"load"})
    /\ UNCHANGED <<worker, dedicatedModel, requestedModel>>

ProbeTimesOut ==
    /\ op.stage = "probe"
    /\ pending' = [pending EXCEPT !["probe"] = "no"]
    /\ op' = Failed(op, "timeout")
    /\ UNCHANGED <<worker, instance, beating, serviceModel, dedicatedModel, requestedModel>>

\* The worker answers the load: it holds the model, or it holds none.
Loaded ==
    /\ op.stage = "load" /\ pending["load"] = "live"
    /\ holds' = op.model
    /\ serviceModel' = op.model /\ beating' = TRUE
    /\ op' = CASE op.kind = "load"    -> Ended(op, "ok")
               [] op.kind = "recover" -> [op EXCEPT !.kind = "again", !.stage = "answer"]
               [] op.kind = "resume"  -> [op EXCEPT !.kind = "first", !.stage = "answer"]
    /\ pending' = [pending EXCEPT !["load"] = "no",
                                  !["answer"] = IF op.kind = "load" THEN "no" ELSE "live"]
    /\ UNCHANGED <<controlled, instance, dedicatedModel, requestedModel>>

LoadFails(e) ==
    /\ op.stage = "load" /\ pending["load"] = "live"
    /\ holds' = None
    /\ pending' = [pending EXCEPT !["load"] = "no"]
    /\ op' = Failed(op, e)
    /\ UNCHANGED <<controlled, instance, beating, serviceModel, dedicatedModel, requestedModel>>

\* Mutant of Answered: the worker answers with whatever it holds.
AnsweredByAny ==
    /\ op.stage = "answer" /\ pending["answer"] = "live"
    /\ pending' = [pending EXCEPT !["answer"] = "no"]
    /\ op' = Ended([op EXCEPT !.model = holds], "ok")
    /\ UNCHANGED <<worker, instance, beating, serviceModel, dedicatedModel, requestedModel>>

\* The worker answers with the model it was asked for, refuses when it holds
\* another or none, or its engine throws.
Answered ==
    /\ op.stage = "answer" /\ pending["answer"] = "live"
    /\ pending' = [pending EXCEPT !["answer"] = "no"]
    /\ op' \in IF holds = op.model THEN {Ended(op, "ok"), Failed(op, "other")}
                                   ELSE {Failed(op, "notLoaded")}
    /\ UNCHANGED <<worker, instance, beating, serviceModel, dedicatedModel, requestedModel>>

\* loadDedicated and generateDedicated.
OwnLoaded ==
    /\ op.stage = "dload"
    /\ dedicatedModel' = op.model /\ serviceModel' = None
    /\ op' = IF op.kind = "load" THEN Ended(op, "ok")
                                 ELSE [op EXCEPT !.kind = "own", !.stage = "danswer"]
    /\ UNCHANGED <<worker, link, requestedModel>>

OwnFails(e) ==
    /\ op.stage \in {"dload", "danswer"}
    /\ op' = Failed(op, e)
    /\ UNCHANGED <<worker, link, serviceModel, dedicatedModel, requestedModel>>

OwnAnswered ==
    /\ op.stage = "danswer"
    /\ op' = Ended(op, "ok")
    /\ UNCHANGED <<worker, link, serviceModel, dedicatedModel, requestedModel>>

\* Mutant of Watchdog: an answer of the service worker has none.
WatchdogOfLoads ==
    \/ /\ op.stage = "load"
       /\ Invalidate
       /\ op' = Failed(op, "timeout")
       /\ UNCHANGED <<worker, dedicatedModel, requestedModel>>
    \/ /\ op.stage \in {"dload", "danswer"}
       /\ dedicatedModel' = None
       /\ op' = Failed(op, "timeout")
       /\ UNCHANGED <<worker, link, serviceModel, requestedModel>>

\* The activity watchdog of the step in flight.  The unload or abort it posts
\* to the service worker is one of the things that happen Elsewhere.
Watchdog ==
    \/ /\ op.stage \in {"load", "answer"}
       /\ Invalidate
       /\ op' = Failed(op, "timeout")
       /\ UNCHANGED <<worker, dedicatedModel, requestedModel>>
    \/ /\ op.stage \in {"dload", "danswer"}
       /\ dedicatedModel' = None
       /\ op' = Failed(op, "timeout")
       /\ UNCHANGED <<worker, link, serviceModel, requestedModel>>
-----------------------------------------------------------------------------
(* The heartbeat, and what the browser does. *)

\* A ping while nothing is pending; without a controller it fails at once.
Beat ==
    /\ beating /\ pending = Silent
    /\ Post("beat")
    /\ UNCHANGED <<worker, instance, beating, serviceModel, dedicatedModel, requestedModel, op>>

BeatAnswers ==
    /\ pending["beat"] = "live"
    /\ Observe("beat", {})
    /\ op' = IF instance = "past" THEN Orphaned ELSE op
    /\ UNCHANGED <<worker, dedicatedModel, requestedModel>>

\* Thirty seconds without an answer.
BeatTimesOut ==
    /\ pending["beat"] # "no"
    /\ Invalidate
    /\ op' = Orphaned
    /\ UNCHANGED <<worker, dedicatedModel, requestedModel>>

AbortAnswers ==
    /\ pending["abort"] = "live"
    /\ pending' = [pending EXCEPT !["abort"] = "no"]
    /\ UNCHANGED <<worker, instance, beating, serviceModel, dedicatedModel, requestedModel, op>>

Lost == [r \in Request |-> IF pending[r] = "no" THEN "no" ELSE "lost"]

\* The browser stops the worker: requests and weights are gone with it.
Stopped ==
    /\ holds' = None /\ pending' = Lost
    /\ instance' = IF instance = "current" THEN "past" ELSE instance
    /\ UNCHANGED <<controlled, beating, serviceModel, dedicatedModel, requestedModel, op>>

\* A worker takes control of the page: the first, or a new version.
ControllerChange ==
    /\ controlled' = TRUE /\ holds' = None
    /\ Invalidate
    /\ op' = Orphaned
    /\ UNCHANGED <<dedicatedModel, requestedModel>>

\* Another page, or a request this one gave up on, loads or unloads a model.
Elsewhere(m) ==
    /\ holds' = m
    /\ UNCHANGED <<controlled, link, serviceModel, dedicatedModel, requestedModel, op>>

ClientStep ==
    \/ Wait \/ Probed \/ ProbeTimesOut \/ Loaded
    \/ \E e \in {"storage", "memory", "other"} : LoadFails(e) \/ OwnFails(e)
    \/ Answered \/ OwnLoaded \/ OwnAnswered \/ Watchdog
    \/ Beat \/ BeatAnswers \/ BeatTimesOut \/ AbortAnswers
    \/ Stopped \/ ControllerChange
    \/ \E m \in Model \cup {None} : Elsewhere(m)

=============================================================================
