----------------------------- MODULE Readiness -----------------------------
(***************************************************************************)
(* The private engine as the person sees it: the state machine of          *)
(* llm.svelte.ts over the engine client, the markers that let a reload     *)
(* take up what was in flight (model-resume.ts), the automatic steps down  *)
(* the tier ladder (tiers.ts), and the removal of the weights              *)
(* (models.svelte.ts).                                                     *)
(***************************************************************************)
EXTENDS EngineClient

CONSTANTS
    Cpu,          \* the rungs run by wllama, without a service worker
    Down,         \* [Model -> downgrade(): a smaller rung, or None]
    MaxAutoSteps  \* MAX_AUTO_STEPS

Below(t) == {m \in Model : m > t}

ASSUME LadderAssumption ==
    /\ Cpu \subseteq Model /\ MaxAutoSteps \in Nat
    /\ Down \in [Model -> Model \cup {None}]
    /\ \A t \in Model : Down[t] \in Below(t) \cup {None}

VARIABLES
    status,    \* llmStore.status; busy is downloading or loading
    tier, prepared,
    smaller,   \* smallerTier
    risk,      \* storageRisk
    job,       \* preparePromise: what prepareOnce awaits, and its locals
    why,       \* the failure last reported
    preparedKey, consentedKey,  \* the markers in localStorage
    cpuModel   \* the model of the wllama worker

offer == <<smaller, risk>>
keys  == <<preparedKey, consentedKey>>
store == <<status, tier, prepared, offer, job, why, keys, cpuModel>>
vars  == <<client, store>>

Failure == {"storage", "memory", "transient"}
NoJob   == [at |-> "none", force |-> FALSE, step |-> 0]

TypeOK ==
    /\ ClientTypeOK
    /\ status \in {"detecting", "needs-download", "busy", "ready", "generating", "error"}
    /\ {tier, smaller, preparedKey, consentedKey, cpuModel} \subseteq Model \cup {None}
    /\ {prepared, risk} \subseteq BOOLEAN
    /\ job \in [at : {"none", "persist", "measure", "attempt", "rung", "report"},
                force : BOOLEAN, step : 0 .. MaxAutoSteps]
    /\ why \in Failure \cup {None}

Init ==
    /\ ClientInit
    /\ status = "detecting" /\ tier = None /\ prepared = FALSE
    /\ smaller = None /\ risk = FALSE /\ job = NoJob /\ why = None /\ cpuModel = None
    /\ preparedKey = None /\ consentedKey = None
-----------------------------------------------------------------------------
(* What a new page takes up. *)

\* Mutant of Restored: a model once prepared beats the one in flight.
RestoredPrepared(detected) ==
    LET marked == IF preparedKey # None THEN preparedKey ELSE consentedKey
        t == IF marked # None THEN marked ELSE detected
    IN [tier |-> t, prepared |-> preparedKey = t, resume |-> t \in {preparedKey, consentedKey}]

\* restoreModelPreparation: the model consented to, or prepared, or detected.
Restored(detected) ==
    LET marked == IF consentedKey # None THEN consentedKey ELSE preparedKey
        t == IF marked # None THEN marked ELSE detected
    IN [tier |-> t, prepared |-> preparedKey = t, resume |-> t \in {preparedKey, consentedKey}]

\* attempt(): the load of the tier's model, by its engine.
Attempt(t) ==
    IF t \in Cpu
    THEN /\ op' = [Idle EXCEPT !.kind = "own", !.stage = "cload", !.model = t]
         /\ UNCHANGED <<worker, link, serviceModel, dedicatedModel, requestedModel>>
    ELSE Load(t)

\* What prepareOnce does once nothing is left to ask.
Launch(t) ==
    /\ consentedKey' = t /\ risk' = FALSE
    /\ status' = "busy"
    /\ job' = [at |-> "attempt", force |-> job.force, step |-> 0]
    /\ Attempt(t)

\* prepare(): joins the preparation in progress; else a prepared model starts at
\* once, and another after persist() is answered.
Prepare(t, isPrepared, force) ==
    IF job.at = "none" /\ isPrepared
    THEN Launch(t)
    ELSE /\ job' = IF job.at = "none" THEN [at |-> "persist", force |-> force, step |-> 0] ELSE job
         /\ status' = "needs-download" /\ risk' = (risk /\ ~force)
         /\ UNCHANGED <<client, consentedKey>>

\* initialize(), on a device that some rung fits.
Initialize(detected) ==
    LET r == Restored(detected) IN
    /\ status = "detecting"
    /\ tier' = r.tier /\ prepared' = r.prepared
    /\ IF r.resume
       THEN Prepare(r.tier, r.prepared, ~r.prepared)
       ELSE status' = "needs-download" /\ UNCHANGED <<client, risk, job, consentedKey>>
    /\ UNCHANGED <<smaller, why, preparedKey, cpuModel>>

\* The person asks for the engine, or insists after the warning.
Ask(force) ==
    /\ status = "needs-download"
    /\ force => risk
    /\ Prepare(tier, prepared, force)
    /\ UNCHANGED <<tier, prepared, smaller, why, preparedKey, cpuModel>>

\* retry(), or acceptSmaller() when a smaller rung is offered.
Retry ==
    /\ status = "error"
    /\ tier' = IF smaller = None THEN tier ELSE smaller
    /\ smaller' = None
    /\ prepared' = (preparedKey = tier')
    /\ Prepare(tier', prepared', TRUE)
    /\ UNCHANGED <<why, preparedKey, cpuModel>>
-----------------------------------------------------------------------------
(* A preparation. *)

\* persist() was answered, whatever the answer.  The tier and the marker are
\* those of now.
Persisted ==
    /\ job.at = "persist"
    /\ IF prepared \/ job.force
       THEN Launch(tier)
       ELSE job' = [job EXCEPT !.at = "measure"] /\ UNCHANGED <<client, status, risk, consentedKey>>
    /\ UNCHANGED <<tier, prepared, smaller, why, preparedKey, cpuModel>>

\* The weights fit, or the browser will not say; or the warning is raised.
Measured ==
    /\ job.at = "measure"
    /\ \/ Launch(tier)
       \/ /\ risk' = TRUE /\ status' = "needs-download" /\ job' = NoJob
          /\ UNCHANGED <<client, consentedKey>>
    /\ UNCHANGED <<tier, prepared, smaller, why, preparedKey, cpuModel>>

Over  == op.stage = "over"
Quiet == op' = Idle /\ UNCHANGED <<worker, link, serviceModel, dedicatedModel, requestedModel>>

Succeed ==
    /\ Over /\ job.at = "attempt" /\ op.end = "ok"
    /\ preparedKey' = tier /\ prepared' = TRUE
    /\ status' = "ready" /\ job' = NoJob
    /\ Quiet
    /\ UNCHANGED <<tier, offer, why, consentedKey, cpuModel>>

\* Mutant of Report: the marker of the weights that failed survives.
ReportKeeping(failure, next) ==
    /\ consentedKey' = None /\ UNCHANGED preparedKey
    /\ status' = "error" /\ smaller' = next /\ why' = failure
    /\ job' = IF failure = "storage" /\ next = None THEN [job EXCEPT !.at = "report"] ELSE NoJob
    /\ UNCHANGED <<tier, prepared, risk>>

\* reportFailure(): out of room with nothing to offer, it also asks whether the
\* storage is persistent before the preparation is over.
Report(failure, next) ==
    /\ consentedKey' = None
    /\ preparedKey' = IF failure = "transient" THEN preparedKey ELSE None
    /\ status' = "error" /\ smaller' = next /\ why' = failure
    /\ job' = IF failure = "storage" /\ next = None THEN [job EXCEPT !.at = "report"] ELSE NoJob
    /\ UNCHANGED <<tier, prepared, risk>>

Reported ==
    /\ job.at = "report" /\ job' = NoJob
    /\ UNCHANGED <<client, status, tier, prepared, offer, why, keys, cpuModel>>

\* The rung after a failure for want of capacity: taken, or offered once the
\* ladder was stepped down often enough.
StepOrReport(failure, next) ==
    IF next # None /\ job.step < MaxAutoSteps
    THEN /\ tier' = next /\ prepared' = (preparedKey = next)
         /\ consentedKey' = next
         /\ job' = [job EXCEPT !.at = "attempt", !.step = @ + 1]
         /\ Attempt(next)
         /\ UNCHANGED <<status, offer, why, preparedKey>>
    ELSE Report(failure, next) /\ Quiet

\* The attempt failed: a transient failure stops it, memory takes downgrade(),
\* storage asks first how much room is left.
Fail ==
    /\ Over /\ job.at = "attempt"
    /\ CASE op.end = "transient" -> Report("transient", None) /\ Quiet
         [] op.end = "memory"    -> StepOrReport("memory", Down[tier])
         [] op.end = "storage"   -> /\ job' = [job EXCEPT !.at = "rung"] /\ Quiet
                                    /\ UNCHANGED <<status, tier, prepared, offer, why, keys>>
         [] OTHER -> FALSE
    /\ UNCHANGED cpuModel

\* The largest rung that fits the room measured; downgrade() when unknown.
Rung ==
    /\ job.at = "rung"
    /\ \E next \in Below(tier) \cup {None} : StepOrReport("storage", next)
    /\ UNCHANGED cpuModel
-----------------------------------------------------------------------------
(* Answers, and the CPU engine. *)

\* generate() of the store.
Answer ==
    /\ status = "ready" /\ op.stage = "idle"
    /\ status' = "generating"
    /\ IF tier \in Cpu
       THEN /\ op' = [Idle EXCEPT !.kind = "own", !.stage = "canswer", !.model = cpuModel]
            /\ UNCHANGED <<worker, link, serviceModel, dedicatedModel, requestedModel>>
       ELSE Generate
    /\ UNCHANGED <<tier, prepared, offer, job, why, keys, cpuModel>>

AnswerOver ==
    /\ Over /\ status = "generating"
    /\ status' = "ready"
    /\ Quiet
    /\ UNCHANGED <<tier, prepared, offer, job, why, keys, cpuModel>>

\* stop()
Stop ==
    /\ status = "generating" /\ tier \notin Cpu
    /\ Abort
    /\ UNCHANGED store

\* The wllama worker: a load under a watchdog that discards it, an answer with
\* none.
CpuSettles(e) ==
    /\ op.stage \in {"cload", "canswer"}
    /\ op' = Ended(op, e)
    /\ cpuModel' = IF op.stage = "canswer" THEN cpuModel
                   ELSE IF e = "ok" THEN op.model ELSE None
    /\ UNCHANGED <<worker, link, serviceModel, dedicatedModel, requestedModel>>
    /\ UNCHANGED <<status, tier, prepared, offer, job, why, keys>>

CpuWatchdog == op.stage = "cload" /\ CpuSettles("transient")
-----------------------------------------------------------------------------
(* Leaving, and removing the weights. *)

NewPage ==
    /\ status' = "detecting" /\ tier' = None /\ prepared' = FALSE
    /\ smaller' = None /\ risk' = FALSE /\ job' = NoJob /\ why' = None /\ cpuModel' = None
    /\ pending' = Silent /\ instance' = "none" /\ beating' = FALSE
    /\ serviceModel' = None /\ dedicatedModel' = None /\ requestedModel' = None
    /\ op' = Idle
    /\ UNCHANGED worker

\* The page is reloaded; the service worker and the markers stay.
Reload == status # "detecting" /\ NewPage /\ UNCHANGED keys

\* remove() of the engine's caches in the settings.
RemoveWeights ==
    /\ status # "detecting"
    /\ preparedKey' = None /\ consentedKey' = None
    /\ IF status = "ready"
       THEN NewPage
       ELSE prepared' = FALSE /\ UNCHANGED <<client, status, tier, offer, job, why, cpuModel>>

\* Reactions to a settled promise come before any event.
Event == ~Over

Next ==
    \/ Succeed \/ Fail \/ AnswerOver
    \/ Event /\ ClientStep /\ UNCHANGED store
    \/ \E m \in Model : Event /\ Initialize(m)
    \/ \E force \in BOOLEAN : Event /\ Ask(force)
    \/ Event /\ Retry
    \/ Event /\ Persisted
    \/ Event /\ Measured
    \/ Event /\ Rung
    \/ Event /\ Reported
    \/ Event /\ Answer
    \/ Event /\ Stop
    \/ \E e \in End : Event /\ CpuSettles(e)
    \/ Event /\ CpuWatchdog
    \/ Event /\ Reload
    \/ Event /\ RemoveWeights

\* Timers fire, storage estimates answer and reactions run; the browser may keep
\* the person waiting at persist(), and nobody owes the page an answer.
Fairness ==
    /\ WF_vars(Wait /\ UNCHANGED store)
    /\ WF_vars(ProbeTimesOut /\ UNCHANGED store)
    /\ WF_vars(Watchdog /\ UNCHANGED store)
    /\ WF_vars(CpuWatchdog) /\ WF_vars(Rung)
    /\ WF_vars(Succeed \/ Fail \/ AnswerOver)

Spec == Init /\ [][Next]_vars /\ Fairness
-----------------------------------------------------------------------------
\* While the page says an engine is ready, the model it would answer with is the
\* one of the tier the person sees, in one engine, through restarts, fallbacks
\* and steps down.
ReadyIsServable ==
    status \in {"ready", "generating"} =>
        IF tier \in Cpu
        THEN cpuModel = tier
        ELSE /\ requestedModel = tier
             /\ {serviceModel, dedicatedModel} \subseteq {tier, None}
             /\ serviceModel = None \/ dedicatedModel = None
             /\ op.stage \notin {"idle", "over"} => op.model = tier

\* An answer that succeeds was written by the model of the tier.
AnsweredByTier ==
    status = "generating" /\ Over /\ op.end = "ok" => op.model = tier

\* "Consent names the operation currently in flight": whatever rung the next page
\* detects, it takes up the very download this one is at, unless the person has
\* removed the weights meanwhile.
InFlightIsResumed ==
    job.at \in {"attempt", "rung"} /\ consentedKey # None =>
        \A m \in Model : Restored(m).tier = tier /\ Restored(m).resume

\* "A deterministic final failure must not restart itself on every refresh".
FinalFailureRests ==
    status = "error" /\ why \in {"storage", "memory"} =>
        \A m \in Model : ~Restored(m).resume

\* Within a page the tier only ever changes to a smaller rung, and without the
\* person at most MaxAutoSteps times in one preparation.
LadderDescends ==
    [][tier # None /\ tier' # tier /\ tier' # None =>
         tier' > tier /\ (Retry \/ job.step' > job.step)]_vars

\* A preparation that loads ends in an engine or in words.
PreparationEnds == status = "busy" ~> status # "busy"

\* An answer of a GPU engine ends, whatever becomes of the service worker.
AnswerEnds ==
    (status = "generating" /\ tier \notin Cpu) ~> (status # "generating" \/ tier \in Cpu)

\* "A ping queued behind GPU work can time out even while that work reports
\* progress": it must leave the work alone.
PingsSpareWork == [][BeatTimesOut => op' = op]_vars
=============================================================================
