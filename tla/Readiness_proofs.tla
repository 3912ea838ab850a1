-------------------------- MODULE Readiness_proofs --------------------------
(***************************************************************************)
(* What the person may rely on for every ladder of models, whatever the    *)
(* browser does to the service worker: "ready" names an engine that has    *)
(* the model of the tier shown, an answer is by that model, a reload takes *)
(* up the download in flight and never one that failed for good, and the   *)
(* tier only goes down.                                                    *)
(*                                                                         *)
(* The store knows the engines by what its own operation in flight left in *)
(* the client, so the invariant follows that operation: it is about the    *)
(* tier, it has no dedicated engine while it works on the service worker,  *)
(* and it is there exactly when the store waits for it.                    *)
(***************************************************************************)
EXTENDS Readiness, TLAPS

ModelOrNone == Model \cup {None}
Waits == {"wait", "probe", "load"}

OpShape ==
    /\ DOMAIN op = {"kind", "stage", "model", "retried", "end"}
    /\ op.stage \in Stage
    /\ op.stage \in Waits => op.kind \in {"load", "recover", "resume"}

\* The engines of the client are those of t, one at a time, and so is its operation.
Serves(t) ==
    /\ requestedModel = t
    /\ serviceModel \in {t, None} /\ dedicatedModel \in {t, None}
    /\ serviceModel = None \/ dedicatedModel = None
    /\ op.stage # "idle" => op.model = t
    /\ op.stage \in Waits \cup {"answer"} => dedicatedModel = None

\* The wllama worker has t unless it is loading it.
CpuServes(t) ==
    /\ op.stage \in {"idle", "cload", "canswer", "over"}
    /\ op.stage # "idle" => op.model = t
    /\ op.stage = "cload" => job.at = "attempt"
    /\ op.stage = "canswer" => status = "generating"
    /\ status \in {"ready", "generating"} => cpuModel = t
    /\ job.at = "attempt" /\ op.stage = "over" /\ op.end = "ok" => cpuModel = t

StoreTypes ==
    /\ status \in {"detecting", "needs-download", "busy", "ready", "generating", "error"}
    /\ tier \in ModelOrNone /\ smaller \in ModelOrNone
    /\ preparedKey \in ModelOrNone /\ consentedKey \in ModelOrNone
    /\ DOMAIN job = {"at", "force", "step"} /\ job.step \in Nat
    /\ job.at \in {"none", "persist", "measure", "attempt", "rung", "report"}

\* What the store awaits in each of its states.
Awaits ==
    /\ status = "detecting" => tier = None
    /\ status # "detecting" => tier \in Model
    /\ status \in {"detecting", "ready", "generating"} => job.at = "none"
    /\ status = "error" => job.at \in {"none", "report"}
    /\ status = "busy" <=> job.at \in {"attempt", "rung"}
    /\ op.stage = "idle" <=> ~(job.at = "attempt" \/ status = "generating")

EngineFits ==
    job.at = "attempt" \/ status \in {"ready", "generating"} =>
        IF tier \in Cpu THEN CpuServes(tier) ELSE Serves(tier)

MarkersFit ==
    /\ job.at \in {"attempt", "rung"} => consentedKey \in {tier, None}
    /\ status = "error" /\ why \in {"storage", "memory"} =>
         preparedKey = None /\ consentedKey = None

OfferFits == smaller # None => status = "error" /\ smaller \in Below(tier)

IInv == OpShape /\ StoreTypes /\ Awaits /\ EngineFits /\ MarkersFit /\ OfferFits
-----------------------------------------------------------------------------
LEMMA NoneIsNoModel == None \notin Model /\ Model \subseteq Nat
BY ClientAssumption

LEMMA InitIInv == Init => IInv
<1> SUFFICES ASSUME Init PROVE IInv
    OBVIOUS
<1>1. OpShape /\ op.stage = "idle"
    BY DEF Init, ClientInit, Idle, OpShape, Waits, Stage
<1>2. StoreTypes
    BY DEF Init, NoJob, StoreTypes, ModelOrNone
<1>3. Awaits /\ EngineFits /\ MarkersFit /\ OfferFits
    BY <1>1 DEF Init, NoJob, Awaits, EngineFits, MarkersFit, OfferFits
<1> QED
    BY <1>1, <1>2, <1>3 DEF IInv

(* How an operation goes on: it ends, or is tried again as another kind of    *)
(* the same operation, and a retry comes only of work of the service worker.  *)
Onwards(o, next) ==
    /\ DOMAIN next = {"kind", "stage", "model", "retried", "end"}
    /\ next.model = o.model
    /\ next.stage \in {"over", "wait", "dload"}
    /\ next.stage = "wait" =>
         o.stage \in Waits \cup {"answer"} /\ next.kind \in {"load", "recover", "resume"}

LEMMA EndsOnwards ==
    ASSUME OpShape, NEW end
    PROVE  Onwards(op, Ended(op, end))
BY DEF Ended, OpShape, Onwards

LEMMA FailsOnwards ==
    ASSUME OpShape, op.stage \in Waits \cup {"answer", "dload", "danswer"}, NEW e
    PROVE  Onwards(op, Failed(op, e))
<1> DEFINE again == [op EXCEPT !.stage = "wait", !.retried = TRUE]
           own   == [op EXCEPT !.stage = "dload"]
           repair == [op EXCEPT !.kind = "recover", !.stage = "wait"]
<1>1. \/ Failed(op, e) = Ended(op, Classified(e))
      \/ Failed(op, e) = again /\ op.stage \in Waits \cup {"answer"} /\ op.kind = "load"
      \/ Failed(op, e) = own
      \/ Failed(op, e) = repair /\ op.stage \in Waits \cup {"answer"}
    <2>1. CASE op.stage \in {"dload", "danswer"}
        BY <2>1, Zenon DEF Failed
    <2>2. CASE op.stage \in Waits \cup {"answer"}
        <3>1. op.stage \notin {"dload", "danswer"}
            BY <2>2 DEF Waits
        <3> QED
            BY <2>2, <3>1, Zenon DEF Failed
    <2> QED
        BY <2>1, <2>2
<1>2. op.stage \in Waits \cup {"answer"} /\ op.kind = "load" => Onwards(op, again)
    BY DEF OpShape, Onwards
<1>3. Onwards(op, own)
    BY DEF OpShape, Onwards
<1>4. op.stage \in Waits \cup {"answer"} => Onwards(op, repair)
    BY DEF OpShape, Onwards
<1> QED
    BY <1>1, <1>2, <1>3, <1>4, EndsOnwards

(* What a step of the client keeps, whatever tier the store is on.            *)
ClientKeeps ==
    /\ OpShape'
    /\ op'.stage = "idle" <=> op.stage = "idle"
    /\ op.stage \in {"idle", "cload", "canswer"} => op' = op
    /\ \A t : Serves(t) => Serves(t)'

\* A step that moves the operation in flight on, and may let an engine go.
LEMMA Onward ==
    ASSUME OpShape, op.stage \notin {"idle", "over", "cload", "canswer"}, Onwards(op, op'),
           requestedModel' = requestedModel,
           serviceModel' \in {serviceModel, None}, dedicatedModel' \in {dedicatedModel, None}
    PROVE  ClientKeeps
BY DEF ClientKeeps, OpShape, Serves, Onwards, Waits, Stage

\* A step of which the operation in flight hears nothing.
LEMMA Aside ==
    ASSUME OpShape, op' = op, requestedModel' = requestedModel,
           serviceModel' \in {serviceModel, None}, dedicatedModel' \in {dedicatedModel, None}
    PROVE  ClientKeeps
BY DEF ClientKeeps, OpShape, Serves

LEMMA OrphansKeep ==
    ASSUME OpShape, op' = Orphaned, requestedModel' = requestedModel,
           serviceModel' \in {serviceModel, None}, dedicatedModel' \in {dedicatedModel, None}
    PROVE  ClientKeeps
<1>1. CASE op' = op
    BY <1>1, Aside
<1>2. CASE op.stage \in {"probe", "load", "answer"} /\ op' = Failed(op, "restarted")
    <2>1. Onwards(op, op')
        BY <1>2, FailsOnwards DEF Waits
    <2> QED
        BY <1>2, <2>1, Onward
<1> QED
    BY <1>1, <1>2 DEF Orphaned, Request, OpShape, Stage

LEMMA ClientStepKeeps ==
    ASSUME OpShape, ClientStep, op.stage # "over"
    PROVE  ClientKeeps
<1> USE DEF worker, link
<1>1. CASE Wait
    <2>1. CASE controlled
        <3>1. op' = [op EXCEPT !.stage = "probe"]
            BY <1>1, <2>1 DEF Wait
        <3> QED
            BY <1>1, <3>1 DEF Wait, ClientKeeps, OpShape, Serves, Waits, Stage
    <2>2. CASE ~controlled
        <3>1. Onwards(op, op')
            BY <1>1, <2>2, EndsOnwards DEF Wait, OpShape, Onwards
        <3> QED
            BY <1>1, <3>1, Onward DEF Wait
    <2> QED
        BY <2>1, <2>2
<1>2. CASE Probed
    <2>1. op' = [op EXCEPT !.stage = "load"] /\ op.stage = "probe" /\ requestedModel' = requestedModel
          /\ serviceModel' \in {serviceModel, None} /\ dedicatedModel' = dedicatedModel
        BY <1>2 DEF Probed, Observe
    <2> QED
        BY <2>1 DEF ClientKeeps, OpShape, Serves, Waits, Stage
<1>3. CASE ProbeTimesOut
    <2>1. Onwards(op, op')
        BY <1>3, FailsOnwards DEF ProbeTimesOut, Waits
    <2> QED
        BY <1>3, <2>1, Onward DEF ProbeTimesOut
<1>4. CASE Loaded
    <2>1. op.stage = "load" /\ op.kind \in {"load", "recover", "resume"} /\ serviceModel' = op.model
          /\ UNCHANGED <<dedicatedModel, requestedModel>>
        BY <1>4 DEF Loaded, OpShape, Waits
    <2>2. DOMAIN op' = DOMAIN op /\ op'.model = op.model /\ op'.stage \in {"over", "answer"}
        BY <1>4, <2>1 DEF Loaded, OpShape, Ended
    <2> QED
        BY <2>1, <2>2 DEF ClientKeeps, OpShape, Serves, Waits, Stage
<1>5. ASSUME NEW e \in {"storage", "memory", "other"}, LoadFails(e) \/ OwnFails(e)
      PROVE  ClientKeeps
    <2>1. Onwards(op, op')
        BY <1>5, FailsOnwards DEF LoadFails, OwnFails, Waits
    <2> QED
        BY <1>5, <2>1, Onward DEF LoadFails, OwnFails
<1>6. CASE Answered
    <2>1. Onwards(op, op')
        BY <1>6, FailsOnwards, EndsOnwards DEF Answered
    <2> QED
        BY <1>6, <2>1, Onward DEF Answered
<1>7. CASE OwnLoaded
    <2>1. op.stage = "dload" /\ dedicatedModel' = op.model /\ serviceModel' = None
          /\ requestedModel' = requestedModel
        BY <1>7 DEF OwnLoaded
    <2>2. DOMAIN op' = DOMAIN op /\ op'.model = op.model /\ op'.stage \in {"over", "danswer"}
        BY <1>7 DEF OwnLoaded, OpShape, Ended
    <2> QED
        BY <2>1, <2>2 DEF ClientKeeps, OpShape, Serves, Waits, Stage
<1>8. CASE OwnAnswered
    <2>1. Onwards(op, op')
        BY <1>8, EndsOnwards DEF OwnAnswered
    <2> QED
        BY <1>8, <2>1, Onward DEF OwnAnswered
<1>9. CASE Watchdog
    <2>1. Onwards(op, op')
        BY <1>9, FailsOnwards DEF Watchdog, Waits
    <2> QED
        BY <1>9, <2>1, Onward DEF Watchdog, Invalidate
<1>10. CASE Beat \/ AbortAnswers \/ Stopped \/ \E m \in ModelOrNone : Elsewhere(m)
    BY <1>10, Aside DEF Beat, AbortAnswers, Stopped, Elsewhere
<1>11. CASE BeatAnswers
    BY <1>11, Aside, OrphansKeep DEF BeatAnswers, Observe
<1>12. CASE BeatTimesOut
    BY <1>12, OrphansKeep DEF BeatTimesOut, Invalidate
<1>13. CASE ControllerChange
    BY <1>13, OrphansKeep DEF ControllerChange, Invalidate
<1> QED
    BY <1>1, <1>2, <1>3, <1>4, <1>5, <1>6, <1>7, <1>8, <1>9, <1>10, <1>11, <1>12, <1>13
    DEF ClientStep, ModelOrNone
-----------------------------------------------------------------------------
(* The store.                                                                 *)
LEMMA IdleShape == op' = Idle => OpShape' /\ op'.stage = "idle"
BY DEF Idle, OpShape, Waits, Stage

LEMMA AttemptFits ==
    ASSUME NEW t \in Model, Attempt(t)
    PROVE  /\ OpShape' /\ op'.stage \in {"cload", "wait"}
           /\ t \in Cpu => op'.stage = "cload" /\ op'.model = t
           /\ t \notin Cpu => Serves(t)'
<1>1. CASE t \in Cpu
    <2>1. op' = [Idle EXCEPT !.kind = "own", !.stage = "cload", !.model = t]
        BY <1>1 DEF Attempt
    <2> QED
        BY <1>1, <2>1 DEF Idle, OpShape, Waits, Stage
<1>2. CASE t \notin Cpu
    <2>1. /\ op' = [Idle EXCEPT !.stage = "wait", !.model = t]
          /\ requestedModel' = t /\ serviceModel' = None /\ dedicatedModel' = None
        BY <1>2 DEF Attempt, Load
    <2>2. DOMAIN op' = DOMAIN Idle /\ op'.stage = "wait" /\ op'.model = t /\ op'.kind = "load"
        BY <2>1 DEF Idle
    <2> QED
        BY <1>2, <2>1, <2>2 DEF Idle, OpShape, Serves, Waits, Stage
<1> QED
    BY <1>1, <1>2

\* An attempt at the model of the tier that is now shown.
LEMMA AttemptKeeps ==
    ASSUME IInv, NEW t \in Model, Attempt(t), tier' = t, smaller' = None,
           status' = "busy", DOMAIN job' = DOMAIN job, job'.at = "attempt", job'.step \in Nat,
           preparedKey' = preparedKey, consentedKey' = t
    PROVE  IInv'
<1> USE DEF IInv
<1>1. OpShape' /\ op'.stage \in {"cload", "wait"}
    BY AttemptFits
<1>2. StoreTypes'
    BY DEF StoreTypes, ModelOrNone
<1>3. Awaits'
    BY <1>1 DEF Awaits, StoreTypes
<1>4. EngineFits'
    BY AttemptFits DEF EngineFits, CpuServes
<1>5. MarkersFit' /\ OfferFits'
    BY DEF MarkersFit, OfferFits
<1> QED
    BY <1>1, <1>2, <1>3, <1>4, <1>5

LEMMA LaunchKeeps ==
    ASSUME IInv, NEW t \in Model, Launch(t), tier' = t, smaller' = None, preparedKey' = preparedKey
    PROVE  IInv'
<1>1. /\ status' = "busy" /\ consentedKey' = t /\ Attempt(t)
      /\ job' = [at |-> "attempt", force |-> job.force, step |-> 0]
    BY DEF Launch
<1>2. DOMAIN job' = DOMAIN job /\ job'.at = "attempt" /\ job'.step \in Nat
    BY <1>1 DEF IInv, StoreTypes
<1> QED
    BY <1>1, <1>2, AttemptKeeps

LEMMA PrepareKeeps ==
    ASSUME IInv, status \in {"detecting", "error", "needs-download"}, NEW t \in Model,
           NEW isPrepared, NEW force, Prepare(t, isPrepared, force),
           tier' = t, smaller' = None, preparedKey' = preparedKey
    PROVE  IInv'
<1> USE DEF IInv
<1>1. CASE job.at = "none" /\ isPrepared
    BY <1>1, LaunchKeeps DEF Prepare
<1>2. CASE ~(job.at = "none" /\ isPrepared)
    <2>1. /\ job' = IF job.at = "none" THEN [at |-> "persist", force |-> force, step |-> 0] ELSE job
          /\ status' = "needs-download" /\ UNCHANGED <<op, consentedKey>>
        BY <1>2 DEF Prepare, client
    <2>2. DOMAIN job' = DOMAIN job /\ job'.step \in Nat /\ job'.at \in {"persist", "measure", "report"}
        BY <1>2, <2>1 DEF StoreTypes, Awaits
    <2>3. OpShape'
        BY <2>1 DEF OpShape
    <2>4. StoreTypes' /\ Awaits'
        BY <2>1, <2>2 DEF StoreTypes, Awaits, ModelOrNone
    <2>5. EngineFits' /\ MarkersFit' /\ OfferFits'
        BY <2>1, <2>2 DEF EngineFits, MarkersFit, OfferFits
    <2> QED
        BY <2>3, <2>4, <2>5
<1> QED
    BY <1>1, <1>2

LEMMA PreparingKeeps ==
    ASSUME IInv, \/ \E m \in Model : Initialize(m)
                 \/ \E force \in BOOLEAN : Ask(force)
                 \/ Retry \/ Persisted \/ Measured
    PROVE  IInv'
<1> USE DEF IInv
<1>1. ASSUME NEW m \in Model, Initialize(m) PROVE IInv'
    <2> DEFINE r == Restored(m)
    <2>1. /\ r.tier \in Model
        BY DEF Restored, StoreTypes, ModelOrNone
    <2>2. status = "detecting" /\ tier' = r.tier /\ smaller' = None /\ preparedKey' = preparedKey
        BY <1>1 DEF Initialize, OfferFits
    <2>3. CASE Restored(m).resume
        <3>1. Prepare(r.tier, r.prepared, ~r.prepared)
            BY <1>1, <2>3 DEF Initialize
        <3> HIDE DEF r
        <3> QED
            BY <2>1, <2>2, <3>1, PrepareKeeps
    <2>4. CASE ~Restored(m).resume
        <3>1. status' = "needs-download" /\ UNCHANGED <<op, job, consentedKey>>
            BY <1>1, <2>4 DEF Initialize, client
        <3> HIDE DEF r
        <3>2. OpShape' /\ StoreTypes'
            BY <2>1, <2>2, <3>1 DEF OpShape, StoreTypes, ModelOrNone
        <3>3. Awaits' /\ EngineFits' /\ MarkersFit' /\ OfferFits'
            BY <2>1, <2>2, <3>1 DEF Awaits, EngineFits, MarkersFit, OfferFits
        <3> QED
            BY <3>2, <3>3
    <2> QED
        BY <2>3, <2>4
<1>2. ASSUME NEW force \in BOOLEAN, Ask(force) PROVE IInv'
    BY <1>2, PrepareKeeps DEF Ask, Awaits, OfferFits
<1>3. CASE Retry
    <2> DEFINE t == IF smaller = None THEN tier ELSE smaller
    <2>1. t \in Model /\ status = "error"
        BY <1>3 DEF Retry, StoreTypes, Awaits, ModelOrNone
    <2>2. tier' = t /\ smaller' = None /\ preparedKey' = preparedKey /\ Prepare(t, prepared', TRUE)
        BY <1>3 DEF Retry
    <2> HIDE DEF t
    <2> QED
        BY <2>1, <2>2, PrepareKeeps
<1>4. CASE Persisted
    <2>1. status = "needs-download" /\ tier \in Model /\ smaller' = None
          /\ UNCHANGED <<tier, preparedKey>>
        BY <1>4 DEF Persisted, StoreTypes, Awaits, OfferFits
    <2>2. CASE prepared \/ job.force
        BY <1>4, <2>1, <2>2, LaunchKeeps DEF Persisted
    <2>3. CASE ~(prepared \/ job.force)
        <3>1. job' = [job EXCEPT !.at = "measure"] /\ UNCHANGED <<op, status, consentedKey>>
            BY <1>4, <2>3 DEF Persisted, client
        <3>2. DOMAIN job' = DOMAIN job /\ job'.step \in Nat /\ job'.at = "measure"
            BY <3>1 DEF StoreTypes
        <3>3. OpShape' /\ StoreTypes'
            BY <2>1, <3>1, <3>2 DEF OpShape, StoreTypes, ModelOrNone
        <3>4. Awaits' /\ EngineFits' /\ MarkersFit' /\ OfferFits'
            BY <1>4, <2>1, <3>1, <3>2 DEF Persisted, Awaits, EngineFits, MarkersFit, OfferFits
        <3> QED
            BY <3>3, <3>4
    <2> QED
        BY <2>2, <2>3
<1>5. CASE Measured
    <2>1. status = "needs-download" /\ tier \in Model /\ smaller' = None
          /\ UNCHANGED <<tier, preparedKey>>
        BY <1>5 DEF Measured, StoreTypes, Awaits, OfferFits
    <2>2. CASE Launch(tier)
        BY <2>1, <2>2, LaunchKeeps
    <2>3. CASE status' = "needs-download" /\ job' = NoJob /\ UNCHANGED <<client, consentedKey>>
        <3>1. DOMAIN job' = DOMAIN job /\ job'.step \in Nat /\ job'.at = "none"
            BY <2>3 DEF NoJob, StoreTypes
        <3>2. OpShape' /\ StoreTypes'
            BY <2>1, <2>3, <3>1 DEF client, OpShape, StoreTypes, ModelOrNone
        <3>3. Awaits' /\ EngineFits' /\ MarkersFit' /\ OfferFits'
            BY <1>5, <2>1, <2>3, <3>1 DEF Measured, client, Awaits, EngineFits, MarkersFit, OfferFits
        <3> QED
            BY <3>2, <3>3
    <2> QED
        BY <1>5, <2>2, <2>3 DEF Measured
<1> QED
    BY <1>1, <1>2, <1>3, <1>4, <1>5

LEMMA ReportKeeps ==
    ASSUME IInv, job.at \in {"attempt", "rung"}, NEW failure, NEW next \in Below(tier) \cup {None},
           Report(failure, next), Quiet
    PROVE  IInv'
<1> USE DEF IInv
<1>1. /\ status' = "error" /\ why' = failure /\ smaller' = next /\ tier' = tier /\ tier \in Model
      /\ consentedKey' = None /\ preparedKey' = IF failure = "transient" THEN preparedKey ELSE None
    BY DEF Report, Awaits
<1>2. DOMAIN job' = DOMAIN job /\ job'.step \in Nat /\ job'.at \in {"none", "report"}
    BY DEF Report, NoJob, StoreTypes
<1>3. OpShape' /\ op'.stage = "idle"
    BY IdleShape DEF Quiet
<1>4. StoreTypes'
    BY <1>1, <1>2 DEF StoreTypes, ModelOrNone, Below
<1>5. Awaits' /\ EngineFits'
    BY <1>1, <1>2, <1>3 DEF Awaits, EngineFits
<1>6. MarkersFit' /\ OfferFits'
    BY <1>1, <1>2 DEF MarkersFit, OfferFits, Below
<1> QED
    BY <1>3, <1>4, <1>5, <1>6

LEMMA StepKeeps ==
    ASSUME IInv, job.at \in {"attempt", "rung"}, NEW failure, NEW next \in Below(tier) \cup {None},
           StepOrReport(failure, next)
    PROVE  IInv'
<1>1. CASE next # None /\ job.step < MaxAutoSteps
    <2>1. /\ tier' = next /\ consentedKey' = next /\ preparedKey' = preparedKey
          /\ job' = [job EXCEPT !.at = "attempt", !.step = @ + 1] /\ Attempt(next)
          /\ UNCHANGED <<status, smaller>>
        BY <1>1 DEF StepOrReport, offer
    <2>2. next \in Model
        BY <1>1 DEF Below
    <2>3. status = "busy" /\ smaller = None
        BY DEF IInv, Awaits, OfferFits
    <2>4. DOMAIN job' = DOMAIN job /\ job'.at = "attempt" /\ job'.step \in Nat
        BY <2>1 DEF IInv, StoreTypes
    <2> QED
        BY <2>1, <2>2, <2>3, <2>4, AttemptKeeps
<1>2. CASE ~(next # None /\ job.step < MaxAutoSteps)
    <2>1. Report(failure, next) /\ Quiet
        BY <1>2 DEF StepOrReport
    <2> QED
        BY <2>1, ReportKeeps
<1> QED
    BY <1>1, <1>2

LEMMA PreparedKeeps ==
    ASSUME IInv, Succeed \/ Fail \/ Rung \/ Reported
    PROVE  IInv'
<1> USE DEF IInv
<1>1. CASE Succeed
    <2>1. /\ job.at = "attempt" /\ op.stage = "over" /\ op.end = "ok" /\ tier \in Model /\ smaller = None
          /\ preparedKey' = tier /\ status' = "ready" /\ job' = NoJob /\ op' = Idle
          /\ UNCHANGED <<tier, smaller, why, consentedKey, cpuModel,
                         serviceModel, dedicatedModel, requestedModel>>
        BY <1>1 DEF Succeed, Over, Quiet, offer, Awaits, OfferFits
    <2>2. DOMAIN job' = DOMAIN job /\ job'.step \in Nat /\ job'.at = "none"
        BY <2>1 DEF NoJob, StoreTypes
    <2>3. OpShape' /\ op'.stage = "idle"
        BY <2>1, IdleShape
    <2>4. StoreTypes' /\ Awaits' /\ MarkersFit' /\ OfferFits'
        BY <2>1, <2>2, <2>3 DEF StoreTypes, ModelOrNone, Awaits, MarkersFit, OfferFits
    <2>5. tier \in Cpu => CpuServes(tier)'
        BY <2>1, <2>3 DEF EngineFits, CpuServes
    <2>6. tier \notin Cpu => Serves(tier)'
        BY <2>1, <2>3 DEF EngineFits, Serves, Waits
    <2> QED
        BY <2>1, <2>3, <2>4, <2>5, <2>6 DEF EngineFits
<1>2. CASE Fail
    <2>0. job.at = "attempt" /\ tier \in Model
        BY <1>2 DEF Fail, Awaits
    <2>1. CASE op.end = "transient"
        BY <1>2, <2>0, <2>1, ReportKeeps DEF Fail
    <2>2. CASE op.end = "memory"
        <3>1. Down[tier] \in Below(tier) \cup {None} /\ StepOrReport("memory", Down[tier])
            BY <1>2, <2>0, <2>2, LadderAssumption DEF Fail
        <3> QED
            BY <2>0, <3>1, StepKeeps
    <2>3. CASE op.end = "storage"
        <3>1. /\ job' = [job EXCEPT !.at = "rung"] /\ op' = Idle
              /\ UNCHANGED <<status, tier, smaller, why, preparedKey, consentedKey>>
            BY <1>2, <2>3 DEF Fail, Quiet, offer, keys
        <3>2. DOMAIN job' = DOMAIN job /\ job'.step \in Nat /\ job'.at = "rung"
            BY <3>1 DEF StoreTypes
        <3>3. OpShape' /\ op'.stage = "idle"
            BY <3>1, IdleShape
        <3>4. StoreTypes' /\ Awaits'
            BY <2>0, <3>1, <3>2, <3>3 DEF StoreTypes, Awaits, ModelOrNone
        <3>5. EngineFits' /\ MarkersFit' /\ OfferFits'
            BY <2>0, <3>1, <3>2, <3>4 DEF Awaits, EngineFits, MarkersFit, OfferFits
        <3> QED
            BY <3>3, <3>4, <3>5
    <2> QED
        BY <1>2, <2>1, <2>2, <2>3 DEF Fail
<1>3. CASE Rung
    BY <1>3, StepKeeps DEF Rung
<1>4. CASE Reported
    <2>1. /\ job.at = "report" /\ job' = NoJob
          /\ UNCHANGED <<op, status, tier, smaller, why, preparedKey, consentedKey>>
        BY <1>4 DEF Reported, client, offer, keys
    <2>2. DOMAIN job' = DOMAIN job /\ job'.step \in Nat /\ job'.at = "none"
        BY <2>1 DEF NoJob, StoreTypes
    <2>3. OpShape' /\ StoreTypes'
        BY <2>1, <2>2 DEF OpShape, StoreTypes, ModelOrNone
    <2>4. Awaits' /\ EngineFits' /\ MarkersFit' /\ OfferFits'
        BY <2>1, <2>2 DEF Awaits, EngineFits, MarkersFit, OfferFits
    <2> QED
        BY <2>3, <2>4
<1> QED
    BY <1>1, <1>2, <1>3, <1>4

\* A step that leaves the store's own state alone but for its answering.
LEMMA StatusKeeps ==
    ASSUME IInv, OpShape', Awaits', EngineFits',
           status' = status \/ (status \in {"ready", "generating"} /\ status' \in {"ready", "generating"}),
           UNCHANGED <<tier, offer, job, why, keys>>
    PROVE  IInv'
<1>1. StoreTypes'
    BY DEF IInv, StoreTypes, offer, keys, ModelOrNone
<1>2. MarkersFit' /\ OfferFits'
    BY DEF IInv, MarkersFit, OfferFits, offer, keys, Below
<1> QED
    BY <1>1, <1>2 DEF IInv

LEMMA AnsweringKeeps ==
    ASSUME IInv, Answer \/ AnswerOver \/ Stop \/ \E e \in End : CpuSettles(e)
    PROVE  IInv'
<1> USE DEF IInv
<1>1. CASE Answer
    <2>1. /\ status = "ready" /\ status' = "generating" /\ op.stage = "idle" /\ job.at = "none"
          /\ UNCHANGED <<tier, offer, job, why, keys, cpuModel>>
        BY <1>1 DEF Answer, Awaits
    <2>2. CASE tier \in Cpu
        <3>1. op' = [Idle EXCEPT !.kind = "own", !.stage = "canswer", !.model = cpuModel]
            BY <1>1, <2>2 DEF Answer
        <3>2. OpShape' /\ op'.stage = "canswer" /\ op'.model = tier
            BY <2>1, <2>2, <3>1 DEF Idle, OpShape, Waits, Stage, EngineFits, CpuServes
        <3>3. Awaits' /\ EngineFits'
            BY <2>1, <2>2, <3>2 DEF Awaits, EngineFits, CpuServes
        <3> QED
            BY <2>1, <3>2, <3>3, StatusKeeps
    <2>3. CASE tier \notin Cpu
        <3>1. Serves(tier) /\ Generate /\ UNCHANGED <<serviceModel, dedicatedModel, requestedModel>>
            BY <1>1, <2>1, <2>3 DEF Answer, Generate, EngineFits
        <3>2. \/ /\ serviceModel # None
                 /\ op' = [Idle EXCEPT !.kind = "first", !.stage = "answer", !.model = serviceModel]
              \/ /\ serviceModel = None /\ dedicatedModel # None
                 /\ op' = [Idle EXCEPT !.kind = "own", !.stage = "danswer", !.model = dedicatedModel]
              \/ /\ serviceModel = None /\ dedicatedModel = None
                 /\ op' = [Idle EXCEPT !.kind = "resume", !.stage = "wait", !.model = requestedModel]
            BY <3>1 DEF Generate
        <3>3. /\ OpShape' /\ op'.model = tier /\ op'.stage \in {"answer", "danswer", "wait"}
              /\ op'.stage \in {"answer", "wait"} => dedicatedModel = None
            BY <3>1, <3>2 DEF Idle, OpShape, Waits, Stage, Serves
        <3>4. Serves(tier)'
            BY <2>1, <3>1, <3>3 DEF Serves, Waits
        <3>5. Awaits' /\ EngineFits'
            BY <2>1, <2>3, <3>3, <3>4 DEF Awaits, EngineFits
        <3> QED
            BY <2>1, <3>3, <3>5, StatusKeeps
    <2> QED
        BY <2>2, <2>3
<1>2. CASE AnswerOver
    <2>1. /\ status = "generating" /\ status' = "ready" /\ op' = Idle /\ job.at = "none"
          /\ UNCHANGED <<tier, offer, job, why, keys, cpuModel,
                         serviceModel, dedicatedModel, requestedModel>>
        BY <1>2 DEF AnswerOver, Quiet, Awaits
    <2>2. OpShape' /\ op'.stage = "idle"
        BY <2>1, IdleShape
    <2>3. tier \in Cpu => CpuServes(tier)'
        BY <2>1, <2>2 DEF EngineFits, CpuServes
    <2>4. tier \notin Cpu => Serves(tier)'
        BY <2>1, <2>2 DEF EngineFits, Serves, Waits
    <2>5. Awaits' /\ EngineFits'
        BY <2>1, <2>2, <2>3, <2>4 DEF Awaits, EngineFits
    <2> QED
        BY <2>1, <2>2, <2>5, StatusKeeps
<1>3. CASE Stop
    <2>1. UNCHANGED <<op, serviceModel, dedicatedModel, requestedModel>> /\ UNCHANGED store
        BY <1>3 DEF Stop, Abort
    <2>2. OpShape' /\ Awaits' /\ EngineFits'
        BY <2>1 DEF store, OpShape, Awaits, EngineFits, Serves, CpuServes
    <2> QED
        BY <2>1, <2>2, StatusKeeps DEF store
<1>4. ASSUME NEW e \in End, CpuSettles(e) PROVE IInv'
    <2>1. /\ op.stage \in {"cload", "canswer"} /\ op' = Ended(op, e)
          /\ cpuModel' = IF op.stage = "canswer" THEN cpuModel
                         ELSE IF e = "ok" THEN op.model ELSE None
          /\ UNCHANGED <<serviceModel, dedicatedModel, requestedModel>>
          /\ UNCHANGED <<status, tier, offer, job, why, keys>>
        BY <1>4 DEF CpuSettles
    <2>2. OpShape' /\ op'.stage = "over" /\ op'.model = op.model /\ op'.end = e
        BY <2>1 DEF Ended, OpShape, Waits, Stage
    <2>3. job.at = "attempt" \/ status = "generating"
        BY <2>1 DEF Awaits
    <2>4. tier \in Cpu => CpuServes(tier)'
        BY <2>1, <2>2, <2>3 DEF EngineFits, CpuServes, Awaits
    <2>5. tier \notin Cpu => Serves(tier)'
        BY <2>1, <2>2, <2>3 DEF EngineFits, Serves, Waits
    <2>6. Awaits' /\ EngineFits'
        BY <2>1, <2>2, <2>4, <2>5 DEF Awaits, EngineFits
    <2> QED
        BY <2>1, <2>2, <2>6, StatusKeeps
<1> QED
    BY <1>1, <1>2, <1>3, <1>4

LEMMA ClientStepFits ==
    ASSUME IInv, ClientStep, Event, UNCHANGED store
    PROVE  IInv'
<1> USE DEF IInv
<1>1. ClientKeeps
    BY ClientStepKeeps DEF Event, Over
<1>2. OpShape' /\ Awaits'
    BY <1>1 DEF ClientKeeps, Awaits, store
<1>3. ASSUME job.at = "attempt" \/ status \in {"ready", "generating"}, tier \in Cpu
      PROVE  CpuServes(tier)'
    <2>1. CpuServes(tier) /\ op' = op
        BY <1>1, <1>3 DEF EngineFits, CpuServes, ClientKeeps, Event, Over
    <2> QED
        BY <2>1 DEF CpuServes, store
<1>4. ASSUME job.at = "attempt" \/ status \in {"ready", "generating"}, tier \notin Cpu
      PROVE  Serves(tier)'
    <2>1. Serves(tier) /\ tier' = tier /\ \A t : Serves(t) => Serves(t)'
        BY <1>1, <1>4 DEF EngineFits, ClientKeeps, store
    <2> QED
        BY <2>1 DEF Serves
<1>5. EngineFits'
    BY <1>3, <1>4 DEF EngineFits, store
<1> QED
    BY <1>2, <1>5, StatusKeeps DEF store

LEMMA LeavingKeeps ==
    ASSUME IInv, Reload \/ RemoveWeights
    PROVE  IInv'
<1> USE DEF IInv
<1>1. CASE NewPage /\ preparedKey' \in ModelOrNone /\ consentedKey' \in ModelOrNone
    <2>1. /\ status' = "detecting" /\ tier' = None /\ smaller' = None /\ job' = NoJob /\ why' = None
          /\ op' = Idle
        BY <1>1 DEF NewPage
    <2>2. DOMAIN job' = DOMAIN job /\ job'.step \in Nat /\ job'.at = "none"
        BY <2>1 DEF NoJob, StoreTypes
    <2>3. OpShape' /\ op'.stage = "idle"
        BY <2>1, IdleShape
    <2>4. StoreTypes' /\ Awaits'
        BY <1>1, <2>1, <2>2, <2>3 DEF StoreTypes, Awaits, ModelOrNone
    <2>5. EngineFits' /\ MarkersFit' /\ OfferFits'
        BY <2>1, <2>2 DEF EngineFits, MarkersFit, OfferFits
    <2> QED
        BY <2>3, <2>4, <2>5
<1>2. CASE Reload
    BY <1>1, <1>2 DEF Reload, keys, StoreTypes
<1>3. CASE RemoveWeights
    <2>1. CASE status = "ready"
        BY <1>1, <1>3, <2>1 DEF RemoveWeights, ModelOrNone
    <2>2. CASE status # "ready"
        <3>1. /\ preparedKey' = None /\ consentedKey' = None
              /\ UNCHANGED <<op, serviceModel, dedicatedModel, requestedModel>>
              /\ UNCHANGED <<status, tier, smaller, job, why, cpuModel>>
            BY <1>3, <2>2 DEF RemoveWeights, client, offer
        <3>2. OpShape' /\ StoreTypes'
            BY <3>1 DEF OpShape, StoreTypes, ModelOrNone
        <3>3. Awaits' /\ EngineFits'
            BY <3>1 DEF Awaits, EngineFits, Serves, CpuServes
        <3>4. MarkersFit' /\ OfferFits'
            BY <3>1 DEF MarkersFit, OfferFits, Below
        <3> QED
            BY <3>2, <3>3, <3>4
    <2> QED
        BY <2>1, <2>2
<1> QED
    BY <1>2, <1>3

LEMMA NextIInv == IInv /\ [Next]_vars => IInv'
<1> SUFFICES ASSUME IInv, [Next]_vars PROVE IInv'
    OBVIOUS
<1>1. CASE UNCHANGED vars
    <2>1. OpShape' /\ Awaits' /\ EngineFits'
        BY <1>1 DEF vars, client, store, IInv, OpShape, Awaits, EngineFits, Serves, CpuServes
    <2> QED
        BY <1>1, <2>1, StatusKeeps DEF vars, store
<1>2. CASE Succeed \/ Fail \/ Rung \/ Reported
    BY <1>2, PreparedKeeps
<1>3. CASE \/ \E m \in Model : Initialize(m)
           \/ \E force \in BOOLEAN : Ask(force)
           \/ Retry \/ Persisted \/ Measured
    BY <1>3, PreparingKeeps
<1>4. CASE Answer \/ AnswerOver \/ Stop \/ \E e \in End : CpuSettles(e)
    BY <1>4, AnsweringKeeps
<1>5. CASE CpuWatchdog
    BY <1>5, AnsweringKeeps DEF CpuWatchdog, End
<1>6. CASE Event /\ ClientStep /\ UNCHANGED store
    BY <1>6, ClientStepFits
<1>7. CASE Reload \/ RemoveWeights
    BY <1>7, LeavingKeeps
<1> QED
    BY <1>1, <1>2, <1>3, <1>4, <1>5, <1>6, <1>7 DEF Next

-----------------------------------------------------------------------------
(* While the page says an engine is ready, the model it would answer with is  *)
(* the one of the tier shown, in one engine, for every ladder and however     *)
(* often the service worker restarts (webllm-client.ts, llm.svelte.ts).       *)
THEOREM ReadyMeansServable == Spec => []ReadyIsServable
<1>1. IInv => ReadyIsServable
    BY DEF IInv, EngineFits, Serves, CpuServes, ReadyIsServable
<1> QED
    BY <1>1, InitIInv, NextIInv, PTL DEF Spec

(* An answer that succeeds was written by the model of the tier, never by one *)
(* another page has loaded into the worker (generateService).                 *)
THEOREM AnswersAreByTheTier == Spec => []AnsweredByTier
<1>1. IInv => AnsweredByTier
    BY DEF IInv, EngineFits, Serves, CpuServes, AnsweredByTier, Over
<1> QED
    BY <1>1, InitIInv, NextIInv, PTL DEF Spec

(* A page reloaded during a preparation takes up the very download it was at, *)
(* whatever rung it detects (restoreModelPreparation).                        *)
THEOREM ReloadResumes == Spec => []InFlightIsResumed
<1>1. IInv => InFlightIsResumed
    BY DEF IInv, MarkersFit, InFlightIsResumed, Restored
<1> QED
    BY <1>1, InitIInv, NextIInv, PTL DEF Spec

(* A preparation that failed for want of room or memory is not begun again by *)
(* a reload (reportFailure, restoreModelPreparation).                         *)
THEOREM FinalFailuresRest == Spec => []FinalFailureRests
<1>1. IInv => FinalFailureRests
    BY NoneIsNoModel DEF IInv, MarkersFit, FinalFailureRests, Restored
<1> QED
    BY <1>1, InitIInv, NextIInv, PTL DEF Spec

(* Within a page the tier only changes to a smaller rung, at the person's     *)
(* retry or by an automatic step that is counted (StepOrReport, Retry).       *)
THEOREM TierOnlyDescends == Spec => LadderDescends
<1> DEFINE Descends == tier # None /\ tier' # tier /\ tier' # None =>
                         tier' > tier /\ (Retry \/ job.step' > job.step)
<1>1. ASSUME IInv, NEW failure, NEW next \in Below(tier) \cup {None}, StepOrReport(failure, next)
      PROVE  Descends
    <2>1. CASE next # None /\ job.step < MaxAutoSteps
        <3>1. tier' = next /\ next > tier /\ job' = [job EXCEPT !.at = "attempt", !.step = @ + 1]
            BY <1>1, <2>1 DEF StepOrReport, Below
        <3>2. job'.step = job.step + 1 /\ job.step \in Nat
            BY <1>1, <3>1 DEF IInv, StoreTypes
        <3> QED
            BY <3>1, <3>2
    <2>2. CASE ~(next # None /\ job.step < MaxAutoSteps)
        BY <1>1, <2>2 DEF StepOrReport, Report
    <2> QED
        BY <2>1, <2>2
<1>2. IInv /\ [Next]_vars => [Descends]_vars
    <2> SUFFICES ASSUME IInv, Next PROVE Descends
        OBVIOUS
    <2>1. ASSUME NEW m \in Model, Initialize(m) PROVE tier = None
        BY <2>1 DEF Initialize, IInv, Awaits
    <2>2. CASE Retry
        BY <2>2 DEF Retry, IInv, OfferFits, Below
    <2>3. CASE Fail
        <3>1. tier \in Model
            BY <2>3 DEF Fail, IInv, Awaits
        <3>2. Down[tier] \in Below(tier) \cup {None}
            BY <3>1, LadderAssumption
        <3> QED
            BY <1>1, <2>3, <3>2 DEF Fail, Report
    <2>4. CASE Rung
        BY <1>1, <2>4 DEF Rung
    <2>5. CASE Reload \/ RemoveWeights
        BY <2>5 DEF Reload, RemoveWeights, NewPage
    <2>6. CASE ClientStep /\ UNCHANGED store
        BY <2>6 DEF store
    <2>7. CASE Succeed \/ AnswerOver \/ Answer \/ Stop \/ CpuWatchdog \/ \E e \in End : CpuSettles(e)
        BY <2>7 DEF Succeed, AnswerOver, Answer, Stop, CpuWatchdog, CpuSettles, store
    <2>8. CASE Persisted \/ Measured \/ Reported \/ \E force \in BOOLEAN : Ask(force)
        BY <2>8 DEF Persisted, Measured, Reported, Ask
    <2> QED
        BY <2>1, <2>2, <2>3, <2>4, <2>5, <2>6, <2>7, <2>8 DEF Next
<1> QED
    BY <1>2, InitIInv, NextIInv, PTL DEF Spec, LadderDescends
=============================================================================
