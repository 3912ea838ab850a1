# Verification of regeste

Regeste answers questions about the user's own documents, in the browser: documents are parsed,
indexed in a local SQLite database and searched there; answers are written by a model running in
a service worker, or, when the user asks for it, by a cloud model that is sent the question and
the passages found. This directory holds TLA+ models of the parts where order matters, the TLC
runs that check them, and proofs checked by TLAPS.

    tlc -workers 2 -config LibrarySession.cfg MCLibrary     # one run per .cfg, see "Runs"
    tlapm Library_proofs.tla                                # and the other *_proofs.tla

`PROJECT.json` lists the components, runs, mutants, findings, hazards and theorems, and maps
every definition to the lines it models. Paths below are relative to `src/src/lib/` unless they
begin with `src/`.

## Inventory

| Component | State it keeps | Operations | Talks to | Module |
|---|---|---|---|---|
| Document library, `state/documents.svelte.ts` | `processingIds`, `ocrAborts`, `ocrChain`, `library`, `localStorage` repair version | ingest, ingestMany, replace, reindex, OCR, remove; three repairs at start-up | database worker, OPFS, parsing / OCR / embedding workers | Library |
| OCR worker and page reading, `pipeline/ocr-worker.ts`, `ocr.ts`, `parse-with-layout.ts` | the one open document of the worker, its loading task; the detector of a parse | openDocument, detectLayout, recognizePage, closeDocument; ocrPages | pdf.js, the layout and recognition models | PageReader |
| Embedding worker and query vectors, `pipeline/embed-worker.ts`, `embed-batches.ts`, `query-embedding-cache.ts` | two lines of jobs, the embedder; an LRU map of question vectors | embed, embedPassagesInBatches, embedQueries | the embedding models | Embedding |
| Local database, `local-db/worker.ts`, `schema.ts` | SQLite tables with their FTS, fuzzy and vector views | one function per statement group, one call at a time | every store, over Comlink | DocStore, MessageStore |
| Retrieval, `pipeline/retrieval.ts`, `retrieval-ranking.ts`, `retrieveMany` | the candidates of a batch of questions; stored citations | retrieveMany, openCitation | embedding worker, database | Retrieval |
| Fact cache and exact analytics, `analysis/`, `aggregate` | tables `document_fact_runs`, `document_facts` | aggregate | database | MoneyRecords, Inquiry |
| Chats and turns, `state/chats.svelte.ts` | `activeChatId`, `messages`, `chatDocuments`, `sending`, `pendingAssisted`, follow-up timer | send, regenerate, editLast, stage / confirm / cancel / post a cloud turn, switchVersion, open, remove | database worker, page-side engine, retrieval, `/api/assisted` | Conversation |
| Answer checks, `generatePrivate`, `private-ai/` prompt and grounding | the passages listed, the draft, the Stop flag | draft, up to nine corrections, two gates | page-side engine, retrieval | PrivateAnswer |
| Inference service worker, `src/src/service-worker.ts`, `private-ai/model-load-coordinator.ts` | `engine`, `loadedModel`, `loadGeneration`; the coordinator's `flight` and `exclusiveGate` | load, generate, unload, interrupt | all open pages, WebLLM | ModelEngine |
| Engine client of the page, `private-ai/webllm-client.ts`, `service-worker-lifecycle.ts` | pending requests, instance id, heartbeat, timers, an engine of its own | load, generate, abort, reset | service worker | EngineClient |
| Model store, `private-ai/llm.svelte.ts`, `model-resume.ts`, `state/models.svelte.ts` | status, tier, consent and preparation markers | prepare, retry, acceptSmaller, generate, stop, remove | engine client, settings | Readiness |
| Database owner, `local-db/client.ts`, `worker.ts` 51-160 | page lock, lock of the pool, memoised connection | getLocalDb, init, retry | Web Locks, OPFS | Workspace |
| Panic wipe, `panic-wipe.ts`, `panic-wipe-screen.svelte` | the phase of the wipe | run, with one deadline per store | everything that stores | Workspace |
| Force-offline switch, `state/settings.svelte.ts` | the setting, and whether it was read | init, setForceOffline | database | Workspace |
| Cloud endpoint and quota, `src/src/routes/api/assisted/+server.ts`, `server/quota.ts` | monthly usage in D1 | read quota, charge, relay | provider, D1 | – |
| My AI, `state/myai.svelte.ts` | address, availability | probe, generate | a server on the user's machine | – |
| PWA shell, `src/src/service-worker.ts`, `pwa/` | cache of the app shell | install, activate, skip waiting | pages | – |
| Parsing and chunking, `pipeline/parse/`, `chunk.ts` | none between calls | pure functions of one page | – | (chunk.ts: MoneyRecords) |
| Session, other settings, viewer, advisories, interface, benchmarks | one field each | single assignments | – | – |

### Where it is hard

*Document library.* One thread, but some thirty awaits per document, three documents at once, two
start-up repairs in the background, OCR in a chain of its own, and a user who drops, rebuilds,
replaces and deletes at any of them. The page may be closed at any await and the next start must
finish what it finds. What makes it correct: nobody works on a document twice at once; a row in
progress is in somebody's hands, or will be after the next start; what is ready is indexed once,
from the file its row names; deleting leaves nothing; a rebuild never leaves the document
unsearchable.

*Page reading.* One worker with one open document serves three parses at once and the OCR chain.
Correct: a pass reads its own file, a failure or an abandoned detector leaves no document open in the
worker, every pass ends.

*Vectors.* One queue, a cache read before and after an await, and an embedder that may fall back to
another model. Correct: a text gets its own vector, all vectors of a session come from one model,
every call ends.

*Retrieval.* A batch of questions with different scopes is flattened, searched together and taken
apart again, while the library is rewritten between its reads. Correct: a question gets what it
would get alone, from its own scope; what was asked for is not cut on the way; a citation never
opens on another text.

*Exact analytics.* Facts are extracted on demand from passages that overlap, and cached under a
marker. Correct: no fact outlives its text, no marker its facts; a record is neither counted twice
nor lost.

*Chats.* One global `sending` flag guards turns that are handed between five methods
(`editLast` → `send`, `stageAssisted` → `send` or `sendAssisted`, review → `confirmAssisted`), each
with its own guard, while the user may open, delete and switch versions. Correct: the composer is
shut exactly while a turn runs or a review waits; one request gives one exchange and at most one
post; what left the device is on record.

*Answers.* A prompt that is shortened until it fits, a draft that may be refused, looped or cut, and
nine passes in a fixed order, each of which may ask the model again and adopt what it says, with
Stop at any moment. Correct: the numbers the model read are the numbers citations resolve with; what
is shown is held by what is shown beside it; no correction loses what the answer already had; after
Stop no further correction starts.

*Inference worker.* Any number of pages send loads, generations and unloads of different models;
promises settle in microtask order; a reload can fail half-way or be overtaken. Correct: loads and
generations exclude each other; the model the worker advertises is the one held; no weights are
left in an engine nobody reaches; every message is answered.

*Engine client and model store.* The browser may stop the service worker at any moment and start
another behind the same controller; heartbeats, probes and watchdogs race late answers; a device
without room steps down a ladder by itself, and a reload at any point must take up the right
download. Correct: what the page calls ready is the model it names; a final failure rests; every
preparation and every answer ends.

*Owning and erasing the database.* A closing page frees its lock before its worker lets go of the
files; `init` may fail half-way; the wipe deletes stores one by one with a deadline each, beside
pages that still run and store. Correct: one owner at a time; success is reported only when nothing is
left of what was there when the person asked; the wipe always ends.

## Modules

    DocStore ──┬── Library ──── MCLibrary           LibrarySession, LibraryOverlap
               │      └──────── Library_proofs      4 theorems
               └── Inquiry ──── MCInquiry           Inquiry
    MoneyRecords ─────┘└─────── Inquiry_proofs      2 theorems
    PageReader ──┬─ MCPageReader                    PageReader, PageReaderPages
                 ├─ Workers_proofs                  3 theorems (of PageReader and Embedding)
    Embedding ───┴─ MCEmbedding                     Embedding
    Retrieval ────┬ MCRetrieval                     Retrieval
                  ├ Answers_proofs                  8 theorems (of Retrieval and PrivateAnswer)
    PrivateAnswer ┴ MCPrivateAnswer                 PrivateAnswer
    MessageStore ── Conversation ── MCConversation  ConversationTurns
                          └──────── Conversation_proofs   4 theorems
    ModelEngine ─── MCModelEngine                   ModelEngineCalls
          └──────── ModelEngine_proofs              3 theorems
    EngineClient ── Readiness ── MCReadiness        Readiness
                        └─────── Readiness_proofs   5 theorems
    Ownership ·· Workspace ── MCWorkspace           Workspace   (Workspace implements Ownership)
                     └─────── Workspace_proofs      4 theorems

The two database modules hold the tables and one operator per worker function; the page modules
extend them and contain the control. Where one part is seen from another it is cut down to what can
reach it: the service worker, which ModelEngine models from the inside, is in EngineClient what a
page observes of it; retrieval and generation are an await in Conversation, and a module each; the
writes of Library are in Inquiry and Retrieval the moments the passages of a document change; the
pages a parse and a recognition ask for, an await in Library, are PageReader; the embedding of a
document, an await in Library, is a sequence of jobs in Embedding.

### Conventions

A running async method occupies a *slot*, its `pc` names the await it is suspended at, and one
action is the code from one await to the next, with the call it makes at the end. The database
worker serves the calls in the order they are made, one at a time, each in a transaction, so a
call takes effect in the action that makes it, and its answer is delivered later, in the order of
the calls (`inbox`, `queue`). Between the two, anything else may run; that is where the
interleavings of the real page come from. `calls` and `reloads` count what the user does and are
bounded in guards; both are bounds of the instance, not of the code.

### DocStore and Library

`rows` is the table `documents` (hash, status, error, whether the retrieval version is current),
`chunks[d]` the batches that `insertChunks` appended for `d` (each names the file it was cut from
and whether it covers every page; the four search views of a chunk move in one transaction and are
one variable), `originals` the OPFS folder, whose entries are created empty and then written.

| In the model | In `documents.svelte.ts` |
|---|---|
| `IngestMany`, `LookUpHash`, `InsertNew`, `StageAgain`, `MarkReceived`, `StageKnown`, `ProcessMany` | `ingestMany`, `stageDocument`, `processMany` |
| `StartProcess` … `Finish` | `processDocument`, with `storeOriginal` and the OCR hand-over |
| `StartReindex` … `ReindexFails` | `reindex` |
| `StartOcr` … `OcrEnd` | `ocrChain`, `ocrDocument` |
| `BootResume`, `StartResume`, `ClearToResume`, `ResumeProcess` | `repairInterruptedIngests` |
| `BootRecheck`, `StartRecheck` … `RecheckOcr` | `repairOcrIndexes` |
| `BootRebuild`, `BootDone` | `repairRetrievalIndexes` |
| `ReplaceCall` … `ReplaceFails` | `replace` |
| `Remove`, `Reload` | `remove`; a crash, a closed tab, a reload |

What is abstracted: a file is its hash, and only what parsing finds in it matters (`Native`,
`Imaged`); `ingest` is `ingestMany` of one file; `refreshLibrary` is immediate at the end of its
handler; the start-up repairs read their list of rows atomically; the row of a deleted document
keeps its hash as a tombstone; `cancelOcr`, which nothing in the sources calls, is left out, so OCR
ends in one of its two ways; names, page counts, timings, `embedding_model`, facts and the
inspection calls are left out; `Docs` is large enough in each instance that ids never run out
(`crypto.randomUUID` does not either). `LeftOf` is what a call of `storeOriginal` can leave of a
replacement's file: a refused or interrupted write may leave the empty entry.

MCLibrary adds one history variable, `leftBehind`, which no action reads: the rows a rejected selection
had already staged, until the next start or until their file is dropped again. `ObservedSpec` is the
specification with it, under the same fairness, and `IngestSettles` is stated with it. Both runs check it; in
LibraryOverlap, where files are dropped one at a time, the set stays empty.

### ModelEngine

One call per message. A continuation whose promise is settled runs before the next event, those
that wait for one promise in the order they began to wait; that is the microtask queue, with the
order between different promises left open. An `MLCEngine` is named by the load that created it,
and `holds` says what weights it has. Left out: progress listeners, the interrupt message and the
shell cache in the same file.

| In the model | In the code |
|---|---|
| `Message`, `Interrupted` | message handler of `service-worker.ts` |
| `AwaitGate`, `Join`, `AwaitOtherModel`, `JoinedSettles`, `TakeOff`, `Land` | `ModelLoadCoordinator.run` |
| `StartLoad`, `ReloadRejected`, `ReloadResolved`, `Discarded` | `load` |
| `GenerateTakesGate`, `Generate`, `Generated`, `Over` | `runExclusive`, `generate` |
| `Cancel`, `Cancelled`, `Unloaded` | `cancelAndRunExclusive`, `unload` |
| `AskReload`, `AskUnload`, `EngineEvent` | WebLLM, external |

### MessageStore and Conversation

`messages` is the table in insertion order; a row's `mode` tells a question from the kinds of
answer, `group` is its version group, `by` the click it was written for (a history variable, as
is `egress`, the list of posts). `indexed[m]` counts what the FTS commands did to row `m`: the
index is an external-content FTS5 table, which does not refuse to delete what it does not hold.

| In the model | In `chats.svelte.ts` |
|---|---|
| `SendCall`, `RegenerateCall`, `Enter`, `Stopped`, `Relist`, `Relisted`, `Answer`, `Written`, `Listed`, `ThinkFails`, `Failed` | `send`, `regenerate`, `answer`, `generatePrivate`, `cancelRelatedWork` |
| `EditCall`, `Deleted`, `Cleared` | `editLast` |
| `StageCall`, `HandBack`, `NoExcerpts`, `Stage` | `stageAssisted` |
| `ConfirmAssisted`, `CancelAssisted`, `Refuse`, `PostAssisted`, `Posted`, `Recorded` | review panel, `sendAssisted` |
| `SwitchCall`, `OpenCall`, `RemoveCall` and their ends | `switchVersion`, `open`, `remove` |
| `FollowUp`, `FollowUpEnds` | `scheduleRelated`, `generateRelated` |

A retrieval that rejects takes a step of its own (`ThinkFails`, then `Failed`), in a staged turn as in any
other: `send` and `regenerate` open the composer in their `finally`, `stageAssisted` does not.

The guards of the user's actions are those of the page: no composer, pencil or Try again while
`sending`, no Try again on a cloud answer, the review panel only in its own chat; navigation,
deletion and version arrows at any time.

What is abstracted: retrieval, understanding and generation are one await ("thinking") with any
of the outcomes the code has; `cancelRelatedWork` suspends only if a follow-up is really being
generated; the reads of chat documents and citations come with the list of messages; touching the
chat and refreshing the sidebar are one with the call before; ids are never reused; version groups
are read from the table as it is. Not modelled: My AI turns, stopping an answer (its effect, a
notice or a partial answer, is among the outcomes), titles, attachments, citations, chat settings,
and a reload of the chat page.

### PrivateAnswer

One turn of a private chat. A text is its form (an answer, a copy of an excerpt, a refusal, broken),
the typed parts of the question it states, and whether it holds a figure no passage has; what the
model writes is any text. Nothing runs between two passes, so a pass is one action, and Stop can
come only while the model writes or the database is asked.

| In the model | In the code |
|---|---|
| `Ask`, `Write`, `Exact` | retrieval, the typed and exact extracts, the first call of `generatePrivate` |
| `Overflows`, `Dropped`, `Fits` | `generateWithContextFit`, `shrinkEvidenceStep`, `fitEvidenceToContext` |
| `Drafted`, `DraftDies`, `DraftUnserved`, `Judge`, `Retries`, `Redraft` | the draft, its retry without reasoning, an engine that dies |
| `Recover`, `Verify`, `Correct`, `Probe` with `After`, `Wanted`, `Passes` | the passes of `generatePrivate`, in their order |
| `RecoveryCanReplace`, `VerificationCanReplace`, `CorrectionCanReplace` | the functions of those names in `private-ai/prompt.ts` and `chats.svelte.ts` |
| `Grounded`, `Gate`, `Repaired` | `checkNumericGrounding`, `groundedOrRefused`, `enforceAnswerInvariants` |
| `Record`, `Close`, `Over`, `Throw`, `Stop` | storing the answer with its citations, `send`, `stopGeneration` |

Left out: wording, languages, titles, follow-up questions, the lexical measures behind each judgement
(each is a form or a set of parts).

### Workspace and Ownership

`Page` is a set of page *loads*: a reload is the end of one and the beginning of another, in any
tab. A page and its worker end in two steps (`Close`, `WorkerDies`), because the browser frees the
page's lock at once and stops the worker on its own; that gap is why the pool has a lock too.

| In the model | In the code |
|---|---|
| `OpenApp`, `Use`, `Ask`, `TakePageLock`, `Reject` | `getLocalDb`, `dbPromise` of `local-db/client.ts`, `guardDb` of the layout |
| `TakePoolLock`, `InstallPool`, `OpenFails`, `OpenDb` | `acquireSingleOwner`, `openPool`, `init` of `local-db/worker.ts` |
| `ReadSettings`, `SetSwitch`, `StoreSwitch` | `SettingsStore.init`, `setForceOffline` |
| `Put` | `storeOriginal`, and whatever else a page stores |
| `WipeEverything`, `InferenceStops`, `NativeWipe`, `Delete`, `DeletionFails`, `Deadline`, `ClearWebStorage`, `Complete`, `Retry` | `performPanicWipe`, its phases and deadlines, the erasing screen |
| `NextLoad`, `Close`, `WorkerDies` | the browser, external |

`Ownership` says what the locks are for: one page owns the stored workspace, only its owner writes
it, and it is erased only when nobody owns it. `IsOwned` is that specification with
`owner <- OwnerOf`, the page whose worker has the database open. What the database holds is one
setting, enough to tell whether a page's copy is current.

`data` is the set of stores that hold anything. Pages fill them again while a wipe runs: opening the
database makes the files of the pool (`InstallPool`), and `Put` is a page that stores an original, writes
to web storage, or whose service worker fills a cache; the constant `Filled` says which of these an
instance lets grow. `StoreSwitch` needs no such step: a page that stores has the files of the pool open,
so the pool is in `data` then. `left[q]` is a history variable, what was there when the wipe `q` was asked,
or asked again, and has not been removed since.

### EngineClient and Readiness

`client` is what the page remembers, `link` the requests and the service worker as seen from the
page, `store` the fields of `LlmStore`. The browser may stop the service worker, lose a message or
serve another page at any moment (external actions); timers fire whenever they are armed.

| In the model | In the code |
|---|---|
| `Load`, `Wait`, `Probed`, `ProbeTimesOut`, `Loaded`, `LoadFails`, `OwnLoaded`, `OwnFails` | `load`, `loadService`, `loadDedicated` |
| `Generate`, `Answered`, `OwnAnswered`, `Failed`, `Recoverable` | `generate`, `generateService` and its one recovery |
| `Beat`, `BeatAnswers`, `BeatTimesOut`, `Observe`, `Orphaned`, `Invalidate` | heartbeat and `PendingServiceRequests` |
| `Watchdog`, `Abort`, `ClientStep` | `withActivityTimeout` and what it aborts |
| `Initialize`, `Restored`, `Prepare`, `Launch`, `Persisted`, `Attempt`, `Succeed`, `Fail` | `initialize`, `restoreModelPreparation`, `prepare`, `prepareOnce`, `attempt` |
| `StepOrReport`, `Rung`, `Report`, `Retry` | automatic steps down, `reportFailure`, `acceptSmaller`, `retry` |
| `Answer`, `AnswerOver`, `Stop`, `RemoveWeights` | `generate`, `stop`, `models.svelte.ts remove` |

Left out: progress, the landing demo's reset, two tabs sharing the markers, the prompt to persist
storage (an await that may wait on the person).

### MoneyRecords and Inquiry

MoneyRecords is a set of pure operators, no state: how a text is cut into overlapping passages and
parents (`ChunkBlocks`), how facts are read from passages (`ExtractFinancialRecords`), and how the
facts of many records become counted amounts (`AggregateMoneyFacts`). A text is a sequence of
sections of pieces with what the regular expressions find in each; sizes are in units of 80
characters. Inquiry runs `aggregate` over DocStore, message by message (`ListRuns`, `ReadChunks`,
`StoreFacts`, `Answer`), while documents are added, scanned, rebuilt, replaced and removed (`Index`,
`OcrClears`, `OcrWrites`, `Reindex`, `Replace`, `RemoveDocument`). Left out: representative and
contextual kinds, schedule rows and record columns, currencies, `opensSection`, the 20-character
filter.

### Retrieval

`RetrieveMany` to `PackFinal` are the groups of database messages of `retrieveMany`, and every pure
stage between them is an operator with the name of its function (`MergeRankedCandidateLists`,
`ExpandChannelCandidatesWithNeighbors`, `FuseCandidates`, `RefineCandidates`,
`ExpandStructuralParents`, `EnrichRepeatedPageLeadContext`, `SelectWithNeighbors`). `Rewrite` and
`RemoveDocument` change the library between any two, `FreshBase` is how SQLite chooses ids, `Cite`
stores a citation. What a question finds and how well a passage covers it are constants. Left out:
the reranker, which is off by default; the lists `selectWithNeighbors` sorts by one kind of evidence
each, kept as one (`Typed`); the 12-passage cut of a window, the pool of 64; document status (all are
ready).

### PageReader

A pass per file: `Begin`, the parse with its detector (`StartOpen`, `SetDocument`, `DetectLayout`,
`RenderForLayout`, `Analyse`, `ParseEnds`), and the recognition (`Opened`, `AsksLayout`,
`UseRegions`, `RecognizePage`, `RenderForReading`, `Recognise`, `ReadEnds`, `ReadFails`), at once for
a rebuild and through `ChainAdvances` for a new file. A load rejects when its document was destroyed
(`Opened`) or by itself (`CannotOpen`: pdf.js does not load, or refuses the bytes); the detector then keeps
the rejected promise, and `ocrPages`, which opens outside its `try`, fails without closing
(`OpeningRejects`). A recognition that fails later closes in a message of its own (`CloseFailed`), and what
it closes is whatever is open by then. A handler of the worker runs to its next await
in one step. A page's text is the file its image came from.

### Embedding

| In the model | In the code |
|---|---|
| `Receive`, `TakeJob`, `FirstOf`, `Settle` | `embed`, `drainJobs`: questions before passages, one job at a time |
| `PickDevice`, `EmbedderBuilt`, `GemmaFails`, `NoEmbedder` | `pickDevice`, `getEmbedder`: the GPU, its fallback, neither |
| `Infer`, `InferenceFails` | `runEmbed`, one inference at a time |
| `EmbedQueries`, `QueriesEmbedded`, `Missing`, `Stored`, `Collect`, `Touched`, `Evicted` | `QueryEmbeddingCache.embed`, before and after its await |
| `EmbedPassages`, `BatchEmbedded`, `NextBatch` | `embedPassagesInBatches`, `yieldToMain` |

A vector is the text it encodes and the model that encoded it; a job is answered in the order of
the messages. `clear` of the cache has no caller. A reload starts everything afresh and is left out.

## Runs

| Run | Instance | Checks | Distinct states |
|---|---|---|---|
| LibrarySession | 3 ids, a text, a mixed and a scanned file; new files are a text, a scan, or a text followed by a folder, which cannot be read; 2 bodies, 2 calls, 1 reload, OPFS may refuse, one old scan in the library | `IndexIsExact`: in this session a ready document is indexed exactly once and from its file; `RemovedIsUnindexed`: deletion leaves no chunk; `IngestSettles`: everything in progress settles, a row that the folder left behind after the next start; `ReadyStaysSearchable` | 204 203 |
| LibraryOverlap | 2 ids, 2 overlapping calls of any kind (replace included) in any phase of the start-up, 3 bodies; OPFS refuses nothing here | `ProcessingIsExclusive`: processingIds is a lock; `NoStrandedRow`: no row in progress is in nobody's hands | 711 238 |
| ModelEngineCalls | any 3 messages, 2 models | `CoordinatorExcludes`, `AdvertisedIsHeld`, `NoOrphanWeights`, `EveryCallEnds` | 60 982 |
| ConversationTurns | a private and a cloud chat, the private answer with two versions, 3 clicks of any kind, 3 methods at once, follow-ups, any retrieval rejecting, deletion of either chat | `NeverStuck`: the composer is left shut in two ways only; `OneExchangePerRequest`; `CloudAnswersAreJournalled`: journal and thread agree; `TurnEnds` | 257 587 |
| PrivateAnswer | 2 passages and one out of reach, questions of up to two parts, every shape, window and extract | `CitationsArePositional`: every prompt lists a prefix of the final list; `ShownIsHeld`: what is shown is held by the excerpts shown; `RecoveryIsMonotonic`; `StopEndsCorrections`; `TurnEnds` | 238 504 |
| Workspace | 3 page loads; originals and the pool fill again (`Filled = {"originals"}`) | `IsOwned`: Workspace implements Ownership; `WipeIsComplete`: success only when nothing is left of what was there when asked; `WipeEnds` | 452 491 |
| Readiness | 4 rungs, the last on the CPU, 2 automatic steps | `ReadyIsServable`, `AnsweredByTier`, `InFlightIsResumed`, `FinalFailureRests`, `PreparationEnds`, `AnswerEnds` | 74 948 |
| Inquiry | 2 documents, 3 texts, 2 questions at once, 2 writes per document | `FactsAreCurrent`, `MarkersStand`, `RecordsAreCounted` | 180 023 |
| Retrieval | 2 documents, 3 texts of five passages, batches of two questions, 3 writes, 1 search | `BatchIsolation`, `ScopeIsKept`, `CarriersReachEvidence`, `CitationShowsItsPassage` | 41 603 |
| PageReader | a scan of two pages and a mixed file of three, added or rebuilt at any time | `AloneReadsItsFile`, `NothingStaysOpen`, `PassesEnd` | 539 307 |
| Embedding | 2 callers, a cache of 2 vectors, lists that share or repeat questions, 2 documents of 3 and 1 passages, 3 calls | `VectorsAreTheirs`: its own vector, one model; `EveryEmbeddingSettles` | 50 365 |
| PageReaderPages | the two files of PageReader | *violated*: `PagesAreOfTheirFile` | about 4 000 before the trace |

Each module with a run also states a type invariant, `TypeOK`. It holds in the same configurations and is left
out of their lists, which keep to behaviour; the library's and the chats' are proved.

### Why these bounds

In the library most races are between one body and one other thing (a second body, a call, a
deletion, a crash), which two bodies and two calls meet; three bodies are there where a start-up
repair, an OCR pass and a call have to overlap. What LibrarySession shows of `IndexIsExact` and
`ReadyStaysSearchable` is about the selections it names: the mixed file is the old one, and nobody drops
it again while its pages are queued. One selection has two entries, a text and a folder after it; a folder
before a file stages nothing, and one after two files strands two rows in the way it strands one. With that, or with two calls that overlap, both fail (first
entries of "Disagreements met while modelling"). `ProcessingIsExclusive`, `RemovedIsUnindexed` and
`NoStrandedRow` are proved for any number of calls.

Three kinds of file cover the branches of parsing (text, text with images, images only); a fourth id would only repeat one. One reload
reaches every state a start-up can find, since the second start begins from what the first left and
the repairs are themselves interrupted by that reload. Three messages are what it takes for a load,
another that joins or waits, and something exclusive. In the chats one turn, one thing that
disturbs it and one later turn that meets the result are three clicks; confirming and cancelling a
review are not counted as clicks. Rejections are not counted either: any retrieval may reject.

An answer needs two passages so that dropping one leaves one, and a third that no search returns so
that a part of the question can stay unfound. Three page loads are an owner, a page refused or
opened meanwhile, and the boot that erases; a retry of the wipe is in the same load. Of the stores beside
the pool only the originals fill again there (`Filled`): they share a deletion with the pool, where
an order could matter; the proof is for every `Filled`. Four rungs give
a step within an engine, one across engines, and a rung left over after the two automatic steps
(`MAX_AUTO_STEPS`). Two documents and two inquiries make one write fall between any two messages of
each; a second write overtakes the first one's facts. Searches only read, so one search meets
everything that several would; three writes let an id be freed, taken and freed again. The limits
of retrieval are scaled down and keep the order they have in the code. Two callers and three calls
make the cache lose an entry between the look-up and the answer of one call (one call to fill it,
one that counts on it, one that evicts), and let a question and two documents queue at the worker;
two texts per job take two inferences. Two PDF files are enough for any collision in a worker
that keeps one document.

Bounds in guards: `MaxCalls`, `MaxReloads` (Library), `Filled` (Workspace), the clicks of Conversation, `MaxWrites`
(Inquiry, Retrieval), `MaxSearches`, `MaxCalls` (Embedding). All but
`Filled` count what users do.

Symmetry: body slots in LibraryOverlap, documents and inquiries in Inquiry. Both runs check
invariants only, and no constant tells the members of these sets apart.

Deadlock is checked in PrivateAnswer alone. Elsewhere, with the user's calls bounded, an instance
stops for good when they are spent, and a page where nothing is running is idle, not stuck. That
nobody waits on anybody for ever is what the liveness properties say.

### Fairness

*Library*: weak fairness of every body, request, start-up step and answer of the database. The
event loop runs what can run; parsing, OCR and embedding calls settle or reject. No fairness of the
user or of a reload. *ModelEngine*: weak fairness of continuations and of the engine's answers
(WebLLM resolves or rejects what it is asked; the page-side timeouts are not used here).
*Conversation*: weak fairness of each method; generation and requests have time limits of their
own. A click, a confirmation, a cancellation and a follow-up are never owed: a review that waits is no
turn, and its confirmation begins another. *PrivateAnswer*: weak fairness of each pass; an engine that
neither answers nor refuses is given up by its watchdog. Stop is never owed. *Workspace*: the
timers of the wipe (`Deadline`) and its own continuations; no deletion is owed to it, no page has to
close. *Readiness*: the waits, probe timeouts, watchdogs and automatic steps of the page, and the
ends of its own operations. The service worker owes nothing: every wait on it has a timer.
*PageReader*: each pass, `ChainAdvances`, and the beginning of a queued file; pdf.js and the models
resolve or reject. Adding a file is never owed. *Embedding*: messages arrive, a download or an
inference ends one way or the other, the page yields only for a turn; no call is owed. *Inquiry* and
*Retrieval* check safety only: their methods are straight lines of awaits.

### Mutants

Each property of a passing run has a mutant in the module of the code it is about: an operator
just before the definition it replaces, with a comment that names the bug (a dropped guard, a
swapped order, a forgotten hand-over). Replacing the definition by it makes TLC find the property
violated under the run's own configuration.

## Proofs

TLC checks the instances above; the eight `*_proofs` modules prove, for every number of documents,
contents, bodies, requests, calls, reloads, page loads, models, rungs, chats, inquiries, questions
and files:

* **TypeCorrect** (`Spec => []TypeOK`, Library). `TypeOK` is not inductive: a body that runs must
  know its document, content and owner, and a request at a given pc must have a file or a document
  at hand. `TypeInv` adds that (`Engaged`, `RequestOK`). One lemma per worker call, then one per
  group of actions.
* **ProcessingExclusion** (`Spec => []ProcessingIsExclusive`, Library). Inductive given `TypeInv`.
  Each step moves one body; it stays at work, stays out, enters or leaves the section (four
  lemmas), and only `Enter` and `StartReindex` enter, both after looking at the set. A reload
  empties both sides.
* **NoGhostChunks** (`Spec => []RemovedIsUnindexed`, Library). Every step makes at most one worker
  call, and no call adds chunks to a row that is gone; the foreign key is what the proof rests on,
  and the mutant that drops it breaks the property.
* **NothingIsStranded** (`Spec => []NoStrandedRow`, Library, *if files are dropped one at a time*). Who
  has a row in hand is not in the state: a body that is about to return has it no more than a ticket
  in a queue has it already, and what saves a row is often the *order* in which the worker answers two
  tasks that both name it. `CareInv` therefore has two halves. `OrderInv` says who waits (`Asked`) and
  who goes on first: a file dropped again is staged before a body that has come in since goes on
  (`StagedFirst`), a body that has written its last status is answered ahead of whoever wrote over it
  (`LaterWork`), a body past "received" never finds it again (`PastReceived`), and the controller of a
  document belongs to a pass still reading it (`Registered`). The rest says, pc by pc, who owes the
  row a status (`Cared`), who owes it one although `reindex` keeps the old index and writes none
  (`Kept`), and that lists and queues name inserted rows with calls of their own kind (`Born`,
  `BootLists`, `OneFile`). One lemma per action and part; a step that touches one document leaves the
  others cared for. The hypothesis is what the code needs: in a longer selection a file that cannot be
  read, or loses the race for its hash, makes `ingestMany` reject, and the rows staged before it are
  handed to nobody until the next start (see "Disagreements met while modelling"). LibraryOverlap has
  it. `CareInv` was checked on that run before it was proved.
* **CoordinatorIsALock** (`Spec => []CoordinatorExcludes`, ModelEngine). The property speaks of
  where calls are, the code has only the fields `flight` and `gate`; `LockInv` ties them together
  and adds that a generation begins with no flight up, which stays so because a flight is only
  taken with the gate open.
* **AdvertisedModelIsHeld**, **WeightsAreReachable** (`Spec => []AdvertisedIsHeld`, `Spec =>
  []NoOrphanWeights`, ModelEngine). `EngineInv` adds to `LockInv` what a load knows (`LoadKnows`): from
  the call of `reload` until it lands nothing is advertised, and the engine it reloads is the one in
  use unless that reload was aborted. `Landing` is the delicate part: between the end of a reload and
  the continuation that lands it, nobody else is runnable, so no unload takes an engine whose reload
  has just succeeded. The field `generation` of the code is not needed for this.
* **TypeCorrect** (`Spec => []TypeOK`, Conversation). `TypeInv` is stronger than `TypeOK` in what a
  method knows: the answer it has just written exists, and no table, list or journal names a message
  that does not. Message ids only ever grow (`Kept`), so each method's knowledge survives the steps
  of the others.
* **ComposerNeverSticks** (`Spec => NeverStuck`, Conversation). An action property, for any chats and any
  deletions: no step leaves `sending` set with no turn running and no review the user can settle, except
  the rejection of `stageAssisted`, which has no `finally` (`StagingRejects`), and the deletion of the chat
  a review belongs to, or a review made for a chat that is gone (`ReviewLosesChat`). Each other step clears
  `sending`, leaves its method between the two assignments to it, leaves a review waiting, or is of a
  method that was not in a turn and changes neither.
* **WrittenAndPostedOnce**, **CloudIsJournalled** (`Spec => []OneExchangePerRequest`, `Spec =>
  []CloudAnswersAreJournalled`, Conversation). `ExchangeInv` follows the number of a request: at most
  one method or the review has it in hand (`Apart`), and the pc of that method tells what may have been
  written and posted under it (`Owing`); numbers not given out yet appear nowhere (`Dated`). A cloud
  answer is written after its post by the method that made it, so it is on record (`OnRecord`).
* **OneOwner** (`Spec => []SingleOwner`, Workspace). Two workers never have the database open at
  once, and the one that has it holds the lock and the files of the pool. The page's own lock plays
  no part: a page that closes frees it while its worker still runs. `PoolIsHeld` says a worker past
  the pool lock holds it and, past the installation, the files; `Shape` is the type of what the
  proof reads.
* **WipeLeavesNothing** (`Spec => []WipeIsComplete`, Workspace). A wipe reaches "finishing" only when
  every deletion of that attempt has settled; `Progress` adds that a deletion that has settled has removed
  its stores from what was there (`left`), and that only an isolated boot, which never opens the database,
  is at it. Other pages may fill any store behind it: that nothing at all is there then
  (`NothingRemains`) is false of the code.
* **WorkspaceIsOwned** (`Spec => IsOwned`, Workspace). The refinement: every step of the pages, their
  workers and the wipe is a step of Ownership or changes neither owner nor what is stored. `Promised`
  strengthens the invariant: a page whose connection is resolved is alive with its worker open, so a
  write comes from the owner; and erasing needs the files of the pool free, so nobody owns it then.
* **SwitchIsAsStored** (`Spec => []SettingsAreCurrent`, Workspace, in no run). `Informed` says that a page
  which has read its settings has the database open, hence alone, and that a value still to be stored
  is one its user chose.
* **WorkerIsReleased** (`Spec => []NothingStaysOpen`, PageReader). `NothingStaysOpen` says that once no
  pass uses the worker nothing is current, except a load that rejected by itself in a recognition. The
  invariant `OwnerIsHolding` names who is to close a current document: while it is alive, it is the last
  one its pass opened, and that pass is still to close it (`Holding`); once it is not, its load rejected
  (`Rejected`). A pass that finds its document destroyed by another finds, by then, that it is not current
  either.
* **AloneIsExact** (`Spec => []AloneReadsItsFile`, PageReader). `AloneIInv` says, pc by pc, what a
  pass nobody disturbed has: its document is current and alive, everything read is of its file, and
  what it has read and what is left make up the pages that needed it. The least page left is the next
  (`MinIsLeast`).
* **EachItsOwnVector** (`EmbedSpec => []VectorsAreTheirs`, Embedding). `EmbedInv` follows every job
  through the five lines it can be in (sent, two queues, running, answered): `InOrder` says a client
  has one job, in one line; `Awaited` that its client is still waiting for exactly what it sent; so an
  answer is laid on the texts it encodes, although nothing on the page numbers requests. `EngineOK`
  says an embedder that has resolved is never replaced, which makes all vectors of one model:
  what is known of them is stated with the model resolved so far (`Kept`, `Answer`, `Part`) and only
  grows. The lemmas on `Picked`, `Stored`, `Touched` and `Evicted` say that the cache only holds
  vectors of its keys whatever is put, touched or evicted. PageReader and Embedding share a proof
  module, which is why the definitions of Embedding that would clash have a prefix (`EmbedInit`).
* **SumsAreOfPresentText**, **MarkedFactsStay** (`Spec => []FactsAreCurrent`, `Spec => []MarkersStand`,
  Inquiry). Both hold by `InquiryInv`, whose part `ReadsAreDated` says that an inquiry with facts to
  store names the writing of the passages it read. Writings are numbered upwards and the foreign key
  on `chunk_id` accepts ids of the present writing only, so late facts are either of the present text
  or refused, and their marker with them.
* **ReadyMeansServable**, **AnswersAreByTheTier**, **ReloadResumes**, **FinalFailuresRest** (`Spec =>
  []ReadyIsServable`, `[]AnsweredByTier`, `[]InFlightIsResumed`, `[]FinalFailureRests`, Readiness). One
  invariant carries all four. `EngineFits` relates the status and the tier of the store to what the
  client believes of its engines, `Awaits` says which operation a status waits for, and `MarkersFit`
  what is in localStorage at each point of a preparation; the service worker may be stopped, replaced
  or silent in any state. `OfferFits` bounds the smaller rung that is offered, and
  **TierOnlyDescends** (`Spec => LadderDescends`, in no run) follows: every step goes down the ladder.
* **ScopeHolds**, **CitationsStayTrue** (`SearchSpec => []ScopeIsKept`, `SearchSpec =>
  []CitationShowsItsPassage`, Retrieval). `RetrievalInv` says that every list the search holds, at every
  step, is made of passages its request may see (`MadeOf(list, Seen(...))`), and follows that through all
  the stages, one lemma per operator: each leaves out, puts in another order or scores anew what it was
  given, except the three reads of neighbours, which bring passages of a document that was seen already
  (`Closed`). A passage is `Known` once its id was given: the id is at most `nextId` and is nobody
  else's while it is anybody's. Writes only give ids above (`Spans`, `WritesSpare`), which is what keeps the
  lists of a search and the citations true under them. The operators on lists are recursive functions;
  what they compute is shown by a least entry at which it would fail (`Climb`, `Recursion`), once per
  operator. For this Retrieval avoids operators that take operators (`SelectSeq`, folds), and its
  definitions that would clash with PrivateAnswer have names of their own (`SearchInit`, `Nil`).
* **BatchesAreIsolated** (`SearchSpec => []BatchIsolation`, Retrieval). `IsolationInv` follows two
  computations side by side: while nothing is written since the batch began, every stage of each request
  holds what the stages of that request alone give (`AsAlone`, one named part per stage, one step lemma
  per action). The delicate stages are the three that share one read of neighbours. That read lists what
  belongs to one request between what belongs to others; restricted to a request, it is that request's
  own read (`ThoseOrdered`, `TagsOfOne`), and the contexts and sets made of it are the same
  (`ContextSame`, `ExpandSame`, `InitialSame`, `FusedSame`). It needs the part of `RetrievalInv` that
  says that, until a write comes between, what a search holds is of the present library (`SearchHeld`).
* **NumbersAreCitations**, **NothingShownUnheld** (`Spec => []CitationsArePositional`, `Spec =>
  []ShownIsHeld`, PrivateAnswer). `Numbered` says that the prompt lists a prefix of the hits
  citations resolve with; `StoredIsHeld` that what is stored passed the last gates with the passages
  stored beside it.
* **RecoveryNeverSpoils**, **StopIsFinal** (`Spec => RecoveryIsMonotonic`, `Spec =>
  StopEndsCorrections`, PrivateAnswer). Action properties from the same invariant: a compact synthesis
  is only written for shapes that are not reasoning (`RecoveryHasShape`), so what it may replace and
  what the gates refuse agree; and a Stop that was heard is still set (`StopIsKnown`), so the next pass
  is one that its guard wants without it (`NextPassIsWanted`).
* **RewritingKeepsParts** (`Spec => AuditKeepsParts`, PrivateAnswer, in no run). The gates compare
  counts only in one case; in the other a text that covers the question replaces one that does not,
  and then states all that the other did (`CoveringStatesAll`), as no text states more than was asked
  (`RawIsText`).

Assumptions: `LibraryAssumption` (finite ids; `Slots`, `Requests` and `None` apart; contents not
empty; the old library has one row per hash), `EngineAssumption` (`None` is no call and no model),
`ConversationAssumption` (the sets of chats are subsets of `Chats`, `None` is no chat and no review,
the old messages are rows and no request of this page wrote them), `WorkspaceAssumption` (`None` is
no page, `Filled` are stores), `ReaderAssumption` (what pages a file has, and that `None` is no file and no document),
`TextsAssumption` and `BoundAssumption` (the native part of a text is a prefix of it),
`ClientAssumption` and `LadderAssumption` (models are numbered down the ladder, and the rung offered
below one is below it), `RankingAssumption`, `LimitAssumption`, `BatchesAssumption` and `TextsAssumption` of Retrieval (a ranking
lists passages of known texts, limits are numbers, a batch has requests), `HitsAssumption` and
`QuestionsAssumption` (at least one passage fits; every question has one of the shapes), `EmbeddingAssumption` (callers and documents are apart, a document
has passages, a list has questions, sizes are not 0). TLC evaluates them on every run.

A proof about the ladder showed that three operators of the client and one of the store used a CASE
with overlapping guards, of which TLC takes the first and TLA+ any; they are now decided in the order
of the code (`Failed`, `FailedForgetful`, `Observe` in EngineClient, `CpuSettles` in Readiness).

Only model-checked:
* every liveness property, which is out of the prover's reach with fairness and ENABLED;
* `RecordsAreCounted` (Inquiry): its proof would have to follow the merging of copies through every way of
  cutting a text into passages and parents, which was not attempted;
* `CarriersReachEvidence` (Retrieval), which depends on the limits: the evidence of a run's limits is long
  enough for what each channel puts first, which other limits need not be;
* `IndexIsExact` and `ReadyStaysSearchable` (Library), which are *not theorems*: they are true of the
  sessions LibrarySession runs and false where OCR overlaps something else (see the first entries of
  "Disagreements met while modelling").

Worth proving next: `IndexIsExact` for the sessions in which no OCR pass overlaps a processing or a rebuild of its document, and in which the
repair of a start finds nothing being processed.

## What the checks found

One run expects a violation. *A scan indexed with another file's text* (PageReaderPages): the OCR
worker keeps one document (`ocr-worker.ts` 115-116), and `openDocument` replaces it whoever is using
it. A parse of another file (`processMany` parses up to three at once) opens its own on its first
uncertain page while `ocrChain` is recognising a scan; the scan then gets the text, the native items
or the regions of the other file's page of that number, or fails with "No document is open". Two
openings that interleave also leave a loaded document that nobody destroys, and a parse that ends
closes a scan still being read. `AloneReadsItsFile` is what remains true.

## Disagreements met while modelling

Places where the code does not do what the repository says of it, or what its users would expect.
Those with a name in parentheses are stated in a module and fail on the code as it is: replacing the
properties of the named run by that one shows a short counterexample. Stated, true and not in a run, because
others say more: `SettingsAreCurrent` (Workspace), `LadderDescends` (Readiness) and `AuditKeepsParts`
(PrivateAnswer), all three proved, and `ContextCostsNoRecall` (Retrieval).

*Library.*
- `ocrDocument` looks only at `ocrAborts` (documents.svelte.ts:1133-1148) where `reindex` looks at both
  sets (:1051), so an OCR pass begins beside whoever is processing or rebuilding the document. Two
  ways this shows in `IndexIsExact`:
  - one mixed file dropped twice, and a crash (one id, three bodies, `UserCalls = {"ingest"}`,
    `MaxCalls = 2`, `MaxReloads = 1`). The second drop is staged as in progress while the first one's
    pages are queued; pass and processing run side by side, the pass writes the index and says ready,
    the processing appends its partial batch, and the page is closed before it reports. The next
    start finds a ready document, indexed twice, and leaves it so;
  - a rebuild between two passes over one document, with no crash (`UserCalls = {"ingest", "reindex"}`,
    `MaxCalls = 3`, `MaxReloads = 0`). When the swap falls between the second pass's `deleteChunks` and
    its `insertChunks` the document ends indexed twice; when it falls before them, the document is
    ready and for a moment cannot be found (`ReadyStaysSearchable`).
- `repairInterruptedIngests` asks `processingIds` before it reads the original and clears the chunks
  after (documents.svelte.ts:355-369). A text file dropped during the start-up, whose processing begins
  in between, can be cleared after its chunks were inserted and before it says ready; `processDocument`
  then returns at once, because the other one still holds the id. The document is ready and cannot be
  found (`IndexIsExact` with one id and one text file, `CallPhases = Phases`, `MaxCalls = 1` and no
  reload). The read of the original has to take as long as parsing and embedding the file.
- A file twice in one selection is indexed twice (`NoDoubleIndex`,
  LibraryOverlap): `stageDocument` asks `processingIds` whether an existing row is being worked on, but a row
  that is only queued is in nobody's set (documents.svelte.ts:475; the comment at 468-469 says "an
  existing hash is a no-op to process").
- A rebuild or an OCR pass overtakes a replacement (`IndexOfOneVersion`, LibraryOverlap): `replace`
  takes no part in `processingIds` or `ocrAborts`, so work that read the old file writes its chunks
  over, or beside, the new ones (:1265, against "atomic version replacement", :1232-1235).
- Two OCR passes may start over one document, since `ocrDocument` looks at `ocrAborts` two awaits
  before it registers (the index survives that, with no rebuild beside them); the interrupted-ingest
  repair has the same window on `processingIds`.
- A folder in a selection rejects `ingestMany` after the files before it were staged, and their rows
  stay in progress until the next start. A parser exception in `repairOcrIndexes` skips the
  remaining repairs of that start.
- OCR and rebuild need an original that OPFS may have refused earlier; `remove` leaves the file in
  OPFS, which nothing collects.
- `ocrPages` opens its document outside its `try` (ocr.ts:126), so a load that rejects by itself leaves the
  worker's `loadingTask` and `documentPromise` those of a document that never was, until the next opening
  (the exception of `NothingStaysOpen`); "one page in flight" (`ocr.ts` 36-37) does not
  hold with two passes; `cancelOcr` and its abort signal have no caller.
- The page derives the expected embedding model from the adapter alone (`embed-model.ts` 14-22) while
  the worker may have fallen back to e5: documents just rebuilt are then shown as stale for ever
  (documents.svelte.ts:411-426).
- When a question's cached vector is evicted while the call waits for the others, the call fails with
  "Query embedding missing from cache" and the cache stays above its maximum until the next call.
  VectorsAreTheirs is what remains true: no question gets another one's vector.

*Chats.*
- Passages leave without the review their chat asks for (`NothingLeavesUnreviewed`,
  ConversationTurns): the policy is read from the chat open when retrieval ends
  (chats.svelte.ts:2182). A cloud turn in a chat without documents is posted without review too.
- Try again works on another chat's answer (`VersionsShareAChat`, :878); two versions of one answer
  are shown (`OneActiveVersion`, :469); deleting a chat deletes index rows that are not there
  (`IndexMirrorsActive`, worker.ts:1178).
- A post that ends in an error notice has no privacy event, although src/docs/constitution.md:6 says
  every byte that leaves must be visible. `editLast` does not delete retired versions, and loses the
  edited question if a turn starts while it deletes.
- `stageAssisted` has no `finally`: a rejected retrieval, or a chat deleted at the wrong moment,
  leaves `sending` set until the page is reloaded. These are the two exceptions `NeverStuck` names, and
  ConversationTurns reaches both; that the composer always opens again is false.

*Answers.*
- A verification may drop a part the draft had (`AuditIsMonotonic`, PrivateAnswer: prompt.ts:902
  against 899-900), or bring in a figure no passage has, which only the last gate catches.
- Stop pressed during retrieval is erased (chats.svelte.ts:1199); the stop of an earlier turn reaches
  a turn that is answered by an extract; a verification may still start after Stop; after Stop the
  probe takes every amount term as uncovered.
- A draft that fails after the prompt was shortened records the full list; the shrinking is not armed
  again for the retry, nor is the detection of a collapse.
- An exact extract can be replaced by a correction without the contact, although
  `extractive-answer.ts` says it "must never be paraphrased by a model pass"; one of 18 words or more
  is judged a copy; a short cited fact (under 40 characters) is retried unconditionally when
  reasoning is on; each correction checks its own value only.

*Retrieval.*
- Parents do not promote their children (`ParentsPromote`, Retrieval): packing drops parents
  (retrieval.ts:1878) before documents.svelte.ts:762 looks for them (against the comment at
  retrieval.ts:1342).
- Merging breaks ties by a bm25 score of which smaller is better (retrieval.ts:60-66); passages
  without a word of three letters are not alike even to themselves and are packed again for every
  list that names them; parents may take the three contact slots; an empty list of documents in a
  scope means all of them (`scopeSql`); evidence may mix two versions of a document rewritten between
  the sparse and the dense search.

*Exact answers.*
- A record in two passages may be counted twice (`RecordsCountOnce`, Inquiry: financial-records.ts:250)
  when it has no number and a section is long enough for parents, and two undated, unnumbered records
  of equal amounts in sibling passages are merged. `RecordsAreCounted` is what remains true.
- One weak OCR piece hides its whole passage; a note of what was excluded appears for sum, average,
  minimum and maximum only; a late write of facts breaks a foreign key and the question ends in an
  error; the marker of an empty run survives the insertion of OCR's passages; a document rewritten
  between the list of markers and the list of facts is silently missing.

*Engines.*
- An unload answers ok with the engine loaded (`UnloadLeavesNoEngine`, ModelEngineCalls with
  a fourth message): a load that takes the flight starts a microtask later (model-load-coordinator.ts:49).
- A heartbeat sent before a load can fail during it (`PingsSpareWork`, Readiness:
  webllm-client.ts:165 against the comment at 160-161). An abort has no time limit, and one that is
  lost keeps the heartbeat silent. The replay of an answer streams into the same callback.
  `generate` may start a second download that 344-347 means to avoid. `wllama-worker.ts` keeps
  `loadedModel` after a load that failed.

*Owning and erasing.*
- A page whose `init` failed keeps the lock, and its own retry is refused as if another tab had it
  (`RefusedByAnother`, Workspace: client.ts:37, 53). The error of a locked database holds neither text
  `guardDb` looks for, so the page shows no notice (against src/docs/ARCHITECTURE.md:51).
- Turning the force-offline switch while the settings are read is undone, and a first read that fails
  is never tried again (`OfflineMeansOffline`, Workspace: settings.svelte.ts:53-55). Signing out,
  revoking sessions, deleting the account and social sign-in do not look at the switch.
- The wipe "verifies that no script-visible store remains" (panic-wipe.ts:136-137), but nothing is looked
  at again: a page still open may store an original, or make the pool again, between a deletion and the
  report of success (`NothingRemains`, Workspace). `WipeIsComplete` is what remains true.
- A wipe that failed may leave rows in the pool whose originals are gone (panic-wipe.ts:107).

*Shell.* Read and not modelled: `dropOldCaches` deletes every other shell cache
(service-worker.ts:131-138, 315), the one a newer worker has just filled included; `applyUpdate`
may run during a generation or a download from register-advisories.svelte.ts:55, against
pwa.svelte.ts:94; a page loaded before a deployment and first claimed by the newer worker is not
reloaded (pwa.svelte.ts:79).

## Other hazards

`PROJECT.json` lists the hazards that decide what the properties are. These are the others the code
has, with what became of them.

- `state/documents.svelte.ts:1136` (atomicity): The OCR pass checks ocrAborts, awaits two lookups,
  then registers itself: two passes over one document may start. Both passes are steps of the model.
  The index survives the second pass, because each clears the chunks before it inserts, unless a
  rebuild runs beside them.
- `state/documents.svelte.ts:357` (stale_state): The interrupted-ingest check of processingIds is
  made before an await and used after it: a file staged meanwhile is cleared under its own
  processDocument. A schedule of the model shows it: a file staged between the test and deleteChunks
  loses its chunks and is processed a second time; the end state is right again.
- `state/documents.svelte.ts:461` (partial_failure): One file of a selection cannot be read after
  others were staged: their rows stay in progress with nobody working on them until the next start.
  LibrarySession reaches it (a text with a folder after it); IngestSettles says so: such rows
  (`leftBehind`) wait for the next start, and end then.
- `state/documents.svelte.ts:1045` (partial_failure): Deleting a document removes the row and its
  index but leaves documents/<hash> in OPFS, which nothing else collects. Visible in one step of the
  model: Remove leaves the originals alone.
- `state/documents.svelte.ts:394` (partial_failure): A parser exception in repairOcrIndexes rejects
  the whole boot chain and skips the index rebuild. Modelled (RecheckThrows, phase stopped) but no
  doc promises more; the properties that speak of the end of start-up exclude it.
- `state/documents.svelte.ts:1273` (partial_failure): A crash between replaceDocument and
  setDocumentStatus leaves the old embedding_model on the new content. embedding_model is not
  modelled.
- `state/documents.svelte.ts:513` (partial_failure): getLocalDb() in processDocument is outside the
  try: a rejection there strands the id in processingIds. The memoised promise is already resolved
  whenever processDocument runs, so no reachable state shows it.
- `private-ai/model-load-coordinator.ts:49` (interleaving): The flight is published before its start
  function has run: another call can act in between. UnloadLeavesNoEngine states it and fails on the
  code as it is: see above.
- `src/src/service-worker.ts:205` (partial_failure): A reload fails half-way through a switch of
  models: the old model is gone and the new one never came. AdvertisedIsHeld.
- `private-ai/model-load-coordinator.ts:96` (ordering): Loads, generations and unloads queued at one
  gate wake in order and each must look at the gate again. CoordinatorExcludes, EveryCallEnds.
- `state/chats.svelte.ts:2182` (stale_state): The send policy and the documents are read from the
  active chat after retrieval, when the user may have opened another one. NothingLeavesUnreviewed
  states it and fails on the code as it is: see above.
- `state/chats.svelte.ts:878` (stale_state): A turn that ends after the user has opened another chat
  puts its own messages on that chat's page; Try again and the pencil then act on them.
  VersionsShareAChat states it and fails on the code as it is: see above.
- `local-db/worker.ts:1178` (protocol_sequence): Retire, activate, delete message and delete chat
  each issue FTS delete commands; any order that names a row twice corrupts an index that cannot
  check. IndexMirrorsActive states it and fails on the code as it is: see above.
- `state/chats.svelte.ts:469` (interleaving): Versions are switched, an answer retired and a new one
  inserted by independent calls. OneActiveVersion states it and fails on the code as it is: see
  above.
- `state/chats.svelte.ts:2183` (timeout_retry): A review confirmed twice, or confirmed and
  cancelled. OneExchangePerRequest.
- `state/chats.svelte.ts:754` (atomicity): editLast deletes messages one await at a time without
  sending set; a turn begun meanwhile makes its own send give up, and the edited question is lost.
  Reachable in the model (Cleared with sending set).
- `state/chats.svelte.ts:2316` (crash_recovery): The answer and its privacy event are two
  transactions; a reload in between leaves an answer without a record. Reloads of the chat page are
  not modelled.
- `state/chats.svelte.ts:1281` (partial_failure): The engine dies on a replay with fewer passages:
  the text streamed so far is kept beside the longer list. CitationsArePositional.
- `local-db/client.ts:53` (partial_failure): db.init() fails after the page lock was taken: nothing
  but closing the page gives it back. RefusedByAnother states it and fails on the code as it is: see
  above.
- `state/settings.svelte.ts:55` (stale_state): The settings are read after an await and assigned
  over what the user may have changed meanwhile. OfflineMeansOffline states it and fails on the code
  as it is: see above.
- `state/settings.svelte.ts:53` (protocol_sequence): loaded is latched before the read: a first
  refusal is never read again. OfflineMeansOffline states it and fails on the code as it is: see
  above.
- `panic-wipe.ts:147` (liveness): A shutdown, a native wipe or a deletion that never settles must
  not leave the control disabled. WipeEnds.
- `private-ai/webllm-client.ts:206` (liveness): A load posted to a worker that dies is never
  answered; only the watchdog ends it. PreparationEnds.
- `private-ai/webllm-client.ts:276` (liveness): An answer that dies with its worker and dies again
  after the reload must still end. AnswerEnds.
- `private-ai/llm.svelte.ts:304` (resource_bound): Each failure for want of room takes another rung:
  the steps must descend, be counted and stop. LadderDescends, stated in Readiness, which holds.
- `state/models.svelte.ts:91` (protocol_sequence): The weights are removed while they are being
  loaded: the load then marks as prepared what is no longer cached. RemoveWeights is an action of
  Readiness; the content of the caches is not modelled, and a marker too many costs a longer
  watchdog, not an answer.
- `private-ai/llm.svelte.ts:422` (liveness): An answer of the CPU engine has no watchdog: a wllama
  worker that hangs leaves the page generating. AnswerEnds is stated for the GPU engines only, since
  the code promises nothing here.
- `private-ai/llm.svelte.ts:139` (protocol_sequence): reset() by the landing demo clears the tier
  under a preparation still in flight. The demo is not modelled: it shares a page with the
  application only through the history of the browser.
- `private-ai/webllm-client.ts:320` (stale_state): The second request of a recovered answer streams
  into the same callback as the first: the text shown holds a half answer and a whole one. The text
  of an answer is not modelled; the stored answer is that of the second request.
- `state/documents.svelte.ts:1014` (stale_state): A run over passages that hold no amount (or were
  gone for a moment) leaves a marker without facts; insertChunks does not clear it, and later exact
  answers find nothing in that document. MarkersStand speaks of markers left with facts. A marker
  left by an empty run while OCR has taken the passages out stays, and only the next rebuild clears
  it.
- `state/documents.svelte.ts:1016` (ordering): A document known when the markers were listed is
  rewritten before its facts are listed: its amounts are silently missing from the sum. Reachable in
  the model (ListRuns, Reindex, Answer); specs/026 asks to inspect every matching record, so nothing
  true can be stated short of excluding the schedule.
- `state/documents.svelte.ts:998` (interleaving): Two inquiries extract the facts of one document at
  the same time. FactsAreCurrent, MarkersStand.
- `state/documents.svelte.ts:646` (numeric_edge): Variants of several requests are flattened into
  one list; an index into it taken for the index of a request searches another scope. ScopeIsKept.
- `pipeline/retrieval.ts:101` (resource_bound): Candidates and their context share the room of a
  channel. ContextCostsNoRecall, stated in Retrieval, which holds.
- `pipeline/retrieval.ts:1881` (resource_bound): Two texts without a word of three letters are never
  alike, not even to themselves: a row of short numbers is packed once for every list that names it.
  Modelled (Repeats with same = None) and not excluded by a property; the README describes it.
- `server/quota.ts:38` (numeric_edge): Concurrent requests read the same usage before either is
  counted. Not modelled; the code accepts the overshoot.

## Not modelled, and why

Text extraction, question understanding and the lexical measures behind ranking and answer checks
are pure functions over text with large fixture suites of their own; as models they would be
transliterations, and where their result decides what happens it is a constant or a free choice.
The cloud endpoint keeps nothing between two requests but a counter whose overshoot its own comment
accepts (quota.ts:33-36). My AI is a private turn with a post in place of a generation. The states
of the PWA shell are the browser's. Authentication is a library's. Viewer, advisories and the other
settings are single assignments. The interface is rendering: what it allows the user to do, and
when, is in the guards of the user's actions.

Inside the modelled parts: a reload of the chat page between an answer and its privacy event;
progress reports; worker scripts that never load; the reset of the landing demo; markers shared by
two tabs; an answer on the CPU, which has no watchdog and is owed no end.
