------------------------------ MODULE Library ------------------------------
(***************************************************************************)
(* The document library of one browser tab: DocumentsStore in              *)
(* state/documents.svelte.ts, over the database of DocStore.               *)
(*                                                                         *)
(* Everything runs on one thread, and gives way only at an await.  A body  *)
(* is one running processDocument, reindex, ocrDocument or repair step; it *)
(* occupies a slot and its pc names the await it is suspended at.  One     *)
(* action is the code from one await to the next, the database call it     *)
(* ends with included: the database worker serves calls in the order they  *)
(* are made, so a call takes effect when it is made, and the page learns   *)
(* of it in that same order (inbox).                                       *)
(***************************************************************************)
EXTENDS DocStore, FiniteSets

CONSTANTS
    Native,       \* contents with pages whose text can be extracted
    Imaged,       \* contents with image-only pages, which need OCR
    Unreadable,   \* files whose arrayBuffer() rejects (a folder, a file gone)
    Slots,        \* bodies that may run at the same time (bound)
    Requests,     \* calls of the interface that may overlap (bound)
    Selections,   \* the lists of files that can be dropped at once
    UserCalls,    \* which calls the user makes in this instance
    CallPhases,   \* and during which start-up phases
    Concurrency,  \* workers of one processMany (3 in the code)
    StoreMayFail, \* may OPFS refuse a write?
    OldDocs,      \* [ids -> contents] already indexed by an earlier release
    MaxCalls,     \* bound on the user's calls
    MaxReloads,   \* bound on crashes and reloads
    None

ASSUME LibraryAssumption ==
    /\ IsFiniteSet(Docs)
    /\ Contents # {}
    /\ MaxCalls \in Nat /\ MaxReloads \in Nat
    /\ Native \subseteq Contents
    /\ Imaged \subseteq Contents
    /\ Selections \subseteq Seq(Contents \cup Unreadable)
    /\ Concurrency \in Nat \ {0}
    /\ DOMAIN OldDocs \subseteq Docs
    /\ \A d \in DOMAIN OldDocs : OldDocs[d] \in Contents
    /\ \A d, e \in DOMAIN OldDocs : OldDocs[d] = OldDocs[e] => d = e
    /\ StoreMayFail \in BOOLEAN
    /\ Slots \cap Requests = {}
    /\ None \notin Docs \cup Contents \cup Slots \cup Requests
    /\ "boot" \notin Requests /\ "chain" \notin Requests

VARIABLES
    body,        \* [Slots -> what runs there]
    queue,       \* [Callers -> the calls it has still to make]
    inbox,       \* tasks whose database call is not answered yet, oldest first
    processing,  \* processingIds
    ocrAborts,   \* [Docs -> the pass holding the document's controller]
    request,     \* [Requests -> progress of an ingestMany or replace]
    phase,       \* which of the three start-up repairs is running
    ocrIndexed,  \* localStorage OCR_INDEX_VERSION_KEY is up to date
    shownReady,  \* documents the interface shows as ready (this.library)
    calls,       \* user calls made so far (bound)
    reloads      \* reloads so far (bound)

flags   == <<processing, ocrAborts>>
callers == <<queue, request, phase, ocrIndexed>>
bounds  == <<calls, reloads>>
vars    == <<store, body, inbox, flags, callers, shownReady, bounds>>

Callers == Requests \cup {"boot", "chain"}
Tasks   == Slots \cup Requests

\* pcs of processDocument and reindex, between startProcessing and endProcessing
ProcessPCs == {"storing", "writing", "parsing", "chunking", "embedding", "indexed",
               "scanned", "finish", "riRow", "riCounted", "riRun"}
RepairPCs  == {"resume", "cleared", "recheck", "recheckOcr"}
OcrPCs     == {"ocrRow", "ocrRun", "ocrInsert", "ocrReady", "ocrEnd"}
Suspended  == ProcessPCs \cup RepairPCs \cup OcrPCs

Body == [pc : {"idle"} \cup Suspended, doc : Docs \cup {None}, hash : Contents \cup {None},
         bytes : Bytes, had : BOOLEAN, owner : Callers \cup {None}]
Idle == [pc |-> "idle", doc |-> None, hash |-> None,
         bytes |-> "absent", had |-> FALSE, owner |-> None]

Phases == {"init", "resuming", "rechecking", "rebuilding", "up", "stopped"}
Ops  == {"process", "ocr", "reindex", "resume", "recheck"}
Call == [op : Ops, doc : Docs, hash : Contents]

Request   == [pc : {"idle", "stage", "found", "restage", "replace", "replaceStored", "replaced"},
              left : Seq(Contents \cup Unreadable), jobs : Seq(Call),
              doc : Docs \cup {None}, seen : Statuses \cup {None}, hash : Contents \cup {None}]
NoRequest == [pc |-> "idle", left |-> <<>>, jobs |-> <<>>,
              doc |-> None, seen |-> None, hash |-> None]

TypeOK ==
    /\ StoreTypeOK
    /\ body \in [Slots -> Body]
    /\ queue \in [Callers -> Seq(Call)]
    /\ inbox \in Seq(Tasks)
    /\ processing \subseteq Docs
    /\ ocrAborts \in [Docs -> Slots \cup {None}]
    /\ request \in [Requests -> Request]
    /\ phase \in Phases
    /\ ocrIndexed \in BOOLEAN
    /\ shownReady \subseteq Docs
    /\ calls \in 0..MaxCalls
    /\ reloads \in 0..MaxReloads

-----------------------------------------------------------------------------
(***************************************************************************)
(* Database calls and their answers.                                       *)
(***************************************************************************)
Waits(t)    == \E i \in DOMAIN inbox : inbox[i] = t
First(t)    == inbox # <<>> /\ Head(inbox) = t
Answered(t) == First(t) \/ ~Waits(t)
Rest(t)     == IF First(t) THEN Tail(inbox) ELSE inbox
Ask(t)      == inbox' = Append(Rest(t), t)  \* resume, and make the next call
Resume(t)   == inbox' = Rest(t)             \* resume, no further call

\* The answer was only awaited before slower work (parsing, OCR, embedding):
\* the page has it, and the worker's next answer can be delivered.
SlowPCs == {"parsing", "embedding", "ocrRow", "ocrRun", "riCounted"}
Deliver ==
    /\ inbox # <<>>
    /\ \/ Head(inbox) \in Slots /\ body[Head(inbox)].pc \in SlowPCs
       \/ Head(inbox) \in Requests /\ request[Head(inbox)].pc = "stage"
    /\ inbox' = Tail(inbox)
    /\ UNCHANGED <<store, body, flags, callers, shownReady, bounds>>

At(s, pc)  == body[s].pc = pc /\ Answered(s)
Doc(s)     == body[s].doc
Goto(s, pc) == body' = [body EXCEPT ![s].pc = pc]
Free(s)    == body' = [body EXCEPT ![s] = Idle]
Refresh    == shownReady' = {d \in Docs : rows'[d].status = "ready"}

\* What parsing finds in the bytes a body holds.
HasText(s)  == body[s].bytes = "whole" /\ body[s].hash \in Native
NeedsOcr(s) == body[s].bytes = "whole" /\ body[s].hash \in Imaged
FullBatch(s) == [of |-> body[s].hash, full |-> TRUE]

(***************************************************************************)
(* Callers.  Each hands its calls over in order, with a limit on how many  *)
(* run at once: processMany's workers, the two workers of the retrieval    *)
(* repair, the single-file loops of the other repairs, and ocrChain.       *)
(***************************************************************************)
Running(c) == {s \in Slots : body[s].owner = c}
Limit(c) == CASE c = "chain" -> 1
              [] c = "boot"  -> IF phase = "rebuilding" THEN 2 ELSE 1
              [] OTHER       -> Concurrency
Drained(c) == queue[c] = <<>> /\ Running(c) = {}

Take(s, c, op) ==
    /\ body[s].pc = "idle"
    /\ queue[c] # <<>>
    /\ Head(queue[c]).op = op
    /\ Cardinality(Running(c)) < Limit(c)
    /\ queue' = [queue EXCEPT ![c] = Tail(@)]

Begin(s, c, pc, d, h, b) ==
    body' = [body EXCEPT ![s] = [pc |-> pc, doc |-> d, hash |-> h,
                                 bytes |-> b, had |-> FALSE, owner |-> c]]
-----------------------------------------------------------------------------
(***************************************************************************)
(* processDocument: parse, chunk, embed, index one staged document.        *)
(***************************************************************************)
\* Mutant of Enter: no look at processingIds.
EnterUnchecked(s, c, d, h, b) ==
    /\ processing' = processing \cup {d}
    /\ Begin(s, c, "storing", d, h, b)

\* Up to its first await: give up if the document is being processed.
Enter(s, c, d, h, b) ==
    /\ processing' = processing \cup {d}
    /\ IF d \in processing THEN Free(s) ELSE Begin(s, c, "storing", d, h, b)

StartProcess(s, c) ==
    /\ Take(s, c, "process")
    /\ Enter(s, c, Head(queue[c]).doc, Head(queue[c]).hash, "whole")
    /\ UNCHANGED <<store, inbox, ocrAborts, request, phase, ocrIndexed, shownReady, bounds>>

\* storeOriginal: the directory entry first, empty, then the bytes; a refusal
\* is logged and swallowed wherever it happens, and ingestion carries on.
CreateOriginal(s) ==
    /\ At(s, "storing")
    /\ Goto(s, "writing")
    /\ originals' = [originals EXCEPT ![body[s].hash] = IF @ = "absent" THEN "empty" ELSE @]
    /\ UNCHANGED <<rows, chunks, inbox, flags, callers, shownReady, bounds>>

MarkParsing(s, stored) ==
    /\ Goto(s, "parsing")
    /\ originals' = stored
    /\ SetStatus(Doc(s), "parsing", "none") /\ Ask(s)
    /\ UNCHANGED <<flags, callers, shownReady, bounds>>

WriteOriginal(s) ==
    /\ At(s, "writing")
    /\ MarkParsing(s, [originals EXCEPT ![body[s].hash] = body[s].bytes])

StoreRefused(s) ==
    /\ StoreMayFail
    /\ At(s, "storing") \/ At(s, "writing")
    /\ MarkParsing(s, originals)

Parsed(s) ==
    /\ At(s, "parsing")
    /\ body[s].bytes = "whole"
    /\ Goto(s, "chunking")
    /\ SetStatus(Doc(s), "chunking", "none") /\ Ask(s)
    /\ UNCHANGED <<originals, flags, callers, shownReady, bounds>>

Chunked(s) ==
    /\ At(s, "chunking")
    /\ \/ /\ HasText(s)
          /\ Goto(s, "embedding")
          /\ SetStatus(Doc(s), "embedding", "none")
       \/ /\ ~HasText(s) /\ NeedsOcr(s)
          /\ Goto(s, "scanned")
          /\ SetStatus(Doc(s), "scanned", "none")
    /\ Ask(s)
    /\ UNCHANGED <<originals, flags, callers, shownReady, bounds>>

\* A mixed document gets a partial index of its text pages before OCR.
Embedded(s) ==
    /\ At(s, "embedding")
    /\ InsertChunks(Doc(s), [of |-> body[s].hash, full |-> ~NeedsOcr(s)])
    /\ Goto(s, "indexed") /\ Ask(s)
    /\ UNCHANGED <<originals, flags, callers, shownReady, bounds>>

Indexed(s) ==
    /\ At(s, "indexed")
    /\ IF NeedsOcr(s)
       THEN Goto(s, "scanned") /\ SetStatus(Doc(s), "scanned", "none")
       ELSE Goto(s, "finish") /\ SetStatus(Doc(s), "ready", "none")
    /\ Ask(s)
    /\ UNCHANGED <<originals, flags, callers, shownReady, bounds>>

\* The catch: unreadable bytes, a parser or model failure, no usable text, or
\* a foreign key that no longer resolves.
ProcessFails(s) ==
    /\ \/ At(s, "storing") \/ At(s, "parsing") \/ At(s, "embedding")
       \/ At(s, "chunking") /\ ~HasText(s) /\ ~NeedsOcr(s)
    /\ Goto(s, "finish")
    /\ SetStatus(Doc(s), "error", "unusable") /\ Ask(s)
    /\ UNCHANGED <<originals, flags, callers, shownReady, bounds>>

\* Mutant of Finish: a scanned document is not handed to the OCR chain.
FinishForgetsOcr(s) ==
    /\ At(s, "finish") \/ At(s, "scanned")
    /\ Free(s) /\ Resume(s)
    /\ processing' = processing \ {Doc(s)}
    /\ UNCHANGED store
    /\ Refresh
    /\ UNCHANGED <<queue, ocrAborts, request, phase, ocrIndexed, bounds>>

\* endProcessing; a document left in scanned joins the OCR chain.
Finish(s) ==
    /\ \/ /\ At(s, "finish")
          /\ UNCHANGED queue
       \/ /\ At(s, "scanned")
          /\ queue' = [queue EXCEPT !["chain"] =
                Append(@, [op |-> "ocr", doc |-> Doc(s), hash |-> body[s].hash])]
    /\ Free(s) /\ Resume(s)
    /\ processing' = processing \ {Doc(s)}
    /\ UNCHANGED store
    /\ Refresh
    /\ UNCHANGED <<ocrAborts, request, phase, ocrIndexed, bounds>>
-----------------------------------------------------------------------------
(***************************************************************************)
(* reindex: rebuild the index of a document from the stored original.      *)
(***************************************************************************)
StartReindex(s, c) ==
    LET d == Head(queue[c]).doc IN
    /\ Take(s, c, "reindex")
    /\ IF d \in processing \/ ocrAborts[d] # None
       THEN Free(s) /\ UNCHANGED <<processing, inbox>>
       ELSE /\ processing' = processing \cup {d}
            /\ Begin(s, c, IF Exists(d) THEN "riRow" ELSE "finish", d, rows[d].hash, "absent")
            /\ Ask(s)
    /\ UNCHANGED <<store, ocrAborts, request, phase, ocrIndexed, shownReady, bounds>>

CountBefore(s) ==
    /\ At(s, "riRow")
    /\ body' = [body EXCEPT ![s].pc = "riCounted", ![s].had = chunks[Doc(s)] # <<>>]
    /\ Ask(s)
    /\ UNCHANGED <<store, flags, callers, shownReady, bounds>>

\* A failed rebuild touches the row only when there was no index to keep.
ReindexGivesUp(s, error) ==
    /\ Goto(s, "finish")
    /\ IF body[s].had THEN Resume(s) /\ UNCHANGED <<rows, chunks>>
                      ELSE SetStatus(Doc(s), "error", error) /\ Ask(s)
    /\ UNCHANGED <<originals, flags, callers, shownReady, bounds>>

\* Mutant of ReadToReindex: clear the index now, refill it later.
ClearThenReindex(s) ==
    /\ At(s, "riCounted")
    /\ IF originals[body[s].hash] = "absent"
       THEN ReindexGivesUp(s, "original_missing")
       ELSE /\ DeleteChunks(Doc(s))
            /\ body' = [body EXCEPT ![s].pc = "riRun", ![s].bytes = originals[body[s].hash]]
            /\ Ask(s)
            /\ UNCHANGED <<originals, flags, callers, shownReady, bounds>>

ReadToReindex(s) ==
    /\ At(s, "riCounted")
    /\ IF originals[body[s].hash] = "absent"
       THEN ReindexGivesUp(s, "original_missing")
       ELSE /\ body' = [body EXCEPT ![s].pc = "riRun", ![s].bytes = originals[body[s].hash]]
            /\ Resume(s)
            /\ UNCHANGED <<store, flags, callers, shownReady, bounds>>

SwapIndex(s) ==
    /\ At(s, "riRun")
    /\ HasText(s) \/ NeedsOcr(s)
    /\ ReindexDocument(Doc(s), FullBatch(s))
    /\ Goto(s, "finish") /\ Ask(s)
    /\ UNCHANGED <<originals, flags, callers, shownReady, bounds>>

ReindexFails(s) == At(s, "riRun") /\ ReindexGivesUp(s, "unusable")
-----------------------------------------------------------------------------
(***************************************************************************)
(* ocrDocument: read the image pages, then rebuild the index over all of   *)
(* them.  The pass is registered in ocrAborts only after two lookups.      *)
(***************************************************************************)
OcrLookUp(s, c, d) ==
    IF ocrAborts[d] # None \/ ~Exists(d)
    THEN Free(s) /\ Resume(s)
    ELSE Begin(s, c, "ocrRow", d, rows[d].hash, "absent") /\ Ask(s)

StartOcr(s, c) ==
    /\ Take(s, c, "ocr")
    /\ OcrLookUp(s, c, Head(queue[c]).doc)
    /\ UNCHANGED <<store, flags, request, phase, ocrIndexed, shownReady, bounds>>

RegisterOcr(s) ==
    /\ At(s, "ocrRow")
    /\ IF originals[body[s].hash] = "absent"
       THEN /\ SetStatus(Doc(s), "error", "original_missing")
            /\ Free(s) /\ Resume(s) /\ Refresh
            /\ UNCHANGED ocrAborts
       ELSE /\ ocrAborts' = [ocrAborts EXCEPT ![Doc(s)] = s]
            /\ body' = [body EXCEPT ![s].pc = "ocrRun", ![s].bytes = originals[body[s].hash]]
            /\ SetStatus(Doc(s), "ocr", "none") /\ Ask(s)
            /\ UNCHANGED shownReady
    /\ UNCHANGED <<originals, processing, callers, bounds>>

\* Pages read, merged, chunked and embedded: drop the old chunks ...
OcrDropOld(s) ==
    /\ At(s, "ocrRun")
    /\ HasText(s) \/ NeedsOcr(s)
    /\ DeleteChunks(Doc(s))
    /\ Goto(s, "ocrInsert") /\ Ask(s)
    /\ UNCHANGED <<originals, flags, callers, shownReady, bounds>>

\* ... and insert the new ones, in a transaction of its own.
OcrInsert(s) ==
    /\ At(s, "ocrInsert")
    /\ IF Exists(Doc(s))
       THEN InsertChunks(Doc(s), FullBatch(s)) /\ Goto(s, "ocrReady")
       ELSE SetStatus(Doc(s), "error", "unusable") /\ Goto(s, "ocrEnd")
    /\ Ask(s)
    /\ UNCHANGED <<originals, flags, callers, shownReady, bounds>>

OcrReady(s) ==
    /\ At(s, "ocrReady")
    /\ SetStatus(Doc(s), "ready", "none")
    /\ Goto(s, "ocrEnd") /\ Ask(s)
    /\ UNCHANGED <<originals, flags, callers, shownReady, bounds>>

OcrFails(s) ==
    /\ At(s, "ocrRun")
    /\ SetStatus(Doc(s), "error", "unusable")
    /\ Goto(s, "ocrEnd") /\ Ask(s)
    /\ UNCHANGED <<originals, flags, callers, shownReady, bounds>>

\* The finally removes the document's controller, whichever pass owns it.
OcrEnd(s) ==
    /\ At(s, "ocrEnd")
    /\ ocrAborts' = [ocrAborts EXCEPT ![Doc(s)] = None]
    /\ Free(s) /\ Resume(s)
    /\ UNCHANGED store
    /\ Refresh
    /\ UNCHANGED <<processing, callers, bounds>>
-----------------------------------------------------------------------------
(***************************************************************************)
(* Start-up: resume interrupted ingests, then look for scanned files that  *)
(* an earlier release indexed without OCR, then rebuild outdated indexes.  *)
(* Each repair works through the documents it listed when it began.        *)
(***************************************************************************)
Orderings(S) == {q \in [1..Cardinality(S) -> S] :
                    \A i, j \in DOMAIN q : q[i] = q[j] => i = j}
CallsFor(op, S) == {[i \in DOMAIN q |-> [op |-> op, doc |-> q[i], hash |-> rows[q[i]].hash]] :
                        q \in Orderings(S)}

BootPhase(next, op, S) ==
    /\ phase' = next
    /\ \E list \in CallsFor(op, S) : queue' = [queue EXCEPT !["boot"] = list]
    /\ UNCHANGED <<store, body, inbox, flags, request, bounds>>

\* Mutant of BootResume: documents waiting for OCR are not listed.
ResumeSkipsScanned ==
    /\ phase = "init"
    /\ BootPhase("resuming", "resume", {d \in Docs : rows[d].status \in InFlight \ {"scanned"}})
    /\ Refresh
    /\ UNCHANGED ocrIndexed

BootResume ==
    /\ phase = "init"
    /\ BootPhase("resuming", "resume", {d \in Docs : rows[d].status \in InFlight})
    /\ Refresh
    /\ UNCHANGED ocrIndexed

BootRecheck ==
    /\ phase = "resuming" /\ Drained("boot")
    /\ BootPhase("rechecking", "recheck",
                 {d \in Docs : ~ocrIndexed /\ rows[d].status = "ready"})
    /\ UNCHANGED <<ocrIndexed, shownReady>>

BootRebuild ==
    /\ phase = "rechecking" /\ Drained("boot")
    /\ ocrIndexed' = TRUE
    /\ BootPhase("rebuilding", "reindex",
                 {d \in Docs : /\ rows[d].status = "ready"
                               /\ d \notin processing /\ ocrAborts[d] = None
                               /\ ~rows[d].current \/ chunks[d] = <<>>})
    /\ UNCHANGED shownReady

BootDone ==
    /\ phase = "rebuilding" /\ Drained("boot")
    /\ phase' = "up"
    /\ UNCHANGED <<store, body, inbox, flags, queue, request, ocrIndexed, bounds>>
    /\ Refresh

\* repairInterruptedIngests, one document: skipped if someone is on it.
StartResume(s) ==
    LET call == Head(queue["boot"]) IN
    /\ Take(s, "boot", "resume")
    /\ IF call.doc \in processing \/ ocrAborts[call.doc] # None
       THEN Free(s)
       ELSE Begin(s, "boot", "resume", call.doc, call.hash, "absent")
    /\ UNCHANGED <<store, inbox, flags, request, phase, ocrIndexed, shownReady, bounds>>

\* Mutant of ClearToResume: whatever was indexed before the crash stays.
ResumeWithoutClear(s) ==
    /\ At(s, "resume")
    /\ IF originals[body[s].hash] = "absent"
       THEN SetStatus(Doc(s), "error", "original_missing") /\ Free(s) /\ Resume(s)
       ELSE /\ body' = [body EXCEPT ![s].pc = "cleared", ![s].bytes = originals[body[s].hash]]
            /\ UNCHANGED <<rows, chunks>>
            /\ Ask(s)
    /\ UNCHANGED <<originals, flags, callers, shownReady, bounds>>

ClearToResume(s) ==
    /\ At(s, "resume")
    /\ IF originals[body[s].hash] = "absent"
       THEN SetStatus(Doc(s), "error", "original_missing") /\ Free(s) /\ Resume(s)
       ELSE /\ DeleteChunks(Doc(s))
            /\ body' = [body EXCEPT ![s].pc = "cleared", ![s].bytes = originals[body[s].hash]]
            /\ Ask(s)
    /\ UNCHANGED <<originals, flags, callers, shownReady, bounds>>

ResumeProcess(s) ==
    /\ At(s, "cleared")
    /\ Enter(s, "boot", Doc(s), body[s].hash, body[s].bytes)
    /\ Resume(s)
    /\ UNCHANGED <<store, ocrAborts, callers, shownReady, bounds>>

\* repairOcrIndexes, one document: re-parse it, and read its image pages.
StartRecheck(s) ==
    /\ Take(s, "boot", "recheck")
    /\ Begin(s, "boot", "recheck", Head(queue["boot"]).doc, Head(queue["boot"]).hash, "absent")
    /\ UNCHANGED <<store, inbox, flags, request, phase, ocrIndexed, shownReady, bounds>>

NothingToRecheck(s) ==
    /\ At(s, "recheck")
    /\ originals[body[s].hash] = "absent" \/ body[s].hash \notin Imaged
    /\ Free(s)
    /\ UNCHANGED <<store, inbox, flags, callers, shownReady, bounds>>

MarkScanned(s) ==
    /\ At(s, "recheck")
    /\ originals[body[s].hash] = "whole" /\ body[s].hash \in Imaged
    /\ SetStatus(Doc(s), "scanned", "none")
    /\ Goto(s, "recheckOcr") /\ Ask(s)
    /\ UNCHANGED <<originals, flags, callers, shownReady, bounds>>

\* A parse that throws rejects the whole start-up chain.
RecheckThrows(s) ==
    /\ At(s, "recheck")
    /\ originals[body[s].hash] # "absent"
    /\ Free(s)
    /\ queue' = [queue EXCEPT !["boot"] = <<>>]
    /\ phase' = "stopped"
    /\ UNCHANGED <<store, inbox, flags, request, ocrIndexed, bounds>>
    /\ Refresh

RecheckOcr(s) ==
    /\ At(s, "recheckOcr")
    /\ OcrLookUp(s, "boot", Doc(s))
    /\ UNCHANGED <<store, flags, callers, shownReady, bounds>>
-----------------------------------------------------------------------------
(***************************************************************************)
(* Calls of the interface.                                                 *)
(***************************************************************************)
Available(r) == request[r].pc = "idle" /\ Drained(r)
UserCall(kind) == /\ kind \in UserCalls /\ phase \in CallPhases
                  /\ calls < MaxCalls
                  /\ calls' = calls + 1
                  /\ UNCHANGED reloads
AtR(r, pc) == request[r].pc = pc /\ Answered(r)
Job(r, d)  == [op |-> "process", doc |-> d, hash |-> Head(request[r].left)]
NextFile(r, jobs) == request' = [request EXCEPT ![r] =
    [NoRequest EXCEPT !.pc = "stage", !.left = Tail(request[r].left), !.jobs = jobs]]
Done(r) == request' = [request EXCEPT ![r] = NoRequest]

\* ingestMany: stage the files one after the other (stageDocument) ...
IngestMany(r, files) ==
    /\ UserCall("ingest")
    /\ Available(r)
    /\ request' = [request EXCEPT ![r] = [NoRequest EXCEPT !.pc = "stage", !.left = files]]
    /\ UNCHANGED <<store, body, inbox, flags, queue, phase, ocrIndexed, shownReady>>

LookUpHash(r) ==
    /\ AtR(r, "stage")
    /\ request[r].left # <<>>
    /\ LET h == Head(request[r].left) IN
       IF h \in Unreadable
       THEN Done(r) /\ Resume(r)    \* rejects: what was staged is never queued
       ELSE /\ \/ \E d \in Docs : /\ HasHash(d, h)
                                  /\ request' = [request EXCEPT ![r].pc = "found", ![r].doc = d,
                                                                ![r].seen = rows[d].status]
               \/ /\ ~ \E d \in Docs : HasHash(d, h)
                  /\ request' = [request EXCEPT ![r].pc = "found"]
            /\ Ask(r)
    /\ UNCHANGED <<store, body, flags, queue, phase, ocrIndexed, shownReady, bounds>>

InsertNew(r) ==
    /\ AtR(r, "found")
    /\ request[r].doc = None
    /\ \/ \E d \in Docs : /\ InsertDocument(d, Head(request[r].left))
                          /\ NextFile(r, Append(request[r].jobs, Job(r, d)))
                          /\ Ask(r)
       \/ /\ \E d \in Docs : HasHash(d, Head(request[r].left))   \* UNIQUE
          /\ Done(r) /\ Resume(r)
          /\ UNCHANGED <<rows, chunks>>
    /\ UNCHANGED <<originals, body, flags, queue, phase, ocrIndexed, shownReady, bounds>>

Restageable(r) == LET d == request[r].doc IN
    /\ request[r].seen # "ready"
    /\ d \notin processing /\ ocrAborts[d] = None

StageAgain(r) ==
    /\ AtR(r, "found")
    /\ request[r].doc # None /\ Restageable(r)
    /\ DeleteChunks(request[r].doc)
    /\ request' = [request EXCEPT ![r].pc = "restage"]
    /\ Ask(r)
    /\ UNCHANGED <<originals, body, flags, queue, phase, ocrIndexed, shownReady, bounds>>

StageKnown(r) ==
    /\ AtR(r, "found")
    /\ request[r].doc # None /\ ~Restageable(r)
    /\ NextFile(r, request[r].jobs)
    /\ Resume(r)
    /\ UNCHANGED <<store, body, flags, queue, phase, ocrIndexed, shownReady, bounds>>

MarkReceived(r) ==
    /\ AtR(r, "restage")
    /\ SetStatus(request[r].doc, "received", "none")
    /\ NextFile(r, Append(request[r].jobs, Job(r, request[r].doc)))
    /\ Ask(r)
    /\ UNCHANGED <<originals, body, flags, queue, phase, ocrIndexed, shownReady, bounds>>

\* ... then refresh and let processMany work through the new ones.
ProcessMany(r) ==
    /\ AtR(r, "stage")
    /\ request[r].left = <<>>
    /\ queue' = [queue EXCEPT ![r] = request[r].jobs]
    /\ Done(r) /\ Resume(r)
    /\ UNCHANGED <<store, body, flags, phase, ocrIndexed, bounds>>
    /\ Refresh

\* The button is offered for documents shown as ready.
ReindexCall(r, d) ==
    /\ UserCall("reindex")
    /\ Available(r)
    /\ d \in shownReady
    /\ queue' = [queue EXCEPT ![r] =
            <<[op |-> "reindex", doc |-> d, hash |-> rows[d].hash]>>]
    /\ UNCHANGED <<store, body, inbox, flags, request, phase, ocrIndexed, shownReady>>

\* replace: parse and embed the new file, store it, then swap.
ReplaceCall(r, d, h) ==
    /\ UserCall("replace")
    /\ Available(r)
    /\ Exists(d)
    /\ request' = [request EXCEPT ![r] = [NoRequest EXCEPT !.pc = "replace", !.doc = d, !.hash = h]]
    /\ UNCHANGED <<store, body, inbox, flags, queue, phase, ocrIndexed, shownReady>>

\* What a call of storeOriginal can leave of a file: refused before or after its
\* directory entry was made, or written.
LeftOf(h) == IF ~StoreMayFail THEN {"whole"}
             ELSE {"whole", originals[h]} \cup (IF originals[h] = "absent" THEN {"empty"} ELSE {})

StoreReplacement(r) ==
    /\ AtR(r, "replace")
    /\ request[r].hash \in Native \cup Imaged
    /\ request' = [request EXCEPT ![r].pc = "replaceStored"]
    /\ \E b \in LeftOf(request[r].hash) :
            originals' = [originals EXCEPT ![request[r].hash] = b]
    /\ UNCHANGED <<rows, chunks, body, inbox, flags, queue, phase, ocrIndexed, shownReady, bounds>>

SwapVersion(r) ==
    /\ AtR(r, "replaceStored")
    /\ ReplaceDocument(request[r].doc, request[r].hash, [of |-> request[r].hash, full |-> TRUE])
    /\ request' = [request EXCEPT ![r].pc = "replaced"]
    /\ Ask(r)
    /\ UNCHANGED <<originals, body, flags, queue, phase, ocrIndexed, shownReady, bounds>>

ReplaceDone(r) ==
    /\ AtR(r, "replaced")
    /\ SetStatus(request[r].doc, "ready", "none")
    /\ Done(r) /\ Resume(r)
    /\ UNCHANGED <<originals, body, flags, queue, phase, ocrIndexed, bounds>>
    /\ Refresh

\* Before the swap, or in it: nothing was touched and an error is returned.
ReplaceFails(r) ==
    /\ \/ AtR(r, "replace")
       \/ AtR(r, "replaceStored") /\ (~Exists(request[r].doc) \/
             \E e \in Docs \ {request[r].doc} : HasHash(e, request[r].hash))
    /\ Done(r)
    /\ UNCHANGED <<store, body, inbox, flags, queue, phase, ocrIndexed, bounds>>
    /\ Refresh

Remove(d) ==
    /\ UserCall("remove")
    /\ Exists(d)
    /\ DeleteDocument(d)
    /\ UNCHANGED <<originals, body, inbox, flags, callers>>
    /\ Refresh
-----------------------------------------------------------------------------
\* A tab that has just opened: nothing in memory, the database as it was left.
FreshPage(newBody, newQueue, newRequest, newAborts) ==
    /\ newBody = [s \in Slots |-> Idle]
    /\ newQueue = [c \in Callers |-> <<>>]
    /\ newRequest = [r \in Requests |-> NoRequest]
    /\ newAborts = [d \in Docs |-> None]

Init ==
    /\ rows = [d \in Docs |->
            [hash    |-> IF d \in DOMAIN OldDocs THEN OldDocs[d] ELSE CHOOSE h \in Contents : TRUE,
             status  |-> IF d \in DOMAIN OldDocs THEN "ready" ELSE "unborn",
             error   |-> "none", current |-> FALSE]]
    /\ chunks = [d \in Docs |-> IF d \in DOMAIN OldDocs
            THEN <<[of |-> OldDocs[d], full |-> OldDocs[d] \notin Imaged]>> ELSE <<>>]
    /\ originals = [h \in Contents |->
            IF \E d \in DOMAIN OldDocs : OldDocs[d] = h THEN "whole" ELSE "absent"]
    /\ FreshPage(body, queue, request, ocrAborts)
    /\ inbox = <<>> /\ processing = {} /\ shownReady = {}
    /\ phase = "init" /\ ocrIndexed \in BOOLEAN
    /\ calls = 0 /\ reloads = 0

\* A crash, a closed tab, a reload: every suspended body is gone.
Reload ==
    /\ reloads < MaxReloads
    /\ reloads' = reloads + 1
    /\ FreshPage(body', queue', request', ocrAborts')
    /\ inbox' = <<>> /\ processing' = {} /\ shownReady' = {}
    /\ phase' = "init"
    /\ UNCHANGED <<store, ocrIndexed, calls>>

BodyStep(s) ==
    \/ \E c \in Callers : StartProcess(s, c) \/ StartReindex(s, c) \/ StartOcr(s, c)
    \/ CreateOriginal(s) \/ WriteOriginal(s) \/ StoreRefused(s)
    \/ Parsed(s) \/ Chunked(s) \/ Embedded(s) \/ Indexed(s) \/ ProcessFails(s) \/ Finish(s)
    \/ CountBefore(s) \/ ReadToReindex(s) \/ SwapIndex(s) \/ ReindexFails(s)
    \/ RegisterOcr(s) \/ OcrDropOld(s) \/ OcrInsert(s) \/ OcrReady(s) \/ OcrFails(s) \/ OcrEnd(s)
    \/ StartResume(s) \/ ClearToResume(s) \/ ResumeProcess(s)
    \/ StartRecheck(s) \/ NothingToRecheck(s) \/ MarkScanned(s) \/ RecheckThrows(s) \/ RecheckOcr(s)

RequestStep(r) ==
    \/ LookUpHash(r) \/ InsertNew(r) \/ StageAgain(r) \/ StageKnown(r) \/ MarkReceived(r)
    \/ ProcessMany(r) \/ StoreReplacement(r) \/ SwapVersion(r) \/ ReplaceDone(r) \/ ReplaceFails(r)

BootStep == BootResume \/ BootRecheck \/ BootRebuild \/ BootDone

User ==
    \/ \E r \in Requests :
        \/ \E files \in Selections : IngestMany(r, files)
        \/ \E d \in Docs : ReindexCall(r, d) \/ \E h \in Contents : ReplaceCall(r, d, h)
    \/ \E d \in Docs : Remove(d)

Page == Deliver \/ BootStep \/ (\E s \in Slots : BodyStep(s)) \/ (\E r \in Requests : RequestStep(r))
Next == Page \/ User \/ Reload

Spec == Init /\ [][Next]_vars
\* The event loop keeps running what can run; nobody owes the user's calls or a reload.
Fairness == /\ WF_vars(Deliver) /\ WF_vars(BootStep)
            /\ \A s \in Slots : WF_vars(BodyStep(s))
            /\ \A r \in Requests : WF_vars(RequestStep(r))
-----------------------------------------------------------------------------
(***************************************************************************)
(* Properties.                                                             *)
(***************************************************************************)
Processors == {s \in Slots : body[s].pc \in ProcessPCs}

\* processingIds is a lock: the set holds exactly the documents some
\* processDocument or reindex is at work on, and no document has two.
ProcessingIsExclusive ==
    /\ processing = {Doc(s) : s \in Processors}
    /\ \A s, t \in Processors : Doc(s) = Doc(t) => s = t

\* Somebody in this tab still has the document in hand, or will list it.
Watched(d) ==
    \/ phase = "init"
    \/ \E s \in Slots : Doc(s) = d
    \/ \E c \in Callers : \E i \in DOMAIN queue[c] : queue[c][i].doc = d
    \/ \E r \in Requests : \/ request[r].doc = d
                         \/ \E i \in DOMAIN request[r].jobs : request[r].jobs[i].doc = d

\* Deleting a document while its pages are being read, embedded or rebuilt
\* leaves nothing behind: no later step writes chunks for a row that is gone.
RemovedIsUnindexed == \A d \in Docs : rows[d].status \in NoRow => chunks[d] = <<>>

\* A row shown as in progress is in somebody's hands: no interleaving of
\* ingestMany, the repairs, OCR and reindex strands one until the next start.
NoStrandedRow == \A d \in Docs : rows[d].status \in InFlight => Watched(d)

\* Once nobody works on a ready document and the start-up repairs are over,
\* it is indexed exactly once, from the file its row names, and over every
\* page if the index is of the current version. So it is where OCR follows one
\* processing of a file and nothing overlaps it. ocrDocument looks at ocrAborts
\* and never at processingIds, so the same mixed file dropped again while its
\* pages are queued, or a rebuild begun between two passes over it, can write
\* beside the pass and double the index; a crash then makes it last.
IndexIsExact ==
    \A d \in Docs :
        rows[d].status = "ready" /\ ~Watched(d) /\ phase = "up"
        => /\ Len(chunks[d]) = 1
           /\ chunks[d][1].of = rows[d].hash
           /\ rows[d].current => chunks[d][1].full

\* A document that is ready and searchable is never ready and unsearchable
\* one step later: rebuilding and replacing swap the index in one go. The same
\* overlaps break it: the pass clears the chunks that the other one wrote.
ReadyStaysSearchable ==
    [][\A d \in Docs : rows[d].status = "ready" /\ chunks[d] # <<>> /\ rows'[d].status = "ready"
                        => chunks'[d] # <<>>]_vars

\* stageDocument: "an existing hash is a no-op to process": no file is ever
\* indexed twice over.
NoDoubleIndex == \A d \in Docs : Len(chunks[d]) <= 1

\* replace: "atomic version replacement ... the swap only happens on success":
\* a document never answers from chunks of a file that is not its current one.
IndexOfOneVersion ==
    \A d \in Docs : \A i \in DOMAIN chunks[d] : chunks[d][i].of = rows[d].hash

=============================================================================
