--------------------------- MODULE Library_proofs ---------------------------
(***************************************************************************)
(* What holds of Library for every number of documents, contents, bodies,  *)
(* requests, calls and reloads: its types, that processingIds is a lock,   *)
(* that a deleted document has no chunks, and that no row in progress is   *)
(* left to nobody.                                                         *)
(***************************************************************************)
EXTENDS Library, FiniteSetTheorems, SequenceTheorems, TLAPS

-----------------------------------------------------------------------------
(***************************************************************************)
(* The database: each worker call keeps its tables well formed.            *)
(***************************************************************************)
TablesOK == rows \in [Docs -> Row] /\ chunks \in [Docs -> Seq(Batch)]

\* Any status with any error code may be written.
LEMMA SetStatusTypes ==
    ASSUME TablesOK, NEW d \in Docs, NEW st \in Statuses, NEW e \in Errors, SetStatus(d, st, e)
    PROVE  TablesOK'
BY DEF TablesOK, SetStatus, Exists, Row

LEMMA InsertDocumentTypes ==
    ASSUME TablesOK, NEW d \in Docs, NEW h \in Contents, InsertDocument(d, h)
    PROVE  TablesOK'
BY DEF TablesOK, InsertDocument, Row, Statuses, InFlight, Errors

LEMMA DeleteChunksTypes ==
    ASSUME TablesOK, NEW d \in Docs, DeleteChunks(d)
    PROVE  TablesOK'
BY EmptySeq DEF TablesOK, DeleteChunks

LEMMA InsertChunksTypes ==
    ASSUME TablesOK, NEW d \in Docs, NEW b \in Batch, InsertChunks(d, b)
    PROVE  TablesOK'
<1>1. Append(chunks[d], b) \in Seq(Batch)
    BY AppendProperties DEF TablesOK
<1> QED
    BY <1>1 DEF TablesOK, InsertChunks, Row

LEMMA ReindexDocumentTypes ==
    ASSUME TablesOK, NEW d \in Docs, NEW b \in Batch, ReindexDocument(d, b)
    PROVE  TablesOK'
<1>1. <<b>> \in Seq(Batch)
    OBVIOUS
<1>2. chunks' \in [Docs -> Seq(Batch)]
    BY <1>1 DEF TablesOK, ReindexDocument
<1>3. rows' \in [Docs -> Row]
    <2>1. [rows[d] EXCEPT !.status = "ready", !.error = "none", !.current = TRUE] \in Row
        BY DEF TablesOK, Row, Statuses, Errors
    <2> QED
        BY <2>1 DEF TablesOK, ReindexDocument
<1> QED
    BY <1>2, <1>3 DEF TablesOK

LEMMA ReplaceDocumentTypes ==
    ASSUME TablesOK, NEW d \in Docs, NEW h \in Contents, NEW b \in Batch,
           ReplaceDocument(d, h, b)
    PROVE  TablesOK'
BY DEF TablesOK, ReplaceDocument, Row, Statuses, Errors

LEMMA DeleteDocumentTypes ==
    ASSUME TablesOK, NEW d \in Docs, DeleteDocument(d)
    PROVE  TablesOK'
BY EmptySeq DEF TablesOK, DeleteDocument, Row, Statuses, NoRow
-----------------------------------------------------------------------------
(***************************************************************************)
(* The page: answers, bodies, callers.                                     *)
(***************************************************************************)
Engaged(b) == b.doc \in Docs /\ b.hash \in Contents /\ b.owner \in Callers

BodiesOK ==
    /\ body \in [Slots -> Body]
    /\ \A s \in Slots : body[s].pc # "idle" => Engaged(body[s])

\* A request that looks for a row has a readable file at hand; one that writes
\* a row, a document; one that replaces, the new content too.
Readable(q) == q.left # <<>> /\ Head(q.left) \in Contents

RequestOK(q) ==
    /\ q \in Request
    /\ q.pc \in {"found", "restage"} => Readable(q)
    /\ q.pc \in {"restage", "replace", "replaceStored", "replaced"} => q.doc \in Docs
    /\ q.pc \in {"replace", "replaceStored", "replaced"} => q.hash \in Contents

RequestsOK ==
    /\ request \in [Requests -> Request]
    /\ \A r \in Requests : RequestOK(request[r])

QueuesOK  == queue \in [Callers -> Seq(Call)]
InboxOK   == inbox \in Seq(Tasks)
FlagsOK   == processing \subseteq Docs /\ ocrAborts \in [Docs -> Slots \cup {None}]
CountsOK  == calls \in 0..MaxCalls /\ reloads \in 0..MaxReloads
ShownOK   == phase \in Phases /\ ocrIndexed \in BOOLEAN /\ shownReady \subseteq Docs
FilesOK   == originals \in [Contents -> Bytes]

TypeInv ==
    /\ TablesOK /\ FilesOK /\ BodiesOK /\ QueuesOK
    /\ InboxOK /\ FlagsOK /\ RequestsOK /\ ShownOK /\ CountsOK

LEMMA TypeInvImpliesTypeOK == TypeInv => TypeOK
BY DEF TypeInv, TypeOK, StoreTypeOK, TablesOK, FilesOK, BodiesOK, QueuesOK, InboxOK,
       FlagsOK, RequestsOK, ShownOK, CountsOK

LEMMA InboxTypes ==
    ASSUME InboxOK, NEW t \in Tasks, Ask(t) \/ Resume(t)
    PROVE  InboxOK'
<1>1. Rest(t) \in Seq(Tasks)
    <2>1. CASE First(t)
        BY <2>1, HeadTailProperties DEF InboxOK, Rest, First
    <2>2. CASE ~First(t)
        BY <2>2 DEF InboxOK, Rest
    <2> QED BY <2>1, <2>2
<1>2. CASE Ask(t)
    BY <1>1, <1>2, AppendProperties DEF InboxOK, Ask
<1>3. CASE Resume(t)
    BY <1>1, <1>3 DEF InboxOK, Resume
<1> QED BY <1>2, <1>3

LEMMA GotoTypes ==
    ASSUME BodiesOK, NEW s \in Slots, body[s].pc # "idle", NEW pc \in Suspended, Goto(s, pc)
    PROVE  BodiesOK'
BY DEF BodiesOK, Goto, Body, Engaged

LEMMA FreeTypes ==
    ASSUME BodiesOK, NEW s \in Slots, Free(s)
    PROVE  BodiesOK'
BY DEF BodiesOK, Free, Idle, Body, Engaged, Bytes

LEMMA BeginTypes ==
    ASSUME BodiesOK, NEW s \in Slots, NEW c \in Callers, NEW pc \in Suspended,
           NEW d \in Docs, NEW h \in Contents, NEW b \in Bytes, Begin(s, c, pc, d, h, b)
    PROVE  BodiesOK'
BY DEF BodiesOK, Begin, Body, Engaged

\* A body that goes on with bytes it has just read.
LEMMA ReadTypes ==
    ASSUME BodiesOK, NEW s \in Slots, body[s].pc # "idle", NEW pc \in Suspended, NEW b \in Bytes,
           body' = [body EXCEPT ![s].pc = pc, ![s].bytes = b]
    PROVE  BodiesOK'
<1>1. body' \in [Slots -> Body]
    BY DEF BodiesOK, Body
<1>2. \A r \in Slots : body'[r].pc # "idle" => Engaged(body'[r])
    BY DEF BodiesOK, Body, Engaged
<1> QED BY <1>1, <1>2 DEF BodiesOK

LEMMA CountTypes ==
    ASSUME BodiesOK, NEW s \in Slots, body[s].pc # "idle", NEW pc \in Suspended, NEW h \in BOOLEAN,
           body' = [body EXCEPT ![s].pc = pc, ![s].had = h]
    PROVE  BodiesOK'
<1>1. body' \in [Slots -> Body]
    BY DEF BodiesOK, Body
<1>2. \A r \in Slots : body'[r].pc # "idle" => Engaged(body'[r])
    BY DEF BodiesOK, Body, Engaged
<1> QED BY <1>1, <1>2 DEF BodiesOK

LEMMA TakeTypes ==
    ASSUME QueuesOK, NEW s \in Slots, NEW c \in Callers, NEW op, Take(s, c, op)
    PROVE  QueuesOK' /\ Head(queue[c]) \in Call
<1>1. Head(queue[c]) \in Call /\ Tail(queue[c]) \in Seq(Call)
    BY HeadTailProperties DEF QueuesOK, Take
<1> QED
    BY <1>1 DEF QueuesOK, Take

LEMMA CallerTypes ==
    /\ "boot" \in Callers /\ "chain" \in Callers
    /\ \A r \in Requests : r \in Callers /\ r \in Tasks
    /\ \A s \in Slots : s \in Tasks
BY DEF Callers, Tasks

\* What an action leaves alone keeps its type.
LEMMA FrameTypes ==
    ASSUME TypeInv
    PROVE  /\ UNCHANGED rows /\ UNCHANGED chunks => TablesOK'
           /\ UNCHANGED originals => FilesOK'
           /\ UNCHANGED body => BodiesOK'
           /\ UNCHANGED queue => QueuesOK'
           /\ UNCHANGED inbox => InboxOK'
           /\ UNCHANGED flags => FlagsOK'
           /\ UNCHANGED request => RequestsOK'
           /\ UNCHANGED <<phase, ocrIndexed, shownReady>> => ShownOK'
           /\ UNCHANGED <<phase, ocrIndexed>> /\ Refresh => ShownOK'
           /\ UNCHANGED bounds => CountsOK'
BY DEF TypeInv, TablesOK, FilesOK, BodiesOK, QueuesOK, InboxOK, FlagsOK, RequestsOK,
       ShownOK, CountsOK, flags, bounds, Refresh

LEMMA EngagedTypes ==
    ASSUME TypeInv, NEW s \in Slots, body[s].pc # "idle"
    PROVE  /\ Doc(s) \in Docs /\ body[s].hash \in Contents /\ body[s].bytes \in Bytes
           /\ FullBatch(s) \in Batch
BY DEF TypeInv, BodiesOK, Engaged, Body, Doc, FullBatch, Batch
-----------------------------------------------------------------------------
(***************************************************************************)
(* processDocument.                                                        *)
(***************************************************************************)
LEMMA MarkParsingTypes ==
    ASSUME TypeInv, NEW s \in Slots, body[s].pc # "idle", NEW o \in [Contents -> Bytes],
           MarkParsing(s, o)
    PROVE  TypeInv'
<1>1. TablesOK'
    BY EngagedTypes, SetStatusTypes
    DEF TypeInv, MarkParsing, Statuses, InFlight, Errors
<1>2. BodiesOK'
    BY GotoTypes DEF TypeInv, MarkParsing, Suspended, ProcessPCs
<1>3. InboxOK'
    BY InboxTypes, CallerTypes DEF TypeInv, MarkParsing
<1>4. FilesOK'
    BY DEF MarkParsing, FilesOK
<1> QED
    BY <1>1, <1>2, <1>3, <1>4, FrameTypes DEF TypeInv, MarkParsing, callers

LEMMA EnterTypes ==
    ASSUME TypeInv, NEW s \in Slots, NEW c \in Callers, NEW d \in Docs, NEW h \in Contents,
           NEW b \in Bytes, Enter(s, c, d, h, b), UNCHANGED ocrAborts
    PROVE  BodiesOK' /\ FlagsOK'
<1>1. BodiesOK'
    BY FreeTypes, BeginTypes DEF TypeInv, Enter, Suspended, ProcessPCs
<1>2. FlagsOK'
    BY DEF TypeInv, Enter, FlagsOK
<1> QED BY <1>1, <1>2

LEMMA ProcessTypes ==
    ASSUME TypeInv, NEW s \in Slots,
           \/ \E c \in Callers : StartProcess(s, c)
           \/ CreateOriginal(s) \/ WriteOriginal(s) \/ StoreRefused(s)
           \/ Parsed(s) \/ Chunked(s) \/ Embedded(s) \/ Indexed(s) \/ ProcessFails(s) \/ Finish(s)
    PROVE  TypeInv'
<1>1. ASSUME NEW c \in Callers, StartProcess(s, c) PROVE TypeInv'
    <2>1. QueuesOK' /\ Head(queue[c]) \in Call
        BY <1>1, TakeTypes DEF TypeInv, StartProcess
    <2>2. Head(queue[c]).doc \in Docs /\ Head(queue[c]).hash \in Contents
        BY <2>1 DEF Call
    <2>3. BodiesOK' /\ FlagsOK'
        BY <1>1, <2>2, EnterTypes DEF StartProcess, Bytes
    <2> QED
        BY <1>1, <2>1, <2>3, FrameTypes DEF TypeInv, StartProcess, store
<1>2. CASE CreateOriginal(s)
    <2>1. FilesOK'
        BY <1>2 DEF CreateOriginal, TypeInv, FilesOK, Bytes
    <2>2. BodiesOK'
        BY <1>2, GotoTypes DEF TypeInv, CreateOriginal, At, Suspended, ProcessPCs
    <2> QED
        BY <1>2, <2>1, <2>2, FrameTypes DEF TypeInv, CreateOriginal, callers
<1>3. CASE WriteOriginal(s)
    <2>1. [originals EXCEPT ![body[s].hash] = body[s].bytes] \in [Contents -> Bytes]
        BY <1>3, EngagedTypes DEF TypeInv, FilesOK, WriteOriginal, At
    <2> QED
        BY <1>3, <2>1, MarkParsingTypes DEF WriteOriginal, At
<1>4. CASE StoreRefused(s)
    BY <1>4, MarkParsingTypes DEF StoreRefused, At, TypeInv, FilesOK
<1>5. CASE Parsed(s)
    <2>1. TablesOK'
        BY <1>5, EngagedTypes, SetStatusTypes
        DEF TypeInv, Parsed, At, Statuses, InFlight, Errors
    <2>2. BodiesOK'
        BY <1>5, GotoTypes DEF TypeInv, Parsed, At, Suspended, ProcessPCs
    <2>3. InboxOK'
        BY <1>5, InboxTypes, CallerTypes DEF TypeInv, Parsed
    <2> QED
        BY <1>5, <2>1, <2>2, <2>3, FrameTypes DEF TypeInv, Parsed, callers
<1>6. CASE Chunked(s)
    <2>1. TablesOK'
        BY <1>6, EngagedTypes, SetStatusTypes
        DEF TypeInv, Chunked, At, Statuses, InFlight, Errors
    <2>2. BodiesOK'
        BY <1>6, GotoTypes DEF TypeInv, Chunked, At, Suspended, ProcessPCs
    <2>3. InboxOK'
        BY <1>6, InboxTypes, CallerTypes DEF TypeInv, Chunked
    <2> QED
        BY <1>6, <2>1, <2>2, <2>3, FrameTypes DEF TypeInv, Chunked, callers
<1>7. CASE Embedded(s)
    <2>1. [of |-> body[s].hash, full |-> ~NeedsOcr(s)] \in Batch
        BY <1>7, EngagedTypes DEF Embedded, At, Batch, NeedsOcr
    <2>2. TablesOK'
        BY <1>7, <2>1, EngagedTypes, InsertChunksTypes DEF TypeInv, Embedded, At
    <2>3. BodiesOK'
        BY <1>7, GotoTypes DEF TypeInv, Embedded, At, Suspended, ProcessPCs
    <2>4. InboxOK'
        BY <1>7, InboxTypes, CallerTypes DEF TypeInv, Embedded
    <2> QED
        BY <1>7, <2>2, <2>3, <2>4, FrameTypes DEF TypeInv, Embedded, callers
<1>8. CASE Indexed(s)
    <2>1. TablesOK'
        BY <1>8, EngagedTypes, SetStatusTypes
        DEF TypeInv, Indexed, At, Statuses, InFlight, Errors
    <2>2. BodiesOK'
        BY <1>8, GotoTypes DEF TypeInv, Indexed, At, Suspended, ProcessPCs
    <2>3. InboxOK'
        BY <1>8, InboxTypes, CallerTypes DEF TypeInv, Indexed
    <2> QED
        BY <1>8, <2>1, <2>2, <2>3, FrameTypes DEF TypeInv, Indexed, callers
<1>9. CASE ProcessFails(s)
    <2>1. TablesOK'
        BY <1>9, EngagedTypes, SetStatusTypes
        DEF TypeInv, ProcessFails, At, Statuses, InFlight, Errors
    <2>2. BodiesOK'
        BY <1>9, GotoTypes DEF TypeInv, ProcessFails, At, Suspended, ProcessPCs
    <2>3. InboxOK'
        BY <1>9, InboxTypes, CallerTypes DEF TypeInv, ProcessFails
    <2> QED
        BY <1>9, <2>1, <2>2, <2>3, FrameTypes DEF TypeInv, ProcessFails, callers
<1>10. CASE Finish(s)
    <2>1. BodiesOK' /\ InboxOK'
        BY <1>10, FreeTypes, InboxTypes, CallerTypes DEF TypeInv, Finish
    <2>2. FlagsOK'
        BY <1>10 DEF TypeInv, Finish, FlagsOK
    <2>3. ASSUME At(s, "scanned"),
                 queue' = [queue EXCEPT !["chain"] =
                     Append(@, [op |-> "ocr", doc |-> Doc(s), hash |-> body[s].hash])]
          PROVE  QueuesOK'
        <3>1. [op |-> "ocr", doc |-> Doc(s), hash |-> body[s].hash] \in Call
            BY <2>3, EngagedTypes DEF At, Call, Ops
        <3>2. Append(queue["chain"], [op |-> "ocr", doc |-> Doc(s), hash |-> body[s].hash])
                  \in Seq(Call)
            BY <3>1, CallerTypes, AppendProperties DEF TypeInv, QueuesOK
        <3> QED
            BY <2>3, <3>2 DEF TypeInv, QueuesOK
    <2>4. QueuesOK'
        BY <1>10, <2>3, FrameTypes DEF Finish
    <2> QED
        BY <1>10, <2>1, <2>2, <2>4, FrameTypes DEF TypeInv, Finish, store
<1> QED
    BY <1>1, <1>2, <1>3, <1>4, <1>5, <1>6, <1>7, <1>8, <1>9, <1>10
-----------------------------------------------------------------------------
(***************************************************************************)
(* reindex.                                                                *)
(***************************************************************************)
LEMMA GivesUpTypes ==
    ASSUME TypeInv, NEW s \in Slots, body[s].pc # "idle", NEW e \in Errors, ReindexGivesUp(s, e)
    PROVE  TypeInv'
<1>1. TablesOK'
    BY EngagedTypes, SetStatusTypes, FrameTypes DEF TypeInv, ReindexGivesUp, Statuses
<1>2. BodiesOK' /\ InboxOK'
    BY GotoTypes, InboxTypes, CallerTypes DEF TypeInv, ReindexGivesUp, Suspended, ProcessPCs
<1> QED
    BY <1>1, <1>2, FrameTypes DEF TypeInv, ReindexGivesUp, callers

LEMMA ReindexTypes ==
    ASSUME TypeInv, NEW s \in Slots,
           \/ \E c \in Callers : StartReindex(s, c)
           \/ CountBefore(s) \/ ReadToReindex(s) \/ SwapIndex(s) \/ ReindexFails(s)
    PROVE  TypeInv'
<1>1. ASSUME NEW c \in Callers, StartReindex(s, c) PROVE TypeInv'
    <2> DEFINE d == Head(queue[c]).doc
    <2>1. QueuesOK' /\ Head(queue[c]) \in Call
        BY <1>1, TakeTypes DEF TypeInv, StartReindex
    <2>2. d \in Docs /\ rows[d].hash \in Contents
        BY <2>1 DEF Call, TypeInv, TablesOK, Row
    <2>3. BodiesOK'
        BY <1>1, <2>2, FreeTypes, BeginTypes
        DEF TypeInv, StartReindex, Suspended, ProcessPCs, Bytes
    <2>4. FlagsOK'
        BY <1>1, <2>2 DEF TypeInv, StartReindex, FlagsOK
    <2>5. InboxOK'
        BY <1>1, InboxTypes, CallerTypes, FrameTypes DEF TypeInv, StartReindex
    <2> QED
        BY <1>1, <2>1, <2>3, <2>4, <2>5, FrameTypes DEF TypeInv, StartReindex, store
<1>2. CASE CountBefore(s)
    <2>1. BodiesOK'
        <3> DEFINE h == chunks[Doc(s)] # <<>>
        <3>1. h \in BOOLEAN /\ "riCounted" \in Suspended /\ BodiesOK /\ body[s].pc # "idle"
            BY <1>2 DEF TypeInv, CountBefore, At, Suspended, ProcessPCs
        <3>2. body' = [body EXCEPT ![s].pc = "riCounted", ![s].had = h]
            BY <1>2 DEF CountBefore
        <3> HIDE DEF h
        <3> QED
            BY <3>1, <3>2, CountTypes
    <2>2. InboxOK'
        BY <1>2, InboxTypes, CallerTypes DEF TypeInv, CountBefore
    <2> QED
        BY <1>2, <2>1, <2>2, FrameTypes DEF TypeInv, CountBefore, store, callers
<1>3. CASE ReadToReindex(s)
    <2>1. CASE originals[body[s].hash] = "absent"
        BY <1>3, <2>1, GivesUpTypes DEF ReadToReindex, At, Errors
    <2>2. CASE originals[body[s].hash] # "absent"
        <3>1. originals[body[s].hash] \in Bytes
            BY <1>3, EngagedTypes DEF ReadToReindex, At, TypeInv, FilesOK
        <3>2. BodiesOK'
            BY <1>3, <2>2, <3>1, ReadTypes
            DEF TypeInv, ReadToReindex, At, Suspended, ProcessPCs
        <3>3. InboxOK'
            BY <1>3, <2>2, InboxTypes, CallerTypes DEF TypeInv, ReadToReindex
        <3> QED
            BY <1>3, <2>2, <3>2, <3>3, FrameTypes DEF TypeInv, ReadToReindex, store, callers
    <2> QED BY <2>1, <2>2
<1>4. CASE SwapIndex(s)
    <2>1. TablesOK'
        BY <1>4, EngagedTypes, ReindexDocumentTypes
        DEF TypeInv, SwapIndex, At
    <2>2. BodiesOK'
        BY <1>4, GotoTypes DEF TypeInv, SwapIndex, At, Suspended, ProcessPCs
    <2>3. InboxOK'
        BY <1>4, InboxTypes, CallerTypes DEF TypeInv, SwapIndex
    <2> QED
        BY <1>4, <2>1, <2>2, <2>3, FrameTypes DEF TypeInv, SwapIndex, callers
<1>5. CASE ReindexFails(s)
    BY <1>5, GivesUpTypes DEF ReindexFails, At, Errors
<1> QED
    BY <1>1, <1>2, <1>3, <1>4, <1>5
-----------------------------------------------------------------------------
(***************************************************************************)
(* ocrDocument.                                                            *)
(***************************************************************************)
LEMMA OcrLookUpTypes ==
    ASSUME TypeInv, NEW s \in Slots, NEW c \in Callers, NEW d \in Docs, OcrLookUp(s, c, d)
    PROVE  BodiesOK' /\ InboxOK'
<1>1. rows[d].hash \in Contents
    BY DEF TypeInv, TablesOK, Row
<1>2. BodiesOK'
    BY <1>1, FreeTypes, BeginTypes DEF TypeInv, OcrLookUp, Suspended, OcrPCs, Bytes
<1>3. InboxOK'
    BY InboxTypes, CallerTypes DEF TypeInv, OcrLookUp
<1> QED BY <1>2, <1>3

LEMMA OcrTypes ==
    ASSUME TypeInv, NEW s \in Slots,
           \/ \E c \in Callers : StartOcr(s, c)
           \/ RegisterOcr(s) \/ OcrDropOld(s) \/ OcrInsert(s) \/ OcrReady(s) \/ OcrFails(s)
           \/ OcrEnd(s)
    PROVE  TypeInv'
<1>1. ASSUME NEW c \in Callers, StartOcr(s, c) PROVE TypeInv'
    <2>1. QueuesOK' /\ Head(queue[c]) \in Call
        BY <1>1, TakeTypes DEF TypeInv, StartOcr
    <2>2. BodiesOK' /\ InboxOK'
        BY <1>1, <2>1, OcrLookUpTypes DEF StartOcr, Call
    <2> QED
        BY <1>1, <2>1, <2>2, FrameTypes DEF TypeInv, StartOcr, store
<1>2. CASE RegisterOcr(s)
    <2>1. originals[body[s].hash] \in Bytes
        BY <1>2, EngagedTypes DEF RegisterOcr, At, TypeInv, FilesOK
    <2>2. TablesOK'
        BY <1>2, EngagedTypes, SetStatusTypes
        DEF TypeInv, RegisterOcr, At, Statuses, InFlight, Errors
    <2>3. BodiesOK'
        BY <1>2, <2>1, FreeTypes, ReadTypes DEF TypeInv, RegisterOcr, At, Suspended, OcrPCs
    <2>4. InboxOK'
        BY <1>2, InboxTypes, CallerTypes DEF TypeInv, RegisterOcr
    <2>5. FlagsOK'
        BY <1>2 DEF TypeInv, RegisterOcr, FlagsOK
    <2>6. ShownOK'
        BY <1>2, FrameTypes DEF RegisterOcr, callers
    <2> QED
        BY <1>2, <2>2, <2>3, <2>4, <2>5, <2>6, FrameTypes DEF TypeInv, RegisterOcr, callers
<1>3. CASE OcrDropOld(s)
    <2>1. TablesOK'
        BY <1>3, EngagedTypes, DeleteChunksTypes
        DEF TypeInv, OcrDropOld, At
    <2>2. BodiesOK'
        BY <1>3, GotoTypes DEF TypeInv, OcrDropOld, At, Suspended, OcrPCs
    <2>3. InboxOK'
        BY <1>3, InboxTypes, CallerTypes DEF TypeInv, OcrDropOld
    <2> QED
        BY <1>3, <2>1, <2>2, <2>3, FrameTypes DEF TypeInv, OcrDropOld, callers
<1>4. CASE OcrInsert(s)
    <2>1. TablesOK'
        BY <1>4, EngagedTypes, InsertChunksTypes, SetStatusTypes
        DEF TypeInv, OcrInsert, At, Statuses, Errors
    <2>2. BodiesOK'
        BY <1>4, GotoTypes DEF TypeInv, OcrInsert, At, Suspended, OcrPCs
    <2>3. InboxOK'
        BY <1>4, InboxTypes, CallerTypes DEF TypeInv, OcrInsert
    <2> QED
        BY <1>4, <2>1, <2>2, <2>3, FrameTypes DEF TypeInv, OcrInsert, callers
<1>5. CASE OcrReady(s)
    <2>1. TablesOK'
        BY <1>5, EngagedTypes, SetStatusTypes
        DEF TypeInv, OcrReady, At, Statuses, InFlight, Errors
    <2>2. BodiesOK'
        BY <1>5, GotoTypes DEF TypeInv, OcrReady, At, Suspended, OcrPCs
    <2>3. InboxOK'
        BY <1>5, InboxTypes, CallerTypes DEF TypeInv, OcrReady
    <2> QED
        BY <1>5, <2>1, <2>2, <2>3, FrameTypes DEF TypeInv, OcrReady, callers
<1>6. CASE OcrFails(s)
    <2>1. TablesOK'
        BY <1>6, EngagedTypes, SetStatusTypes
        DEF TypeInv, OcrFails, At, Statuses, InFlight, Errors
    <2>2. BodiesOK'
        BY <1>6, GotoTypes DEF TypeInv, OcrFails, At, Suspended, OcrPCs
    <2>3. InboxOK'
        BY <1>6, InboxTypes, CallerTypes DEF TypeInv, OcrFails
    <2> QED
        BY <1>6, <2>1, <2>2, <2>3, FrameTypes DEF TypeInv, OcrFails, callers
<1>7. CASE OcrEnd(s)
    <2>1. BodiesOK' /\ InboxOK'
        BY <1>7, FreeTypes, InboxTypes, CallerTypes DEF TypeInv, OcrEnd
    <2>2. FlagsOK'
        BY <1>7 DEF TypeInv, OcrEnd, FlagsOK
    <2> QED
        BY <1>7, <2>1, <2>2, FrameTypes DEF TypeInv, OcrEnd, callers, store
<1> QED
    BY <1>1, <1>2, <1>3, <1>4, <1>5, <1>6, <1>7
-----------------------------------------------------------------------------
(***************************************************************************)
(* Start-up.                                                               *)
(***************************************************************************)
\* The list a repair works through is a sequence of calls.
LEMMA CallsForTypes ==
    ASSUME TypeInv, NEW op \in Ops, NEW S \in SUBSET Docs, NEW list \in CallsFor(op, S)
    PROVE  list \in Seq(Call)
<1>1. PICK q \in Orderings(S) :
          list = [i \in DOMAIN q |-> [op |-> op, doc |-> q[i], hash |-> rows[q[i]].hash]]
    BY DEF CallsFor
<1>2. Cardinality(S) \in Nat
    BY FS_Subset, FS_CardinalityType, LibraryAssumption
<1>3. q \in [1..Cardinality(S) -> S]
    BY <1>1 DEF Orderings
<1>4. \A i \in 1..Cardinality(S) :
          [op |-> op, doc |-> q[i], hash |-> rows[q[i]].hash] \in Call
    BY <1>3 DEF Call, TypeInv, TablesOK, Row
<1>5. list \in [1..Cardinality(S) -> Call]
    BY <1>1, <1>3, <1>4
<1> QED
    BY <1>2, <1>5, IsASeq

LEMMA BootPhaseTypes ==
    ASSUME TypeInv, NEW next \in Phases, NEW op \in Ops, NEW S \in SUBSET Docs,
           BootPhase(next, op, S), ocrIndexed' \in BOOLEAN,
           UNCHANGED shownReady \/ Refresh
    PROVE  TypeInv'
<1>1. PICK list \in CallsFor(op, S) : queue' = [queue EXCEPT !["boot"] = list]
    BY DEF BootPhase
<1>2. QueuesOK'
    BY <1>1, CallsForTypes, CallerTypes DEF TypeInv, QueuesOK
<1>3. ShownOK'
    BY DEF BootPhase, TypeInv, ShownOK, Refresh
<1> QED
    BY <1>2, <1>3, FrameTypes DEF TypeInv, BootPhase, store

LEMMA BootTypes ==
    ASSUME TypeInv, BootStep
    PROVE  TypeInv'
<1>1. CASE BootResume
    BY <1>1, BootPhaseTypes DEF BootResume, Phases, Ops, TypeInv, ShownOK
<1>2. CASE BootRecheck
    BY <1>2, BootPhaseTypes DEF BootRecheck, Phases, Ops, TypeInv, ShownOK
<1>3. CASE BootRebuild
    BY <1>3, BootPhaseTypes DEF BootRebuild, Phases, Ops
<1>4. CASE BootDone
    <2>1. ShownOK'
        BY <1>4 DEF TypeInv, BootDone, ShownOK, Refresh, Phases
    <2> QED
        BY <1>4, <2>1, FrameTypes DEF TypeInv, BootDone, store
<1> QED
    BY <1>1, <1>2, <1>3, <1>4 DEF BootStep

LEMMA RepairTypes ==
    ASSUME TypeInv, NEW s \in Slots,
           \/ StartResume(s) \/ ClearToResume(s) \/ ResumeProcess(s)
           \/ StartRecheck(s) \/ NothingToRecheck(s) \/ MarkScanned(s) \/ RecheckThrows(s)
           \/ RecheckOcr(s)
    PROVE  TypeInv'
<1>1. CASE StartResume(s)
    <2>1. QueuesOK' /\ Head(queue["boot"]) \in Call
        BY <1>1, TakeTypes, CallerTypes DEF TypeInv, StartResume
    <2>2. Head(queue["boot"]).doc \in Docs /\ Head(queue["boot"]).hash \in Contents
        BY <2>1 DEF Call
    <2>3. BodiesOK'
        BY <1>1, <2>2, FreeTypes, BeginTypes, CallerTypes
        DEF TypeInv, StartResume, Suspended, RepairPCs, Bytes
    <2> QED
        BY <1>1, <2>1, <2>3, FrameTypes DEF TypeInv, StartResume, store
<1>2. CASE ClearToResume(s)
    <2>1. originals[body[s].hash] \in Bytes
        BY <1>2, EngagedTypes DEF ClearToResume, At, TypeInv, FilesOK
    <2>2. TablesOK'
        BY <1>2, EngagedTypes, SetStatusTypes, DeleteChunksTypes
        DEF TypeInv, ClearToResume, At, Statuses, Errors
    <2>3. BodiesOK'
        BY <1>2, <2>1, FreeTypes, ReadTypes DEF TypeInv, ClearToResume, At, Suspended, RepairPCs
    <2>4. InboxOK'
        BY <1>2, InboxTypes, CallerTypes DEF TypeInv, ClearToResume
    <2> QED
        BY <1>2, <2>2, <2>3, <2>4, FrameTypes DEF TypeInv, ClearToResume, callers
<1>3. CASE ResumeProcess(s)
    <2>1. BodiesOK' /\ FlagsOK'
        BY <1>3, EngagedTypes, EnterTypes, CallerTypes DEF ResumeProcess, At
    <2>2. InboxOK'
        BY <1>3, InboxTypes, CallerTypes DEF TypeInv, ResumeProcess
    <2> QED
        BY <1>3, <2>1, <2>2, FrameTypes DEF TypeInv, ResumeProcess, store, callers
<1>4. CASE StartRecheck(s)
    <2>1. QueuesOK' /\ Head(queue["boot"]) \in Call
        BY <1>4, TakeTypes, CallerTypes DEF TypeInv, StartRecheck
    <2>2. BodiesOK'
        BY <1>4, <2>1, BeginTypes, CallerTypes
        DEF TypeInv, StartRecheck, Call, Suspended, RepairPCs, Bytes
    <2> QED
        BY <1>4, <2>1, <2>2, FrameTypes DEF TypeInv, StartRecheck, store
<1>5. CASE NothingToRecheck(s)
    <2>1. BodiesOK'
        BY <1>5, FreeTypes DEF TypeInv, NothingToRecheck
    <2> QED
        BY <1>5, <2>1, FrameTypes DEF TypeInv, NothingToRecheck, store, callers
<1>6. CASE MarkScanned(s)
    <2>1. TablesOK'
        BY <1>6, EngagedTypes, SetStatusTypes
        DEF TypeInv, MarkScanned, At, Statuses, InFlight, Errors
    <2>2. BodiesOK'
        BY <1>6, GotoTypes DEF TypeInv, MarkScanned, At, Suspended, RepairPCs
    <2>3. InboxOK'
        BY <1>6, InboxTypes, CallerTypes DEF TypeInv, MarkScanned
    <2> QED
        BY <1>6, <2>1, <2>2, <2>3, FrameTypes DEF TypeInv, MarkScanned, callers
<1>7. CASE RecheckThrows(s)
    <2>1. BodiesOK'
        BY <1>7, FreeTypes DEF TypeInv, RecheckThrows
    <2>2. QueuesOK'
        BY <1>7, EmptySeq DEF TypeInv, RecheckThrows, QueuesOK
    <2>3. ShownOK'
        BY <1>7 DEF TypeInv, RecheckThrows, ShownOK, Refresh, Phases
    <2> QED
        BY <1>7, <2>1, <2>2, <2>3, FrameTypes DEF TypeInv, RecheckThrows, store
<1>8. CASE RecheckOcr(s)
    <2>1. BodiesOK' /\ InboxOK'
        BY <1>8, EngagedTypes, OcrLookUpTypes, CallerTypes DEF RecheckOcr, At
    <2> QED
        BY <1>8, <2>1, FrameTypes DEF TypeInv, RecheckOcr, store, callers
<1> QED
    BY <1>1, <1>2, <1>3, <1>4, <1>5, <1>6, <1>7, <1>8
-----------------------------------------------------------------------------
(***************************************************************************)
(* Requests.                                                               *)
(***************************************************************************)
LEMMA RequestTypes ==
    ASSUME RequestsOK, NEW r \in Requests, NEW q, RequestOK(q),
           request' = [request EXCEPT ![r] = q]
    PROVE  RequestsOK'
BY DEF RequestsOK, RequestOK

LEMMA RequestIsOK == ASSUME TypeInv, NEW r \in Requests PROVE RequestOK(request[r])
BY DEF TypeInv, RequestsOK

LEMMA NoRequestOK == RequestOK(NoRequest)
BY EmptySeq DEF RequestOK, NoRequest, Request

LEMMA DoneTypes ==
    ASSUME TypeInv, NEW r \in Requests, Done(r)
    PROVE  RequestsOK'
BY RequestTypes, NoRequestOK DEF TypeInv, Done

\* Moving on to the next file of the selection.
LEMMA NextFileTypes ==
    ASSUME TypeInv, NEW r \in Requests, request[r].left # <<>>, NEW jobs \in Seq(Call),
           NextFile(r, jobs)
    PROVE  RequestsOK'
<1> DEFINE q == [NoRequest EXCEPT !.pc = "stage", !.left = Tail(request[r].left), !.jobs = jobs]
<1>1. Tail(request[r].left) \in Seq(Contents \cup Unreadable)
    BY RequestIsOK, HeadTailProperties DEF RequestOK, Request
<1>2. RequestOK(q)
    BY <1>1 DEF RequestOK, Request, NoRequest
<1>3. request' = [request EXCEPT ![r] = q]
    BY DEF NextFile
<1> HIDE DEF q
<1> QED
    BY <1>2, <1>3, RequestTypes DEF TypeInv

LEMMA JobTypes ==
    ASSUME TypeInv, NEW r \in Requests, NEW d \in Docs, request[r].pc \in {"found", "restage"}
    PROVE  Append(request[r].jobs, Job(r, d)) \in Seq(Call)
<1>1. Job(r, d) \in Call
    BY RequestIsOK DEF RequestOK, Readable, Job, Call, Ops
<1>2. request[r].jobs \in Seq(Call)
    BY RequestIsOK DEF RequestOK, Request
<1> QED
    BY <1>1, <1>2, AppendProperties

LEMMA RequestStepTypes ==
    ASSUME TypeInv, NEW r \in Requests, RequestStep(r)
    PROVE  TypeInv'
<1> USE DEF AtR
<1>1. CASE LookUpHash(r)
    <2>1. request[r].pc = "stage" /\ request[r].left # <<>> /\ RequestOK(request[r])
        BY <1>1, RequestIsOK DEF LookUpHash
    <2>2. Head(request[r].left) \in Contents \cup Unreadable
        BY <2>1, HeadTailProperties DEF RequestOK, Request
    <2>3. ASSUME Done(r) PROVE RequestsOK'
        BY <2>3, DoneTypes
    <2>4. ASSUME NEW d \in Docs, Head(request[r].left) \in Contents,
                 request' = [request EXCEPT ![r].pc = "found", ![r].doc = d,
                                            ![r].seen = rows[d].status]
          PROVE  RequestsOK'
        <3> DEFINE q == [request[r] EXCEPT !.pc = "found", !.doc = d, !.seen = rows[d].status]
        <3>1. rows[d].status \in Statuses
            BY DEF TypeInv, TablesOK, Row
        <3>2. RequestOK(q)
            BY <2>1, <2>4, <3>1 DEF RequestOK, Request, Readable
        <3>3. request' = [request EXCEPT ![r] = q]
            BY <2>4 DEF TypeInv, RequestsOK
        <3> HIDE DEF q
        <3> QED
            BY <3>2, <3>3, RequestTypes DEF TypeInv
    <2>5. ASSUME Head(request[r].left) \in Contents,
                 request' = [request EXCEPT ![r].pc = "found"]
          PROVE  RequestsOK'
        <3> DEFINE q == [request[r] EXCEPT !.pc = "found"]
        <3>1. RequestOK(q)
            BY <2>1, <2>5 DEF RequestOK, Request, Readable
        <3>2. request' = [request EXCEPT ![r] = q]
            BY <2>5 DEF TypeInv, RequestsOK
        <3> HIDE DEF q
        <3> QED
            BY <3>1, <3>2, RequestTypes DEF TypeInv
    <2>6. RequestsOK'
        BY <1>1, <2>2, <2>3, <2>4, <2>5 DEF LookUpHash
    <2>7. InboxOK'
        BY <1>1, InboxTypes, CallerTypes DEF TypeInv, LookUpHash
    <2> QED
        BY <1>1, <2>6, <2>7, FrameTypes DEF TypeInv, LookUpHash, store
<1>2. CASE InsertNew(r)
    <2>1. request[r].pc = "found" /\ Readable(request[r])
        BY <1>2, RequestIsOK DEF InsertNew, RequestOK
    <2>2. InboxOK'
        BY <1>2, InboxTypes, CallerTypes DEF TypeInv, InsertNew
    <2>3. CASE Done(r) /\ UNCHANGED <<rows, chunks>>
        BY <1>2, <2>2, <2>3, DoneTypes, FrameTypes DEF TypeInv, InsertNew
    <2>4. ASSUME NEW d \in Docs, InsertDocument(d, Head(request[r].left)),
                 NextFile(r, Append(request[r].jobs, Job(r, d)))
          PROVE  TypeInv'
        <3>1. TablesOK'
            BY <2>1, <2>4, InsertDocumentTypes DEF TypeInv, Readable
        <3>2. RequestsOK'
            BY <2>1, <2>4, JobTypes, NextFileTypes DEF Readable
        <3> QED
            BY <1>2, <2>2, <3>1, <3>2, FrameTypes DEF TypeInv, InsertNew
    <2> QED
        BY <1>2, <2>3, <2>4 DEF InsertNew
<1>3. CASE StageAgain(r)
    <2>1. request[r].pc = "found" /\ RequestOK(request[r]) /\ request[r].doc \in Docs
        BY <1>3, RequestIsOK DEF StageAgain, RequestOK, Request
    <2>2. TablesOK'
        BY <1>3, <2>1, DeleteChunksTypes DEF TypeInv, StageAgain
    <2>3. InboxOK'
        BY <1>3, InboxTypes, CallerTypes DEF TypeInv, StageAgain
    <2>4. RequestsOK'
        <3> DEFINE q == [request[r] EXCEPT !.pc = "restage"]
        <3>1. RequestOK(q)
            BY <2>1 DEF RequestOK, Request, Readable
        <3>2. request' = [request EXCEPT ![r] = q]
            BY <1>3 DEF StageAgain, TypeInv, RequestsOK
        <3> HIDE DEF q
        <3> QED
            BY <3>1, <3>2, RequestTypes DEF TypeInv
    <2> QED
        BY <1>3, <2>2, <2>3, <2>4, FrameTypes DEF TypeInv, StageAgain
<1>4. CASE StageKnown(r)
    <2>1. request[r].left # <<>> /\ request[r].jobs \in Seq(Call)
        BY <1>4, RequestIsOK DEF StageKnown, RequestOK, Readable, Request
    <2>2. RequestsOK'
        BY <1>4, <2>1, NextFileTypes DEF StageKnown
    <2>3. InboxOK'
        BY <1>4, InboxTypes, CallerTypes DEF TypeInv, StageKnown
    <2> QED
        BY <1>4, <2>2, <2>3, FrameTypes DEF TypeInv, StageKnown, store
<1>5. CASE MarkReceived(r)
    <2>1. request[r].pc = "restage" /\ request[r].left # <<>> /\ request[r].doc \in Docs
        BY <1>5, RequestIsOK DEF MarkReceived, RequestOK, Readable
    <2>2. TablesOK'
        BY <1>5, <2>1, SetStatusTypes DEF TypeInv, MarkReceived, Statuses, InFlight, Errors
    <2>3. RequestsOK'
        BY <1>5, <2>1, JobTypes, NextFileTypes DEF MarkReceived
    <2>4. InboxOK'
        BY <1>5, InboxTypes, CallerTypes DEF TypeInv, MarkReceived
    <2> QED
        BY <1>5, <2>2, <2>3, <2>4, FrameTypes DEF TypeInv, MarkReceived
<1>6. CASE ProcessMany(r)
    <2>1. request[r].jobs \in Seq(Call)
        BY RequestIsOK DEF RequestOK, Request
    <2>2. QueuesOK'
        BY <1>6, <2>1, CallerTypes DEF TypeInv, ProcessMany, QueuesOK
    <2>3. RequestsOK' /\ InboxOK'
        BY <1>6, DoneTypes, InboxTypes, CallerTypes DEF TypeInv, ProcessMany
    <2> QED
        BY <1>6, <2>2, <2>3, FrameTypes DEF TypeInv, ProcessMany, store
<1>7. CASE StoreReplacement(r)
    <2>1. request[r].pc = "replace" /\ RequestOK(request[r]) /\ request[r].hash \in Contents
        BY <1>7, RequestIsOK DEF StoreReplacement, RequestOK
    <2>2. RequestsOK'
        <3> DEFINE q == [request[r] EXCEPT !.pc = "replaceStored"]
        <3>1. RequestOK(q)
            BY <2>1 DEF RequestOK, Request
        <3>2. request' = [request EXCEPT ![r] = q]
            BY <1>7 DEF StoreReplacement, TypeInv, RequestsOK
        <3> HIDE DEF q
        <3> QED
            BY <3>1, <3>2, RequestTypes DEF TypeInv
    <2>3. FilesOK'
        BY <1>7, <2>1 DEF StoreReplacement, LeftOf, TypeInv, FilesOK, Bytes
    <2> QED
        BY <1>7, <2>2, <2>3, FrameTypes DEF TypeInv, StoreReplacement
<1>8. CASE SwapVersion(r)
    <2>1. /\ request[r].pc = "replaceStored" /\ RequestOK(request[r])
          /\ request[r].doc \in Docs /\ request[r].hash \in Contents
        BY <1>8, RequestIsOK DEF SwapVersion, RequestOK
    <2>2. TablesOK'
        <3>1. [of |-> request[r].hash, full |-> TRUE] \in Batch
            BY <2>1 DEF Batch
        <3> QED
            BY <1>8, <2>1, <3>1, ReplaceDocumentTypes DEF TypeInv, SwapVersion
    <2>3. RequestsOK'
        <3> DEFINE q == [request[r] EXCEPT !.pc = "replaced"]
        <3>1. RequestOK(q)
            BY <2>1 DEF RequestOK, Request
        <3>2. request' = [request EXCEPT ![r] = q]
            BY <1>8 DEF SwapVersion, TypeInv, RequestsOK
        <3> HIDE DEF q
        <3> QED
            BY <3>1, <3>2, RequestTypes DEF TypeInv
    <2>4. InboxOK'
        BY <1>8, InboxTypes, CallerTypes DEF TypeInv, SwapVersion
    <2> QED
        BY <1>8, <2>2, <2>3, <2>4, FrameTypes DEF TypeInv, SwapVersion
<1>9. CASE ReplaceDone(r)
    <2>1. request[r].doc \in Docs
        BY <1>9, RequestIsOK DEF ReplaceDone, RequestOK
    <2>2. TablesOK'
        BY <1>9, <2>1, SetStatusTypes DEF TypeInv, ReplaceDone, Statuses, Errors
    <2>3. RequestsOK' /\ InboxOK'
        BY <1>9, DoneTypes, InboxTypes, CallerTypes DEF TypeInv, ReplaceDone
    <2> QED
        BY <1>9, <2>2, <2>3, FrameTypes DEF TypeInv, ReplaceDone
<1>10. CASE ReplaceFails(r)
    BY <1>10, DoneTypes, FrameTypes DEF TypeInv, ReplaceFails, store
<1> QED
    BY <1>1, <1>2, <1>3, <1>4, <1>5, <1>6, <1>7, <1>8, <1>9, <1>10 DEF RequestStep
-----------------------------------------------------------------------------
(***************************************************************************)
(* The user, the start and the end of a tab.                               *)
(***************************************************************************)
LEMMA UserTypes ==
    ASSUME TypeInv, User
    PROVE  TypeInv'
<1>1. ASSUME NEW kind, UserCall(kind) PROVE CountsOK'
    BY <1>1, LibraryAssumption DEF UserCall, TypeInv, CountsOK
<1>2. ASSUME NEW r \in Requests, NEW files \in Selections, IngestMany(r, files) PROVE TypeInv'
    <2> DEFINE q == [NoRequest EXCEPT !.pc = "stage", !.left = files]
    <2>1. RequestOK(q)
        BY LibraryAssumption, EmptySeq DEF RequestOK, Request, NoRequest
    <2>2. request' = [request EXCEPT ![r] = q]
        BY <1>2 DEF IngestMany
    <2> HIDE DEF q
    <2>3. RequestsOK'
        BY <2>1, <2>2, RequestTypes DEF TypeInv
    <2> QED
        BY <1>1, <1>2, <2>3, FrameTypes DEF TypeInv, IngestMany, store
<1>3. ASSUME NEW r \in Requests, NEW d \in Docs, ReindexCall(r, d) PROVE TypeInv'
    <2>1. [op |-> "reindex", doc |-> d, hash |-> rows[d].hash] \in Call
        BY DEF TypeInv, TablesOK, Row, Call, Ops
    <2>2. <<[op |-> "reindex", doc |-> d, hash |-> rows[d].hash]>> \in Seq(Call)
        BY <2>1
    <2>3. QueuesOK'
        BY <1>3, <2>2, CallerTypes DEF TypeInv, ReindexCall, QueuesOK
    <2> QED
        BY <1>1, <1>3, <2>3, FrameTypes DEF TypeInv, ReindexCall, store
<1>4. ASSUME NEW r \in Requests, NEW d \in Docs, NEW h \in Contents, ReplaceCall(r, d, h)
      PROVE  TypeInv'
    <2> DEFINE q == [NoRequest EXCEPT !.pc = "replace", !.doc = d, !.hash = h]
    <2>1. RequestOK(q)
        BY EmptySeq DEF RequestOK, Request, NoRequest
    <2>2. request' = [request EXCEPT ![r] = q]
        BY <1>4 DEF ReplaceCall
    <2> HIDE DEF q
    <2>3. RequestsOK'
        BY <2>1, <2>2, RequestTypes DEF TypeInv
    <2> QED
        BY <1>1, <1>4, <2>3, FrameTypes DEF TypeInv, ReplaceCall, store
<1>5. ASSUME NEW d \in Docs, Remove(d) PROVE TypeInv'
    <2>1. TablesOK'
        BY <1>5, DeleteDocumentTypes DEF TypeInv, Remove
    <2> QED
        BY <1>1, <1>5, <2>1, FrameTypes DEF TypeInv, Remove, callers
<1> QED
    BY <1>2, <1>3, <1>4, <1>5 DEF User

LEMMA FreshTypes ==
    ASSUME NEW b, NEW q, NEW rq, NEW a, FreshPage(b, q, rq, a)
    PROVE  /\ b \in [Slots -> Body] /\ \A s \in Slots : b[s].pc = "idle"
           /\ q \in [Callers -> Seq(Call)]
           /\ rq \in [Requests -> Request] /\ \A r \in Requests : RequestOK(rq[r])
           /\ a \in [Docs -> Slots \cup {None}]
<1>1. Idle \in Body /\ Idle.pc = "idle"
    BY DEF Idle, Body, Bytes
<1>2. NoRequest \in Request /\ RequestOK(NoRequest)
    BY NoRequestOK DEF RequestOK
<1>3. <<>> \in Seq(Call)
    BY EmptySeq
<1> QED
    BY <1>1, <1>2, <1>3 DEF FreshPage

LEMMA DeliverTypes ==
    ASSUME TypeInv, Deliver
    PROVE  TypeInv'
<1>1. InboxOK'
    BY HeadTailProperties DEF TypeInv, Deliver, InboxOK
<1> QED
    BY <1>1, FrameTypes DEF TypeInv, Deliver, store, callers

LEMMA ReloadTypes ==
    ASSUME TypeInv, Reload
    PROVE  TypeInv'
<1>1. BodiesOK' /\ QueuesOK' /\ RequestsOK'
    BY FreshTypes DEF Reload, BodiesOK, QueuesOK, RequestsOK
<1>2. FlagsOK'
    BY FreshTypes DEF Reload, FlagsOK
<1>3. InboxOK' /\ ShownOK'
    BY EmptySeq DEF Reload, InboxOK, ShownOK, Phases, TypeInv
<1>4. CountsOK'
    BY LibraryAssumption DEF TypeInv, Reload, CountsOK
<1> QED
    BY <1>1, <1>2, <1>3, <1>4, FrameTypes DEF TypeInv, Reload, store

LEMMA InitTypes == Init => TypeInv
<1> SUFFICES ASSUME Init PROVE TypeInv
    OBVIOUS
<1>1. TablesOK
    <2>1. (CHOOSE h \in Contents : TRUE) \in Contents
        BY LibraryAssumption
    <2>2. rows \in [Docs -> Row]
        BY <2>1, LibraryAssumption DEF Init, Row, Statuses, NoRow, Errors
    <2>3. \A d \in DOMAIN OldDocs :
              <<[of |-> OldDocs[d], full |-> OldDocs[d] \notin Imaged]>> \in Seq(Batch)
        <3> TAKE d \in DOMAIN OldDocs
        <3>1. [of |-> OldDocs[d], full |-> OldDocs[d] \notin Imaged] \in Batch
            BY LibraryAssumption DEF Batch
        <3> QED
            BY <3>1
    <2>4. chunks \in [Docs -> Seq(Batch)]
        BY <2>3, EmptySeq DEF Init
    <2> QED
        BY <2>2, <2>4 DEF TablesOK
<1>2. FilesOK
    BY DEF Init, FilesOK, Bytes
<1>3. BodiesOK /\ QueuesOK /\ RequestsOK
    BY FreshTypes DEF Init, BodiesOK, QueuesOK, RequestsOK
<1>4. FlagsOK
    BY FreshTypes DEF Init, FlagsOK
<1>5. InboxOK /\ ShownOK /\ CountsOK
    BY EmptySeq, LibraryAssumption DEF Init, InboxOK, ShownOK, CountsOK, Phases
<1> QED
    BY <1>1, <1>2, <1>3, <1>4, <1>5 DEF TypeInv

LEMMA StepTypes == TypeInv /\ [Next]_vars => TypeInv'
<1> SUFFICES ASSUME TypeInv, [Next]_vars PROVE TypeInv'
    OBVIOUS
<1>1. ASSUME NEW s \in Slots, BodyStep(s) PROVE TypeInv'
    BY <1>1, ProcessTypes, ReindexTypes, OcrTypes, RepairTypes DEF BodyStep
<1>2. CASE UNCHANGED vars
    BY <1>2, FrameTypes DEF TypeInv, vars, store, callers
<1> QED
    BY <1>1, <1>2, DeliverTypes, BootTypes, RequestStepTypes, UserTypes, ReloadTypes
    DEF Next, Page

\* Every variable keeps its type, whatever the sizes of the instance.
THEOREM TypeCorrect == Spec => []TypeOK
<1>1. Spec => []TypeInv
    BY InitTypes, StepTypes, PTL DEF Spec
<1> QED
    BY <1>1, TypeInvImpliesTypeOK, PTL
-----------------------------------------------------------------------------
(***************************************************************************)
(* processingIds is a lock.  The invariant is inductive over TypeInv.  A   *)
(* step moves one body: it stays at work on its document, stays out of     *)
(* processing, enters it for a document nobody held, or leaves it.         *)
(***************************************************************************)
Others(s) == \A t \in Slots \ {s} : body'[t] = body[t]

LEMMA StaysAtWork ==
    ASSUME ProcessingIsExclusive, NEW s \in Slots, Others(s), UNCHANGED processing,
           body[s].pc \in ProcessPCs, body'[s].pc \in ProcessPCs, body'[s].doc = body[s].doc
    PROVE  ProcessingIsExclusive'
<1>1. Processors' = Processors
    BY DEF Processors, Others
<1>2. \A t \in Slots : Doc(t)' = Doc(t)
    BY DEF Doc, Others
<1> QED
    BY <1>1, <1>2 DEF ProcessingIsExclusive, Processors

LEMMA StaysOut ==
    ASSUME ProcessingIsExclusive, NEW s \in Slots, Others(s), UNCHANGED processing,
           body[s].pc \notin ProcessPCs, body'[s].pc \notin ProcessPCs
    PROVE  ProcessingIsExclusive'
<1>1. Processors' = Processors
    BY DEF Processors, Others
<1>2. \A t \in Processors : Doc(t)' = Doc(t)
    BY DEF Doc, Others, Processors
<1> QED
    BY <1>1, <1>2 DEF ProcessingIsExclusive

LEMMA Enters ==
    ASSUME ProcessingIsExclusive, NEW s \in Slots, Others(s),
           body[s].pc \notin ProcessPCs, body'[s].pc \in ProcessPCs,
           body'[s].doc \notin processing, processing' = processing \cup {body'[s].doc}
    PROVE  ProcessingIsExclusive'
<1>1. Processors' = Processors \cup {s} /\ s \notin Processors
    BY DEF Processors, Others
<1>2. \A t \in Processors : Doc(t)' = Doc(t) /\ Doc(t) \in processing
    BY DEF Doc, Others, Processors, ProcessingIsExclusive
<1>3. Doc(s)' = body'[s].doc
    BY DEF Doc
<1> QED
    BY <1>1, <1>2, <1>3 DEF ProcessingIsExclusive

LEMMA Leaves ==
    ASSUME ProcessingIsExclusive, NEW s \in Slots, Others(s),
           body[s].pc \in ProcessPCs, body'[s].pc \notin ProcessPCs,
           processing' = processing \ {Doc(s)}
    PROVE  ProcessingIsExclusive'
<1>1. Processors' = Processors \ {s} /\ s \in Processors
    BY DEF Processors, Others
<1>2. \A t \in Processors \ {s} : Doc(t)' = Doc(t) /\ Doc(t) # Doc(s)
    BY <1>1 DEF Doc, Others, Processors, ProcessingIsExclusive
<1> QED
    BY <1>1, <1>2 DEF ProcessingIsExclusive

LEMMA GotoMoves ==
    ASSUME TypeInv, NEW s \in Slots, NEW pc, Goto(s, pc)
    PROVE  Others(s) /\ body'[s].pc = pc /\ body'[s].doc = body[s].doc
BY DEF TypeInv, BodiesOK, Body, Goto, Others

LEMMA FreeMoves ==
    ASSUME TypeInv, NEW s \in Slots, Free(s)
    PROVE  Others(s) /\ body'[s].pc \notin ProcessPCs
BY DEF TypeInv, BodiesOK, Body, Free, Idle, Others, ProcessPCs

LEMMA BeginMoves ==
    ASSUME TypeInv, NEW s \in Slots, NEW c, NEW pc, NEW d, NEW h, NEW b, Begin(s, c, pc, d, h, b)
    PROVE  Others(s) /\ body'[s].pc = pc /\ body'[s].doc = d
BY DEF TypeInv, BodiesOK, Body, Begin, Others

\* processDocument and a resumed one come in through the same door.
LEMMA EnterKeepsExclusion ==
    ASSUME TypeInv, ProcessingIsExclusive, NEW s \in Slots, body[s].pc \notin ProcessPCs,
           NEW c, NEW d, NEW h, NEW b, Enter(s, c, d, h, b)
    PROVE  ProcessingIsExclusive'
<1>1. CASE d \in processing
    BY <1>1, FreeMoves, StaysOut DEF Enter
<1>2. CASE d \notin processing
    <2>1. Others(s) /\ body'[s].pc \in ProcessPCs /\ body'[s].doc = d
        BY <1>2, BeginMoves DEF Enter, ProcessPCs
    <2> QED
        BY <1>2, <2>1, Enters DEF Enter
<1> QED BY <1>1, <1>2

LEMMA BodyStepKeepsExclusion ==
    ASSUME TypeInv, ProcessingIsExclusive, NEW s \in Slots, BodyStep(s)
    PROVE  ProcessingIsExclusive'
<1> USE DEF At
<1>1. ASSUME NEW c \in Callers, StartProcess(s, c) PROVE ProcessingIsExclusive'
    BY <1>1, EnterKeepsExclusion DEF StartProcess, Take, ProcessPCs
<1>2. ASSUME NEW c \in Callers, StartReindex(s, c) PROVE ProcessingIsExclusive'
    <2> DEFINE d == Head(queue[c]).doc
    <2>1. body[s].pc \notin ProcessPCs
        BY <1>2 DEF StartReindex, Take, ProcessPCs
    <2>2. CASE d \in processing \/ ocrAborts[d] # None
        BY <1>2, <2>1, <2>2, FreeMoves, StaysOut DEF StartReindex
    <2>3. CASE d \notin processing /\ ocrAborts[d] = None
        <3>1. Others(s) /\ body'[s].pc \in ProcessPCs /\ body'[s].doc = d
            BY <1>2, <2>3, BeginMoves DEF StartReindex, ProcessPCs
        <3> QED
            BY <1>2, <2>1, <2>3, <3>1, Enters DEF StartReindex
    <2> QED BY <2>2, <2>3
<1>3. ASSUME NEW pc \in ProcessPCs, Goto(s, pc), body[s].pc \in ProcessPCs, UNCHANGED processing
      PROVE  ProcessingIsExclusive'
    BY <1>3, GotoMoves, StaysAtWork
<1>4. CASE CreateOriginal(s) \/ WriteOriginal(s) \/ StoreRefused(s)
    BY <1>3, <1>4 DEF CreateOriginal, WriteOriginal, StoreRefused, MarkParsing, ProcessPCs, flags
<1>5. CASE Parsed(s) \/ Chunked(s) \/ Embedded(s) \/ Indexed(s) \/ ProcessFails(s)
    BY <1>3, <1>5 DEF Parsed, Chunked, Embedded, Indexed, ProcessFails, ProcessPCs, flags
<1>6. CASE Finish(s)
    BY <1>6, FreeMoves, Leaves DEF Finish, ProcessPCs
<1>7. CASE CountBefore(s)
    <2>1. /\ Others(s) /\ body'[s].pc = "riCounted" /\ body'[s].doc = body[s].doc
          /\ body[s].pc = "riRow" /\ UNCHANGED processing
        BY <1>7 DEF CountBefore, TypeInv, BodiesOK, Body, Others, flags
    <2> QED
        BY <2>1, StaysAtWork DEF ProcessPCs
<1>8. ASSUME NEW e, ReindexGivesUp(s, e), body[s].pc \in {"riCounted", "riRun"}
      PROVE  ProcessingIsExclusive'
    BY <1>3, <1>8 DEF ReindexGivesUp, ProcessPCs, flags
<1>9. CASE ReadToReindex(s)
    <2>1. CASE originals[body[s].hash] = "absent"
        BY <1>8, <1>9, <2>1 DEF ReadToReindex
    <2>2. CASE originals[body[s].hash] # "absent"
        <3>1. /\ Others(s) /\ body'[s].pc = "riRun" /\ body'[s].doc = body[s].doc
              /\ body[s].pc = "riCounted" /\ UNCHANGED processing
            BY <1>9, <2>2 DEF ReadToReindex, TypeInv, BodiesOK, Body, Others, flags
        <3> QED
            BY <3>1, StaysAtWork DEF ProcessPCs
    <2> QED BY <2>1, <2>2
<1>10. CASE SwapIndex(s) \/ ReindexFails(s)
    BY <1>3, <1>8, <1>10 DEF SwapIndex, ReindexFails, ProcessPCs, flags
<1>11. ASSUME NEW c, NEW d, OcrLookUp(s, c, d), body[s].pc \notin ProcessPCs, UNCHANGED processing
       PROVE  ProcessingIsExclusive'
    BY <1>11, FreeMoves, BeginMoves, StaysOut DEF OcrLookUp, ProcessPCs
<1>12. ASSUME NEW c \in Callers, StartOcr(s, c) PROVE ProcessingIsExclusive'
    BY <1>11, <1>12 DEF StartOcr, Take, ProcessPCs, flags
<1>13. CASE RecheckOcr(s)
    BY <1>11, <1>13 DEF RecheckOcr, ProcessPCs, flags
<1>14. CASE RegisterOcr(s)
    <2>1. Others(s) /\ body'[s].pc \notin ProcessPCs
        BY <1>14, FreeMoves DEF RegisterOcr, TypeInv, BodiesOK, Body, Others, ProcessPCs
    <2> QED
        BY <1>14, <2>1, StaysOut DEF RegisterOcr, ProcessPCs
<1>15. CASE OcrDropOld(s) \/ OcrInsert(s) \/ OcrReady(s) \/ OcrFails(s) \/ OcrEnd(s)
    BY <1>15, GotoMoves, FreeMoves, StaysOut
    DEF OcrDropOld, OcrInsert, OcrReady, OcrFails, OcrEnd, ProcessPCs, flags
<1>16. CASE StartResume(s) \/ StartRecheck(s)
    BY <1>16, FreeMoves, BeginMoves, StaysOut
    DEF StartResume, StartRecheck, Take, ProcessPCs, flags
<1>17. CASE ClearToResume(s)
    <2>1. Others(s) /\ body'[s].pc \notin ProcessPCs
        BY <1>17, FreeMoves DEF ClearToResume, TypeInv, BodiesOK, Body, Others, ProcessPCs
    <2> QED
        BY <1>17, <2>1, StaysOut DEF ClearToResume, ProcessPCs, flags
<1>18. CASE ResumeProcess(s)
    BY <1>18, EnterKeepsExclusion DEF ResumeProcess, ProcessPCs
<1>19. CASE NothingToRecheck(s) \/ MarkScanned(s) \/ RecheckThrows(s)
    BY <1>19, GotoMoves, FreeMoves, StaysOut
    DEF NothingToRecheck, MarkScanned, RecheckThrows, ProcessPCs, flags
<1> QED
    BY <1>1, <1>2, <1>4, <1>5, <1>6, <1>7, <1>9, <1>10, <1>12, <1>13, <1>14, <1>15, <1>16,
       <1>17, <1>18, <1>19 DEF BodyStep

LEMMA StepKeepsExclusion ==
    TypeInv /\ ProcessingIsExclusive /\ [Next]_vars => ProcessingIsExclusive'
<1> SUFFICES ASSUME TypeInv, ProcessingIsExclusive, [Next]_vars PROVE ProcessingIsExclusive'
    OBVIOUS
<1>1. ASSUME UNCHANGED <<body, flags>> PROVE ProcessingIsExclusive'
    BY <1>1 DEF ProcessingIsExclusive, Processors, Doc, flags
<1>2. ASSUME NEW s \in Slots, BodyStep(s) PROVE ProcessingIsExclusive'
    BY <1>2, BodyStepKeepsExclusion
<1>3. CASE Deliver \/ BootStep
    BY <1>1, <1>3
    DEF Deliver, BootStep, BootResume, BootRecheck, BootRebuild, BootDone, BootPhase
<1>4. ASSUME NEW r \in Requests, RequestStep(r) PROVE ProcessingIsExclusive'
    BY <1>1, <1>4
    DEF RequestStep, LookUpHash, InsertNew, StageAgain, StageKnown, MarkReceived, ProcessMany,
        StoreReplacement, SwapVersion, ReplaceDone, ReplaceFails
<1>5. CASE User
    BY <1>1, <1>5 DEF User, IngestMany, ReindexCall, ReplaceCall, Remove
<1>6. CASE Reload
    <2>1. \A s \in Slots : body'[s].pc = "idle"
        BY <1>6 DEF Reload, FreshPage, Idle
    <2>2. Processors' = {} /\ processing' = {}
        BY <1>6, <2>1 DEF Reload, Processors, ProcessPCs
    <2> QED
        BY <2>2 DEF ProcessingIsExclusive
<1>7. CASE UNCHANGED vars
    BY <1>1, <1>7 DEF vars
<1> QED
    BY <1>2, <1>3, <1>4, <1>5, <1>6, <1>7 DEF Next, Page

LEMMA InitIsExclusive == Init => ProcessingIsExclusive
<1> SUFFICES ASSUME Init PROVE ProcessingIsExclusive
    OBVIOUS
<1>1. \A s \in Slots : body[s].pc = "idle"
    BY DEF Init, FreshPage, Idle
<1>2. Processors = {} /\ processing = {}
    BY <1>1 DEF Init, Processors, ProcessPCs
<1> QED
    BY <1>2 DEF ProcessingIsExclusive

\* At any time processingIds holds exactly the documents a processDocument or a
\* reindex is at work on, and no document has two of them.
THEOREM ProcessingExclusion == Spec => []ProcessingIsExclusive
<1>1. Init => TypeInv /\ ProcessingIsExclusive
    BY InitTypes, InitIsExclusive
<1>2. TypeInv /\ ProcessingIsExclusive /\ [Next]_vars => (TypeInv /\ ProcessingIsExclusive)'
    BY StepTypes, StepKeepsExclusion
<1>3. Spec => [](TypeInv /\ ProcessingIsExclusive)
    BY <1>1, <1>2, PTL DEF Spec
<1> QED
    BY <1>3, PTL
-----------------------------------------------------------------------------
(***************************************************************************)
(* A deleted document leaves no chunks: every write of a body or a request *)
(* is one worker call, and no call adds chunks to a row that is gone.      *)
(***************************************************************************)
\* What one worker call may do to the tables.
Writes(d) ==
    \/ UNCHANGED rows /\ UNCHANGED chunks
    \/ \E st \in Statuses \ NoRow, e \in Errors : SetStatus(d, st, e)
    \/ \E h : InsertDocument(d, h)
    \/ DeleteChunks(d)
    \/ \E b : InsertChunks(d, b)
    \/ \E b : ReindexDocument(d, b)
    \/ \E h, b : ReplaceDocument(d, h, b)
    \/ DeleteDocument(d)

LEMMA StepWrites == [Next]_vars => \E d : Writes(d)
<1> SUFFICES ASSUME [Next]_vars PROVE \E d : Writes(d)
    OBVIOUS
<1> USE DEF Statuses, NoRow, InFlight, Errors, Writes
<1>1. ASSUME NEW s \in Slots, BodyStep(s) PROVE \E d : Writes(d)
    <2>1. CASE (\E c \in Callers : StartProcess(s, c) \/ StartReindex(s, c) \/ StartOcr(s, c))
               \/ CreateOriginal(s) \/ Finish(s) \/ CountBefore(s) \/ OcrEnd(s)
               \/ StartResume(s) \/ ResumeProcess(s) \/ StartRecheck(s) \/ NothingToRecheck(s)
               \/ RecheckThrows(s) \/ RecheckOcr(s)
        BY <2>1
        DEF StartProcess, StartReindex, StartOcr, CreateOriginal, Finish, CountBefore, OcrEnd,
            StartResume, ResumeProcess, StartRecheck, NothingToRecheck, RecheckThrows, RecheckOcr,
            store
    <2>2. CASE WriteOriginal(s) \/ StoreRefused(s)
        BY <2>2 DEF WriteOriginal, StoreRefused, MarkParsing
    <2>3. CASE Parsed(s) \/ ProcessFails(s) \/ OcrReady(s) \/ OcrFails(s) \/ MarkScanned(s)
        BY <2>3 DEF Parsed, ProcessFails, OcrReady, OcrFails, MarkScanned
    <2>4. CASE Chunked(s) \/ Indexed(s)
        BY <2>4 DEF Chunked, Indexed
    <2>5. CASE Embedded(s) \/ SwapIndex(s) \/ OcrDropOld(s)
        BY <2>5 DEF Embedded, SwapIndex, OcrDropOld
    <2>6. CASE ReadToReindex(s) \/ ReindexFails(s)
        BY <2>6 DEF ReadToReindex, ReindexFails, ReindexGivesUp, store
    <2>7. CASE RegisterOcr(s) \/ OcrInsert(s) \/ ClearToResume(s)
        BY <2>7 DEF RegisterOcr, OcrInsert, ClearToResume
    <2> QED
        BY <1>1, <2>1, <2>2, <2>3, <2>4, <2>5, <2>6, <2>7 DEF BodyStep
<1>2. ASSUME NEW r \in Requests, RequestStep(r) PROVE \E d : Writes(d)
    <2>1. CASE LookUpHash(r) \/ StageKnown(r) \/ ProcessMany(r) \/ StoreReplacement(r) \/ ReplaceFails(r)
        BY <2>1
        DEF LookUpHash, StageKnown, ProcessMany, StoreReplacement, ReplaceFails, store
    <2>2. CASE InsertNew(r)
        BY <2>2 DEF InsertNew
    <2>3. CASE StageAgain(r) \/ MarkReceived(r) \/ SwapVersion(r) \/ ReplaceDone(r)
        BY <2>3 DEF StageAgain, MarkReceived, SwapVersion, ReplaceDone
    <2> QED
        BY <1>2, <2>1, <2>2, <2>3 DEF RequestStep
<1>3. CASE Deliver \/ BootStep
    BY <1>3
    DEF Deliver, BootStep, BootResume, BootRecheck, BootRebuild, BootDone, BootPhase, store
<1>4. CASE User
    BY <1>4 DEF User, IngestMany, ReindexCall, ReplaceCall, Remove, store
<1>5. CASE Reload \/ UNCHANGED vars
    BY <1>5 DEF Reload, vars, store
<1> QED
    BY <1>1, <1>2, <1>3, <1>4, <1>5 DEF Next, Page

LEMMA WritesLeaveNoGhost ==
    ASSUME TypeInv, RemovedIsUnindexed, NEW d, Writes(d)
    PROVE  RemovedIsUnindexed'
<1> USE DEF TypeInv, TablesOK, RemovedIsUnindexed, Row, Batch
<1>1. ASSUME NEW st \in Statuses \ NoRow, NEW e \in Errors, SetStatus(d, st, e)
      PROVE  RemovedIsUnindexed'
    BY <1>1 DEF SetStatus, Exists
<1>2. ASSUME NEW h, InsertDocument(d, h) PROVE RemovedIsUnindexed'
    BY <1>2 DEF InsertDocument, NoRow
<1>3. ASSUME NEW b, InsertChunks(d, b) PROVE RemovedIsUnindexed'
    BY <1>3 DEF InsertChunks, Exists
<1>4. ASSUME NEW b, ReindexDocument(d, b) PROVE RemovedIsUnindexed'
    BY <1>4 DEF ReindexDocument, Exists, NoRow
<1>5. ASSUME NEW h, NEW b, ReplaceDocument(d, h, b) PROVE RemovedIsUnindexed'
    BY <1>5 DEF ReplaceDocument, Exists, NoRow
<1>6. CASE DeleteChunks(d)
    BY <1>6 DEF DeleteChunks
<1>7. CASE DeleteDocument(d)
    BY <1>7 DEF DeleteDocument
<1> QED
    BY <1>1, <1>2, <1>3, <1>4, <1>5, <1>6, <1>7 DEF Writes

LEMMA StepLeavesNoGhost ==
    TypeInv /\ RemovedIsUnindexed /\ [Next]_vars => RemovedIsUnindexed'
BY StepWrites, WritesLeaveNoGhost

\* No interleaving of a deletion with an ingestion, a rebuild, an OCR pass, a
\* replacement or a crash leaves chunks of a document that is gone.
THEOREM NoGhostChunks == Spec => []RemovedIsUnindexed
<1>1. Init => TypeInv /\ RemovedIsUnindexed
    BY InitTypes DEF Init, RemovedIsUnindexed, NoRow
<1>2. TypeInv /\ RemovedIsUnindexed /\ [Next]_vars => (TypeInv /\ RemovedIsUnindexed)'
    BY StepTypes, StepLeavesNoGhost
<1>3. Spec => [](TypeInv /\ RemovedIsUnindexed)
    BY <1>1, <1>2, PTL DEF Spec
<1> QED
    BY <1>3, PTL
-----------------------------------------------------------------------------
(***************************************************************************)
(* No row is stranded.  The worker answers in the order it was asked, so   *)
(* the order of inbox tells which of two tasks goes on first; the argument *)
(* below is mostly about that order.  First, what appending to a sequence  *)
(* without repetitions, or dropping its head, does to the order.           *)
(***************************************************************************)
Has(q, t)      == \E i \in DOMAIN q : q[i] = t
Ahead(q, t, u) == \E i, j \in DOMAIN q : i < j /\ q[i] = t /\ q[j] = u
Distinct(q)    == \A i, j \in DOMAIN q : q[i] = q[j] => i = j

LEMMA TailOrder ==
    ASSUME NEW S, NEW q \in Seq(S), q # <<>>, Distinct(q)
    PROVE  /\ Distinct(Tail(q))
           /\ ~Has(Tail(q), Head(q))
           /\ \A t : t # Head(q) => (Has(Tail(q), t) <=> Has(q, t))
           /\ \A t, u : t # Head(q) => (Ahead(Tail(q), t, u) <=> Ahead(q, t, u))
<1>1. /\ Len(q) \in Nat \ {0} /\ DOMAIN q = 1..Len(q) /\ Head(q) = q[1]
      /\ Len(Tail(q)) = Len(q) - 1 /\ DOMAIN Tail(q) = 1..(Len(q) - 1)
      /\ \A i \in 1..(Len(q) - 1) : Tail(q)[i] = q[i + 1]
    BY HeadTailProperties, EmptySeq, LenProperties
<1> DEFINE r == Tail(q)
<1> HIDE DEF r
<1>2. /\ DOMAIN r = 1..(Len(q) - 1)
      /\ \A i \in 1..(Len(q) - 1) : r[i] = q[i + 1]
    BY <1>1 DEF r
<1>3. Distinct(r)
    BY <1>1, <1>2 DEF Distinct
<1>4. ~Has(r, q[1])
    BY <1>1, <1>2 DEF Distinct, Has
<1>5. ASSUME NEW t, t # q[1] PROVE Has(r, t) <=> Has(q, t)
    <2>1. ASSUME NEW i \in DOMAIN q, q[i] = t PROVE Has(r, t)
        <3>1. i - 1 \in DOMAIN r /\ r[i - 1] = t
            BY <1>1, <1>2, <1>5, <2>1
        <3> QED BY <3>1 DEF Has
    <2>2. ASSUME NEW i \in DOMAIN r, r[i] = t PROVE Has(q, t)
        <3>1. i + 1 \in DOMAIN q /\ q[i + 1] = t
            BY <1>1, <1>2, <2>2
        <3> QED BY <3>1 DEF Has
    <2> QED BY <2>1, <2>2 DEF Has
<1>6. ASSUME NEW t, NEW u, t # q[1] PROVE Ahead(r, t, u) <=> Ahead(q, t, u)
    <2>1. ASSUME NEW i \in DOMAIN q, NEW j \in DOMAIN q, i < j, q[i] = t, q[j] = u
          PROVE  Ahead(r, t, u)
        <3>1. /\ i - 1 \in DOMAIN r /\ r[i - 1] = t /\ i - 1 < j - 1
              /\ j - 1 \in DOMAIN r /\ r[j - 1] = u
            BY <1>1, <1>2, <1>6, <2>1
        <3> QED BY <3>1 DEF Ahead
    <2>2. ASSUME NEW i \in DOMAIN r, NEW j \in DOMAIN r, i < j, r[i] = t, r[j] = u
          PROVE  Ahead(q, t, u)
        <3>1. /\ i + 1 \in DOMAIN q /\ q[i + 1] = t /\ i + 1 < j + 1
              /\ j + 1 \in DOMAIN q /\ q[j + 1] = u
            BY <1>1, <1>2, <2>2
        <3> QED BY <3>1 DEF Ahead
    <2> QED BY <2>1, <2>2 DEF Ahead
<1> QED
    BY <1>1, <1>3, <1>4, <1>5, <1>6 DEF r

LEMMA AppendOrder ==
    ASSUME NEW S, NEW q \in Seq(S), NEW v \in S, Distinct(q), ~Has(q, v)
    PROVE  /\ Distinct(Append(q, v))
           /\ Has(Append(q, v), v)
           /\ \A t : t # v => (Has(Append(q, v), t) <=> Has(q, t))
           /\ \A t, u : u # v => (Ahead(Append(q, v), t, u) <=> Ahead(q, t, u))
           /\ \A t : Has(q, t) => Ahead(Append(q, v), t, v)
<1>1. /\ Len(q) \in Nat /\ DOMAIN q = 1..Len(q)
      /\ DOMAIN Append(q, v) = 1..(Len(q) + 1)
      /\ \A i \in 1..Len(q) : Append(q, v)[i] = q[i]
      /\ Append(q, v)[Len(q) + 1] = v
    BY AppendProperties, LenProperties
<1> DEFINE r == Append(q, v)
<1> HIDE DEF r
<1>2. /\ DOMAIN r = 1..(Len(q) + 1)
      /\ \A i \in 1..Len(q) : r[i] = q[i]
      /\ r[Len(q) + 1] = v
    BY <1>1 DEF r
<1>3. Distinct(r)
    BY <1>1, <1>2 DEF Distinct, Has
<1>4. Has(r, v)
    BY <1>1, <1>2 DEF Has
<1>5. ASSUME NEW t, t # v PROVE Has(r, t) <=> Has(q, t)
    BY <1>1, <1>2, <1>5 DEF Has
<1>6. ASSUME NEW t, NEW u, u # v PROVE Ahead(r, t, u) <=> Ahead(q, t, u)
    BY <1>1, <1>2, <1>6 DEF Ahead
<1>7. ASSUME NEW t, Has(q, t) PROVE Ahead(r, t, v)
    BY <1>1, <1>2, <1>7 DEF Ahead, Has
<1> QED
    BY <1>3, <1>4, <1>5, <1>6, <1>7 DEF r
-----------------------------------------------------------------------------
\* A task that goes on, with or without another call, leaves the order of the
\* others as it was and joins the end of the queue if it asks again.
Before(t, u) == Ahead(inbox, t, u)
Once         == Distinct(inbox)
Moves(t)     == Answered(t) /\ (Ask(t) \/ Resume(t))

LEMMA InboxAfter ==
    ASSUME InboxOK, Once, NEW t \in Tasks, Moves(t)
    PROVE  /\ Once'
           /\ Waits(t)' <=> Ask(t)
           /\ Resume(t) => ~Ask(t)
           /\ \A u \in Tasks \ {t} : Waits(u)' <=> Waits(u)
           /\ Ask(t) => \A u \in Tasks \ {t} : Waits(u) => Before(u, t)'
           /\ \A u, v \in Tasks \ {t} : Before(u, v)' <=> Before(u, v)
<1>1. /\ Rest(t) \in Seq(Tasks) /\ Distinct(Rest(t)) /\ ~Has(Rest(t), t)
      /\ \A u : u # t => (Has(Rest(t), u) <=> Has(inbox, u))
      /\ \A u, v : u # t => (Ahead(Rest(t), u, v) <=> Ahead(inbox, u, v))
    <2>1. CASE First(t)
        BY <2>1, TailOrder, HeadTailProperties DEF First, Rest, InboxOK, Once
    <2>2. CASE ~First(t)
        BY <2>2 DEF Rest, Moves, Answered, Waits, Has, InboxOK, Once
    <2> QED BY <2>1, <2>2
<1>0. Resume(t) => ~Ask(t)
    <2>1. Len(Append(Rest(t), t)) = Len(Rest(t)) + 1 /\ Len(Rest(t)) \in Nat
        BY <1>1, AppendProperties, LenProperties
    <2> QED BY <2>1 DEF Ask, Resume
<1>2. CASE Ask(t)
    <2> DEFINE r == Rest(t)
    <2>1. inbox' = Append(r, t) /\ r \in Seq(Tasks) /\ Distinct(r) /\ ~Has(r, t)
        BY <1>1, <1>2 DEF Ask
    <2> HIDE DEF r
    <2>2. /\ Distinct(inbox') /\ Has(inbox', t)
          /\ \A u : u # t => (Has(inbox', u) <=> Has(r, u))
          /\ \A u, v : v # t => (Ahead(inbox', u, v) <=> Ahead(r, u, v))
          /\ \A u : Has(r, u) => Ahead(inbox', u, t)
        BY <2>1, AppendOrder
    <2>3. \A u : Waits(u)' <=> Has(inbox', u)
        BY DEF Waits, Has
    <2>4. \A u : Waits(u) <=> Has(inbox, u)
        BY DEF Waits, Has
    <2> QED
        BY <1>0, <1>1, <1>2, <2>2, <2>3, <2>4 DEF Once, Before, r
<1>3. CASE Resume(t)
    <2>1. inbox' = Rest(t)
        BY <1>3 DEF Resume
    <2>2. \A u : Waits(u)' <=> Has(inbox', u)
        BY DEF Waits, Has
    <2>3. \A u : Waits(u) <=> Has(inbox, u)
        BY DEF Waits, Has
    <2> QED
        BY <1>0, <1>1, <1>3, <2>1, <2>2, <2>3 DEF Once, Before
<1> QED BY <1>2, <1>3 DEF Moves

\* Who is behind somebody waits, and is not the one to be answered next.
LEMMA BehindWaits ==
    ASSUME InboxOK, Once, NEW t, NEW u, Before(t, u)
    PROVE  /\ Waits(t) /\ Waits(u) /\ ~Answered(u) /\ t # u
           /\ inbox # <<>> /\ Head(inbox) # u
<1>1. PICK i \in DOMAIN inbox, j \in DOMAIN inbox : i < j /\ inbox[i] = t /\ inbox[j] = u
    BY DEF Before, Ahead
<1>2. DOMAIN inbox = 1..Len(inbox) /\ Len(inbox) \in Nat
    BY LenProperties DEF InboxOK
<1>3. inbox # <<>> /\ Head(inbox) = inbox[1] /\ 1 \in DOMAIN inbox
    BY <1>1, <1>2, HeadTailProperties DEF InboxOK
<1>4. inbox[1] # u /\ t # u
    BY <1>1, <1>2, <1>3 DEF Once, Distinct
<1>5. Waits(t) /\ Waits(u)
    BY <1>1 DEF Waits
<1> QED
    BY <1>3, <1>4, <1>5 DEF Answered, First

\* Who waits for nothing has been answered, and can go on without the inbox.
LEMMA SilentMoves ==
    ASSUME InboxOK, NEW t \in Tasks, ~Waits(t), UNCHANGED inbox
    PROVE  Answered(t) /\ Resume(t) /\ Moves(t)
<1>1. ~First(t)
    <2>1. CASE inbox = <<>>
        BY <2>1 DEF First
    <2>2. CASE inbox # <<>>
        <3>1. Head(inbox) = inbox[1] /\ 1 \in DOMAIN inbox
            BY <2>2, HeadTailProperties, LenProperties, EmptySeq DEF InboxOK
        <3> QED BY <3>1 DEF First, Waits
    <2> QED BY <2>1, <2>2
<1> QED
    BY <1>1 DEF Moves, Answered, Resume, Rest
-----------------------------------------------------------------------------
(***************************************************************************)
(* The invariant, part by part.                                            *)
(***************************************************************************)
\* Which tasks are waiting for an answer.
Silent == {"idle", "storing", "writing", "resume", "recheck"}
Asked ==
    /\ Once
    /\ \A s \in Slots : Waits(s) => body[s].pc \notin Silent
    /\ \A s \in Slots : body[s].pc = "ocrEnd" => Waits(s)
    /\ \A r \in Requests : Waits(r) => request[r].pc \notin {"idle", "replace", "replaceStored"}
    /\ \A r \in Requests : request[r].pc = "restage" => Waits(r)

\* Whoever names a document names one whose row has been inserted.
Born ==
    /\ \A s \in Slots : body[s].pc # "idle" => rows[Doc(s)].status # "unborn"
    /\ \A c \in Callers : \A i \in DOMAIN queue[c] : rows[queue[c][i].doc].status # "unborn"
    /\ \A r \in Requests :
        /\ request[r].doc # None => rows[request[r].doc].status # "unborn"
        /\ \A i \in DOMAIN request[r].jobs : rows[request[r].jobs[i].doc].status # "unborn"
    /\ \A d \in shownReady : rows[d].status # "unborn"

\* A document's controller belongs to a pass that is still reading it.
Holding == {"ocrRun", "ocrInsert", "ocrReady", "ocrEnd"}
Registered ==
    \A d \in Docs : ocrAborts[d] # None =>
        Doc(ocrAborts[d]) = d /\ body[ocrAborts[d]].pc \in Holding

\* With one file in each selection, nothing staged is left behind by a later file.
OneFile ==
    \A r \in Requests :
        /\ Len(request[r].left) <= 1
        /\ request[r].jobs # <<>> => request[r].left = <<>> /\ request[r].pc = "stage"
        /\ \A i \in DOMAIN request[r].jobs : request[r].jobs[i].op = "process"
        /\ request[r].pc # "idle" => queue[r] = <<>>

\* Each start-up repair queues calls of its own kind only.
OpOf(p) == CASE p = "resuming"   -> "resume"  [] p = "rechecking" -> "recheck"
             [] p = "rebuilding" -> "reindex" [] OTHER            -> "none"
BootLists ==
    /\ \A i \in DOMAIN queue["boot"] : queue["boot"][i].op = OpOf(phase)
    /\ \A s \in Slots : body[s].pc = "recheck" =>
          body[s].owner = "boot" /\ phase \in {"rechecking", "stopped"}

Indexing == {"storing", "writing", "parsing", "chunking", "embedding", "indexed", "scanned"}
Reading  == {"recheckOcr", "ocrRow", "ocrRun", "ocrInsert", "ocrReady"}

WorksOn(d, pcs) == \E s \in Slots : Doc(s) = d /\ body[s].pc \in pcs
Ticket(d, ops)  == \E c \in Callers : \E i \in DOMAIN queue[c] :
                       queue[c][i].doc = d /\ queue[c][i].op \in ops
HasJob(r, d)    == \E i \in DOMAIN request[r].jobs : request[r].jobs[i].doc = d
Replaced(r, d)  == request[r].pc = "replaced" /\ request[r].doc = d

WillBeReady(d) == WorksOn(d, {"ocrReady"}) \/ (\E r \in Requests : Replaced(r, d))
WillBeRead(d)  == WorksOn(d, Indexing \cup Reading) \/ Ticket(d, {"ocr"})

\* A file dropped again is staged before a body that has come in meanwhile goes
\* on, and chunks that have come in meanwhile belong to somebody behind it.
StagedFirst ==
    \A r \in Requests : request[r].pc = "restage" =>
        LET d == request[r].doc IN
        /\ \A s \in Processors : Doc(s) = d /\ body[s].pc \notin {"storing", "writing"} =>
              Before(r, s) /\ body[s].pc \in {"parsing", "riRow", "finish"}
        /\ chunks[d] # <<>> =>
              \/ \E s \in Slots : Doc(s) = d /\ body[s].pc = "ocrReady" /\ Before(r, s)
              \/ \E q \in Requests : Replaced(q, d) /\ Before(r, q)

Parsing == {"chunking", "embedding", "indexed", "scanned"}
PastReceived == \A s \in Slots : body[s].pc \in Parsing => rows[Doc(s)].status # "received"

\* A body that has written its last status waits ahead of whoever wrote over it.
Advancing  == {"parsing", "chunking", "embedding", "scanned", "recheckOcr", "ocrRun"}
Settled(s) == body[s].pc \in {"finish", "ocrEnd"} /\ Waits(s)
LaterWork ==
    \A s \in Slots : Settled(s) /\ rows[Doc(s)].status \in InFlight =>
        IF rows[Doc(s)].status = "received"
        THEN \E r \in Requests : request[r].pc = "stage" /\ HasJob(r, Doc(s)) /\ Before(s, r)
        ELSE \E w \in Slots : Doc(w) = Doc(s) /\ body[w].pc \in Advancing /\ Before(s, w)

\* A rebuild that would leave the row alone finds an index, and a row in
\* progress that has one is about to be written by somebody else.
KeepsIndex(s)  == \/ body[s].pc \in {"riCounted", "riRun"} /\ body[s].had
                  \/ body[s].pc = "finish" /\ ~Waits(s)
Rebuildable(d) == d \in shownReady \/ Ticket(d, {"reindex"}) \/ WorksOn(d, {"riRow"})
MayBeKept(d)   == \/ Rebuildable(d) /\ chunks[d] # <<>>
                  \/ \E s \in Slots : Doc(s) = d /\ KeepsIndex(s)
WillBeWritten(d) == WillBeReady(d) \/ (rows[d].status # "received" /\ WillBeRead(d))
Kept(d)   == MayBeKept(d) /\ rows[d].status \in InFlight => WillBeWritten(d)
IndexKept == \A d \in Docs : Kept(d)

\* Somebody who will write the row has the document in hand.
Cared(d) ==
    \/ WorksOn(d, Indexing \cup Reading \cup {"resume", "cleared", "riRow"})
    \/ \E s \in Slots : Doc(s) = d /\ body[s].pc \in {"riCounted", "riRun"} /\ ~body[s].had
    \/ Ticket(d, {"process", "ocr", "resume"})
    \/ \E r \in Requests : HasJob(r, d) \/ Replaced(r, d)
InHand(d) == phase # "init" /\ rows[d].status \in InFlight => Cared(d)
AllCared  == \A d \in Docs : InHand(d)

OrderInv == Asked /\ Registered /\ StagedFirst /\ PastReceived /\ LaterWork
CareInv  == OrderInv /\ Born /\ OneFile /\ BootLists /\ IndexKept /\ AllCared
-----------------------------------------------------------------------------
(***************************************************************************)
(* A step of one body.  It moves body s, on document d before unless idle  *)
(* and after unless it ends, and touches the row and chunks of d at most.  *)
(***************************************************************************)
BodyMove(s, d) ==
    /\ Others(s) /\ UNCHANGED request /\ Moves(s)
    /\ body[s].pc = "idle" \/ Doc(s) = d
    /\ body'[s].pc = "idle" \/ body'[s].doc = d
    /\ \A e \in Docs \ {d} : rows'[e].status = rows[e].status /\ chunks'[e] = chunks[e]

\* A body never takes a row back to received.
StatusMove(s, d) ==
    \/ rows'[d].status = rows[d].status
    \/ rows'[d].status \notin InFlight
    \/ rows'[d].status # "received" /\ body'[s].pc \in Advancing /\ Ask(s)

Slowly == {"parsing", "riRow", "finish"}
Later  == ProcessPCs \ {"storing", "writing"}

\* What the order of the answers asks of it.
OrderlyMove(s, d) ==
    /\ StatusMove(s, d)
    /\ \/ Ask(s) /\ body'[s].pc \notin Silent
       \/ Resume(s) /\ body'[s].pc # "ocrEnd"
    /\ body'[s].pc \in Later => body[s].pc \in Later \/ (body'[s].pc \in Slowly /\ Ask(s))
    /\ \/ chunks'[d] \in {chunks[d], <<>>} \/ body[s].pc \in Later
       \/ body'[s].pc = "ocrReady" /\ Ask(s)
    /\ body'[s].pc \in Parsing => rows'[d].status # "received"
    /\ body'[s].pc \in {"finish", "ocrEnd"} /\ Ask(s) => rows'[d].status \notin InFlight
    /\ body[s].pc \in Holding =>
          \/ UNCHANGED ocrAborts /\ body'[s].pc \in Holding
          \/ body'[s].pc = "idle" /\ ocrAborts' = [ocrAborts EXCEPT ![d] = None]
    /\ body[s].pc \notin Holding =>
          \/ UNCHANGED ocrAborts
          \/ body'[s].pc \in Holding /\ ocrAborts' = [ocrAborts EXCEPT ![d] = s]

LEMMA BodyAsked ==
    ASSUME TypeInv, Asked, NEW s \in Slots, NEW d \in Docs, BodyMove(s, d), OrderlyMove(s, d)
    PROVE  Asked'
<1>1. /\ Once' /\ (Waits(s)' <=> Ask(s)) /\ (Resume(s) => ~Ask(s))
      /\ \A u \in Tasks \ {s} : Waits(u)' <=> Waits(u)
    BY InboxAfter, CallerTypes DEF TypeInv, Asked, BodyMove
<1>2. \A t \in Slots \ {s} : (Waits(t)' <=> Waits(t)) /\ body'[t] = body[t]
    BY <1>1, CallerTypes DEF BodyMove, Others
<1>3. \A r \in Requests : (Waits(r)' <=> Waits(r)) /\ request'[r] = request[r]
    BY <1>1, CallerTypes, LibraryAssumption DEF BodyMove
<1>4. (Waits(s)' => body'[s].pc \notin Silent) /\ (body'[s].pc = "ocrEnd" => Waits(s)')
    BY <1>1 DEF OrderlyMove
<1> QED
    BY <1>1, <1>2, <1>3, <1>4 DEF Asked

LEMMA BodyRegistered ==
    ASSUME TypeInv, Registered, NEW s \in Slots, NEW d \in Docs, BodyMove(s, d), OrderlyMove(s, d)
    PROVE  Registered'
<1>1. /\ \A t \in Slots \ {s} : body'[t] = body[t]
      /\ None \notin Slots /\ ocrAborts \in [Docs -> Slots \cup {None}]
    BY LibraryAssumption DEF TypeInv, FlagsOK, BodyMove, Others
<1>2. CASE body[s].pc \in Holding
    <2>1. Doc(s) = d
        BY <1>2 DEF BodyMove, Holding
    <2>2. CASE UNCHANGED ocrAborts /\ body'[s].pc \in Holding
        <3>1. body'[s].doc = d
            BY <2>2 DEF BodyMove, Holding
        <3> QED
            BY <1>1, <1>2, <2>1, <2>2, <3>1 DEF Registered, Doc
    <2>3. CASE ocrAborts' = [ocrAborts EXCEPT ![d] = None]
        BY <1>1, <2>1, <2>3 DEF Registered, Doc
    <2> QED BY <1>2, <2>2, <2>3 DEF OrderlyMove
<1>3. CASE body[s].pc \notin Holding
    <2>1. \A e \in Docs : ocrAborts[e] # s
        BY <1>1, <1>3 DEF Registered
    <2>2. CASE UNCHANGED ocrAborts
        BY <1>1, <2>1, <2>2 DEF Registered, Doc
    <2>3. CASE body'[s].pc \in Holding /\ ocrAborts' = [ocrAborts EXCEPT ![d] = s]
        <3>1. body'[s].doc = d
            BY <2>3 DEF BodyMove, Holding
        <3> QED
            BY <1>1, <2>1, <2>3, <3>1 DEF Registered, Doc
    <2> QED BY <1>3, <2>2, <2>3 DEF OrderlyMove
<1> QED BY <1>2, <1>3

LEMMA BodyStagedFirst ==
    ASSUME TypeInv, Asked, StagedFirst, NEW s \in Slots, NEW d \in Docs,
           BodyMove(s, d), OrderlyMove(s, d)
    PROVE  StagedFirst'
<1>1. /\ \A t \in Slots \ {s} : body'[t] = body[t]
      /\ UNCHANGED request /\ Answered(s)
    BY DEF BodyMove, Others, Moves
<1>2. /\ \A u \in Tasks \ {s} : Ask(s) /\ Waits(u) => Before(u, s)'
      /\ \A u, v \in Tasks \ {s} : Before(u, v)' <=> Before(u, v)
    BY InboxAfter, CallerTypes DEF TypeInv, Asked, BodyMove
<1> SUFFICES ASSUME NEW r \in Requests, request[r].pc = "restage"
             PROVE  LET e == request[r].doc IN
                    /\ \A t \in Slots : body'[t].pc \in ProcessPCs /\ body'[t].doc = e
                                        /\ body'[t].pc \notin {"storing", "writing"} =>
                          Before(r, t)' /\ body'[t].pc \in Slowly
                    /\ chunks'[e] # <<>> =>
                          \/ \E t \in Slots : body'[t].doc = e /\ body'[t].pc = "ocrReady" /\ Before(r, t)'
                          \/ \E q \in Requests : request[q].pc = "replaced" /\ request[q].doc = e
                                                 /\ Before(r, q)'
    BY <1>1 DEF StagedFirst, Processors, Doc, Replaced, Slowly
<1> DEFINE e == request[r].doc
<1>3. e \in Docs /\ Waits(r) /\ r \in Tasks \ {s}
    BY RequestIsOK, CallerTypes, LibraryAssumption DEF RequestOK, Asked
<1>4. /\ \A t \in Slots : /\ body[t].pc \in Later /\ body[t].doc = e =>
                                Before(r, t) /\ body[t].pc \in Slowly
                          /\ Before(r, t) => t # s
      /\ \A q \in Requests : q # s
    BY <1>1, BehindWaits, LibraryAssumption
    DEF StagedFirst, Processors, Doc, Later, Slowly, TypeInv, Asked
<1>5. /\ \A t \in Slots \ {s} : Before(r, t) => Before(r, t)'
      /\ \A q \in Requests : Before(r, q) => Before(r, q)'
      /\ Ask(s) => Before(r, s)'
    BY <1>2, <1>3, <1>4, CallerTypes
<1>6. ASSUME NEW t \in Slots, body'[t].pc \in Later, body'[t].doc = e
      PROVE  Before(r, t)' /\ body'[t].pc \in Slowly
    <2>1. CASE t # s
        BY <1>1, <1>4, <1>5, <1>6, <2>1
    <2>2. CASE t = s
        <3>1. e = d
            BY <1>6, <2>2 DEF BodyMove, Later, ProcessPCs
        <3>2. body[s].pc \notin Later
            BY <1>4, <3>1 DEF BodyMove, Later, ProcessPCs, Doc
        <3> QED
            BY <1>5, <1>6, <2>2, <3>2 DEF OrderlyMove
    <2> QED BY <2>1, <2>2
<1>7. ASSUME chunks'[e] # <<>>
      PROVE  \/ \E t \in Slots : body'[t].doc = e /\ body'[t].pc = "ocrReady" /\ Before(r, t)'
             \/ \E q \in Requests : request[q].pc = "replaced" /\ request[q].doc = e /\ Before(r, q)'
    <2>1. CASE chunks'[e] = chunks[e]
        <3>1. \/ \E t \in Slots : Doc(t) = e /\ body[t].pc = "ocrReady" /\ Before(r, t)
              \/ \E q \in Requests : request[q].pc = "replaced" /\ request[q].doc = e /\ Before(r, q)
            BY <1>7, <2>1 DEF StagedFirst, Replaced
        <3> QED
            BY <1>1, <1>4, <1>5, <3>1 DEF Doc
    <2>2. CASE chunks'[e] # chunks[e]
        <3>1. e = d
            BY <1>3, <2>2 DEF BodyMove
        <3>2. body[s].pc \notin Later
            BY <1>4, <3>1 DEF BodyMove, Later, ProcessPCs, Doc
        <3>3. body'[s].pc = "ocrReady" /\ Ask(s) /\ body'[s].doc = e
            BY <1>7, <2>2, <3>1, <3>2 DEF OrderlyMove, BodyMove
        <3> QED BY <1>5, <3>3
    <2> QED BY <2>1, <2>2
<1> QED
    BY <1>6, <1>7 DEF Later

LEMMA BodyPastReceived ==
    ASSUME TypeInv, PastReceived, NEW s \in Slots, NEW d \in Docs, BodyMove(s, d), OrderlyMove(s, d)
    PROVE  PastReceived'
<1> SUFFICES ASSUME NEW t \in Slots, body'[t].pc \in Parsing
             PROVE  rows'[body'[t].doc].status # "received"
    BY DEF PastReceived, Doc
<1>1. CASE t = s
    BY <1>1 DEF BodyMove, OrderlyMove, Parsing
<1>2. CASE t # s
    <2>1. body'[t] = body[t] /\ body[t].pc # "idle"
        BY <1>2 DEF BodyMove, Others, Parsing
    <2>2. Doc(t) \in Docs /\ rows[Doc(t)].status # "received"
        BY <2>1, EngagedTypes DEF PastReceived
    <2> QED
        BY <2>1, <2>2 DEF BodyMove, OrderlyMove, StatusMove, Doc, InFlight
<1> QED BY <1>1, <1>2

LEMMA BodyLaterWork ==
    ASSUME TypeInv, Asked, LaterWork, NEW s \in Slots, NEW d \in Docs,
           BodyMove(s, d), OrderlyMove(s, d)
    PROVE  LaterWork'
<1>1. /\ \A t \in Slots \ {s} : body'[t] = body[t]
      /\ UNCHANGED request /\ Answered(s)
    BY DEF BodyMove, Others, Moves
<1>2. /\ \A u \in Tasks \ {s} : Ask(s) /\ Waits(u) => Before(u, s)'
      /\ \A u \in Tasks \ {s} : Waits(u)' <=> Waits(u)
      /\ Waits(s)' <=> Ask(s)
      /\ \A u, v \in Tasks \ {s} : Before(u, v)' <=> Before(u, v)
    BY InboxAfter, CallerTypes DEF TypeInv, Asked, BodyMove
<1> SUFFICES ASSUME NEW t \in Slots, body'[t].pc \in {"finish", "ocrEnd"}, Waits(t)',
                    rows'[body'[t].doc].status \in InFlight
             PROVE  IF rows'[body'[t].doc].status = "received"
                    THEN \E r \in Requests : /\ request[r].pc = "stage" /\ HasJob(r, body'[t].doc)
                                             /\ Before(t, r)'
                    ELSE \E w \in Slots : /\ body'[w].doc = body'[t].doc
                                          /\ body'[w].pc \in Advancing /\ Before(t, w)'
    BY <1>1 DEF LaterWork, Settled, Doc, HasJob
<1>3. t # s
    BY <1>2 DEF BodyMove, OrderlyMove
<1>4. /\ body'[t] = body[t] /\ Doc(t) \in Docs /\ body[t].pc \in {"finish", "ocrEnd"} /\ Waits(t)
      /\ t \in Tasks \ {s}
    BY <1>1, <1>2, <1>3, EngagedTypes, CallerTypes
<1>5. CASE rows'[Doc(t)].status = rows[Doc(t)].status
    <2>1. IF rows[Doc(t)].status = "received"
          THEN \E r \in Requests : request[r].pc = "stage" /\ HasJob(r, Doc(t)) /\ Before(t, r)
          ELSE \E w \in Slots : Doc(w) = Doc(t) /\ body[w].pc \in Advancing /\ Before(t, w)
        BY <1>4, <1>5 DEF LaterWork, Settled, Doc
    <2>2. \A u \in Tasks : Before(t, u) => u # s /\ Before(t, u)'
        BY <1>1, <1>2, <1>4, BehindWaits DEF TypeInv, Asked
    <2> QED
        BY <1>1, <1>4, <1>5, <2>1, <2>2, CallerTypes DEF Doc
<1>6. CASE rows'[Doc(t)].status # rows[Doc(t)].status
    <2>1. Doc(t) = d
        BY <1>4, <1>6 DEF BodyMove
    <2>2. rows'[d].status # "received" /\ body'[s].pc \in Advancing /\ Ask(s)
        BY <1>4, <1>6, <2>1 DEF OrderlyMove, StatusMove, Doc
    <2>3. body'[s].doc = d
        BY <2>2 DEF BodyMove, Advancing
    <2> QED
        BY <1>2, <1>4, <2>1, <2>2, <2>3 DEF Doc
<1> QED BY <1>5, <1>6

LEMMA BodyOrder ==
    ASSUME TypeInv, OrderInv, NEW s \in Slots, NEW d \in Docs, BodyMove(s, d), OrderlyMove(s, d)
    PROVE  OrderInv'
BY BodyAsked, BodyRegistered, BodyStagedFirst, BodyPastReceived, BodyLaterWork DEF OrderInv
-----------------------------------------------------------------------------
(***************************************************************************)
(* Who has a document in hand after a step of body s on document d: for    *)
(* the other documents nobody new, and nobody less.                        *)
(***************************************************************************)
SameTickets(e) ==
    /\ Ticket(e, {"reindex"})' => Ticket(e, {"reindex"})
    /\ Ticket(e, {"ocr"}) => Ticket(e, {"ocr"})'
    /\ Ticket(e, {"process", "ocr", "resume"}) => Ticket(e, {"process", "ocr", "resume"})'

BesideMove(d) ==
    /\ UNCHANGED shownReady \/ Refresh
    /\ phase # "init" \/ phase' = "init"
    /\ \A e \in Docs \ {d} : SameTickets(e)

LEMMA BodyWorksOn ==
    ASSUME NEW s \in Slots, NEW d \in Docs, BodyMove(s, d), NEW e, NEW pcs, "idle" \notin pcs
    PROVE  /\ e # d => (WorksOn(e, pcs)' <=> WorksOn(e, pcs))
           /\ WorksOn(e, pcs) => WorksOn(e, pcs)' \/ body[s].pc \in pcs
           /\ body'[s].pc \in pcs => WorksOn(d, pcs)'
           /\ WorksOn(e, pcs)' => WorksOn(e, pcs) \/ body'[s].pc \in pcs
           /\ WorksOn(e, pcs) /\ body'[s].pc \in pcs => WorksOn(e, pcs)'
<1>1. \A t \in Slots \ {s} : body'[t] = body[t]
    BY DEF BodyMove, Others
<1>2. body[s].pc \in pcs => body[s].doc = d
    BY DEF BodyMove, Doc
<1>3. body'[s].pc \in pcs => body'[s].doc = d
    BY DEF BodyMove
<1> QED
    BY <1>1, <1>2, <1>3 DEF WorksOn, Doc

LEMMA BodyBeside ==
    ASSUME TypeInv, Asked, IndexKept, AllCared, NEW s \in Slots, NEW d \in Docs,
           BodyMove(s, d), BesideMove(d), NEW e \in Docs \ {d}
    PROVE  Kept(e)' /\ InHand(e)'
<1>1. /\ \A t \in Slots \ {s} : body'[t] = body[t]
      /\ UNCHANGED request
      /\ \A t \in Slots \ {s} : Waits(t)' <=> Waits(t)
    BY InboxAfter, CallerTypes DEF TypeInv, Asked, BodyMove, Others
<1>2. /\ WorksOn(e, {"ocrReady"}) => WorksOn(e, {"ocrReady"})'
      /\ WorksOn(e, {"riRow"})' => WorksOn(e, {"riRow"})
      /\ WorksOn(e, Indexing \cup Reading) => WorksOn(e, Indexing \cup Reading)'
      /\ WorksOn(e, Indexing \cup Reading \cup {"resume", "cleared", "riRow"}) =>
         WorksOn(e, Indexing \cup Reading \cup {"resume", "cleared", "riRow"})'
    BY BodyWorksOn, "idle" \notin Indexing \cup Reading DEF Indexing, Reading
<1>3. rows'[e].status = rows[e].status /\ chunks'[e] = chunks[e] /\ SameTickets(e)
    BY DEF BodyMove, BesideMove
<1>4. WillBeWritten(e) => WillBeWritten(e)'
    BY <1>1, <1>2, <1>3 DEF WillBeWritten, WillBeReady, WillBeRead, Replaced, SameTickets
<1>5. ASSUME MayBeKept(e)', rows'[e].status \in InFlight PROVE MayBeKept(e)
    <2>1. CASE chunks'[e] # <<>> /\ Rebuildable(e)'
        <3>1. e \in shownReady' => e \in shownReady
            BY <1>5 DEF BesideMove, Refresh, InFlight
        <3> QED
            BY <1>2, <1>3, <2>1, <3>1 DEF MayBeKept, Rebuildable, SameTickets
    <2>2. ASSUME NEW t \in Slots, Doc(t)' = e, KeepsIndex(t)' PROVE MayBeKept(e)
        <3>1. t # s
            BY <2>2 DEF BodyMove, Doc, KeepsIndex
        <3> QED
            BY <1>1, <2>2, <3>1 DEF MayBeKept, Doc, KeepsIndex
    <2> QED BY <1>5, <2>1, <2>2 DEF MayBeKept
<1>6. Kept(e)'
    BY <1>3, <1>4, <1>5 DEF IndexKept, Kept
<1>7. Cared(e) => Cared(e)'
    <2>1. ASSUME NEW t \in Slots, Doc(t) = e, body[t].pc \in {"riCounted", "riRun"}, ~body[t].had
          PROVE  \E w \in Slots : Doc(w)' = e /\ body'[w].pc \in {"riCounted", "riRun"} /\ ~body'[w].had
        <3>1. t # s
            BY <2>1 DEF BodyMove, Doc
        <3> QED
            BY <1>1, <2>1, <3>1 DEF Doc
    <2> QED
        BY <1>1, <1>2, <1>3, <2>1 DEF Cared, SameTickets, HasJob, Replaced
<1>8. InHand(e)'
    BY <1>3, <1>7 DEF AllCared, InHand, BesideMove
<1> QED BY <1>6, <1>8

\* Enough for the document itself: a status that is not in progress, or the
\* body at work on a row past received.
SelfMove(s, d) ==
    \/ rows'[d].status \notin InFlight
    \/ body'[s].pc \in Indexing \cup Reading /\ rows'[d].status # "received"

LEMMA BodyCare ==
    ASSUME TypeInv, Asked, IndexKept, AllCared, NEW s \in Slots, NEW d \in Docs,
           BodyMove(s, d), BesideMove(d), SelfMove(s, d) \/ (Kept(d)' /\ InHand(d)')
    PROVE  IndexKept' /\ AllCared'
<1>1. Kept(d)' /\ InHand(d)'
    <2>1. CASE rows'[d].status \notin InFlight
        BY <2>1 DEF Kept, InHand
    <2>2. CASE body'[s].pc \in Indexing \cup Reading /\ rows'[d].status # "received"
        <3>1. body'[s].doc = d
            BY <2>2 DEF BodyMove, Indexing, Reading
        <3>2. /\ WorksOn(d, Indexing \cup Reading)'
              /\ WorksOn(d, Indexing \cup Reading \cup {"resume", "cleared", "riRow"})'
            BY <2>2, <3>1 DEF WorksOn, Doc
        <3> QED
            BY <2>2, <3>2 DEF Kept, InHand, Cared, WillBeWritten, WillBeRead
    <2> QED BY <2>1, <2>2 DEF SelfMove
<1>2. \A e \in Docs \ {d} : Kept(e)' /\ InHand(e)'
    BY BodyBeside
<1> QED
    BY <1>1, <1>2 DEF IndexKept, AllCared
-----------------------------------------------------------------------------
\* Handing over a call takes one ticket and adds none.
LEMMA TakeTickets ==
    ASSUME QueuesOK, NEW s \in Slots, NEW c \in Callers, NEW op, Take(s, c, op), NEW e, NEW ops
    PROVE  /\ Ticket(e, ops)' => Ticket(e, ops)
           /\ Ticket(e, ops) => Ticket(e, ops)' \/ (Head(queue[c]).doc = e /\ op \in ops)
           /\ Head(queue[c]).doc = e /\ op \in ops => Ticket(e, ops)
<1> DEFINE q == queue[c]
<1>1. /\ q \in Seq(Call) /\ q # <<>> /\ Head(q).op = op
      /\ queue' = [queue EXCEPT ![c] = Tail(q)] /\ DOMAIN queue = Callers
    BY DEF QueuesOK, Take
<1>2. /\ Len(q) \in Nat \ {0} /\ DOMAIN q = 1..Len(q) /\ Head(q) = q[1]
      /\ DOMAIN Tail(q) = 1..(Len(q) - 1)
      /\ \A i \in 1..(Len(q) - 1) : Tail(q)[i] = q[i + 1]
    <2> HIDE DEF q
    <2> QED BY <1>1, HeadTailProperties, EmptySeq, LenProperties
<1> DEFINE r == Tail(q)
<1>3. queue'[c] = r /\ \A b \in Callers \ {c} : queue'[b] = queue[b]
    BY <1>1
<1>4. /\ DOMAIN r = 1..(Len(q) - 1)
      /\ \A i \in 1..(Len(q) - 1) : r[i] = q[i + 1]
    BY <1>2
<1> HIDE DEF r
<1>5. ASSUME NEW b \in Callers, NEW i \in DOMAIN queue'[b], queue'[b][i].doc = e, queue'[b][i].op \in ops
      PROVE  Ticket(e, ops)
    <2>1. CASE b # c
        BY <1>3, <1>5, <2>1 DEF Ticket
    <2>2. CASE b = c
        <3>1. i + 1 \in DOMAIN q /\ q[i + 1] = queue'[b][i]
            BY <1>2, <1>3, <1>4, <1>5, <2>2
        <3> QED BY <1>5, <3>1 DEF Ticket
    <2> QED BY <2>1, <2>2
<1>6. ASSUME NEW b \in Callers, NEW i \in DOMAIN queue[b], queue[b][i].doc = e, queue[b][i].op \in ops
      PROVE  Ticket(e, ops)' \/ (Head(queue[c]).doc = e /\ op \in ops)
    <2>1. CASE b # c
        BY <1>3, <1>6, <2>1 DEF Ticket
    <2>2. CASE b = c /\ i # 1
        <3>1. i - 1 \in DOMAIN r /\ r[i - 1] = queue[b][i]
            BY <1>2, <1>4, <1>6, <2>2
        <3> QED BY <1>3, <1>6, <2>2, <3>1 DEF Ticket
    <2>3. CASE b = c /\ i = 1
        BY <1>1, <1>2, <1>6, <2>3
    <2> QED BY <2>1, <2>2, <2>3
<1>7. Head(queue[c]).doc = e /\ op \in ops => Ticket(e, ops)
    <2>1. 1 \in DOMAIN q /\ q[1] = Head(q)
        BY <1>2
    <2> QED BY <1>1, <2>1 DEF Ticket
<1> QED
    BY <1>5, <1>6, <1>7 DEF Ticket

LEMMA SameQueueTickets ==
    ASSUME UNCHANGED queue, NEW e, NEW ops
    PROVE  Ticket(e, ops)' <=> Ticket(e, ops)
BY DEF Ticket
-----------------------------------------------------------------------------
(***************************************************************************)
(* A step that leaves the status of its document alone: what must stay.    *)
(***************************************************************************)
Engine == Indexing \cup Reading
Hands  == Engine \cup {"resume", "cleared", "riRow"}
Unkept(b) == b.pc \in {"riCounted", "riRun"} /\ ~b.had

OtherReads(s, d) == \E t \in Slots \ {s} : Doc(t) = d /\ body[t].pc \in Engine
OtherHands(s, d) ==
    \/ \E t \in Slots \ {s} : Doc(t) = d /\ (body[t].pc \in Hands \/ Unkept(body[t]))
    \/ \E r \in Requests : HasJob(r, d) \/ Replaced(r, d)

\* What others had in hand before body s moved, they have after.
LEMMA OtherHandsStay ==
    ASSUME NEW s \in Slots, NEW d \in Docs, BodyMove(s, d)
    PROVE  /\ OtherHands(s, d) => Cared(d)'
           /\ OtherReads(s, d) => WillBeRead(d)'
<1>1. /\ \A t \in Slots \ {s} : body'[t] = body[t]
      /\ UNCHANGED request
    BY DEF BodyMove, Others
<1> QED
    BY <1>1 DEF OtherHands, OtherReads, Cared, WillBeRead, WorksOn, Doc, HasJob, Replaced,
                Hands, Engine, Unkept

LEMMA BodyStaysKept ==
    ASSUME TypeInv, Asked, IndexKept, NEW s \in Slots, NEW d \in Docs,
           BodyMove(s, d), UNCHANGED shownReady \/ Refresh,
           rows'[d].status = rows[d].status, chunks'[d] \in {chunks[d], <<>>},
           Ticket(d, {"reindex"})' => Ticket(d, {"reindex"}),
           body[s].pc # "ocrReady",
           Ticket(d, {"ocr"}) \/ body[s].pc \in Engine =>
               \/ Ticket(d, {"ocr"})' \/ body'[s].pc \in Engine
               \/ rows[d].status \in InFlight \ {"received"} => OtherReads(s, d),
           body'[s].pc = "riRow" => Ticket(d, {"reindex"}),
           KeepsIndex(s)' => KeepsIndex(s) \/ MayBeKept(d)
    PROVE  Kept(d)'
<1>1. /\ \A t \in Slots \ {s} : body'[t] = body[t]
      /\ UNCHANGED request
      /\ \A t \in Slots \ {s} : Waits(t)' <=> Waits(t)
    BY InboxAfter, CallerTypes DEF TypeInv, Asked, BodyMove, Others
<1>2. "idle" \notin Engine
    BY DEF Engine, Indexing, Reading
<1>3. WillBeReady(d) => WillBeReady(d)'
    BY <1>1, BodyWorksOn DEF WillBeReady, Replaced
<1>4. rows[d].status \in InFlight \ {"received"} /\ WillBeRead(d) => WillBeRead(d)'
    <2>1. WorksOn(d, Engine) => WorksOn(d, Engine)' \/ body[s].pc \in Engine
        BY <1>2, BodyWorksOn
    <2>2. body'[s].pc \in Engine => WorksOn(d, Engine)'
        BY <1>2, BodyWorksOn
    <2> QED
        BY <2>1, <2>2, OtherHandsStay DEF WillBeRead, Engine
<1>5. ASSUME MayBeKept(d)', rows[d].status \in InFlight PROVE MayBeKept(d)
    <2>1. CASE chunks'[d] # <<>> /\ Rebuildable(d)'
        <3>1. d \in shownReady' => d \in shownReady
            BY <1>5 DEF Refresh, InFlight
        <3>2. WorksOn(d, {"riRow"})' => WorksOn(d, {"riRow"}) \/ Ticket(d, {"reindex"})
            BY BodyWorksOn
        <3> QED
            BY <2>1, <3>1, <3>2 DEF MayBeKept, Rebuildable
    <2>2. ASSUME NEW t \in Slots, Doc(t)' = d, KeepsIndex(t)' PROVE MayBeKept(d)
        <3>1. CASE t = s
            BY <2>2, <3>1 DEF MayBeKept, KeepsIndex, BodyMove
        <3>2. CASE t # s
            BY <1>1, <2>2, <3>2 DEF MayBeKept, Doc, KeepsIndex
        <3> QED BY <3>1, <3>2
    <2> QED BY <1>5, <2>1, <2>2 DEF MayBeKept
<1> QED
    BY <1>3, <1>4, <1>5 DEF IndexKept, Kept, WillBeWritten

LEMMA BodyStaysInHand ==
    ASSUME TypeInv, AllCared, NEW s \in Slots, NEW d \in Docs,
           BodyMove(s, d), phase # "init" \/ phase' = "init",
           rows'[d].status = rows[d].status,
           Ticket(d, {"process", "ocr", "resume"}) =>
               Ticket(d, {"process", "ocr", "resume"})' \/ body'[s].pc \in Hands,
           body[s].pc \in Hands \/ Unkept(body[s]) =>
               \/ body'[s].pc \in Hands \/ Unkept(body'[s])
               \/ Ticket(d, {"process", "ocr", "resume"})'
    PROVE  InHand(d)'
<1>1. /\ \A t \in Slots \ {s} : body'[t] = body[t]
      /\ UNCHANGED request
    BY DEF BodyMove, Others
<1>2. body'[s].pc \in Hands \/ Unkept(body'[s]) => Cared(d)'
    <2>1. body'[s].pc \in Hands \/ Unkept(body'[s]) => body'[s].doc = d
        BY DEF BodyMove, Hands, Engine, Indexing, Reading, Unkept
    <2> QED
        BY <2>1 DEF Cared, WorksOn, Doc, Hands, Engine, Unkept
<1>3. ASSUME Cared(d) PROVE Cared(d)'
    <2>1. ASSUME NEW t \in Slots, Doc(t) = d, body[t].pc \in Hands \/ Unkept(body[t]) PROVE Cared(d)'
        <3>1. CASE t = s
            BY <1>2, <2>1, <3>1 DEF Cared
        <3>2. CASE t # s
            BY <1>1, <2>1, <3>2 DEF Cared, WorksOn, Doc, Hands, Engine, Unkept
        <3> QED BY <3>1, <3>2
    <2>2. CASE Ticket(d, {"process", "ocr", "resume"})
        BY <1>2, <2>2 DEF Cared
    <2>3. CASE \E r \in Requests : HasJob(r, d) \/ Replaced(r, d)
        BY <1>1, <2>3 DEF Cared, HasJob, Replaced
    <2> QED
        BY <1>3, <2>1, <2>2, <2>3 DEF Cared, WorksOn, Hands, Engine, Unkept
<1> QED
    BY <1>3 DEF AllCared, InHand
-----------------------------------------------------------------------------
(***************************************************************************)
(* A document found occupied is in the hands of somebody else: that is why *)
(* the calls that find it so may be dropped.                               *)
(***************************************************************************)
Main == OrderInv /\ IndexKept /\ AllCared

LEMMA SettledHands ==
    ASSUME TypeInv, Main, NEW s \in Slots, Answered(s), NEW t \in Slots, Settled(t),
           rows[Doc(t)].status \in InFlight
    PROVE  OtherHands(s, Doc(t)) /\ (rows[Doc(t)].status # "received" => OtherReads(s, Doc(t)))
<1>1. ASSUME NEW w \in Slots, Doc(w) = Doc(t), body[w].pc \in Advancing, Before(t, w)
      PROVE  w # s /\ body[w].pc \in Engine
    BY <1>1, BehindWaits DEF TypeInv, Main, OrderInv, Asked, Advancing, Engine, Indexing, Reading
<1> QED
    BY <1>1 DEF Main, OrderInv, LaterWork, OtherHands, OtherReads, Hands

LEMMA OccupiedByPass ==
    ASSUME TypeInv, Main, NEW s \in Slots, Answered(s), body[s].pc \notin Holding,
           NEW d \in Docs, ocrAborts[d] # None, rows[d].status \in InFlight
    PROVE  OtherHands(s, d) /\ (rows[d].status # "received" => OtherReads(s, d))
<1> DEFINE t == ocrAborts[d]
<1>1. t \in Slots \ {s} /\ Doc(t) = d /\ body[t].pc \in Holding
    BY DEF TypeInv, FlagsOK, Main, OrderInv, Registered
<1>2. CASE body[t].pc = "ocrEnd"
    <2>1. Settled(t)
        BY <1>1, <1>2 DEF Main, OrderInv, Asked, Settled
    <2> QED
        BY <1>1, <2>1, SettledHands
<1>3. CASE body[t].pc # "ocrEnd"
    BY <1>1, <1>3 DEF Holding, OtherHands, OtherReads, Hands, Engine, Reading
<1> QED BY <1>2, <1>3

LEMMA OccupiedByProcess ==
    ASSUME TypeInv, Main, ProcessingIsExclusive, NEW s \in Slots, Answered(s),
           body[s].pc \notin ProcessPCs \cup Engine,
           NEW d \in processing, rows[d].status \in InFlight
    PROVE  OtherHands(s, d) \/ Ticket(d, {"ocr"})
<1>1. PICK t \in Slots : Doc(t) = d /\ body[t].pc \in ProcessPCs
    BY DEF ProcessingIsExclusive, Processors
<1>2. t # s /\ d \in Docs
    BY <1>1 DEF TypeInv, FlagsOK
<1>3. CASE KeepsIndex(t)
    <2>1. WillBeWritten(d)
        BY <1>1, <1>2, <1>3 DEF Main, IndexKept, Kept, MayBeKept
    <2>2. ASSUME NEW w \in Slots, Doc(w) = d, body[w].pc \in Engine PROVE OtherHands(s, d)
        BY <2>2 DEF OtherHands, Hands
    <2> QED
        BY <2>1, <2>2 DEF WillBeWritten, WillBeReady, WillBeRead, WorksOn, Engine, Reading, OtherHands
<1>4. CASE Settled(t)
    BY <1>1, <1>4, SettledHands
<1>5. CASE ~KeepsIndex(t) /\ ~Settled(t)
    <2>1. body[t].pc \in Hands \/ Unkept(body[t])
        BY <1>1, <1>5 DEF KeepsIndex, Settled, ProcessPCs, Hands, Engine, Indexing, Unkept
    <2> QED
        BY <1>1, <1>2, <2>1 DEF OtherHands
<1> QED BY <1>3, <1>4, <1>5
-----------------------------------------------------------------------------
(***************************************************************************)
(* The steps of a body, one after the other.                               *)
(***************************************************************************)
LEMMA GoesOn ==
    ASSUME TypeInv, Main, NEW s \in Slots, NEW d \in Docs,
           BodyMove(s, d), OrderlyMove(s, d), BesideMove(d),
           SelfMove(s, d) \/ (Kept(d)' /\ InHand(d)')
    PROVE  Main'
BY BodyOrder, BodyCare DEF Main, OrderInv

LEMMA GotoEffect ==
    ASSUME TypeInv, NEW s \in Slots, NEW pc, Goto(s, pc)
    PROVE  /\ Others(s) /\ body'[s].pc = pc
           /\ body'[s].doc = body[s].doc /\ body'[s].had = body[s].had
BY DEF TypeInv, BodiesOK, Body, Goto, Others

LEMMA FreeEffect ==
    ASSUME TypeInv, NEW s \in Slots, Free(s)
    PROVE  Others(s) /\ body'[s].pc = "idle"
BY DEF TypeInv, BodiesOK, Free, Idle, Others

LEMMA BeginEffect ==
    ASSUME TypeInv, NEW s \in Slots, NEW c, NEW pc, NEW d, NEW h, NEW b, Begin(s, c, pc, d, h, b)
    PROVE  Others(s) /\ body'[s].pc = pc /\ body'[s].doc = d /\ body'[s].had = FALSE
BY DEF TypeInv, BodiesOK, Begin, Others

LEMMA SetStatusEffect ==
    ASSUME TypeInv, NEW d \in Docs, NEW st, NEW e, SetStatus(d, st, e)
    PROVE  /\ \A x \in Docs \ {d} : rows'[x].status = rows[x].status
           /\ UNCHANGED chunks
           /\ rows'[d].status = st \/ rows'[d].status \notin InFlight
BY DEF TypeInv, TablesOK, Row, SetStatus, Exists, NoRow, InFlight

\* A body that writes its row and asks again.
LEMMA GotoCares ==
    ASSUME TypeInv, Main, NEW s \in Slots, NEW d \in Docs, Doc(s) = d, NEW pc \in Suspended \ Silent,
           body[s].pc # "idle", Answered(s), Goto(s, pc), Ask(s),
           UNCHANGED <<flags, callers, shownReady>>,
           \A e \in Docs \ {d} : rows'[e].status = rows[e].status /\ chunks'[e] = chunks[e],
           \/ rows'[d].status \notin InFlight
           \/ rows'[d].status # "received" /\ pc \in Advancing,
           chunks'[d] = chunks[d] \/ body[s].pc \in Later,
           pc \in Later => body[s].pc \in Later \/ pc \in Slowly,
           body[s].pc \in Holding => pc \in Holding
    PROVE  Main'
<1>1. Others(s) /\ body'[s].pc = pc /\ body'[s].doc = d
    BY GotoEffect DEF Doc
<1>2. BodyMove(s, d)
    BY <1>1 DEF BodyMove, Moves, callers
<1>3. OrderlyMove(s, d)
    BY <1>1 DEF OrderlyMove, StatusMove, Parsing, Advancing, InFlight, flags
<1>4. BesideMove(d)
    BY SameQueueTickets DEF BesideMove, SameTickets, callers
<1>5. SelfMove(s, d)
    BY <1>1 DEF SelfMove, Advancing, Indexing, Reading
<1> QED
    BY <1>2, <1>3, <1>4, <1>5, GoesOn

LEMMA MarkParsingCares ==
    ASSUME TypeInv, Main, NEW s \in Slots, NEW d \in Docs, Doc(s) = d, NEW o,
           body[s].pc \in {"storing", "writing"}, Answered(s), MarkParsing(s, o)
    PROVE  Main'
<1>1. /\ \A x \in Docs \ {d} : rows'[x].status = rows[x].status
      /\ UNCHANGED chunks
      /\ rows'[d].status = "parsing" \/ rows'[d].status \notin InFlight
    BY SetStatusEffect DEF MarkParsing
<1>2. Goto(s, "parsing") /\ Ask(s) /\ UNCHANGED <<flags, callers, shownReady>>
    BY DEF MarkParsing
<1> QED
    BY <1>1, <1>2, GotoCares DEF Suspended, ProcessPCs, Silent, Slowly, Holding, Advancing

LEMMA ProcessCares ==
    ASSUME TypeInv, Main, NEW s \in Slots,
           \/ WriteOriginal(s) \/ StoreRefused(s) \/ Parsed(s) \/ Chunked(s) \/ Embedded(s)
           \/ Indexed(s) \/ ProcessFails(s)
    PROVE  Main'
<1>1. body[s].pc \in {"storing", "writing", "parsing", "chunking", "embedding", "indexed"} /\ Answered(s)
    BY DEF WriteOriginal, StoreRefused, Parsed, Chunked, Embedded, Indexed, ProcessFails, At
<1>2. PICK d \in Docs : d = Doc(s)
    BY <1>1, EngagedTypes
<1>3. ASSUME NEW pc \in {"chunking", "embedding", "scanned", "finish"}, NEW st, NEW e,
             Goto(s, pc), SetStatus(d, st, e), Ask(s), UNCHANGED <<flags, callers, shownReady>>,
             \/ st = pc /\ body[s].pc \in {"parsing", "chunking", "indexed"}
             \/ st \in {"ready", "error"} /\ pc = "finish"
      PROVE  Main'
    <2>1. /\ \A x \in Docs \ {d} : rows'[x].status = rows[x].status
          /\ UNCHANGED chunks
          /\ rows'[d].status = st \/ rows'[d].status \notin InFlight
        BY <1>3, SetStatusEffect
    <2>2. st \notin InFlight \/ (st # "received" /\ pc \in Advancing)
        BY <1>3 DEF InFlight, Advancing
    <2>3. pc \in Suspended \ Silent /\ (pc \in Later => body[s].pc \in Later \/ pc \in Slowly)
        BY <1>3 DEF Suspended, ProcessPCs, Silent, Later, Slowly
    <2>4. body[s].pc \notin Holding /\ body[s].pc # "idle"
        BY <1>1 DEF Holding
    <2> QED
        BY <1>1, <1>2, <1>3, <2>1, <2>2, <2>3, <2>4, GotoCares
<1>4. CASE WriteOriginal(s) \/ StoreRefused(s)
    BY <1>2, <1>4, MarkParsingCares DEF WriteOriginal, StoreRefused, At
<1>5. CASE Parsed(s)
    BY <1>2, <1>3, <1>5 DEF Parsed, At
<1>6. CASE Chunked(s)
    BY <1>2, <1>3, <1>6 DEF Chunked, At
<1>7. CASE Indexed(s)
    BY <1>2, <1>3, <1>7 DEF Indexed, At
<1>8. CASE ProcessFails(s)
    BY <1>2, <1>3, <1>8 DEF ProcessFails
<1>9. CASE Embedded(s)
    <2>1. /\ \A e \in Docs : rows'[e].status = rows[e].status
          /\ \A e \in Docs \ {d} : chunks'[e] = chunks[e]
        BY <1>2, <1>9 DEF Embedded, InsertChunks, TypeInv, TablesOK, Row
    <2>2. /\ Others(s) /\ body'[s].pc = "indexed" /\ body'[s].doc = d /\ body[s].pc = "embedding"
          /\ Ask(s) /\ UNCHANGED <<flags, callers, shownReady>>
        BY <1>2, <1>9, GotoEffect DEF Embedded, At, Doc
    <2>3. rows[d].status # "received"
        BY <1>2, <2>2 DEF Main, OrderInv, PastReceived, Parsing
    <2>4. BodyMove(s, d)
        BY <1>1, <1>2, <2>1, <2>2 DEF BodyMove, Moves, callers
    <2>5. OrderlyMove(s, d)
        BY <2>1, <2>2, <2>3
        DEF OrderlyMove, StatusMove, Silent, Later, ProcessPCs, Holding, flags
    <2>6. BesideMove(d)
        BY <2>2, SameQueueTickets DEF BesideMove, SameTickets, callers
    <2>7. SelfMove(s, d)
        BY <2>1, <2>2, <2>3 DEF SelfMove, Indexing
    <2> QED
        BY <2>4, <2>5, <2>6, <2>7, GoesOn
<1> QED
    BY <1>4, <1>5, <1>6, <1>7, <1>8, <1>9

\* Who cannot be waiting has been answered.
LEMMA SilentBody ==
    ASSUME TypeInv, Main, NEW s \in Slots, body[s].pc \in Silent
    PROVE  /\ ~Waits(s)
           /\ UNCHANGED inbox => Resume(s) /\ Moves(s) /\ Answered(s)
           /\ Resume(s) \/ Ask(s) => Moves(s)
<1>1. ~Waits(s)
    BY DEF Main, OrderInv, Asked
<1> QED
    BY <1>1, SilentMoves, CallerTypes DEF TypeInv, Moves, Answered

LEMMA CreateOriginalCares ==
    ASSUME TypeInv, Main, NEW s \in Slots, CreateOriginal(s)
    PROVE  Main'
<1>1. body[s].pc = "storing" /\ UNCHANGED <<rows, chunks, inbox, flags, callers, shownReady>>
    BY DEF CreateOriginal, At
<1>2. PICK d \in Docs : d = Doc(s)
    BY <1>1, EngagedTypes
<1>3. Others(s) /\ body'[s].pc = "writing" /\ body'[s].doc = d
    BY <1>2, GotoEffect DEF CreateOriginal, Doc
<1>4. Resume(s) /\ Moves(s)
    BY <1>1, SilentBody DEF Silent
<1>5. BodyMove(s, d)
    BY <1>1, <1>2, <1>3, <1>4 DEF BodyMove, callers
<1>6. OrderlyMove(s, d)
    BY <1>1, <1>3, <1>4 DEF OrderlyMove, StatusMove, Later, Parsing, Holding, flags, Resume, Ask, SelfMove
<1>7. BesideMove(d)
    BY <1>1, SameQueueTickets DEF BesideMove, SameTickets, callers
<1>8. Kept(d)'
    BY <1>1, <1>3, <1>5, SameQueueTickets, BodyStaysKept
    DEF Main, OrderInv, KeepsIndex, Engine, Indexing, callers
<1>9. InHand(d)'
    BY <1>1, <1>3, <1>5, SameQueueTickets, BodyStaysInHand
    DEF Main, Hands, Engine, Indexing, callers
<1> QED
    BY <1>5, <1>6, <1>7, <1>8, <1>9, GoesOn

\* endProcessing: a scanned document is in the chain's queue from here on.
LEMMA FinishCares ==
    ASSUME TypeInv, Main, NEW s \in Slots, Finish(s)
    PROVE  Main'
<1>1. /\ body[s].pc \in {"finish", "scanned"} /\ Answered(s)
      /\ Free(s) /\ Resume(s) /\ Refresh /\ UNCHANGED <<rows, chunks, ocrAborts, request, phase>>
    BY DEF Finish, At, store
<1>2. PICK d \in Docs : d = Doc(s)
    BY <1>1, EngagedTypes
<1>3. Others(s) /\ body'[s].pc = "idle"
    BY <1>1, FreeEffect
<1>4. BodyMove(s, d)
    BY <1>1, <1>2, <1>3 DEF BodyMove, Moves
<1>5. OrderlyMove(s, d)
    BY <1>1, <1>3 DEF OrderlyMove, StatusMove, Later, ProcessPCs, Parsing, Holding
<1>6. ASSUME NEW e \in Docs
      PROVE  /\ SameTickets(e)
             /\ body[s].pc = "scanned" => Ticket(d, {"ocr"})' /\ Ticket(d, {"process", "ocr", "resume"})'
    <2>1. CASE UNCHANGED queue /\ body[s].pc = "finish"
        BY <2>1, SameQueueTickets DEF SameTickets
    <2>2. CASE queue' = [queue EXCEPT !["chain"] =
                    Append(@, [op |-> "ocr", doc |-> Doc(s), hash |-> body[s].hash])]
        <3> DEFINE q == queue["chain"]
                   call == [op |-> "ocr", doc |-> d, hash |-> body[s].hash]
        <3>1. /\ queue'["chain"] = Append(q, call) /\ q \in Seq(Call) /\ "chain" \in Callers
              /\ \A c \in Callers \ {"chain"} : queue'[c] = queue[c]
            BY <1>2, <2>2, CallerTypes DEF TypeInv, QueuesOK
        <3>2. /\ Len(q) \in Nat /\ DOMAIN q = 1..Len(q)
              /\ DOMAIN Append(q, call) = 1..(Len(q) + 1)
              /\ \A i \in 1..Len(q) : Append(q, call)[i] = q[i]
              /\ Append(q, call)[Len(q) + 1] = call
            <4> HIDE DEF q, call
            <4> QED BY <3>1, AppendProperties, LenProperties
        <3> DEFINE r == Append(q, call)
        <3>3. /\ queue'["chain"] = r /\ DOMAIN r = 1..(Len(q) + 1)
              /\ \A i \in 1..Len(q) : r[i] = q[i]
              /\ r[Len(q) + 1] = call /\ call.op = "ocr" /\ call.doc = d
              /\ Len(q) \in Nat /\ DOMAIN q = 1..Len(q)
            BY <3>1, <3>2
        <3> HIDE DEF r, call
        <3>4. ASSUME NEW ops, Ticket(e, ops) PROVE Ticket(e, ops)'
            <4>1. ASSUME NEW c \in Callers, NEW i \in DOMAIN queue[c]
                  PROVE  i \in DOMAIN queue'[c] /\ queue'[c][i] = queue[c][i]
                BY <3>1, <3>3
            <4> QED BY <3>4, <4>1 DEF Ticket
        <3>5. ASSUME Ticket(e, {"reindex"})' PROVE Ticket(e, {"reindex"})
            <4>1. ASSUME NEW c \in Callers, NEW i \in DOMAIN queue'[c], queue'[c][i].op = "reindex"
                  PROVE  i \in DOMAIN queue[c] /\ queue[c][i] = queue'[c][i]
                BY <3>1, <3>3, <4>1
            <4> QED BY <3>5, <4>1 DEF Ticket
        <3>6. ASSUME NEW ops, "ocr" \in ops PROVE Ticket(d, ops)'
            <4>1. Len(q) + 1 \in DOMAIN queue'["chain"]
                BY <3>3
            <4> QED BY <3>1, <3>3, <3>6, <4>1 DEF Ticket
        <3> QED
            BY <3>4, <3>5, <3>6 DEF SameTickets
    <2> QED BY <2>1, <2>2 DEF Finish, At
<1>7. BesideMove(d)
    BY <1>1, <1>6 DEF BesideMove
<1>8. Kept(d)'
    BY <1>1, <1>3, <1>4, <1>6, BodyStaysKept
    DEF Main, OrderInv, KeepsIndex, Engine, Indexing, Reading, SameTickets
<1>9. InHand(d)'
    BY <1>1, <1>3, <1>4, <1>6, BodyStaysInHand
    DEF Main, Hands, Engine, Indexing, Reading, SameTickets, Unkept
<1> QED
    BY <1>4, <1>5, <1>7, <1>8, <1>9, GoesOn

LEMMA SkipInHand ==
    ASSUME TypeInv, Main, NEW s \in Slots, NEW d \in Docs, BodyMove(s, d),
           rows'[d].status = rows[d].status,
           Ticket(d, {"ocr"}) => Ticket(d, {"ocr"})',
           rows[d].status \in InFlight => OtherHands(s, d) \/ Ticket(d, {"ocr"})
    PROVE  InHand(d)'
<1>1. Ticket(d, {"ocr"})' => Cared(d)'
    BY DEF Ticket, Cared
<1> QED
    BY <1>1, OtherHandsStay DEF InHand

\* processDocument at its door: it takes the document, or whoever has it keeps it.
LEMMA EnterCares ==
    ASSUME TypeInv, Main, ProcessingIsExclusive, NEW s \in Slots, NEW d \in Docs,
           NEW c, NEW h, NEW b, Enter(s, c, d, h, b), Answered(s), Resume(s),
           body[s].pc = "idle" \/ (body[s].pc = "cleared" /\ Doc(s) = d),
           UNCHANGED <<store, ocrAborts, request, phase, shownReady>>,
           \A e \in Docs \ {d} : SameTickets(e),
           Ticket(d, {"reindex"})' => Ticket(d, {"reindex"}),
           Ticket(d, {"ocr"}) => Ticket(d, {"ocr"})'
    PROVE  Main'
<1>1. /\ Others(s)
      /\ \/ d \in processing /\ body'[s].pc = "idle"
         \/ body'[s].pc = "storing" /\ body'[s].doc = d
    <2>1. CASE d \in processing
        BY <2>1, FreeEffect DEF Enter
    <2>2. CASE d \notin processing
        <3>1. Begin(s, c, "storing", d, h, b)
            BY <2>2 DEF Enter
        <3> QED BY <3>1, BeginEffect
    <2> QED BY <2>1, <2>2
<1>2. UNCHANGED <<rows, chunks>>
    BY DEF store
<1>3. BodyMove(s, d)
    BY <1>1, <1>2 DEF BodyMove, Moves
<1>4. OrderlyMove(s, d)
    BY <1>1, <1>2 DEF OrderlyMove, StatusMove, Later, ProcessPCs, Parsing, Holding
<1>5. BesideMove(d)
    BY DEF BesideMove
<1>6. Kept(d)'
    BY <1>1, <1>2, <1>3, BodyStaysKept DEF Main, OrderInv, KeepsIndex, Engine, Indexing, Reading
<1>7. InHand(d)'
    <2>1. CASE d \in processing /\ body'[s].pc = "idle"
        <3>1. body[s].pc \notin ProcessPCs \cup Engine
            BY DEF ProcessPCs, Engine, Indexing, Reading
        <3> QED
            BY <1>2, <1>3, <2>1, <3>1, OccupiedByProcess, SkipInHand
    <2>2. CASE body'[s].pc = "storing"
        BY <1>2, <1>3, <2>2, BodyStaysInHand DEF Main, Hands, Engine, Indexing
    <2> QED BY <1>1, <2>1, <2>2
<1> QED
    BY <1>3, <1>4, <1>5, <1>6, <1>7, GoesOn

LEMMA StartProcessCares ==
    ASSUME TypeInv, Main, ProcessingIsExclusive, NEW s \in Slots, NEW c \in Callers,
           StartProcess(s, c)
    PROVE  Main'
<1>1. /\ Take(s, c, "process") /\ body[s].pc = "idle" /\ QueuesOK
      /\ UNCHANGED <<store, inbox, ocrAborts, request, phase, shownReady>>
    BY DEF StartProcess, Take, TypeInv
<1>2. PICK d \in Docs : d = Head(queue[c]).doc
    BY <1>1, TakeTypes DEF Call
<1>3. Answered(s) /\ Resume(s)
    BY <1>1, SilentBody DEF Silent
<1>4. \A e \in Docs \ {d} : SameTickets(e)
    BY <1>1, <1>2, TakeTickets DEF SameTickets
<1>5. /\ Ticket(d, {"reindex"})' => Ticket(d, {"reindex"})
      /\ Ticket(d, {"ocr"}) => Ticket(d, {"ocr"})'
    BY <1>1, TakeTickets
<1> QED
    BY <1>1, <1>2, <1>3, <1>4, <1>5, EnterCares DEF StartProcess

LEMMA ResumeProcessCares ==
    ASSUME TypeInv, Main, ProcessingIsExclusive, NEW s \in Slots, ResumeProcess(s)
    PROVE  Main'
<1>1. body[s].pc = "cleared" /\ Answered(s) /\ UNCHANGED <<store, ocrAborts, callers, shownReady>>
    BY DEF ResumeProcess, At
<1>2. PICK d \in Docs : d = Doc(s)
    BY <1>1, EngagedTypes
<1>3. \A e \in Docs : SameTickets(e)
    BY <1>1, SameQueueTickets DEF SameTickets, callers
<1> QED
    BY <1>1, <1>2, <1>3, EnterCares DEF ResumeProcess, callers, SameTickets

LEMMA StartResumeCares ==
    ASSUME TypeInv, Main, ProcessingIsExclusive, NEW s \in Slots, StartResume(s)
    PROVE  Main'
<1>1. /\ Take(s, "boot", "resume") /\ body[s].pc = "idle" /\ QueuesOK /\ "boot" \in Callers
      /\ UNCHANGED <<rows, chunks, inbox, processing, ocrAborts, request, phase, shownReady>>
    BY CallerTypes DEF StartResume, Take, TypeInv, store, flags
<1>2. PICK d \in Docs : d = Head(queue["boot"]).doc
    BY <1>1, TakeTypes DEF Call
<1>3. Answered(s) /\ Resume(s) /\ Moves(s)
    BY <1>1, SilentBody DEF Silent
<1>4. \A e \in Docs \ {d} : SameTickets(e)
    BY <1>1, <1>2, TakeTickets DEF SameTickets
<1>5. /\ Ticket(d, {"reindex"})' => Ticket(d, {"reindex"})
      /\ Ticket(d, {"ocr"}) => Ticket(d, {"ocr"})'
    BY <1>1, TakeTickets
<1>6. /\ Others(s)
      /\ \/ (d \in processing \/ ocrAborts[d] # None) /\ body'[s].pc = "idle"
         \/ body'[s].pc = "resume" /\ body'[s].doc = d
    <2>1. CASE d \in processing \/ ocrAborts[d] # None
        BY <1>2, <2>1, FreeEffect DEF StartResume
    <2>2. CASE ~(d \in processing \/ ocrAborts[d] # None)
        <3>1. Begin(s, "boot", "resume", d, Head(queue["boot"]).hash, "absent")
            BY <1>2, <2>2 DEF StartResume
        <3> QED BY <3>1, BeginEffect
    <2> QED BY <2>1, <2>2
<1>7. BodyMove(s, d)
    BY <1>1, <1>3, <1>6 DEF BodyMove
<1>8. OrderlyMove(s, d)
    BY <1>1, <1>3, <1>6 DEF OrderlyMove, StatusMove, Later, ProcessPCs, Parsing, Holding
<1>9. BesideMove(d)
    BY <1>1, <1>4 DEF BesideMove
<1>10. Kept(d)'
    BY <1>1, <1>5, <1>6, <1>7, BodyStaysKept
    DEF Main, OrderInv, KeepsIndex, Engine, Indexing, Reading
<1>11. InHand(d)'
    <2>1. CASE d \in processing \/ ocrAborts[d] # None
        <3>1. body[s].pc \notin ProcessPCs \cup Engine \cup Holding
            BY <1>1 DEF ProcessPCs, Engine, Indexing, Reading, Holding
        <3> QED
            BY <1>1, <1>3, <1>5, <1>7, <2>1, <3>1, OccupiedByProcess, OccupiedByPass, SkipInHand
    <2>2. CASE body'[s].pc = "resume"
        BY <1>1, <1>7, <2>2, BodyStaysInHand DEF Main, Hands
    <2> QED BY <1>6, <2>1, <2>2
<1> QED
    BY <1>7, <1>8, <1>9, <1>10, <1>11, GoesOn

LEMMA StartReindexCares ==
    ASSUME TypeInv, Main, NEW s \in Slots, NEW c \in Callers, StartReindex(s, c)
    PROVE  Main'
<1>1. /\ Take(s, c, "reindex") /\ body[s].pc = "idle" /\ QueuesOK
      /\ UNCHANGED <<rows, chunks, ocrAborts, request, phase, shownReady>>
    BY DEF StartReindex, Take, TypeInv, store
<1>2. PICK d \in Docs : d = Head(queue[c]).doc
    BY <1>1, TakeTypes DEF Call
<1>3. \A e \in Docs \ {d} : SameTickets(e)
    BY <1>1, <1>2, TakeTickets DEF SameTickets
<1>4. /\ Ticket(d, {"reindex"})
      /\ Ticket(d, {"reindex"})' => Ticket(d, {"reindex"})
      /\ Ticket(d, {"ocr"}) => Ticket(d, {"ocr"})'
      /\ Ticket(d, {"process", "ocr", "resume"}) => Ticket(d, {"process", "ocr", "resume"})'
    BY <1>1, <1>2, TakeTickets
<1>5. /\ Others(s) /\ Moves(s) /\ Answered(s)
      /\ \/ body'[s].pc = "idle" /\ Resume(s)
         \/ body'[s].pc = "riRow" /\ body'[s].doc = d /\ Ask(s)
         \/ body'[s].pc = "finish" /\ body'[s].doc = d /\ Ask(s) /\ ~Exists(d)
    <2>1. CASE d \in processing \/ ocrAborts[d] # None
        <3>1. Free(s) /\ UNCHANGED inbox
            BY <1>2, <2>1 DEF StartReindex
        <3> QED BY <1>1, <3>1, FreeEffect, SilentBody DEF Silent
    <2>2. CASE ~(d \in processing \/ ocrAborts[d] # None)
        <3>1. /\ Begin(s, c, IF Exists(d) THEN "riRow" ELSE "finish", d, rows[d].hash, "absent")
              /\ Ask(s)
            BY <1>2, <2>2 DEF StartReindex
        <3>2. Moves(s)
            BY <1>1, <3>1, SilentBody DEF Silent
        <3> QED BY <3>1, <3>2, BeginEffect DEF Moves
    <2> QED BY <2>1, <2>2
<1>6. BodyMove(s, d)
    BY <1>1, <1>5 DEF BodyMove
<1>7. OrderlyMove(s, d)
    BY <1>1, <1>5, InboxAfter, CallerTypes
    DEF OrderlyMove, StatusMove, Later, ProcessPCs, Parsing, Holding, Slowly, Silent, Exists, NoRow, InFlight,
        TypeInv, Main, OrderInv, Asked
<1>8. BesideMove(d)
    BY <1>1, <1>3 DEF BesideMove
<1>9. CASE body'[s].pc # "finish"
    <2>1. Kept(d)'
        BY <1>1, <1>4, <1>5, <1>6, <1>9, BodyStaysKept
        DEF Main, OrderInv, KeepsIndex, Engine, Indexing, Reading
    <2>2. InHand(d)'
        BY <1>1, <1>4, <1>5, <1>6, <1>9, BodyStaysInHand
        DEF Main, Hands, Engine, Indexing, Reading, Unkept
    <2> QED
        BY <1>6, <1>7, <1>8, <2>1, <2>2, GoesOn
<1>10. CASE body'[s].pc = "finish"
    <2>1. SelfMove(s, d)
        BY <1>1, <1>5, <1>10 DEF SelfMove, Exists, NoRow, InFlight
    <2> QED
        BY <1>6, <1>7, <1>8, <2>1, GoesOn
<1> QED BY <1>9, <1>10

\* A rebuild that finds an index was already sure that somebody writes the row.
LEMMA CountBeforeCares ==
    ASSUME TypeInv, Main, NEW s \in Slots, CountBefore(s)
    PROVE  Main'
<1>1. /\ body[s].pc = "riRow" /\ Answered(s) /\ Ask(s)
      /\ UNCHANGED <<rows, chunks, flags, callers, shownReady>>
    BY DEF CountBefore, At, store
<1>2. PICK d \in Docs : d = Doc(s)
    BY <1>1, EngagedTypes
<1>3. /\ Others(s) /\ body'[s].pc = "riCounted" /\ body'[s].doc = d
      /\ body'[s].had = (chunks[d] # <<>>)
    BY <1>2 DEF CountBefore, TypeInv, BodiesOK, Body, Others, Doc
<1>4. BodyMove(s, d)
    BY <1>1, <1>2, <1>3 DEF BodyMove, Moves, callers
<1>5. OrderlyMove(s, d)
    BY <1>1, <1>3
    DEF OrderlyMove, StatusMove, Later, ProcessPCs, Parsing, Holding, Silent, flags
<1>6. BesideMove(d)
    BY <1>1, SameQueueTickets DEF BesideMove, SameTickets, callers
<1>7. chunks[d] # <<>> => MayBeKept(d)
    BY <1>1, <1>2 DEF MayBeKept, Rebuildable, WorksOn
<1>8. Kept(d)'
    BY <1>1, <1>3, <1>4, <1>7, SameQueueTickets, BodyStaysKept
    DEF Main, OrderInv, KeepsIndex, Engine, Indexing, Reading, callers
<1>9. InHand(d)'
    <2>1. CASE chunks[d] = <<>>
        BY <1>1, <1>3, <1>4, <2>1, SameQueueTickets, BodyStaysInHand
        DEF Main, Unkept, callers
    <2>2. CASE chunks[d] # <<>>
        <3>1. rows'[d].status \in InFlight => WillBeWritten(d)
            BY <1>1, <1>7, <2>2 DEF Main, IndexKept, Kept
        <3>2. ASSUME NEW t \in Slots, Doc(t) = d, body[t].pc \in Engine PROVE OtherHands(s, d)
            <4>1. t # s
                BY <1>1, <3>2 DEF Engine, Indexing, Reading
            <4> QED BY <3>2, <4>1 DEF OtherHands, Hands
        <3>3. rows'[d].status \in InFlight => OtherHands(s, d) \/ Ticket(d, {"ocr"})
            BY <3>1, <3>2 DEF WillBeWritten, WillBeReady, WillBeRead, WorksOn, Engine, Reading, OtherHands
        <3> QED
            BY <1>1, <1>4, <3>3, SameQueueTickets, SkipInHand DEF callers
    <2> QED BY <2>1, <2>2
<1> QED
    BY <1>4, <1>5, <1>6, <1>8, <1>9, GoesOn

LEMMA GivesUpCares ==
    ASSUME TypeInv, Main, NEW s \in Slots, NEW e, body[s].pc \in {"riCounted", "riRun"},
           Answered(s), ReindexGivesUp(s, e)
    PROVE  Main'
<1>1. PICK d \in Docs : d = Doc(s)
    BY EngagedTypes
<1>2. Goto(s, "finish") /\ UNCHANGED <<flags, callers, shownReady>>
    BY DEF ReindexGivesUp
<1>3. Others(s) /\ body'[s].pc = "finish" /\ body'[s].doc = d
    BY <1>1, <1>2, GotoEffect DEF Doc
<1>4. CASE body[s].had
    <2>1. Resume(s) /\ UNCHANGED <<rows, chunks>>
        BY <1>4 DEF ReindexGivesUp
    <2>2. BodyMove(s, d)
        BY <1>1, <1>2, <1>3, <2>1 DEF BodyMove, Moves, callers
    <2>3. ~Ask(s)
        BY <2>1, <2>2, InboxAfter, CallerTypes DEF BodyMove, TypeInv, Main, OrderInv, Asked
    <2>4. OrderlyMove(s, d)
        BY <1>2, <1>3, <2>1, <2>3
        DEF OrderlyMove, StatusMove, Later, ProcessPCs, Parsing, Holding, flags
    <2>5. BesideMove(d)
        BY <1>2, SameQueueTickets DEF BesideMove, SameTickets, callers
    <2>6. Kept(d)'
        BY <1>2, <1>3, <1>4, <2>1, <2>2, SameQueueTickets, BodyStaysKept
        DEF Main, OrderInv, KeepsIndex, Engine, Indexing, Reading, callers
    <2>7. InHand(d)'
        BY <1>2, <1>3, <1>4, <2>1, <2>2, SameQueueTickets, BodyStaysInHand
        DEF Main, Hands, Engine, Indexing, Reading, Unkept, callers
    <2> QED
        BY <2>2, <2>4, <2>5, <2>6, <2>7, GoesOn
<1>5. CASE ~body[s].had
    <2>1. SetStatus(d, "error", e) /\ Ask(s)
        BY <1>1, <1>5 DEF ReindexGivesUp
    <2>2. /\ \A x \in Docs \ {d} : rows'[x].status = rows[x].status
          /\ UNCHANGED chunks
          /\ rows'[d].status \notin InFlight
        BY <2>1, SetStatusEffect DEF InFlight
    <2> QED
        BY <1>1, <1>2, <2>1, <2>2, GotoCares DEF Suspended, ProcessPCs, Silent, Slowly, Holding
<1> QED BY <1>4, <1>5

LEMMA ReindexCares ==
    ASSUME TypeInv, Main, NEW s \in Slots, ReadToReindex(s) \/ SwapIndex(s) \/ ReindexFails(s)
    PROVE  Main'
<1>1. body[s].pc \in {"riCounted", "riRun"} /\ Answered(s)
    BY DEF ReadToReindex, SwapIndex, ReindexFails, At
<1>2. PICK d \in Docs : d = Doc(s)
    BY <1>1, EngagedTypes
<1>3. CASE ReindexFails(s)
    BY <1>1, <1>3, GivesUpCares DEF ReindexFails
<1>4. CASE ReadToReindex(s) /\ originals[body[s].hash] = "absent"
    BY <1>1, <1>4, GivesUpCares DEF ReadToReindex
<1>5. CASE ReadToReindex(s) /\ originals[body[s].hash] # "absent"
    <2>1. /\ Resume(s) /\ UNCHANGED <<rows, chunks, flags, callers, shownReady>>
          /\ body[s].pc = "riCounted"
          /\ body' = [body EXCEPT ![s].pc = "riRun", ![s].bytes = originals[body[s].hash]]
        BY <1>5 DEF ReadToReindex, store, At
    <2>2. /\ Others(s) /\ body'[s].pc = "riRun" /\ body'[s].doc = d
          /\ body'[s].had = body[s].had
        BY <1>2, <2>1 DEF TypeInv, BodiesOK, Body, Others, Doc
    <2>3. BodyMove(s, d)
        BY <1>1, <1>2, <2>1, <2>2 DEF BodyMove, Moves, callers
    <2>4. OrderlyMove(s, d)
        BY <2>1, <2>2 DEF OrderlyMove, StatusMove, Later, ProcessPCs, Parsing, Holding, flags
    <2>5. BesideMove(d)
        BY <2>1, SameQueueTickets DEF BesideMove, SameTickets, callers
    <2>6. Kept(d)'
        BY <2>1, <2>2, <2>3, SameQueueTickets, BodyStaysKept
        DEF Main, OrderInv, KeepsIndex, Engine, Indexing, Reading, callers
    <2>7. InHand(d)'
        BY <2>1, <2>2, <2>3, SameQueueTickets, BodyStaysInHand
        DEF Main, Hands, Engine, Indexing, Reading, Unkept, callers
    <2> QED
        BY <2>3, <2>4, <2>5, <2>6, <2>7, GoesOn
<1>6. CASE SwapIndex(s)
    <2>1. /\ Goto(s, "finish") /\ Ask(s) /\ UNCHANGED <<flags, callers, shownReady>>
          /\ body[s].pc = "riRun" /\ ReindexDocument(d, FullBatch(s))
        BY <1>2, <1>6 DEF SwapIndex, At
    <2>2. /\ \A x \in Docs \ {d} : rows'[x].status = rows[x].status /\ chunks'[x] = chunks[x]
          /\ rows'[d].status \notin InFlight
        BY <2>1 DEF ReindexDocument, TypeInv, TablesOK, Row, InFlight
    <2> QED
        BY <1>1, <1>2, <2>1, <2>2, GotoCares
        DEF Suspended, ProcessPCs, Silent, Slowly, Later, Holding
<1> QED BY <1>3, <1>4, <1>5, <1>6

\* ocrDocument at its door: the pass that holds the controller sees it through.
LEMMA OcrLookUpCares ==
    ASSUME TypeInv, Main, NEW s \in Slots, NEW d \in Docs, NEW c, OcrLookUp(s, c, d), Moves(s),
           body[s].pc = "idle" \/ (body[s].pc = "recheckOcr" /\ Doc(s) = d),
           UNCHANGED <<rows, chunks, ocrAborts, request, phase, shownReady>>,
           \A e \in Docs \ {d} : SameTickets(e),
           Ticket(d, {"reindex"})' => Ticket(d, {"reindex"})
    PROVE  Main'
<1>1. /\ Others(s)
      /\ \/ (ocrAborts[d] # None \/ ~Exists(d)) /\ body'[s].pc = "idle" /\ Resume(s)
         \/ body'[s].pc = "ocrRow" /\ body'[s].doc = d /\ Ask(s)
    <2>1. CASE ocrAborts[d] # None \/ ~Exists(d)
        BY <2>1, FreeEffect DEF OcrLookUp
    <2>2. CASE ~(ocrAborts[d] # None \/ ~Exists(d))
        <3>1. Begin(s, c, "ocrRow", d, rows[d].hash, "absent") /\ Ask(s)
            BY <2>2 DEF OcrLookUp
        <3> QED BY <3>1, BeginEffect
    <2> QED BY <2>1, <2>2
<1>2. BodyMove(s, d)
    BY <1>1 DEF BodyMove
<1>3. OrderlyMove(s, d)
    BY <1>1 DEF OrderlyMove, StatusMove, Later, ProcessPCs, Parsing, Holding, Silent
<1>4. BesideMove(d)
    BY DEF BesideMove
<1>5. CASE body'[s].pc = "ocrRow"
    <2>1. Kept(d)'
        BY <1>2, <1>5, BodyStaysKept DEF Main, OrderInv, KeepsIndex, Engine, Reading
    <2>2. InHand(d)'
        BY <1>2, <1>5, BodyStaysInHand DEF Main, Hands, Engine, Reading
    <2> QED
        BY <1>2, <1>3, <1>4, <2>1, <2>2, GoesOn
<1>6. CASE ~Exists(d)
    <2>1. SelfMove(s, d)
        BY <1>6 DEF SelfMove, Exists, NoRow, InFlight
    <2> QED
        BY <1>2, <1>3, <1>4, <2>1, GoesOn
<1>7. CASE ocrAborts[d] # None /\ body'[s].pc = "idle"
    <2>1. rows[d].status \in InFlight =>
              OtherHands(s, d) /\ (rows[d].status # "received" => OtherReads(s, d))
        BY <1>7, OccupiedByPass DEF Moves, Holding
    <2>2. Kept(d)'
        BY <1>2, <1>7, <2>1, BodyStaysKept DEF Main, OrderInv, KeepsIndex
    <2>3. InHand(d)'
        BY <1>2, <2>1, OtherHandsStay DEF InHand
    <2> QED
        BY <1>2, <1>3, <1>4, <2>2, <2>3, GoesOn
<1> QED BY <1>1, <1>5, <1>6, <1>7

LEMMA StartOcrCares ==
    ASSUME TypeInv, Main, NEW s \in Slots, NEW c \in Callers, StartOcr(s, c)
    PROVE  Main'
<1>1. /\ Take(s, c, "ocr") /\ body[s].pc = "idle" /\ QueuesOK
      /\ UNCHANGED <<rows, chunks, ocrAborts, request, phase, shownReady>>
    BY DEF StartOcr, Take, TypeInv, store, flags
<1>2. PICK d \in Docs : d = Head(queue[c]).doc
    BY <1>1, TakeTypes DEF Call
<1>3. OcrLookUp(s, c, d)
    BY <1>2 DEF StartOcr
<1>4. Moves(s)
    BY <1>1, <1>3, SilentBody DEF Silent, OcrLookUp
<1>5. /\ \A e \in Docs \ {d} : SameTickets(e)
      /\ Ticket(d, {"reindex"})' => Ticket(d, {"reindex"})
    BY <1>1, <1>2, TakeTickets DEF SameTickets
<1> QED
    BY <1>1, <1>3, <1>4, <1>5, OcrLookUpCares

LEMMA RecheckOcrCares ==
    ASSUME TypeInv, Main, NEW s \in Slots, RecheckOcr(s)
    PROVE  Main'
<1>1. /\ body[s].pc = "recheckOcr" /\ Answered(s)
      /\ UNCHANGED <<rows, chunks, ocrAborts, queue, request, phase, shownReady>>
    BY DEF RecheckOcr, At, store, flags, callers
<1>2. PICK d \in Docs : d = Doc(s)
    BY <1>1, EngagedTypes
<1>3. OcrLookUp(s, "boot", d)
    BY <1>2 DEF RecheckOcr
<1>4. Moves(s)
    BY <1>1, <1>3 DEF Moves, OcrLookUp
<1>5. /\ \A e \in Docs \ {d} : SameTickets(e)
      /\ Ticket(d, {"reindex"})' => Ticket(d, {"reindex"})
    BY <1>1, SameQueueTickets DEF SameTickets
<1> QED
    BY <1>1, <1>2, <1>3, <1>4, <1>5, OcrLookUpCares

LEMMA RegisterOcrCares ==
    ASSUME TypeInv, Main, NEW s \in Slots, RegisterOcr(s)
    PROVE  Main'
<1>1. body[s].pc = "ocrRow" /\ Answered(s) /\ UNCHANGED <<processing, callers>>
    BY DEF RegisterOcr, At
<1>2. PICK d \in Docs : d = Doc(s)
    BY <1>1, EngagedTypes
<1>3. CASE originals[body[s].hash] = "absent"
    <2>1. /\ SetStatus(d, "error", "original_missing")
          /\ Free(s) /\ Resume(s) /\ Refresh /\ UNCHANGED ocrAborts
        BY <1>2, <1>3 DEF RegisterOcr
    <2>2. /\ \A x \in Docs \ {d} : rows'[x].status = rows[x].status
          /\ UNCHANGED chunks
          /\ rows'[d].status \notin InFlight
        BY <2>1, SetStatusEffect DEF InFlight
    <2>3. Others(s) /\ body'[s].pc = "idle"
        BY <2>1, FreeEffect
    <2>4. BodyMove(s, d)
        BY <1>1, <1>2, <2>1, <2>2, <2>3 DEF BodyMove, Moves, callers
    <2>5. OrderlyMove(s, d)
        BY <1>1, <2>1, <2>2, <2>3 DEF OrderlyMove, StatusMove, Later, ProcessPCs, Parsing, Holding
    <2>6. BesideMove(d)
        BY <1>1, <2>1, SameQueueTickets DEF BesideMove, SameTickets, callers
    <2>7. SelfMove(s, d)
        BY <2>2 DEF SelfMove
    <2> QED
        BY <2>4, <2>5, <2>6, <2>7, GoesOn
<1>4. CASE originals[body[s].hash] # "absent"
    <2>1. /\ ocrAborts' = [ocrAborts EXCEPT ![d] = s]
          /\ body' = [body EXCEPT ![s].pc = "ocrRun", ![s].bytes = originals[body[s].hash]]
          /\ SetStatus(d, "ocr", "none") /\ Ask(s) /\ UNCHANGED shownReady
        BY <1>2, <1>4 DEF RegisterOcr
    <2>2. /\ \A x \in Docs \ {d} : rows'[x].status = rows[x].status
          /\ UNCHANGED chunks
          /\ rows'[d].status = "ocr" \/ rows'[d].status \notin InFlight
        BY <2>1, SetStatusEffect
    <2>3. Others(s) /\ body'[s].pc = "ocrRun" /\ body'[s].doc = d
        BY <1>2, <2>1 DEF TypeInv, BodiesOK, Body, Others, Doc
    <2>4. BodyMove(s, d)
        BY <1>1, <1>2, <2>1, <2>2, <2>3 DEF BodyMove, Moves, callers
    <2>5. OrderlyMove(s, d)
        BY <1>1, <2>1, <2>2, <2>3
        DEF OrderlyMove, StatusMove, Later, ProcessPCs, Parsing, Holding, Silent, Advancing
    <2>6. BesideMove(d)
        BY <1>1, <2>1, SameQueueTickets DEF BesideMove, SameTickets, callers
    <2>7. SelfMove(s, d)
        BY <2>2, <2>3 DEF SelfMove, Reading
    <2> QED
        BY <2>4, <2>5, <2>6, <2>7, GoesOn
<1> QED BY <1>3, <1>4

\* Between the two transactions of a pass the document has no chunks.
LEMMA OcrSwapCares ==
    ASSUME TypeInv, Main, NEW s \in Slots, OcrDropOld(s) \/ OcrInsert(s)
    PROVE  Main'
<1>1. /\ body[s].pc \in {"ocrRun", "ocrInsert"} /\ Answered(s) /\ Ask(s)
      /\ UNCHANGED <<flags, callers, shownReady>>
    BY DEF OcrDropOld, OcrInsert, At
<1>2. PICK d \in Docs : d = Doc(s)
    BY <1>1, EngagedTypes
<1>3. CASE OcrInsert(s) /\ ~Exists(d)
    <2>1. Goto(s, "ocrEnd") /\ SetStatus(d, "error", "unusable")
        BY <1>2, <1>3 DEF OcrInsert
    <2>2. /\ \A x \in Docs \ {d} : rows'[x].status = rows[x].status
          /\ UNCHANGED chunks
          /\ rows'[d].status \notin InFlight
        BY <2>1, SetStatusEffect DEF InFlight
    <2> QED
        BY <1>1, <1>2, <2>1, <2>2, GotoCares
        DEF Suspended, OcrPCs, Silent, Later, ProcessPCs, Holding
<1>4. CASE OcrDropOld(s) \/ (OcrInsert(s) /\ Exists(d))
    <2>1. /\ \A x \in Docs : rows'[x].status = rows[x].status
          /\ \A x \in Docs \ {d} : chunks'[x] = chunks[x]
        <3>1. CASE DeleteChunks(d)
            BY <3>1 DEF DeleteChunks, TypeInv, TablesOK
        <3>2. CASE InsertChunks(d, FullBatch(s))
            BY <3>2 DEF InsertChunks, TypeInv, TablesOK, Row
        <3> QED
            BY <1>2, <1>4, <3>1, <3>2 DEF OcrDropOld, OcrInsert
    <2>2. \/ Goto(s, "ocrInsert") /\ chunks'[d] = <<>> /\ body[s].pc = "ocrRun"
          \/ Goto(s, "ocrReady") /\ body[s].pc = "ocrInsert"
        BY <1>2, <1>4 DEF OcrDropOld, OcrInsert, DeleteChunks, TypeInv, TablesOK, At
    <2>3. /\ Others(s) /\ body'[s].doc = d
          /\ \/ body'[s].pc = "ocrInsert" /\ chunks'[d] = <<>>
             \/ body'[s].pc = "ocrReady"
        BY <1>2, <2>2, GotoEffect DEF Doc
    <2>4. BodyMove(s, d)
        BY <1>1, <1>2, <2>1, <2>3 DEF BodyMove, Moves, callers
    <2>5. OrderlyMove(s, d)
        BY <1>1, <2>1, <2>3
        DEF OrderlyMove, StatusMove, Later, ProcessPCs, Parsing, Holding, Silent, flags
    <2>6. BesideMove(d)
        BY <1>1, SameQueueTickets DEF BesideMove, SameTickets, callers
    <2>7. CASE body'[s].pc = "ocrInsert"
        <3>1. Kept(d)'
            BY <1>1, <2>1, <2>3, <2>4, <2>7, SameQueueTickets, BodyStaysKept
            DEF Main, OrderInv, KeepsIndex, Engine, Reading, callers
        <3>2. InHand(d)'
            BY <1>1, <2>1, <2>4, <2>7, SameQueueTickets, BodyStaysInHand
            DEF Main, Hands, Engine, Reading, callers
        <3> QED
            BY <2>4, <2>5, <2>6, <3>1, <3>2, GoesOn
    <2>8. CASE body'[s].pc = "ocrReady"
        <3>1. WillBeReady(d)' /\ Cared(d)'
            BY <2>3, <2>8 DEF WillBeReady, Cared, WorksOn, Doc, Reading
        <3> QED
            BY <2>4, <2>5, <2>6, <3>1, GoesOn DEF Kept, InHand, WillBeWritten
    <2> QED BY <2>3, <2>7, <2>8
<1> QED BY <1>2, <1>3, <1>4 DEF OcrInsert

LEMMA OcrOverCares ==
    ASSUME TypeInv, Main, NEW s \in Slots, OcrReady(s) \/ OcrFails(s) \/ OcrEnd(s)
    PROVE  Main'
<1>1. body[s].pc \in {"ocrRun", "ocrReady", "ocrEnd"} /\ Answered(s)
    BY DEF OcrReady, OcrFails, OcrEnd, At
<1>2. PICK d \in Docs : d = Doc(s)
    BY <1>1, EngagedTypes
<1>3. CASE OcrReady(s) \/ OcrFails(s)
    <2>1. PICK st \in {"ready", "error"}, e \in Errors :
              /\ SetStatus(d, st, e) /\ Goto(s, "ocrEnd") /\ Ask(s)
              /\ UNCHANGED <<flags, callers, shownReady>>
        BY <1>2, <1>3 DEF OcrReady, OcrFails, Errors
    <2>2. /\ \A x \in Docs \ {d} : rows'[x].status = rows[x].status
          /\ UNCHANGED chunks
          /\ rows'[d].status \notin InFlight
        BY <2>1, SetStatusEffect DEF InFlight
    <2> QED
        BY <1>1, <1>2, <2>1, <2>2, GotoCares
        DEF Suspended, OcrPCs, Silent, Later, ProcessPCs, Holding
<1>4. CASE OcrEnd(s)
    <2>1. /\ body[s].pc = "ocrEnd" /\ Free(s) /\ Resume(s) /\ Refresh
          /\ ocrAborts' = [ocrAborts EXCEPT ![d] = None]
          /\ UNCHANGED <<rows, chunks, callers>>
        BY <1>2, <1>4 DEF OcrEnd, At, store
    <2>2. Others(s) /\ body'[s].pc = "idle"
        BY <2>1, FreeEffect
    <2>3. BodyMove(s, d)
        BY <1>1, <1>2, <2>1, <2>2 DEF BodyMove, Moves, callers
    <2>4. OrderlyMove(s, d)
        BY <2>1, <2>2 DEF OrderlyMove, StatusMove, Later, ProcessPCs, Parsing, Holding
    <2>5. BesideMove(d)
        BY <2>1, SameQueueTickets DEF BesideMove, SameTickets, callers
    <2>6. Kept(d)'
        BY <2>1, <2>2, <2>3, SameQueueTickets, BodyStaysKept
        DEF Main, OrderInv, KeepsIndex, Engine, Indexing, Reading, callers
    <2>7. InHand(d)'
        BY <2>1, <2>2, <2>3, SameQueueTickets, BodyStaysInHand
        DEF Main, Hands, Engine, Indexing, Reading, Unkept, callers
    <2> QED
        BY <2>3, <2>4, <2>5, <2>6, <2>7, GoesOn
<1> QED BY <1>3, <1>4

LEMMA ClearToResumeCares ==
    ASSUME TypeInv, Main, NEW s \in Slots, ClearToResume(s)
    PROVE  Main'
<1>1. body[s].pc = "resume" /\ Answered(s) /\ UNCHANGED <<flags, callers, shownReady>>
    BY DEF ClearToResume, At
<1>2. PICK d \in Docs : d = Doc(s)
    BY <1>1, EngagedTypes
<1>3. BesideMove(d)
    BY <1>1, SameQueueTickets DEF BesideMove, SameTickets, callers
<1>4. CASE originals[body[s].hash] = "absent"
    <2>1. SetStatus(d, "error", "original_missing") /\ Free(s) /\ Resume(s)
        BY <1>2, <1>4 DEF ClearToResume
    <2>2. /\ \A x \in Docs \ {d} : rows'[x].status = rows[x].status
          /\ UNCHANGED chunks
          /\ rows'[d].status \notin InFlight
        BY <2>1, SetStatusEffect DEF InFlight
    <2>3. Others(s) /\ body'[s].pc = "idle"
        BY <2>1, FreeEffect
    <2>4. BodyMove(s, d)
        BY <1>1, <1>2, <2>1, <2>2, <2>3 DEF BodyMove, Moves, callers
    <2>5. OrderlyMove(s, d)
        BY <1>1, <2>1, <2>2, <2>3
        DEF OrderlyMove, StatusMove, Later, ProcessPCs, Parsing, Holding, flags
    <2>6. SelfMove(s, d)
        BY <2>2 DEF SelfMove
    <2> QED
        BY <1>3, <2>4, <2>5, <2>6, GoesOn
<1>5. CASE originals[body[s].hash] # "absent"
    <2>1. /\ DeleteChunks(d) /\ Ask(s)
          /\ body' = [body EXCEPT ![s].pc = "cleared", ![s].bytes = originals[body[s].hash]]
        BY <1>2, <1>5 DEF ClearToResume
    <2>2. /\ UNCHANGED rows /\ chunks'[d] = <<>>
          /\ \A x \in Docs \ {d} : chunks'[x] = chunks[x]
        BY <2>1 DEF DeleteChunks, TypeInv, TablesOK
    <2>3. Others(s) /\ body'[s].pc = "cleared" /\ body'[s].doc = d
        BY <1>2, <2>1 DEF TypeInv, BodiesOK, Body, Others, Doc
    <2>4. BodyMove(s, d)
        BY <1>1, <1>2, <2>1, <2>2, <2>3 DEF BodyMove, Moves, callers
    <2>5. OrderlyMove(s, d)
        BY <1>1, <2>1, <2>2, <2>3
        DEF OrderlyMove, StatusMove, Later, ProcessPCs, Parsing, Holding, Silent, flags
    <2>6. Kept(d)'
        BY <1>1, <2>2, <2>3, <2>4, SameQueueTickets, BodyStaysKept
        DEF Main, OrderInv, KeepsIndex, Engine, Indexing, Reading, callers
    <2>7. InHand(d)'
        BY <1>1, <2>2, <2>3, <2>4, SameQueueTickets, BodyStaysInHand
        DEF Main, Hands, callers
    <2> QED
        BY <1>3, <2>4, <2>5, <2>6, <2>7, GoesOn
<1> QED BY <1>4, <1>5

\* A body that comes to look whether a document has image pages, and one that
\* finds none, change nothing; so does one whose file cannot be parsed, but for
\* the list of the files still to look at.
LEMMA RecheckQuiet ==
    ASSUME TypeInv, Main, NEW s \in Slots, NEW d \in Docs, Others(s), body[s].pc \in {"idle", "recheck"},
           body[s].pc = "recheck" => Doc(s) = d,
           body'[s].pc = "idle" \/ (body'[s].pc = "recheck" /\ body'[s].doc = d),
           UNCHANGED <<store, inbox, flags, request>>, UNCHANGED shownReady \/ Refresh,
           phase # "init" \/ phase' = "init", \A e \in Docs : SameTickets(e)
    PROVE  Main'
<1>1. Resume(s) /\ Moves(s)
    BY SilentBody DEF Silent
<1>2. BodyMove(s, d)
    BY <1>1 DEF BodyMove, store
<1>3. OrderlyMove(s, d)
    BY <1>1 DEF OrderlyMove, StatusMove, Later, ProcessPCs, Parsing, Holding, store, flags
<1>4. BesideMove(d)
    BY DEF BesideMove
<1>5. Kept(d)'
    BY <1>2, BodyStaysKept
    DEF Main, OrderInv, KeepsIndex, Engine, Indexing, Reading, store, SameTickets
<1>6. InHand(d)'
    BY <1>2, BodyStaysInHand
    DEF Main, Hands, Engine, Indexing, Reading, Unkept, store, SameTickets
<1> QED
    BY <1>2, <1>3, <1>4, <1>5, <1>6, GoesOn

LEMMA RecheckCares ==
    ASSUME TypeInv, Main, BootLists, NEW s \in Slots,
           StartRecheck(s) \/ NothingToRecheck(s) \/ RecheckThrows(s)
    PROVE  Main'
<1>1. CASE StartRecheck(s)
    <2>1. /\ Take(s, "boot", "recheck") /\ body[s].pc = "idle" /\ QueuesOK /\ "boot" \in Callers
          /\ UNCHANGED <<store, inbox, flags, request, phase, shownReady>>
        BY <1>1, CallerTypes DEF StartRecheck, Take, TypeInv
    <2>2. PICK d \in Docs : d = Head(queue["boot"]).doc
        BY <2>1, TakeTypes DEF Call
    <2>3. \A e \in Docs : SameTickets(e)
        BY <2>1, TakeTickets DEF SameTickets
    <2>4. Others(s) /\ body'[s].pc = "recheck" /\ body'[s].doc = d
        <3>1. Begin(s, "boot", "recheck", d, Head(queue["boot"]).hash, "absent")
            BY <1>1, <2>2 DEF StartRecheck
        <3> QED BY <3>1, BeginEffect
    <2> QED
        BY <2>1, <2>3, <2>4, RecheckQuiet
<1>2. CASE NothingToRecheck(s) \/ RecheckThrows(s)
    <2>1. /\ body[s].pc = "recheck" /\ Free(s) /\ UNCHANGED <<store, inbox, flags, request>>
          /\ UNCHANGED shownReady \/ Refresh
        BY <1>2 DEF NothingToRecheck, RecheckThrows, At, callers
    <2>2. PICK d \in Docs : d = Doc(s)
        BY <2>1, EngagedTypes
    <2>3. phase \in {"rechecking", "stopped"} /\ phase # "init"
        BY <2>1 DEF BootLists
    <2>4. ASSUME NEW e \in Docs PROVE SameTickets(e)
        <3>1. CASE UNCHANGED queue
            BY <3>1, SameQueueTickets DEF SameTickets
        <3>2. CASE queue' = [queue EXCEPT !["boot"] = <<>>]
            <4>1. /\ queue'["boot"] = <<>> /\ "boot" \in Callers
                  /\ \A c \in Callers \ {"boot"} : queue'[c] = queue[c]
                BY <3>2, CallerTypes DEF TypeInv, QueuesOK
            <4>2. ASSUME NEW i \in DOMAIN queue["boot"]
                  PROVE  queue["boot"][i].op \notin {"process", "ocr", "resume"}
                BY <2>3 DEF BootLists, OpOf
            <4> QED
                BY <4>1, <4>2 DEF SameTickets, Ticket
        <3> QED BY <1>2, <3>1, <3>2 DEF NothingToRecheck, RecheckThrows, callers
    <2>5. Others(s) /\ body'[s].pc = "idle"
        BY <2>1, FreeEffect
    <2> QED
        BY <2>1, <2>2, <2>3, <2>4, <2>5, RecheckQuiet
<1> QED BY <1>1, <1>2

LEMMA MarkScannedCares ==
    ASSUME TypeInv, Main, NEW s \in Slots, MarkScanned(s)
    PROVE  Main'
<1>1. /\ body[s].pc = "recheck" /\ Answered(s) /\ Goto(s, "recheckOcr") /\ Ask(s)
      /\ UNCHANGED <<flags, callers, shownReady>>
    BY DEF MarkScanned, At
<1>2. PICK d \in Docs : d = Doc(s)
    BY <1>1, EngagedTypes
<1>3. /\ \A x \in Docs \ {d} : rows'[x].status = rows[x].status
      /\ UNCHANGED chunks
      /\ rows'[d].status = "scanned" \/ rows'[d].status \notin InFlight
    BY <1>2, SetStatusEffect DEF MarkScanned
<1> QED
    BY <1>1, <1>2, <1>3, GotoCares
    DEF Suspended, RepairPCs, Silent, Later, ProcessPCs, Holding, Advancing

LEMMA BodyStepCares ==
    ASSUME TypeInv, ProcessingIsExclusive, CareInv, NEW s \in Slots, BodyStep(s)
    PROVE  Main'
<1>1. Main /\ BootLists
    BY DEF CareInv, Main
<1>2. ASSUME NEW c \in Callers, StartProcess(s, c) \/ StartReindex(s, c) \/ StartOcr(s, c)
      PROVE  Main'
    BY <1>1, <1>2, StartProcessCares, StartReindexCares, StartOcrCares
<1> QED
    BY <1>1, <1>2, CreateOriginalCares, ProcessCares, FinishCares, CountBeforeCares, ReindexCares,
       RegisterOcrCares, OcrSwapCares, OcrOverCares, StartResumeCares, ClearToResumeCares,
       ResumeProcessCares, RecheckCares, MarkScannedCares, RecheckOcrCares
    DEF BodyStep
-----------------------------------------------------------------------------
(***************************************************************************)
(* What a body's step does to the callers' queues, and who may name a      *)
(* document afterwards.                                                    *)
(***************************************************************************)
LEMMA StepKeepsRows ==
    ASSUME TypeInv, [Next]_vars
    PROVE  \A d \in Docs : rows[d].status # "unborn" => rows'[d].status # "unborn"
<1> USE DEF TypeInv, TablesOK, Row
<1>1. PICK d : Writes(d)
    BY StepWrites
<1> SUFFICES ASSUME NEW x \in Docs, rows[x].status # "unborn" PROVE rows'[x].status # "unborn"
    OBVIOUS
<1>2. ASSUME NEW st \in Statuses \ NoRow, NEW e \in Errors, SetStatus(d, st, e)
      PROVE  rows'[x].status # "unborn"
    BY <1>2 DEF SetStatus, Exists, NoRow
<1>3. ASSUME NEW h, InsertDocument(d, h) PROVE rows'[x].status # "unborn"
    BY <1>3 DEF InsertDocument
<1>4. ASSUME NEW b, InsertChunks(d, b) PROVE rows'[x].status # "unborn"
    BY <1>4 DEF InsertChunks
<1>5. ASSUME NEW b, ReindexDocument(d, b) PROVE rows'[x].status # "unborn"
    BY <1>5 DEF ReindexDocument
<1>6. ASSUME NEW h, NEW b, ReplaceDocument(d, h, b) PROVE rows'[x].status # "unborn"
    BY <1>6 DEF ReplaceDocument
<1>7. CASE DeleteChunks(d) \/ DeleteDocument(d) \/ UNCHANGED rows
    BY <1>7 DEF DeleteChunks, DeleteDocument
<1> QED
    BY <1>1, <1>2, <1>3, <1>4, <1>5, <1>6, <1>7 DEF Writes

HandsOver(s, c) == /\ queue[c] # <<>> /\ queue' = [queue EXCEPT ![c] = Tail(@)]
                   /\ body[s].pc = "idle"
Shape(s) ==
    /\ Others(s) /\ UNCHANGED request /\ (UNCHANGED shownReady \/ Refresh)
    /\ \/ body'[s].pc = "idle"
       \/ body[s].pc # "idle" /\ body'[s].doc = body[s].doc /\ body'[s].pc # "recheck"
       \/ \E c \in Callers : HandsOver(s, c) /\ body'[s].doc = Head(queue[c]).doc
    /\ body'[s].pc = "recheck" =>
          /\ body'[s].owner = "boot" /\ queue["boot"] # <<>> /\ Head(queue["boot"]).op = "recheck"
          /\ UNCHANGED phase
    /\ \/ UNCHANGED <<queue, phase>>
       \/ UNCHANGED phase /\ \E c \in Callers : HandsOver(s, c)
       \/ /\ UNCHANGED phase /\ body[s].pc # "idle"
          /\ \E h : queue' = [queue EXCEPT !["chain"] = Append(@, [op |-> "ocr", doc |-> Doc(s), hash |-> h])]
       \/ phase' = "stopped" /\ queue' = [queue EXCEPT !["boot"] = <<>>]

LEMMA GotoShape ==
    ASSUME TypeInv, NEW s \in Slots, NEW pc, Goto(s, pc), body[s].pc # "idle", pc # "recheck",
           UNCHANGED callers, UNCHANGED shownReady \/ Refresh
    PROVE  Shape(s)
BY GotoEffect DEF Shape, callers

LEMMA FreeShape ==
    ASSUME TypeInv, NEW s \in Slots, Free(s),
           UNCHANGED callers, UNCHANGED shownReady \/ Refresh
    PROVE  Shape(s)
BY FreeEffect DEF Shape, callers

\* A body handed a call: it takes it up, or finds nothing to do.
LEMMA SkipShape ==
    ASSUME TypeInv, NEW s \in Slots, NEW c \in Callers, NEW op, Take(s, c, op),
           UNCHANGED <<request, phase, shownReady>>, Free(s)
    PROVE  Shape(s)
BY FreeEffect DEF Shape, Take, HandsOver

LEMMA TakeShape ==
    ASSUME TypeInv, NEW s \in Slots, NEW c \in Callers, NEW op, Take(s, c, op),
           UNCHANGED <<request, phase, shownReady>>,
           NEW pc \in Suspended, NEW h, NEW b, Begin(s, c, pc, Head(queue[c]).doc, h, b),
           pc = "recheck" => op = "recheck" /\ c = "boot"
    PROVE  Shape(s)
<1>1. HandsOver(s, c) /\ Head(queue[c]).op = op
    BY DEF Take, HandsOver
<1>2. /\ Others(s) /\ body'[s].pc = pc /\ body'[s].doc = Head(queue[c]).doc
      /\ body'[s].owner = c
    BY DEF TypeInv, BodiesOK, Begin, Others
<1> QED
    BY <1>1, <1>2 DEF Shape, HandsOver

LEMMA BodyStepShape ==
    ASSUME TypeInv, NEW s \in Slots, BodyStep(s)
    PROVE  Shape(s)
<1> USE DEF At
<1>1. ASSUME NEW c \in Callers, StartProcess(s, c) PROVE Shape(s)
    <2> DEFINE call == Head(queue[c])
    <2>1. Take(s, c, "process") /\ UNCHANGED <<request, phase, shownReady>>
        BY <1>1 DEF StartProcess
    <2>2. Free(s) \/ Begin(s, c, "storing", call.doc, call.hash, "whole")
        BY <1>1 DEF StartProcess, Enter
    <2>3. "storing" \in Suspended
        BY DEF Suspended, ProcessPCs
    <2> QED BY <2>1, <2>2, <2>3, SkipShape, TakeShape
<1>2. ASSUME NEW c \in Callers, StartReindex(s, c) PROVE Shape(s)
    <2> DEFINE call == Head(queue[c])
    <2>1. Take(s, c, "reindex") /\ UNCHANGED <<request, phase, shownReady>>
        BY <1>2 DEF StartReindex
    <2>2. \/ Free(s)
          \/ Begin(s, c, "riRow", call.doc, rows[call.doc].hash, "absent")
          \/ Begin(s, c, "finish", call.doc, rows[call.doc].hash, "absent")
        BY <1>2 DEF StartReindex
    <2>3. "riRow" \in Suspended /\ "finish" \in Suspended
        BY DEF Suspended, ProcessPCs
    <2> QED BY <2>1, <2>2, <2>3, SkipShape, TakeShape
<1>3. ASSUME NEW c \in Callers, StartOcr(s, c) PROVE Shape(s)
    <2> DEFINE call == Head(queue[c])
    <2>1. Take(s, c, "ocr") /\ UNCHANGED <<request, phase, shownReady>>
        BY <1>3 DEF StartOcr
    <2>2. Free(s) \/ Begin(s, c, "ocrRow", call.doc, rows[call.doc].hash, "absent")
        BY <1>3 DEF StartOcr, OcrLookUp
    <2>3. "ocrRow" \in Suspended
        BY DEF Suspended, OcrPCs
    <2> QED BY <2>1, <2>2, <2>3, SkipShape, TakeShape
<1>4. CASE StartResume(s)
    <2> DEFINE call == Head(queue["boot"])
    <2>1. /\ Take(s, "boot", "resume") /\ UNCHANGED <<request, phase, shownReady>>
          /\ "boot" \in Callers
        BY <1>4, CallerTypes DEF StartResume
    <2>2. Free(s) \/ Begin(s, "boot", "resume", call.doc, call.hash, "absent")
        BY <1>4 DEF StartResume
    <2>3. "resume" \in Suspended
        BY DEF Suspended, RepairPCs
    <2> QED BY <2>1, <2>2, <2>3, SkipShape, TakeShape
<1>5. CASE StartRecheck(s)
    <2> DEFINE call == Head(queue["boot"])
    <2>1. /\ Take(s, "boot", "recheck") /\ UNCHANGED <<request, phase, shownReady>>
          /\ "boot" \in Callers
        BY <1>5, CallerTypes DEF StartRecheck
    <2>2. Begin(s, "boot", "recheck", call.doc, call.hash, "absent")
        BY <1>5 DEF StartRecheck
    <2>3. "recheck" \in Suspended
        BY DEF Suspended, RepairPCs
    <2> QED BY <2>1, <2>2, <2>3, TakeShape
<1>6. CASE CreateOriginal(s) \/ WriteOriginal(s) \/ StoreRefused(s)
    BY <1>6, GotoShape DEF CreateOriginal, WriteOriginal, StoreRefused, MarkParsing
<1>7. CASE Parsed(s) \/ Chunked(s) \/ Embedded(s) \/ Indexed(s) \/ ProcessFails(s)
    BY <1>7, GotoShape DEF Parsed, Chunked, Embedded, Indexed, ProcessFails
<1>8. CASE SwapIndex(s) \/ ReindexFails(s) \/ OcrDropOld(s) \/ OcrInsert(s) \/ OcrReady(s) \/ OcrFails(s)
           \/ MarkScanned(s)
    BY <1>8, GotoShape
    DEF SwapIndex, ReindexFails, ReindexGivesUp, OcrDropOld, OcrInsert, OcrReady, OcrFails, MarkScanned
<1>9. CASE Finish(s)
    BY <1>9, FreeEffect DEF Finish, Shape
<1>10. ASSUME NEW pc \in Suspended \ {"recheck"}, NEW b, body[s].pc # "idle", UNCHANGED callers,
              UNCHANGED shownReady,
              \/ body' = [body EXCEPT ![s].pc = pc, ![s].bytes = b]
              \/ body' = [body EXCEPT ![s].pc = pc, ![s].had = b]
       PROVE  Shape(s)
    <2>1. Others(s) /\ body'[s].pc = pc /\ body'[s].doc = body[s].doc
        BY <1>10 DEF TypeInv, BodiesOK, Body, Others
    <2> QED BY <1>10, <2>1 DEF Shape, callers
<1>11. CASE CountBefore(s)
    BY <1>10, <1>11 DEF CountBefore, Suspended, ProcessPCs
<1>12. CASE ReadToReindex(s)
    BY <1>10, <1>12, GotoShape DEF ReadToReindex, ReindexGivesUp, Suspended, ProcessPCs
<1>13. CASE RegisterOcr(s)
    BY <1>10, <1>13, FreeShape DEF RegisterOcr, Suspended, OcrPCs
<1>14. CASE ClearToResume(s)
    BY <1>10, <1>14, FreeShape DEF ClearToResume, Suspended, RepairPCs
<1>15. CASE OcrEnd(s) \/ NothingToRecheck(s)
    BY <1>15, FreeShape DEF OcrEnd, NothingToRecheck
<1>16. ASSUME NEW c \in Callers, NEW pc \in Suspended \ {"recheck"}, NEW h, NEW b,
              Begin(s, c, pc, Doc(s), h, b), body[s].pc # "idle", UNCHANGED <<callers, shownReady>>
       PROVE  Shape(s)
    <2>1. Others(s) /\ body'[s].pc = pc /\ body'[s].doc = body[s].doc
        BY <1>16 DEF TypeInv, BodiesOK, Begin, Others, Doc
    <2> QED BY <1>16, <2>1 DEF Shape, callers
<1>17. CASE ResumeProcess(s)
    BY <1>16, <1>17, FreeShape, CallerTypes DEF ResumeProcess, Enter, Suspended, ProcessPCs
<1>18. CASE RecheckOcr(s)
    BY <1>16, <1>18, FreeShape, CallerTypes DEF RecheckOcr, OcrLookUp, Suspended, OcrPCs
<1>19. CASE RecheckThrows(s)
    BY <1>19, FreeEffect DEF RecheckThrows, Shape
<1> QED
    BY <1>1, <1>2, <1>3, <1>4, <1>5, <1>6, <1>7, <1>8, <1>9, <1>11, <1>12, <1>13, <1>14, <1>15,
       <1>17, <1>18, <1>19 DEF BodyStep
-----------------------------------------------------------------------------
\* Dropping the first call of a queue: every call left was queued before.
LEMMA HandedOver ==
    ASSUME QueuesOK, NEW s \in Slots, NEW c \in Callers, HandsOver(s, c)
    PROVE  /\ \A b \in Callers : \A i \in DOMAIN queue'[b] :
                 \E j \in DOMAIN queue[b] : queue'[b][i] = queue[b][j]
           /\ 1 \in DOMAIN queue[c] /\ Head(queue[c]) = queue[c][1]
<1> DEFINE q == queue[c]
           r == Tail(q)
<1>1. /\ q \in Seq(Call) /\ q # <<>>
      /\ queue' = [queue EXCEPT ![c] = r] /\ DOMAIN queue = Callers
    BY DEF QueuesOK, HandsOver
<1> HIDE DEF q, r
<1>2. /\ Len(q) \in Nat \ {0} /\ DOMAIN q = 1..Len(q) /\ Head(q) = q[1]
      /\ DOMAIN r = 1..(Len(q) - 1)
      /\ \A i \in 1..(Len(q) - 1) : r[i] = q[i + 1]
    BY <1>1, HeadTailProperties, EmptySeq, LenProperties DEF r
<1>3. queue'[c] = r /\ \A b \in Callers \ {c} : queue'[b] = queue[b]
    BY <1>1
<1>4. ASSUME NEW i \in DOMAIN r PROVE \E j \in DOMAIN q : r[i] = q[j]
    <2>1. i + 1 \in DOMAIN q /\ r[i] = q[i + 1]
        BY <1>2
    <2> QED BY <2>1
<1> QED
    <2>1. ASSUME NEW b \in Callers, NEW i \in DOMAIN queue'[b]
          PROVE  \E j \in DOMAIN queue[b] : queue'[b][i] = queue[b][j]
        <3>1. CASE b # c
            BY <1>3, <3>1
        <3>2. CASE b = c
            <4>1. i \in DOMAIN r /\ queue'[b][i] = r[i]
                BY <1>3, <3>2
            <4> QED BY <1>4, <3>2, <4>1 DEF q
        <3> QED BY <3>1, <3>2
    <2>2. 1 \in DOMAIN q /\ Head(q) = q[1]
        BY <1>2
    <2> QED BY <2>1, <2>2 DEF q

\* The calls queued after a body's step: those queued before, and OCR of its document.
LEMMA BodyQueues ==
    ASSUME TypeInv, NEW s \in Slots, Shape(s), NEW b \in Callers, NEW i \in DOMAIN queue'[b]
    PROVE  \/ \E j \in DOMAIN queue[b] : queue'[b][i] = queue[b][j]
           \/ b = "chain" /\ body[s].pc # "idle" /\ queue'[b][i].doc = Doc(s)
<1>0. queue \in [Callers -> Seq(Call)] /\ QueuesOK /\ "boot" \in Callers /\ "chain" \in Callers
    BY CallerTypes DEF TypeInv, QueuesOK
<1>1. CASE UNCHANGED queue
    BY <1>1
<1>2. ASSUME NEW c \in Callers, HandsOver(s, c)
      PROVE  \E j \in DOMAIN queue[b] : queue'[b][i] = queue[b][j]
    BY <1>0, <1>2, HandedOver
<1>3. ASSUME NEW h, body[s].pc # "idle",
             queue' = [queue EXCEPT !["chain"] = Append(@, [op |-> "ocr", doc |-> Doc(s), hash |-> h])]
      PROVE  \/ \E j \in DOMAIN queue[b] : queue'[b][i] = queue[b][j]
             \/ b = "chain" /\ body[s].pc # "idle" /\ queue'[b][i].doc = Doc(s)
    <2> DEFINE q == queue["chain"]
               v == [op |-> "ocr", doc |-> Doc(s), hash |-> h]
    <2>1. v.doc = Doc(s)
        OBVIOUS
    <2>2. q \in Seq(Call) /\ queue' = [queue EXCEPT !["chain"] = Append(q, v)]
        BY <1>0, <1>3
    <2> HIDE DEF q, v
    <2>3. q \in Seq(Call \cup {v}) /\ v \in Call \cup {v}
        BY <2>2
    <2> DEFINE r == Append(q, v)
    <2>4. /\ Len(q) \in Nat /\ DOMAIN q = 1..Len(q) /\ DOMAIN r = 1..(Len(q) + 1)
          /\ \A k \in 1..Len(q) : r[k] = q[k]
          /\ r[Len(q) + 1] = v
        BY <2>3, AppendProperties, LenProperties
    <2>5. queue'["chain"] = r /\ \A c \in Callers \ {"chain"} : queue'[c] = queue[c]
        BY <1>0, <2>2
    <2> HIDE DEF r
    <2>6. CASE b # "chain"
        BY <2>5, <2>6
    <2>7. CASE b = "chain" /\ i \in DOMAIN q
        BY <2>4, <2>5, <2>7 DEF q
    <2>8. CASE b = "chain" /\ i \notin DOMAIN q
        BY <1>3, <2>1, <2>4, <2>5, <2>8
    <2> QED BY <2>6, <2>7, <2>8
<1>4. ASSUME queue' = [queue EXCEPT !["boot"] = <<>>]
      PROVE  \E j \in DOMAIN queue[b] : queue'[b][i] = queue[b][j]
    BY <1>0, <1>4, EmptySeq
<1> QED
    BY <1>1, <1>2, <1>3, <1>4 DEF Shape

LEMMA BodyBorn ==
    ASSUME TypeInv, Born, NEW s \in Slots, Shape(s),
           \A d \in Docs : rows[d].status # "unborn" => rows'[d].status # "unborn"
    PROVE  Born'
<1>0. \A b \in Callers : \A i \in DOMAIN queue[b] :
          queue[b][i].doc \in Docs /\ rows[queue[b][i].doc].status # "unborn"
    <2>1. ASSUME NEW b \in Callers, NEW i \in DOMAIN queue[b] PROVE queue[b][i] \in Call
        BY DEF TypeInv, QueuesOK
    <2> QED BY <2>1 DEF Call, Born
<1>1. ASSUME NEW t \in Slots, body'[t].pc # "idle" PROVE rows'[body'[t].doc].status # "unborn"
    <2>1. CASE body[t].pc # "idle" /\ body'[t].doc = body[t].doc
        BY <2>1, EngagedTypes DEF Born, Doc
    <2>2. CASE t # s
        BY <1>1, <2>1, <2>2 DEF Shape, Others
    <2>3. ASSUME NEW c \in Callers, HandsOver(s, c), body'[s].doc = Head(queue[c]).doc
          PROVE  rows'[body'[s].doc].status # "unborn"
        <3>1. 1 \in DOMAIN queue[c] /\ Head(queue[c]) = queue[c][1]
            BY <2>3, HandedOver DEF TypeInv
        <3> QED BY <1>0, <2>3, <3>1
    <2> QED
        BY <1>1, <2>1, <2>2, <2>3 DEF Shape
<1>2. ASSUME NEW b \in Callers, NEW i \in DOMAIN queue'[b]
      PROVE  rows'[queue'[b][i].doc].status # "unborn"
    BY <1>0, <1>2, BodyQueues, EngagedTypes DEF Born, Doc
<1>3. ASSUME NEW r \in Requests
      PROVE  /\ request'[r].doc # None => rows'[request'[r].doc].status # "unborn"
             /\ \A i \in DOMAIN request'[r].jobs : rows'[request'[r].jobs[i].doc].status # "unborn"
    <2>1. request'[r] = request[r]
        BY DEF Shape
    <2>2. request[r].doc # None => request[r].doc \in Docs
        BY DEF TypeInv, RequestsOK, Request
    <2>3. ASSUME NEW i \in DOMAIN request[r].jobs PROVE request[r].jobs[i].doc \in Docs
        <3>1. request[r].jobs[i] \in Call
            BY DEF TypeInv, RequestsOK, Request
        <3> QED BY <3>1 DEF Call
    <2> QED
        BY <2>1, <2>2, <2>3 DEF Born
<1>4. \A d \in shownReady' : rows'[d].status # "unborn"
    BY DEF Shape, Refresh, Born, TypeInv, ShownOK
<1> QED
    BY <1>1, <1>2, <1>3, <1>4 DEF Born, Doc

LEMMA BodyOneFile ==
    ASSUME TypeInv, OneFile, NEW s \in Slots, Shape(s)
    PROVE  OneFile'
<1> SUFFICES ASSUME NEW r \in Requests, request[r].pc # "idle" PROVE queue'[r] = <<>>
    BY DEF OneFile, Shape
<1>1. /\ queue[r] = <<>> /\ r # "boot" /\ r # "chain" /\ r \in Callers
      /\ queue \in [Callers -> Seq(Call)]
    BY CallerTypes, LibraryAssumption DEF OneFile, TypeInv, QueuesOK
<1>2. CASE UNCHANGED queue
    BY <1>1, <1>2
<1>3. ASSUME NEW c \in Callers, HandsOver(s, c) PROVE queue'[r] = <<>>
    BY <1>1, <1>3 DEF HandsOver
<1>4. ASSUME NEW q, \/ queue' = [queue EXCEPT !["chain"] = q] \/ queue' = [queue EXCEPT !["boot"] = q]
      PROVE  queue'[r] = <<>>
    BY <1>1, <1>4
<1>5. ASSUME NEW v, queue' = [queue EXCEPT !["chain"] = Append(@, v)] PROVE queue'[r] = <<>>
    BY <1>4, <1>5
<1> QED
    BY <1>2, <1>3, <1>4, <1>5 DEF Shape

LEMMA BodyBootLists ==
    ASSUME TypeInv, BootLists, NEW s \in Slots, Shape(s)
    PROVE  BootLists'
<1>0. "boot" \in Callers /\ "boot" # "chain" /\ queue \in [Callers -> Seq(Call)]
    BY CallerTypes DEF TypeInv, QueuesOK
<1>1. ASSUME NEW i \in DOMAIN queue'["boot"] PROVE queue'["boot"][i].op = OpOf(phase')
    <2>1. CASE UNCHANGED phase
        BY <1>0, <2>1, BodyQueues DEF BootLists, OpOf
    <2>2. CASE queue' = [queue EXCEPT !["boot"] = <<>>]
        BY <1>0, <1>1, <2>2, EmptySeq
    <2> QED BY <2>1, <2>2 DEF Shape
<1>2. ASSUME NEW t \in Slots, body'[t].pc = "recheck"
      PROVE  body'[t].owner = "boot" /\ phase' \in {"rechecking", "stopped"}
    <2>1. CASE t # s
        <3>1. body'[t] = body[t]
            BY <2>1 DEF Shape, Others
        <3> QED BY <1>2, <3>1 DEF BootLists, Shape
    <2>2. CASE t = s
        <3>1. /\ body'[s].owner = "boot" /\ queue["boot"] # <<>> /\ UNCHANGED phase
              /\ Head(queue["boot"]).op = "recheck"
            BY <1>2, <2>2 DEF Shape
        <3>2. 1 \in DOMAIN queue["boot"] /\ Head(queue["boot"]) = queue["boot"][1]
            BY <1>0, <3>1, HeadTailProperties, LenProperties, EmptySeq
        <3>3. OpOf(phase) = "recheck"
            BY <3>1, <3>2 DEF BootLists
        <3> QED BY <2>2, <3>1, <3>3 DEF OpOf
    <2> QED BY <2>1, <2>2
<1> QED BY <1>1, <1>2 DEF BootLists, OpOf
-----------------------------------------------------------------------------
(***************************************************************************)
(* A step of one request, or of the user: no body moves, and the other     *)
(* requests stay where they are.                                           *)
(***************************************************************************)
RequestMove(r) ==
    /\ UNCHANGED <<body, flags, phase>> /\ Moves(r)
    /\ \A q \in Requests \ {r} : request'[q] = request[q]

\* A row it stages, it will hand to a body, after all that is asked already.
Enlists(r, d) ==
    /\ rows'[d].status = "received" /\ Ask(r)
    /\ request'[r].pc = "stage"
    /\ \E i \in DOMAIN request'[r].jobs : request'[r].jobs[i].doc = d
    /\ ~WorksOn(d, Parsing)

OrderlyRequest(r) ==
    /\ \/ Ask(r) /\ request'[r].pc \notin {"idle", "replace", "replaceStored"}
       \/ Resume(r) /\ request'[r].pc # "restage"
    /\ request'[r].pc = "restage" =>
          chunks'[request'[r].doc] = <<>> /\ ~WorksOn(request'[r].doc, Later)
    /\ \A d \in Docs : \/ chunks'[d] \in {chunks[d], <<>>}
                       \/ Ask(r) /\ request'[r].pc = "replaced" /\ request'[r].doc = d
    /\ \A d \in Docs : \/ rows'[d].status = rows[d].status
                       \/ rows'[d].status \notin InFlight
                       \/ Enlists(r, d)

\* What it does to a document: nothing that counts, or it stages one whose
\* old index nobody is about to keep.
CareMove(r, d) ==
    \/ rows'[d].status \notin InFlight
    \/ /\ rows'[d].status = rows[d].status /\ chunks'[d] \in {chunks[d], <<>>}
       /\ d \in shownReady' => d \in shownReady
       /\ Ticket(d, {"reindex"})' => Rebuildable(d)
       /\ Ticket(d, {"ocr"}) => Ticket(d, {"ocr"})'
       /\ Ticket(d, {"process", "ocr", "resume"}) => Ticket(d, {"process", "ocr", "resume"})'
       /\ HasJob(r, d) => HasJob(r, d)' \/ Ticket(d, {"process", "ocr", "resume"})'
       /\ Replaced(r, d) => Replaced(r, d)'
    \/ Enlists(r, d) /\ (MayBeKept(d)' => WillBeReady(d)')

LEMMA RequestAsked ==
    ASSUME TypeInv, Asked, NEW r \in Requests, RequestMove(r), OrderlyRequest(r)
    PROVE  Asked'
<1>1. /\ Once' /\ (Waits(r)' <=> Ask(r)) /\ (Resume(r) => ~Ask(r))
      /\ \A u \in Tasks \ {r} : Waits(u)' <=> Waits(u)
    BY InboxAfter, CallerTypes DEF TypeInv, Asked, RequestMove
<1>2. \A t \in Slots : (Waits(t)' <=> Waits(t)) /\ body'[t] = body[t]
    BY <1>1, CallerTypes, LibraryAssumption DEF RequestMove
<1>3. \A q \in Requests \ {r} : (Waits(q)' <=> Waits(q)) /\ request'[q] = request[q]
    BY <1>1, CallerTypes DEF RequestMove
<1>4. /\ Waits(r)' => request'[r].pc \notin {"idle", "replace", "replaceStored"}
      /\ request'[r].pc = "restage" => Waits(r)'
    BY <1>1 DEF OrderlyRequest
<1> QED
    BY <1>1, <1>2, <1>3, <1>4 DEF Asked

LEMMA RequestStagedFirst ==
    ASSUME TypeInv, Asked, StagedFirst, NEW r \in Requests, RequestMove(r), OrderlyRequest(r)
    PROVE  StagedFirst'
<1>1. /\ UNCHANGED body /\ Answered(r) /\ InboxOK /\ Once
      /\ \A q \in Requests \ {r} : request'[q] = request[q]
      /\ \A t \in Slots : t # r /\ t \in Tasks
      /\ \A q \in Requests : q \in Tasks
    BY CallerTypes, LibraryAssumption DEF RequestMove, Moves, TypeInv, Asked
<1>2. /\ \A u \in Tasks \ {r} : Ask(r) /\ Waits(u) => Before(u, r)'
      /\ \A u, v \in Tasks \ {r} : Before(u, v)' <=> Before(u, v)
    BY <1>1, InboxAfter DEF RequestMove
<1> SUFFICES ASSUME NEW q \in Requests, request'[q].pc = "restage"
             PROVE  LET e == request'[q].doc IN
                    /\ \A t \in Slots : body[t].pc \in Later /\ Doc(t) = e =>
                          Before(q, t)' /\ body[t].pc \in Slowly
                    /\ chunks'[e] # <<>> =>
                          \/ \E t \in Slots : Doc(t) = e /\ body[t].pc = "ocrReady" /\ Before(q, t)'
                          \/ \E p \in Requests : request'[p].pc = "replaced" /\ request'[p].doc = e
                                                 /\ Before(q, p)'
    BY <1>1 DEF StagedFirst, Processors, Doc, Replaced, Slowly, Later
<1>3. CASE q = r
    BY <1>3 DEF OrderlyRequest, WorksOn
<1>4. CASE q # r
    <2> DEFINE e == request[q].doc
    <2>1. /\ request'[q].doc = e /\ e \in Docs /\ request[q].pc = "restage" /\ Waits(q)
        BY <1>1, <1>4, RequestIsOK DEF RequestOK, Asked
    <2>2. /\ \A t \in Slots : body[t].pc \in Later /\ Doc(t) = e =>
                Before(q, t) /\ body[t].pc \in Slowly
          /\ chunks[e] # <<>> =>
                \/ \E t \in Slots : Doc(t) = e /\ body[t].pc = "ocrReady" /\ Before(q, t)
                \/ \E p \in Requests : request[p].pc = "replaced" /\ request[p].doc = e
                                       /\ Before(q, p)
        BY <2>1 DEF StagedFirst, Processors, Later, Slowly, Replaced
    <2>3. /\ \A t \in Slots : Before(q, t) => Before(q, t)'
          /\ \A p \in Requests : Before(q, p) => p # r /\ Before(q, p)'
        BY <1>1, <1>2, <1>4, BehindWaits
    <2>4. chunks'[e] # <<>> =>
             \/ \E t \in Slots : Doc(t) = e /\ body[t].pc = "ocrReady" /\ Before(q, t)'
             \/ \E p \in Requests : request'[p].pc = "replaced" /\ request'[p].doc = e
                                    /\ Before(q, p)'
        <3>1. CASE chunks'[e] = chunks[e]
            BY <1>1, <2>2, <2>3, <3>1
        <3>2. CASE Ask(r) /\ request'[r].pc = "replaced" /\ request'[r].doc = e
            BY <1>1, <1>2, <1>4, <2>1, <3>2
        <3> QED BY <2>1, <3>1, <3>2 DEF OrderlyRequest
    <2> QED BY <2>1, <2>2, <2>3, <2>4
<1> QED BY <1>3, <1>4

LEMMA RequestLaterWork ==
    ASSUME TypeInv, Asked, LaterWork, NEW r \in Requests, RequestMove(r), OrderlyRequest(r)
    PROVE  LaterWork'
<1>1. /\ UNCHANGED body /\ Answered(r) /\ InboxOK /\ Once
      /\ \A q \in Requests \ {r} : request'[q] = request[q]
      /\ \A t \in Slots : t # r /\ t \in Tasks
      /\ \A q \in Requests : q \in Tasks
    BY CallerTypes, LibraryAssumption DEF RequestMove, Moves, TypeInv, Asked
<1>2. /\ \A u \in Tasks \ {r} : Ask(r) /\ Waits(u) => Before(u, r)'
      /\ \A u \in Tasks \ {r} : Waits(u)' <=> Waits(u)
      /\ \A u, v \in Tasks \ {r} : Before(u, v)' <=> Before(u, v)
    BY <1>1, InboxAfter DEF RequestMove
<1> SUFFICES ASSUME NEW t \in Slots, body[t].pc \in {"finish", "ocrEnd"}, Waits(t)',
                    rows'[Doc(t)].status \in InFlight
             PROVE  IF rows'[Doc(t)].status = "received"
                    THEN \E q \in Requests : /\ request'[q].pc = "stage" /\ HasJob(q, Doc(t))'
                                             /\ Before(t, q)'
                    ELSE \E w \in Slots : /\ Doc(w) = Doc(t)
                                          /\ body[w].pc \in Advancing /\ Before(t, w)'
    BY <1>1 DEF LaterWork, Settled, Doc, HasJob
<1> DEFINE d == Doc(t)
<1>3. d \in Docs /\ Waits(t) /\ d' = d
    BY <1>1, <1>2, EngagedTypes DEF Doc
<1>4. CASE rows'[d].status = rows[d].status
    <2>1. IF rows[d].status = "received"
          THEN \E q \in Requests : request[q].pc = "stage" /\ HasJob(q, d) /\ Before(t, q)
          ELSE \E w \in Slots : Doc(w) = d /\ body[w].pc \in Advancing /\ Before(t, w)
        BY <1>3, <1>4 DEF LaterWork, Settled
    <2>2. /\ \A q \in Requests : Before(t, q) => q # r /\ Before(t, q)'
          /\ \A w \in Slots : Before(t, w) => Before(t, w)'
        BY <1>1, <1>2, BehindWaits
    <2> QED
        BY <1>1, <1>3, <1>4, <2>1, <2>2 DEF HasJob
<1>5. CASE Enlists(r, d)
    BY <1>1, <1>2, <1>3, <1>5 DEF Enlists, HasJob
<1> QED
    BY <1>3, <1>4, <1>5 DEF OrderlyRequest

LEMMA RequestOrder ==
    ASSUME TypeInv, OrderInv, NEW r \in Requests, RequestMove(r), OrderlyRequest(r)
    PROVE  OrderInv'
<1>1. Registered'
    BY DEF RequestMove, OrderInv, Registered, Doc, flags
<1>2. PastReceived'
    <2> SUFFICES ASSUME NEW s \in Slots, body[s].pc \in Parsing
                 PROVE  rows'[Doc(s)].status # "received"
        BY DEF PastReceived, RequestMove, Doc
    <2>1. Doc(s) \in Docs /\ WorksOn(Doc(s), Parsing)
        BY EngagedTypes DEF Parsing, WorksOn
    <2> QED
        BY <2>1 DEF OrderInv, PastReceived, OrderlyRequest, Enlists, InFlight
<1> QED
    BY <1>1, <1>2, RequestAsked, RequestStagedFirst, RequestLaterWork DEF OrderInv

LEMMA RequestCare ==
    ASSUME TypeInv, Main, NEW r \in Requests, RequestMove(r), OrderlyRequest(r),
           \A d \in Docs : CareMove(r, d)
    PROVE  Main'
<1>1. /\ UNCHANGED <<body, phase>>
      /\ \A q \in Requests \ {r} : request'[q] = request[q]
      /\ \A t \in Slots : Waits(t)' <=> Waits(t)
    BY InboxAfter, CallerTypes, LibraryAssumption
    DEF RequestMove, TypeInv, Main, OrderInv, Asked
<1>2. ASSUME NEW d \in Docs PROVE Kept(d)' /\ InHand(d)'
    <2>1. CASE rows'[d].status \notin InFlight
        BY <2>1 DEF Kept, InHand
    <2>2. CASE Enlists(r, d) /\ (MayBeKept(d)' => WillBeReady(d)')
        <3>1. HasJob(r, d)'
            BY <2>2 DEF Enlists, HasJob
        <3> QED
            BY <2>2, <3>1 DEF Kept, WillBeWritten, InHand, Cared
    <2>3. CASE /\ rows'[d].status = rows[d].status /\ chunks'[d] \in {chunks[d], <<>>}
               /\ d \in shownReady' => d \in shownReady
               /\ Ticket(d, {"reindex"})' => Rebuildable(d)
               /\ Ticket(d, {"ocr"}) => Ticket(d, {"ocr"})'
               /\ Ticket(d, {"process", "ocr", "resume"}) => Ticket(d, {"process", "ocr", "resume"})'
               /\ HasJob(r, d) => HasJob(r, d)' \/ Ticket(d, {"process", "ocr", "resume"})'
               /\ Replaced(r, d) => Replaced(r, d)'
        <3>1. \A q \in Requests : Replaced(q, d) => Replaced(q, d)'
            BY <1>1, <2>3 DEF Replaced
        <3>2. \A q \in Requests : HasJob(q, d) =>
                  HasJob(q, d)' \/ Ticket(d, {"process", "ocr", "resume"})'
            BY <1>1, <2>3 DEF HasJob
        <3>3. MayBeKept(d)' => MayBeKept(d)
            BY <1>1, <2>3 DEF MayBeKept, KeepsIndex, Rebuildable, WorksOn, Doc
        <3>4. WillBeWritten(d) => WillBeWritten(d)'
            BY <1>1, <2>3, <3>1 DEF WillBeWritten, WillBeReady, WillBeRead, WorksOn, Doc
        <3>5. Cared(d) => Cared(d)'
            BY <1>1, <2>3, <3>1, <3>2 DEF Cared, WorksOn, Doc
        <3> QED
            BY <1>1, <2>3, <3>3, <3>4, <3>5 DEF Main, IndexKept, Kept, AllCared, InHand
    <2> QED BY <2>1, <2>2, <2>3 DEF CareMove
<1> QED
    BY <1>2, RequestOrder DEF Main, IndexKept, AllCared

\* A step that leaves the tables and the queues alone, and drops no job.
LEMMA QuietRequest ==
    ASSUME TypeInv, Main, NEW r \in Requests, RequestMove(r),
           UNCHANGED <<rows, chunks, queue>>, UNCHANGED shownReady \/ Refresh,
           \/ Ask(r) /\ request'[r].pc \notin {"idle", "replace", "replaceStored"}
           \/ Resume(r),
           request'[r].pc # "restage",
           request'[r].jobs = request[r].jobs \/ request[r].jobs = <<>>,
           request[r].pc # "replaced"
    PROVE  Main'
<1>1. OrderlyRequest(r)
    BY DEF OrderlyRequest
<1>2. ASSUME NEW d \in Docs PROVE CareMove(r, d)
    <2>1. CASE rows[d].status \notin InFlight
        BY <2>1 DEF CareMove
    <2>2. CASE rows[d].status \in InFlight
        <3>1. d \in shownReady' => d \in shownReady
            BY <2>2 DEF Refresh, InFlight
        <3>2. /\ Ticket(d, {"reindex"})' => Rebuildable(d)
              /\ Ticket(d, {"ocr"}) => Ticket(d, {"ocr"})'
              /\ Ticket(d, {"process", "ocr", "resume"}) => Ticket(d, {"process", "ocr", "resume"})'
            BY SameQueueTickets DEF Rebuildable
        <3>3. HasJob(r, d) => HasJob(r, d)'
            BY EmptySeq DEF HasJob
        <3>4. ~Replaced(r, d)
            BY DEF Replaced
        <3> QED
            BY <3>1, <3>2, <3>3, <3>4 DEF CareMove
    <2> QED BY <2>1, <2>2
<1> QED
    BY <1>1, <1>2, RequestCare

LEMMA RequestEffect ==
    ASSUME TypeInv, NEW r \in Requests, NEW q, request' = [request EXCEPT ![r] = q]
    PROVE  request'[r] = q /\ \A p \in Requests \ {r} : request'[p] = request[p]
BY DEF TypeInv, RequestsOK

\* What a request is before and after its steps.
LEMMA DoneEffect ==
    ASSUME TypeInv, NEW r \in Requests, Done(r)
    PROVE  /\ \A p \in Requests \ {r} : request'[p] = request[p]
           /\ request'[r].pc = "idle" /\ request'[r].jobs = <<>>
           /\ request'[r].left = <<>> /\ request'[r].doc = None
<1>1. NoRequest.pc = "idle" /\ NoRequest.jobs = <<>> /\ NoRequest.left = <<>> /\ NoRequest.doc = None
    BY DEF NoRequest
<1> QED BY <1>1, RequestEffect DEF Done

LEMMA NextFileEffect ==
    ASSUME TypeInv, NEW r \in Requests, NEW jobs, NextFile(r, jobs)
    PROVE  /\ \A p \in Requests \ {r} : request'[p] = request[p]
           /\ request'[r].pc = "stage" /\ request'[r].jobs = jobs
           /\ request'[r].left = Tail(request[r].left) /\ request'[r].doc = None
<1> DEFINE q == [NoRequest EXCEPT !.pc = "stage", !.left = Tail(request[r].left), !.jobs = jobs]
<1>1. q.pc = "stage" /\ q.jobs = jobs /\ q.left = Tail(request[r].left) /\ q.doc = None
    BY DEF NoRequest
<1>2. request' = [request EXCEPT ![r] = q]
    BY DEF NextFile
<1> HIDE DEF q
<1> QED BY <1>1, <1>2, RequestEffect

LEMMA NewPcEffect ==
    ASSUME TypeInv, NEW r \in Requests, NEW pc, request' = [request EXCEPT ![r].pc = pc]
    PROVE  /\ \A p \in Requests \ {r} : request'[p] = request[p]
           /\ request'[r].pc = pc /\ request'[r].jobs = request[r].jobs
           /\ request'[r].left = request[r].left /\ request'[r].doc = request[r].doc
BY DEF TypeInv, RequestsOK, Request

LEMMA FoundEffect ==
    ASSUME TypeInv, NEW r \in Requests, NEW d, NEW st,
           request' = [request EXCEPT ![r].pc = "found", ![r].doc = d, ![r].seen = st]
    PROVE  /\ \A p \in Requests \ {r} : request'[p] = request[p]
           /\ request'[r].pc = "found" /\ request'[r].jobs = request[r].jobs
           /\ request'[r].left = request[r].left /\ request'[r].doc = d
BY DEF TypeInv, RequestsOK, Request
-----------------------------------------------------------------------------
(***************************************************************************)
(* The steps of a request, one after the other.                            *)
(***************************************************************************)
LEMMA LookUpCares ==
    ASSUME TypeInv, CareInv, NEW r \in Requests, LookUpHash(r)
    PROVE  Main'
<1>1. Main /\ request[r].jobs = <<>> /\ request[r].pc = "stage" /\ Answered(r)
    BY DEF CareInv, Main, LookUpHash, OneFile, AtR
<1>2. UNCHANGED <<rows, chunks, body, flags, phase, queue, shownReady>>
    BY DEF LookUpHash, store
<1>3. /\ \A p \in Requests \ {r} : request'[p] = request[p]
      /\ \/ Resume(r) /\ request'[r].pc = "idle"
         \/ Ask(r) /\ request'[r].pc = "found"
    <2>1. CASE Done(r) /\ Resume(r)
        BY <2>1, DoneEffect
    <2>2. ASSUME NEW d, Ask(r), request' = [request EXCEPT ![r].pc = "found", ![r].doc = d,
                                                       ![r].seen = rows[d].status]
          PROVE  (\A p \in Requests \ {r} : request'[p] = request[p]) /\ request'[r].pc = "found"
        BY <2>2, FoundEffect
    <2>3. CASE Ask(r) /\ request' = [request EXCEPT ![r].pc = "found"]
        BY <2>3, NewPcEffect
    <2> QED BY <2>1, <2>2, <2>3 DEF LookUpHash
<1>4. RequestMove(r)
    BY <1>1, <1>2, <1>3 DEF RequestMove, Moves
<1> QED
    BY <1>1, <1>2, <1>3, <1>4, QuietRequest

\* A document no task and no list has heard of.
LEMMA UnheardOf ==
    ASSUME TypeInv, Born, NEW d \in Docs, rows[d].status = "unborn",
           UNCHANGED <<body, queue, shownReady>>
    PROVE  ~WorksOn(d, Parsing) /\ ~MayBeKept(d)'
<1>1. \A s \in Slots : body[s].pc # "idle" => Doc(s) # d
    BY DEF Born
<1>2. \A c \in Callers : \A i \in DOMAIN queue[c] : queue[c][i].doc # d
    BY DEF Born
<1>3. d \notin shownReady
    BY DEF Born
<1> QED
    BY <1>1, <1>2, <1>3 DEF WorksOn, Parsing, MayBeKept, Rebuildable, Ticket, KeepsIndex, Doc

LEMMA InsertNewCares ==
    ASSUME TypeInv, CareInv, NEW r \in Requests, InsertNew(r)
    PROVE  Main'
<1>1. /\ Main /\ Born /\ request[r].jobs = <<>> /\ request[r].pc = "found" /\ Answered(r)
      /\ UNCHANGED <<body, flags, phase, queue, shownReady>>
    BY DEF CareInv, Main, InsertNew, OneFile, AtR
<1>2. CASE Done(r) /\ Resume(r) /\ UNCHANGED rows /\ UNCHANGED chunks
    <2>1. RequestMove(r) /\ request'[r].pc = "idle"
        BY <1>1, <1>2, DoneEffect DEF RequestMove, Moves
    <2> QED
        BY <1>1, <1>2, <2>1, QuietRequest
<1>3. ASSUME NEW d \in Docs, InsertDocument(d, Head(request[r].left)),
             NextFile(r, Append(request[r].jobs, Job(r, d))), Ask(r)
      PROVE  Main'
    <2>1. /\ rows[d].status = "unborn" /\ rows'[d].status = "received"
          /\ \A e \in Docs \ {d} : rows'[e].status = rows[e].status
          /\ UNCHANGED chunks
        BY <1>3 DEF InsertDocument, TypeInv, TablesOK
    <2> DEFINE job == Job(r, d)
    <2>2. job.doc = d
        BY DEF Job
    <2> HIDE DEF job
    <2>3. /\ \A p \in Requests \ {r} : request'[p] = request[p]
          /\ request'[r].pc = "stage" /\ request'[r].jobs = <<job>>
        BY <1>1, <1>3, NextFileEffect DEF job
    <2>4. RequestMove(r)
        BY <1>1, <1>3, <2>3 DEF RequestMove, Moves
    <2>5. ~WorksOn(d, Parsing) /\ ~MayBeKept(d)'
        BY <1>1, <2>1, UnheardOf
    <2>6. Enlists(r, d)
        <3>1. 1 \in DOMAIN request'[r].jobs /\ request'[r].jobs[1].doc = d
            BY <2>2, <2>3
        <3> QED BY <1>3, <2>1, <2>3, <2>5, <3>1 DEF Enlists
    <2>7. OrderlyRequest(r)
        BY <1>3, <2>1, <2>3, <2>6 DEF OrderlyRequest
    <2>8. ASSUME NEW e \in Docs PROVE CareMove(r, e)
        <3>1. CASE e = d
            BY <2>5, <2>6, <3>1 DEF CareMove
        <3>2. CASE e # d
            BY <1>1, <2>1, <3>2, SameQueueTickets DEF CareMove, Rebuildable, HasJob, Replaced
        <3> QED BY <3>1, <3>2
    <2> QED BY <1>1, <2>4, <2>7, <2>8, RequestCare
<1> QED BY <1>2, <1>3 DEF InsertNew

LEMMA StageAgainCares ==
    ASSUME TypeInv, ProcessingIsExclusive, CareInv, NEW r \in Requests, StageAgain(r)
    PROVE  Main'
<1>1. /\ Main /\ request[r].pc = "found" /\ Answered(r) /\ Ask(r)
      /\ UNCHANGED <<rows, body, flags, phase, queue, shownReady>>
    BY DEF CareInv, Main, StageAgain, AtR, DeleteChunks
<1>2. PICK d \in Docs : d = request[r].doc
    BY RequestIsOK DEF RequestOK, Request, StageAgain
<1>3. chunks' = [chunks EXCEPT ![d] = <<>>] /\ d \notin processing
    BY <1>2 DEF StageAgain, DeleteChunks, Restageable
<1>4. /\ chunks'[d] = <<>> /\ \A e \in Docs \ {d} : chunks'[e] = chunks[e]
      /\ ~WorksOn(d, Later)
    BY <1>3 DEF TypeInv, TablesOK, ProcessingIsExclusive, Processors, WorksOn, Later
<1>5. /\ \A p \in Requests \ {r} : request'[p] = request[p]
      /\ request'[r].pc = "restage" /\ request'[r].jobs = request[r].jobs
      /\ request'[r].doc = d
    BY <1>2, NewPcEffect DEF StageAgain
<1>6. RequestMove(r)
    BY <1>1, <1>5 DEF RequestMove, Moves
<1>7. OrderlyRequest(r)
    BY <1>1, <1>4, <1>5 DEF OrderlyRequest
<1>8. ASSUME NEW e \in Docs PROVE CareMove(r, e)
    BY <1>1, <1>4, <1>5, SameQueueTickets DEF CareMove, Rebuildable, HasJob, Replaced
<1> QED BY <1>1, <1>6, <1>7, <1>8, RequestCare

LEMMA StageKnownCares ==
    ASSUME TypeInv, CareInv, NEW r \in Requests, StageKnown(r)
    PROVE  Main'
<1>1. /\ Main /\ request[r].jobs = <<>> /\ request[r].pc = "found" /\ Answered(r) /\ Resume(r)
      /\ UNCHANGED <<rows, chunks, body, flags, phase, queue, shownReady>>
    BY DEF CareInv, Main, StageKnown, OneFile, AtR, store
<1>2. /\ \A p \in Requests \ {r} : request'[p] = request[p]
      /\ request'[r].pc = "stage"
    BY NextFileEffect DEF StageKnown
<1>3. RequestMove(r)
    BY <1>1, <1>2 DEF RequestMove, Moves
<1> QED
    BY <1>1, <1>2, <1>3, QuietRequest

LEMMA MarkReceivedCares ==
    ASSUME TypeInv, CareInv, NEW r \in Requests, MarkReceived(r)
    PROVE  Main'
<1>1. /\ Main /\ request[r].jobs = <<>> /\ request[r].pc = "restage" /\ Answered(r) /\ Ask(r)
      /\ UNCHANGED <<body, flags, phase, queue, shownReady>>
    BY DEF CareInv, Main, MarkReceived, OneFile, AtR
<1>2. PICK d \in Docs : d = request[r].doc
    BY <1>1, RequestIsOK DEF RequestOK
<1>3. /\ \A e \in Docs \ {d} : rows'[e].status = rows[e].status
      /\ UNCHANGED chunks
      /\ rows'[d].status = "received" \/ rows'[d].status \notin InFlight
    BY <1>2, SetStatusEffect DEF MarkReceived
<1> DEFINE job == Job(r, d)
<1>4. job.doc = d
    BY DEF Job
<1> HIDE DEF job
<1>5. /\ \A p \in Requests \ {r} : request'[p] = request[p]
      /\ request'[r].pc = "stage" /\ request'[r].jobs = <<job>>
    BY <1>1, <1>2, NextFileEffect DEF job, MarkReceived
<1>6. RequestMove(r)
    BY <1>1, <1>5 DEF RequestMove, Moves
<1>7. /\ \A t \in Slots : body[t].pc \in Later /\ Doc(t) = d =>
            Before(r, t) /\ body[t].pc \in Slowly
      /\ chunks[d] # <<>> =>
            \/ \E t \in Slots : Doc(t) = d /\ body[t].pc = "ocrReady"
            \/ \E q \in Requests : Replaced(q, d)
    BY <1>1, <1>2 DEF Main, OrderInv, StagedFirst, Processors, Later, Slowly
<1>8. ~WorksOn(d, Parsing)
    BY <1>7 DEF WorksOn, Parsing, Later, ProcessPCs, Slowly
<1>9. MayBeKept(d)' => WillBeReady(d)'
    <2>1. ASSUME chunks[d] # <<>> PROVE WillBeReady(d)'
        <3>1. \A q \in Requests : Replaced(q, d) => Replaced(q, d)'
            BY <1>1, <1>5 DEF Replaced
        <3> QED BY <1>1, <1>7, <2>1, <3>1 DEF WillBeReady, WorksOn, Doc
    <2>2. ASSUME NEW s \in Slots, Doc(s) = d, KeepsIndex(s)' PROVE FALSE
        <3>1. body[s].pc \in Later
            BY <1>1, <2>2 DEF KeepsIndex, Later, ProcessPCs
        <3>2. Before(r, s) /\ body[s].pc = "finish" /\ ~Waits(s)'
            BY <1>1, <1>7, <2>2, <3>1 DEF KeepsIndex, Slowly
        <3>3. Waits(s)
            BY <3>2, BehindWaits DEF TypeInv, Main, OrderInv, Asked, CareInv
        <3>4. s \in Tasks \ {r} /\ r \in Tasks
            BY CallerTypes, LibraryAssumption
        <3>5. Waits(s)' <=> Waits(s)
            BY <1>1, <1>6, <3>4, InboxAfter DEF TypeInv, Main, OrderInv, Asked, RequestMove
        <3> QED BY <3>2, <3>3, <3>5
    <2> QED
        BY <1>1, <1>3, <2>1, <2>2 DEF MayBeKept, Doc
<1>10. rows'[d].status = "received" => Enlists(r, d)
    <2>1. 1 \in DOMAIN request'[r].jobs /\ request'[r].jobs[1].doc = d
        BY <1>4, <1>5
    <2> QED BY <1>1, <1>5, <1>8, <2>1 DEF Enlists
<1>11. OrderlyRequest(r)
    BY <1>1, <1>3, <1>5, <1>10 DEF OrderlyRequest
<1>12. ASSUME NEW e \in Docs PROVE CareMove(r, e)
    <2>1. CASE e = d
        BY <1>3, <1>9, <1>10, <2>1 DEF CareMove
    <2>2. CASE e # d
        BY <1>1, <1>3, <2>2, SameQueueTickets DEF CareMove, Rebuildable, HasJob, Replaced
    <2> QED BY <2>1, <2>2
<1> QED BY <1>1, <1>6, <1>11, <1>12, RequestCare

\* A request that hands over calls, having handed over all it had before.
LEMMA NewQueue ==
    ASSUME TypeInv, NEW r \in Requests, queue[r] = <<>>, NEW q,
           queue' = [queue EXCEPT ![r] = q], NEW d, NEW ops
    PROVE  /\ Ticket(d, ops) => Ticket(d, ops)'
           /\ Ticket(d, ops)' =>
                 Ticket(d, ops) \/ \E i \in DOMAIN q : q[i].doc = d /\ q[i].op \in ops
           /\ (\E i \in DOMAIN q : q[i].doc = d /\ q[i].op \in ops) => Ticket(d, ops)'
<1>1. /\ r \in Callers /\ queue'[r] = q
      /\ \A c \in Callers \ {r} : queue'[c] = queue[c]
    BY CallerTypes DEF TypeInv, QueuesOK
<1> QED
    BY <1>1, EmptySeq DEF Ticket

LEMMA ProcessManyCares ==
    ASSUME TypeInv, CareInv, NEW r \in Requests, ProcessMany(r)
    PROVE  Main'
<1>1. /\ Main /\ request[r].pc = "stage" /\ Answered(r) /\ Resume(r) /\ queue[r] = <<>>
      /\ UNCHANGED <<rows, chunks, body, flags, phase>> /\ Refresh
      /\ \A i \in DOMAIN request[r].jobs : request[r].jobs[i].op = "process"
    BY DEF CareInv, Main, ProcessMany, OneFile, AtR, store
<1>2. /\ \A p \in Requests \ {r} : request'[p] = request[p]
      /\ request'[r].pc = "idle"
    BY DoneEffect DEF ProcessMany
<1>3. RequestMove(r) /\ OrderlyRequest(r)
    BY <1>1, <1>2 DEF RequestMove, Moves, OrderlyRequest
<1> DEFINE q == request[r].jobs
<1>4. queue' = [queue EXCEPT ![r] = q]
    BY DEF ProcessMany
<1>5. ASSUME NEW d \in Docs PROVE CareMove(r, d)
    <2>1. CASE rows[d].status \notin InFlight
        BY <1>1, <2>1 DEF CareMove
    <2>2. CASE rows[d].status \in InFlight
        <3>1. d \in shownReady' => d \in shownReady
            BY <1>1, <2>2 DEF Refresh, InFlight
        <3>2. \A ops : Ticket(d, ops) => Ticket(d, ops)'
            BY <1>1, <1>4, NewQueue
        <3>3. Ticket(d, {"reindex"})' => Ticket(d, {"reindex"})
            <4>1. Ticket(d, {"reindex"})' =>
                     \/ Ticket(d, {"reindex"})
                     \/ \E i \in DOMAIN q : q[i].doc = d /\ q[i].op \in {"reindex"}
                BY <1>1, <1>4, NewQueue
            <4> QED BY <1>1, <4>1
        <3>4. HasJob(r, d) => Ticket(d, {"process", "ocr", "resume"})'
            <4> DEFINE ops == {"process", "ocr", "resume"}
            <4>1. "process" \in ops
                OBVIOUS
            <4> HIDE DEF ops
            <4>2. (\E i \in DOMAIN q : q[i].doc = d /\ q[i].op \in ops) => Ticket(d, ops)'
                BY <1>1, <1>4, NewQueue
            <4>3. HasJob(r, d) => Ticket(d, ops)'
                BY <1>1, <4>1, <4>2 DEF HasJob
            <4> QED BY <4>3 DEF ops
        <3> QED
            BY <1>1, <3>1, <3>2, <3>3, <3>4 DEF CareMove, Rebuildable, Replaced
    <2> QED BY <2>1, <2>2
<1> QED BY <1>1, <1>3, <1>5, RequestCare

\* A task that is not waiting goes on in its own time.
LEMMA IdleRequest ==
    ASSUME TypeInv, Main, NEW r \in Requests, UNCHANGED inbox,
           request[r].pc \in {"idle", "replace", "replaceStored"}
    PROVE  Resume(r) /\ Moves(r)
BY SilentMoves, CallerTypes DEF Main, OrderInv, Asked, TypeInv

LEMMA ReplaceCares ==
    ASSUME TypeInv, CareInv, NEW r \in Requests, StoreReplacement(r) \/ ReplaceFails(r)
    PROVE  Main'
<1>1. /\ Main /\ request[r].pc \in {"replace", "replaceStored"} /\ request[r].jobs = <<>>
      /\ UNCHANGED <<rows, chunks, body, inbox, flags, phase, queue>>
      /\ UNCHANGED shownReady \/ Refresh
    BY DEF CareInv, Main, StoreReplacement, ReplaceFails, OneFile, AtR, store
<1>2. /\ \A p \in Requests \ {r} : request'[p] = request[p]
      /\ request'[r].pc \in {"idle", "replaceStored"}
    <2>1. CASE StoreReplacement(r)
        <3>1. request' = [request EXCEPT ![r].pc = "replaceStored"]
            BY <2>1 DEF StoreReplacement
        <3> QED BY <3>1, NewPcEffect
    <2>2. CASE ReplaceFails(r)
        BY <2>2, DoneEffect DEF ReplaceFails
    <2> QED BY <2>1, <2>2
<1>3. Resume(r) /\ Moves(r)
    BY <1>1, IdleRequest
<1>4. RequestMove(r)
    BY <1>1, <1>2, <1>3 DEF RequestMove
<1> QED
    BY <1>1, <1>2, <1>3, <1>4, QuietRequest

LEMMA SwapVersionCares ==
    ASSUME TypeInv, CareInv, NEW r \in Requests, SwapVersion(r)
    PROVE  Main'
<1>1. /\ Main /\ request[r].pc = "replaceStored" /\ Answered(r) /\ Ask(r)
      /\ UNCHANGED <<body, flags, phase, queue, shownReady>>
    BY DEF CareInv, Main, SwapVersion, AtR
<1>2. PICK d \in Docs : d = request[r].doc
    BY <1>1, RequestIsOK DEF RequestOK
<1>3. /\ \A e \in Docs \ {d} : rows'[e].status = rows[e].status /\ chunks'[e] = chunks[e]
      /\ rows'[d].status \notin InFlight
    BY <1>2 DEF SwapVersion, ReplaceDocument, TypeInv, TablesOK, InFlight
<1>4. /\ \A p \in Requests \ {r} : request'[p] = request[p]
      /\ request'[r].pc = "replaced" /\ request'[r].jobs = request[r].jobs
      /\ request'[r].doc = d
    BY <1>2, NewPcEffect DEF SwapVersion
<1>5. RequestMove(r) /\ OrderlyRequest(r)
    BY <1>1, <1>3, <1>4 DEF RequestMove, Moves, OrderlyRequest
<1>6. ASSUME NEW e \in Docs PROVE CareMove(r, e)
    BY <1>1, <1>3, <1>4, SameQueueTickets DEF CareMove, Rebuildable, HasJob, Replaced
<1> QED BY <1>1, <1>5, <1>6, RequestCare

LEMMA ReplaceDoneCares ==
    ASSUME TypeInv, CareInv, NEW r \in Requests, ReplaceDone(r)
    PROVE  Main'
<1>1. /\ Main /\ request[r].pc = "replaced" /\ Answered(r) /\ Resume(r) /\ request[r].jobs = <<>>
      /\ UNCHANGED <<body, flags, phase, queue>> /\ Refresh
    BY DEF CareInv, Main, ReplaceDone, AtR, OneFile
<1>2. PICK d \in Docs : d = request[r].doc
    BY <1>1, RequestIsOK DEF RequestOK
<1>3. /\ \A e \in Docs \ {d} : rows'[e].status = rows[e].status
      /\ UNCHANGED chunks
      /\ rows'[d].status \notin InFlight
    BY <1>2, SetStatusEffect DEF ReplaceDone, InFlight
<1>4. /\ \A p \in Requests \ {r} : request'[p] = request[p]
      /\ request'[r].pc = "idle"
    BY DoneEffect DEF ReplaceDone
<1>5. RequestMove(r) /\ OrderlyRequest(r)
    BY <1>1, <1>3, <1>4 DEF RequestMove, Moves, OrderlyRequest
<1>6. ASSUME NEW e \in Docs PROVE CareMove(r, e)
    <2>1. CASE rows'[e].status \notin InFlight
        BY <2>1 DEF CareMove
    <2>2. CASE rows'[e].status \in InFlight
        <3>1. e # d /\ e \notin shownReady'
            BY <1>1, <1>3, <2>2 DEF Refresh, InFlight
        <3> QED
            BY <1>1, <1>2, <1>3, <3>1, SameQueueTickets DEF CareMove, Rebuildable, HasJob, Replaced
    <2> QED BY <2>1, <2>2
<1> QED BY <1>1, <1>5, <1>6, RequestCare

LEMMA RequestStepCares ==
    ASSUME TypeInv, ProcessingIsExclusive, CareInv, NEW r \in Requests, RequestStep(r)
    PROVE  Main'
BY LookUpCares, InsertNewCares, StageAgainCares, StageKnownCares, MarkReceivedCares,
   ProcessManyCares, ReplaceCares, SwapVersionCares, ReplaceDoneCares DEF RequestStep

\* The user's calls: a request that was idle sets out, or hands over one call.
LEMMA CallCares ==
    ASSUME TypeInv, CareInv, NEW r \in Requests,
           \/ \E files \in Selections : IngestMany(r, files)
           \/ \E d \in Docs, h \in Contents : ReplaceCall(r, d, h)
    PROVE  Main'
<1>1. /\ Main /\ request[r].pc = "idle" /\ request[r].jobs = <<>>
      /\ UNCHANGED <<rows, chunks, body, inbox, flags, phase, queue, shownReady>>
    BY DEF CareInv, Main, IngestMany, ReplaceCall, OneFile, Available, store
<1>2. /\ \A p \in Requests \ {r} : request'[p] = request[p]
      /\ request'[r].pc \in {"stage", "replace"}
    <2>1. ASSUME NEW files, request' = [request EXCEPT ![r] =
                     [NoRequest EXCEPT !.pc = "stage", !.left = files]]
          PROVE  (\A p \in Requests \ {r} : request'[p] = request[p]) /\ request'[r].pc = "stage"
        <3> DEFINE q == [NoRequest EXCEPT !.pc = "stage", !.left = files]
        <3>1. q.pc = "stage"
            BY DEF NoRequest
        <3> HIDE DEF q
        <3>2. request' = [request EXCEPT ![r] = q]
            BY <2>1 DEF q
        <3> QED BY <3>1, <3>2, RequestEffect
    <2>2. ASSUME NEW d, NEW h, request' = [request EXCEPT ![r] =
                     [NoRequest EXCEPT !.pc = "replace", !.doc = d, !.hash = h]]
          PROVE  (\A p \in Requests \ {r} : request'[p] = request[p]) /\ request'[r].pc = "replace"
        <3> DEFINE q == [NoRequest EXCEPT !.pc = "replace", !.doc = d, !.hash = h]
        <3>1. q.pc = "replace"
            BY DEF NoRequest
        <3> HIDE DEF q
        <3>2. request' = [request EXCEPT ![r] = q]
            BY <2>2 DEF q
        <3> QED BY <3>1, <3>2, RequestEffect
    <2> QED BY <2>1, <2>2 DEF IngestMany, ReplaceCall
<1>3. Resume(r) /\ Moves(r)
    BY <1>1, IdleRequest
<1>4. RequestMove(r)
    BY <1>1, <1>2, <1>3 DEF RequestMove
<1> QED
    BY <1>1, <1>2, <1>3, <1>4, QuietRequest

LEMMA ReindexCallCares ==
    ASSUME TypeInv, CareInv, NEW r \in Requests, NEW d \in Docs, ReindexCall(r, d)
    PROVE  Main'
<1>1. /\ Main /\ request[r].pc = "idle" /\ queue[r] = <<>> /\ d \in shownReady
      /\ UNCHANGED <<rows, chunks, body, inbox, flags, phase, request, shownReady>>
    BY DEF CareInv, Main, ReindexCall, Available, Drained, store
<1>2. Resume(r) /\ Moves(r)
    BY <1>1, IdleRequest
<1>3. RequestMove(r) /\ OrderlyRequest(r)
    BY <1>1, <1>2 DEF RequestMove, OrderlyRequest
<1> DEFINE call == [op |-> "reindex", doc |-> d, hash |-> rows[d].hash]
           q == <<call>>
<1>4. call.doc = d
    OBVIOUS
<1>5. queue' = [queue EXCEPT ![r] = q]
    BY DEF ReindexCall
<1> HIDE DEF call
<1>6. DOMAIN q = {1} /\ q[1].doc = d
    BY <1>4
<1> HIDE DEF q
<1>7. ASSUME NEW e \in Docs PROVE CareMove(r, e)
    <2>1. \A ops : Ticket(e, ops) => Ticket(e, ops)'
        BY <1>1, <1>5, NewQueue
    <2>2. Ticket(e, {"reindex"})' => Ticket(e, {"reindex"}) \/ e = d
        <3>1. Ticket(e, {"reindex"})' =>
                 \/ Ticket(e, {"reindex"})
                 \/ \E i \in DOMAIN q : q[i].doc = e /\ q[i].op \in {"reindex"}
            BY <1>1, <1>5, NewQueue
        <3> QED BY <1>6, <3>1
    <2> QED
        BY <1>1, <2>1, <2>2 DEF CareMove, Rebuildable, HasJob, Replaced
<1> QED BY <1>1, <1>3, <1>7, RequestCare
-----------------------------------------------------------------------------
(***************************************************************************)
(* An answer that is awaited before slower work: one task less waits.      *)
(***************************************************************************)
LEMMA DeliverCares ==
    ASSUME TypeInv, CareInv, Deliver
    PROVE  Main'
<1>1. /\ Main /\ inbox # <<>> /\ inbox' = Tail(inbox)
      /\ UNCHANGED <<rows, chunks, body, flags, callers, shownReady>>
    BY DEF CareInv, Main, Deliver, store
<1>2. ASSUME NEW s \in Slots, s = Head(inbox), body[s].pc \in SlowPCs PROVE Main'
    <2>1. Moves(s) /\ Resume(s)
        BY <1>1, <1>2 DEF Moves, Answered, Resume, Rest, First
    <2>2. PICK d \in Docs : d = Doc(s)
        BY <1>2, EngagedTypes DEF SlowPCs
    <2>3. BodyMove(s, d)
        BY <1>1, <2>1, <2>2 DEF BodyMove, Others, callers, Doc
    <2>4. OrderlyMove(s, d)
        BY <1>1, <1>2, <2>1, <2>2
        DEF OrderlyMove, StatusMove, SlowPCs, Later, ProcessPCs, Parsing, Main, OrderInv,
            PastReceived, flags, Holding
    <2>5. BesideMove(d)
        BY <1>1, SameQueueTickets DEF BesideMove, SameTickets, callers
    <2>6. \A t \in Slots \ {s} : Waits(t)' <=> Waits(t)
        BY <2>1, InboxAfter, CallerTypes DEF TypeInv, Main, OrderInv, Asked, CareInv
    <2>7. \A t \in Slots : KeepsIndex(t)' => KeepsIndex(t)
        BY <1>1, <1>2, <2>6 DEF KeepsIndex, SlowPCs
    <2>8. Kept(d)'
        BY <1>1, <2>7
        DEF Main, IndexKept, Kept, MayBeKept, Rebuildable, WillBeWritten, WillBeReady, WillBeRead,
            WorksOn, Ticket, Replaced, Doc, callers
    <2>9. InHand(d)'
        BY <1>1 DEF Main, AllCared, InHand, Cared, WorksOn, Ticket, HasJob, Replaced, Doc, callers
    <2> QED BY <1>1, <2>3, <2>4, <2>5, <2>8, <2>9, GoesOn
<1>3. ASSUME NEW r \in Requests, r = Head(inbox), request[r].pc = "stage" PROVE Main'
    <2>1. Moves(r) /\ Resume(r)
        BY <1>1, <1>3 DEF Moves, Answered, Resume, Rest, First
    <2>2. RequestMove(r)
        BY <1>1, <2>1 DEF RequestMove, callers
    <2> QED BY <1>1, <1>3, <2>1, <2>2, QuietRequest DEF callers
<1> QED BY <1>2, <1>3 DEF Deliver
-----------------------------------------------------------------------------
(***************************************************************************)
(* Steps in which no task moves: the start-up repairs, and a deletion.     *)
(***************************************************************************)
StillMove ==
    /\ UNCHANGED <<body, inbox, flags, request>>
    /\ \A d \in Docs : /\ chunks'[d] \in {chunks[d], <<>>}
                       /\ rows'[d].status = rows[d].status \/ rows'[d].status \notin InFlight

LEMMA StillOrder ==
    ASSUME TypeInv, OrderInv, StillMove
    PROVE  OrderInv'
<1>1. /\ UNCHANGED <<body, inbox, flags, request>>
      /\ \A d \in Docs : /\ chunks'[d] \in {chunks[d], <<>>}
                         /\ rows'[d].status = rows[d].status \/ rows'[d].status \notin InFlight
    BY DEF StillMove
<1>2. Asked'
    BY <1>1 DEF OrderInv, Asked, Once, Waits
<1>3. Registered'
    BY <1>1 DEF OrderInv, Registered, Doc, flags
<1>4. StagedFirst'
    <2>1. \A r \in Requests : request[r].pc = "restage" => request[r].doc \in Docs
        BY RequestIsOK DEF RequestOK
    <2> QED
        BY <1>1, <2>1 DEF OrderInv, StagedFirst, Processors, Doc, Before, Replaced
<1>5. PastReceived'
    <2>1. \A s \in Slots : body[s].pc \in Parsing => Doc(s) \in Docs
        BY EngagedTypes DEF Parsing
    <2> QED
        BY <1>1, <2>1 DEF OrderInv, PastReceived, Doc, InFlight
<1>6. LaterWork'
    <2>1. \A s \in Slots : Settled(s) => Doc(s) \in Docs
        BY EngagedTypes DEF Settled
    <2>2. \A s \in Slots : Settled(s)' <=> Settled(s)
        BY <1>1 DEF Settled, Waits
    <2> SUFFICES ASSUME NEW s \in Slots, Settled(s), rows'[Doc(s)].status \in InFlight
                 PROVE  IF rows'[Doc(s)].status = "received"
                        THEN \E r \in Requests : request[r].pc = "stage" /\ HasJob(r, Doc(s)) /\ Before(s, r)
                        ELSE \E w \in Slots : Doc(w) = Doc(s) /\ body[w].pc \in Advancing /\ Before(s, w)
        BY <1>1, <2>2 DEF LaterWork, Doc, HasJob, Before
    <2>3. rows'[Doc(s)].status = rows[Doc(s)].status
        BY <1>1, <2>1
    <2> QED
        BY <2>3 DEF OrderInv, LaterWork
<1> QED
    BY <1>2, <1>3, <1>4, <1>5, <1>6 DEF OrderInv

LEMMA StillCare ==
    ASSUME TypeInv, Main, StillMove, UNCHANGED shownReady \/ Refresh,
           \A d \in Docs : rows'[d].status \in InFlight =>
               /\ Ticket(d, {"reindex"})' => Ticket(d, {"reindex"})
               /\ Ticket(d, {"ocr"}) => Ticket(d, {"ocr"})'
               /\ Ticket(d, {"process", "ocr", "resume"}) \/ phase = "init" =>
                     Ticket(d, {"process", "ocr", "resume"})' \/ phase' = "init"
    PROVE  Main'
<1>1. /\ UNCHANGED <<body, inbox, request>>
      /\ \A d \in Docs : /\ chunks'[d] \in {chunks[d], <<>>}
                         /\ rows'[d].status = rows[d].status \/ rows'[d].status \notin InFlight
    BY DEF StillMove
<1>2. ASSUME NEW d \in Docs PROVE Kept(d)' /\ InHand(d)'
    <2>1. CASE rows'[d].status \notin InFlight
        BY <2>1 DEF Kept, InHand
    <2>2. CASE rows'[d].status \in InFlight
        <3>1. /\ rows'[d].status = rows[d].status /\ chunks'[d] \in {chunks[d], <<>>}
              /\ d \in shownReady' => d \in shownReady
              /\ Ticket(d, {"reindex"})' => Ticket(d, {"reindex"})
              /\ Ticket(d, {"ocr"}) => Ticket(d, {"ocr"})'
              /\ Ticket(d, {"process", "ocr", "resume"}) \/ phase = "init" =>
                     Ticket(d, {"process", "ocr", "resume"})' \/ phase' = "init"
            BY <1>1, <2>2 DEF Refresh, InFlight
        <3>2. MayBeKept(d)' => MayBeKept(d)
            BY <1>1, <3>1 DEF MayBeKept, KeepsIndex, Rebuildable, WorksOn, Doc, Waits
        <3>3. WillBeWritten(d) => WillBeWritten(d)'
            BY <1>1, <3>1 DEF WillBeWritten, WillBeReady, WillBeRead, WorksOn, Replaced, Doc
        <3>4. Cared(d) \/ phase = "init" => Cared(d)' \/ phase' = "init"
            BY <1>1, <3>1 DEF Cared, WorksOn, HasJob, Replaced, Doc
        <3> QED
            BY <3>1, <3>2, <3>3, <3>4 DEF Main, IndexKept, Kept, AllCared, InHand
    <2> QED BY <2>1, <2>2
<1> QED
    BY <1>2, StillOrder DEF Main, IndexKept, AllCared

\* An ordering of a finite set leaves nothing out.
LEMMA OrderingsCover ==
    ASSUME NEW S, IsFiniteSet(S), NEW q \in Orderings(S), NEW x \in S
    PROVE  \E i \in DOMAIN q : q[i] = x
<1> DEFINE n == Cardinality(S)
           D == 1..n
<1>1. n \in Nat
    BY FS_CardinalityType
<1>2. IsFiniteSet(D) /\ Cardinality(D) = n
    BY <1>1, FS_Interval
<1>3. q \in [D -> S] /\ \A i, j \in D : q[i] = q[j] => i = j
    BY DEF Orderings
<1> HIDE DEF D
<1>4. q \in Injection(D, S)
    BY <1>3 DEF Injection, IsInjective
<1>5. q \in Surjection(D, S)
    BY <1>2, <1>4, FS_Injection
<1> QED
    BY <1>3, <1>5 DEF Surjection

\* The list of a start-up repair: calls of one kind, for all of S.
LEMMA BootList ==
    ASSUME TypeInv, NEW next, NEW op, NEW S \in SUBSET Docs, BootPhase(next, op, S)
    PROVE  /\ \A c \in Callers \ {"boot"} : queue'[c] = queue[c]
           /\ \A i \in DOMAIN queue'["boot"] :
                 queue'["boot"][i].op = op /\ queue'["boot"][i].doc \in S
           /\ \A d \in S : \E i \in DOMAIN queue'["boot"] : queue'["boot"][i].doc = d
<1>1. PICK list \in CallsFor(op, S) : queue' = [queue EXCEPT !["boot"] = list]
    BY DEF BootPhase
<1>2. PICK q \in Orderings(S) :
          list = [i \in DOMAIN q |-> [op |-> op, doc |-> q[i], hash |-> rows[q[i]].hash]]
    BY <1>1 DEF CallsFor
<1>3. IsFiniteSet(S)
    BY FS_Subset, LibraryAssumption
<1>4. /\ \A i \in DOMAIN q : q[i] \in S
      /\ \A d \in S : \E i \in DOMAIN q : q[i] = d
    BY <1>3, OrderingsCover DEF Orderings
<1>5. /\ \A i \in DOMAIN list : list[i].op = op /\ list[i].doc \in S
      /\ \A d \in S : \E i \in DOMAIN list : list[i].doc = d
    BY <1>2, <1>4
<1>6. queue'["boot"] = list /\ \A c \in Callers \ {"boot"} : queue'[c] = queue[c]
    BY <1>1, CallerTypes DEF TypeInv, QueuesOK
<1> QED BY <1>5, <1>6

LEMMA BootTickets ==
    ASSUME TypeInv, NEW next, NEW op, NEW S \in SUBSET Docs, BootPhase(next, op, S),
           \A i \in DOMAIN queue["boot"] : FALSE, NEW d, NEW ops
    PROVE  /\ Ticket(d, ops) => Ticket(d, ops)'
           /\ Ticket(d, ops)' => Ticket(d, ops) \/ (op \in ops /\ d \in S)
           /\ op \in ops /\ d \in S => Ticket(d, ops)'
BY BootList, CallerTypes DEF Ticket

LEMMA BootListEmpty ==
    ASSUME TypeInv, BootLists, phase = "init" \/ Drained("boot")
    PROVE  \A i \in DOMAIN queue["boot"] : FALSE
<1>1. CASE phase = "init"
    <2> SUFFICES ASSUME NEW i \in DOMAIN queue["boot"] PROVE FALSE
        OBVIOUS
    <2>1. queue["boot"][i] \in Call
        BY CallerTypes DEF TypeInv, QueuesOK
    <2> QED
        BY <1>1, <2>1 DEF BootLists, OpOf, Call, Ops
<1>2. CASE Drained("boot")
    BY <1>2, EmptySeq DEF Drained
<1> QED BY <1>1, <1>2

LEMMA BootCares ==
    ASSUME TypeInv, CareInv, BootStep
    PROVE  Main'
<1>1. Main /\ BootLists
    BY DEF CareInv, Main
<1>2. CASE BootResume
    <2> DEFINE S == {d \in Docs : rows[d].status \in InFlight}
    <2>1. /\ phase = "init" /\ BootPhase("resuming", "resume", S) /\ Refresh
          /\ UNCHANGED <<rows, chunks>>
        BY <1>2 DEF BootResume, BootPhase, store
    <2>2. StillMove
        BY <2>1 DEF StillMove, BootPhase
    <2>3. \A i \in DOMAIN queue["boot"] : FALSE
        BY <1>1, <2>1, BootListEmpty
    <2>4. ASSUME NEW d \in Docs, rows'[d].status \in InFlight
          PROVE  /\ Ticket(d, {"reindex"})' => Ticket(d, {"reindex"})
                 /\ Ticket(d, {"ocr"}) => Ticket(d, {"ocr"})'
                 /\ Ticket(d, {"process", "ocr", "resume"})'
        <3>1. d \in S
            BY <2>1, <2>4
        <3> HIDE DEF S
        <3>2. S \in SUBSET Docs
            BY DEF S
        <3>3. /\ Ticket(d, {"reindex"})' => Ticket(d, {"reindex"}) \/ "resume" \in {"reindex"}
              /\ Ticket(d, {"ocr"}) => Ticket(d, {"ocr"})'
            BY <2>1, <2>3, <3>2, BootTickets
        <3>4. "resume" \in {"process", "ocr", "resume"} => Ticket(d, {"process", "ocr", "resume"})'
            BY <2>1, <2>3, <3>1, <3>2, BootTickets
        <3> QED BY <3>3, <3>4
    <2> QED BY <1>1, <2>1, <2>2, <2>4, StillCare
<1>3. ASSUME NEW next, next # "init", phase # "init", Drained("boot"), UNCHANGED shownReady,
             NEW op \in {"recheck", "reindex"},
             NEW S \in SUBSET {d \in Docs : rows[d].status = "ready"}, BootPhase(next, op, S)
      PROVE  Main'
    <2>1. StillMove /\ UNCHANGED rows
        BY <1>3 DEF StillMove, BootPhase, store
    <2>2. \A i \in DOMAIN queue["boot"] : FALSE
        BY <1>1, <1>3, BootListEmpty
    <2>3. ASSUME NEW d \in Docs, rows'[d].status \in InFlight
          PROVE  /\ Ticket(d, {"reindex"})' => Ticket(d, {"reindex"})
                 /\ Ticket(d, {"ocr"}) => Ticket(d, {"ocr"})'
                 /\ Ticket(d, {"process", "ocr", "resume"}) => Ticket(d, {"process", "ocr", "resume"})'
        <3>1. d \notin S /\ S \in SUBSET Docs
            BY <1>3, <2>1, <2>3 DEF InFlight
        <3>2. Ticket(d, {"reindex"})' => Ticket(d, {"reindex"}) \/ (op \in {"reindex"} /\ d \in S)
            BY <1>3, <2>2, <3>1, BootTickets
        <3>3. /\ Ticket(d, {"ocr"}) => Ticket(d, {"ocr"})'
              /\ Ticket(d, {"process", "ocr", "resume"}) => Ticket(d, {"process", "ocr", "resume"})'
            BY <1>3, <2>2, <3>1, BootTickets
        <3> QED BY <3>1, <3>2, <3>3
    <2> QED BY <1>1, <1>3, <2>1, <2>3, StillCare
<1>4. CASE BootRecheck
    <2> DEFINE S == {d \in Docs : ~ocrIndexed /\ rows[d].status = "ready"}
    <2>1. S \in SUBSET {d \in Docs : rows[d].status = "ready"}
        OBVIOUS
    <2>2. BootPhase("rechecking", "recheck", S)
        BY <1>4 DEF BootRecheck
    <2> HIDE DEF S
    <2> QED BY <1>3, <1>4, <2>1, <2>2 DEF BootRecheck
<1>5. CASE BootRebuild
    <2> DEFINE S == {d \in Docs : /\ rows[d].status = "ready"
                                  /\ d \notin processing /\ ocrAborts[d] = None
                                  /\ ~rows[d].current \/ chunks[d] = <<>>}
    <2>1. S \in SUBSET {d \in Docs : rows[d].status = "ready"}
        OBVIOUS
    <2>2. BootPhase("rebuilding", "reindex", S)
        BY <1>5 DEF BootRebuild
    <2> HIDE DEF S
    <2> QED BY <1>3, <1>5, <2>1, <2>2 DEF BootRebuild
<1>6. CASE BootDone
    <2>1. StillMove
        BY <1>6 DEF StillMove, BootDone, store
    <2> QED BY <1>1, <1>6, <2>1, SameQueueTickets, StillCare DEF BootDone
<1> QED BY <1>2, <1>4, <1>5, <1>6 DEF BootStep

LEMMA RemoveCares ==
    ASSUME TypeInv, CareInv, NEW d \in Docs, Remove(d)
    PROVE  Main'
<1>1. StillMove
    BY DEF StillMove, Remove, DeleteDocument, TypeInv, TablesOK, Row, InFlight, callers
<1> QED
    BY <1>1, SameQueueTickets, StillCare DEF Remove, callers, CareInv, Main

LEMMA StutterCares ==
    ASSUME TypeInv, CareInv, UNCHANGED vars
    PROVE  Main'
<1>1. StillMove
    BY DEF StillMove, vars, store, callers, flags
<1> QED
    BY <1>1, SameQueueTickets, StillCare DEF vars, callers, CareInv, Main
-----------------------------------------------------------------------------
\* A page that has just opened: nobody is at work, and nothing is listed yet.
Fresh ==
    /\ FreshPage(body, queue, request, ocrAborts)
    /\ inbox = <<>> /\ shownReady = {} /\ phase = "init"

LEMMA FreshCares == Fresh => CareInv
<1> SUFFICES ASSUME Fresh PROVE CareInv
    OBVIOUS
<1>1. /\ \A s \in Slots : body[s].pc = "idle"
      /\ \A c \in Callers : queue[c] = <<>>
      /\ \A r \in Requests : /\ request[r].pc = "idle" /\ request[r].doc = None
                             /\ request[r].left = <<>> /\ request[r].jobs = <<>>
      /\ \A d \in Docs : ocrAborts[d] = None
      /\ "boot" \in Callers
    BY CallerTypes DEF Fresh, FreshPage, Idle, NoRequest
<1>2. DOMAIN inbox = {} /\ \A t : ~Waits(t)
    BY EmptySeq DEF Fresh, Waits
<1>3. OrderInv
    BY <1>1, <1>2 DEF OrderInv, Asked, Once, Distinct, Registered, StagedFirst, PastReceived,
                      Parsing, LaterWork, Settled
<1>4. Born /\ OneFile /\ BootLists
    BY <1>1, EmptySeq DEF Fresh, Born, OneFile, BootLists
<1>5. IndexKept
    BY <1>1, EmptySeq DEF Fresh, IndexKept, Kept, MayBeKept, Rebuildable, Ticket, WorksOn, KeepsIndex
<1>6. AllCared
    BY DEF Fresh, AllCared, InHand
<1> QED
    BY <1>3, <1>4, <1>5, <1>6 DEF CareInv

LEMMA InitCares == Init => CareInv
BY FreshCares DEF Init, Fresh

LEMMA ReloadCares == Reload => CareInv'
<1>1. Reload => Fresh'
    BY DEF Reload, Fresh
<1> QED
    BY <1>1, FreshCares, PTL
-----------------------------------------------------------------------------
(***************************************************************************)
(* What a request names and holds, and what the callers have queued.       *)
(***************************************************************************)
RowsStay == \A d \in Docs : rows[d].status # "unborn" => rows'[d].status # "unborn"
Lists    == Born /\ OneFile /\ BootLists

Books(r) ==
    /\ UNCHANGED <<body, phase>> /\ (UNCHANGED shownReady \/ Refresh)
    /\ \A q \in Requests \ {r} : request'[q] = request[q]
    /\ \A c \in Callers \ {r} : queue'[c] = queue[c]
    /\ request'[r].doc = None \/ rows'[request'[r].doc].status # "unborn"
    /\ \A i \in DOMAIN request'[r].jobs : /\ request'[r].jobs[i].op = "process"
                                          /\ rows'[request'[r].jobs[i].doc].status # "unborn"
    /\ \A i \in DOMAIN queue'[r] : rows'[queue'[r][i].doc].status # "unborn"
    /\ Len(request'[r].left) <= 1
    /\ request'[r].jobs # <<>> => request'[r].left = <<>> /\ request'[r].pc = "stage"
    /\ request'[r].pc # "idle" => queue'[r] = <<>>

\* Whoever is named has a row, and keeps it.
LEMMA NamedStay ==
    ASSUME TypeInv, Born, RowsStay
    PROVE  /\ \A s \in Slots : body[s].pc # "idle" => rows'[Doc(s)].status # "unborn"
           /\ \A c \in Callers : \A i \in DOMAIN queue[c] : rows'[queue[c][i].doc].status # "unborn"
           /\ \A r \in Requests :
                 /\ request[r].doc # None => rows'[request[r].doc].status # "unborn"
                 /\ \A i \in DOMAIN request[r].jobs : rows'[request[r].jobs[i].doc].status # "unborn"
           /\ \A d \in shownReady : rows'[d].status # "unborn"
<1>1. \A s \in Slots : body[s].pc # "idle" => Doc(s) \in Docs
    BY EngagedTypes
<1>2. ASSUME NEW c \in Callers, NEW i \in DOMAIN queue[c] PROVE queue[c][i].doc \in Docs
    <2>1. queue[c][i] \in Call
        BY DEF TypeInv, QueuesOK
    <2> QED BY <2>1 DEF Call
<1>3. \A r \in Requests : request[r].doc # None => request[r].doc \in Docs
    BY DEF TypeInv, RequestsOK, Request
<1>4. ASSUME NEW r \in Requests, NEW i \in DOMAIN request[r].jobs
      PROVE  request[r].jobs[i].doc \in Docs
    <2>1. request[r].jobs[i] \in Call
        BY DEF TypeInv, RequestsOK, Request
    <2> QED BY <2>1 DEF Call
<1> QED
    BY <1>1, <1>2, <1>3, <1>4 DEF Born, RowsStay, TypeInv, ShownOK

LEMMA BooksKept ==
    ASSUME TypeInv, Lists, RowsStay, NEW r \in Requests, Books(r)
    PROVE  Lists'
<1>1. Born'
    BY NamedStay DEF Lists, Books, Born, Doc, Refresh
<1>2. OneFile'
    BY CallerTypes DEF Lists, Books, OneFile
<1>3. BootLists'
    BY CallerTypes, LibraryAssumption DEF Lists, Books, BootLists
<1> QED BY <1>1, <1>2, <1>3 DEF Lists

\* A request at work has handed over all its calls before, and holds one file at most.
LEMMA AtWork ==
    ASSUME TypeInv, Lists, RowsStay, NEW r \in Requests
    PROVE  /\ Len(request[r].left) <= 1
           /\ request[r].left # <<>> => Tail(request[r].left) = <<>>
           /\ request[r].pc \in {"found", "restage"} => request[r].left # <<>>
           /\ request[r].pc # "stage" \/ request[r].left # <<>> => request[r].jobs = <<>>
           /\ request[r].pc # "idle" => queue[r] = <<>>
           /\ \A i \in DOMAIN queue[r] : rows'[queue[r][i].doc].status # "unborn"
           /\ \A i \in DOMAIN request[r].jobs :
                 /\ request[r].jobs[i].op = "process"
                 /\ rows'[request[r].jobs[i].doc].status # "unborn"
           /\ request[r].doc = None \/ rows'[request[r].doc].status # "unborn"
<1> DEFINE q == request[r].left
<1>1. q \in Seq(Contents \cup Unreadable) /\ Len(q) <= 1
    BY DEF TypeInv, RequestsOK, Request, Lists, OneFile
<1>2. q # <<>> => Tail(q) = <<>>
    <2> HIDE DEF q
    <2> SUFFICES ASSUME q # <<>> PROVE Tail(q) = <<>>
        OBVIOUS
    <2>1. Len(q) \in Nat \ {0}
        BY <1>1, LenProperties, EmptySeq
    <2>2. Len(Tail(q)) = Len(q) - 1 /\ Tail(q) \in Seq(Contents \cup Unreadable)
        BY <1>1, HeadTailProperties
    <2>3. Len(Tail(q)) = 0
        BY <1>1, <2>1, <2>2
    <2> QED BY <2>2, <2>3, EmptySeq
<1>3. request[r].pc \in {"found", "restage"} => q # <<>>
    BY RequestIsOK DEF RequestOK, Readable
<1> QED
    BY <1>1, <1>2, <1>3, NamedStay, CallerTypes DEF Lists, OneFile

LEMMA DoneBooks ==
    ASSUME TypeInv, Lists, RowsStay, NEW r \in Requests, Done(r),
           UNCHANGED <<body, phase>>, UNCHANGED shownReady \/ Refresh,
           \/ UNCHANGED queue
           \/ queue' = [queue EXCEPT ![r] = request[r].jobs]
    PROVE  Books(r)
<1>1. /\ \A c \in Callers \ {r} : queue'[c] = queue[c]
      /\ \A i \in DOMAIN queue'[r] : rows'[queue'[r][i].doc].status # "unborn"
    BY AtWork, CallerTypes DEF TypeInv, QueuesOK
<1>2. DOMAIN <<>> = {} /\ Len(<<>>) = 0
    OBVIOUS
<1> QED BY <1>1, <1>2, DoneEffect DEF Books

LEMMA NextFileBooks ==
    ASSUME TypeInv, Lists, RowsStay, NEW r \in Requests, request[r].pc \in {"found", "restage"},
           UNCHANGED <<body, phase, queue, shownReady>>, NEW d,
           \/ NextFile(r, request[r].jobs)
           \/ NextFile(r, Append(request[r].jobs, Job(r, d))) /\ rows'[d].status # "unborn"
    PROVE  Books(r)
<1>1. /\ request[r].jobs = <<>> /\ Tail(request[r].left) = <<>> /\ queue[r] = <<>>
    BY AtWork
<1> DEFINE job == Job(r, d)
<1>2. job.doc = d /\ job.op = "process"
    BY DEF Job
<1> HIDE DEF job
<1>3. /\ \A p \in Requests \ {r} : request'[p] = request[p]
      /\ request'[r].pc = "stage" /\ request'[r].left = <<>> /\ request'[r].doc = None
      /\ request'[r].jobs = <<>> \/ (request'[r].jobs = <<job>> /\ rows'[d].status # "unborn")
    <2>1. CASE NextFile(r, request[r].jobs)
        BY <1>1, <2>1, NextFileEffect
    <2>2. CASE NextFile(r, Append(request[r].jobs, Job(r, d))) /\ rows'[d].status # "unborn"
        <3>1. NextFile(r, <<job>>)
            BY <1>1, <2>2 DEF job
        <3> QED BY <1>1, <2>2, <3>1, NextFileEffect
    <2> QED BY <2>1, <2>2
<1>4. DOMAIN <<>> = {} /\ Len(<<>>) = 0
    OBVIOUS
<1>5. \A i \in DOMAIN request'[r].jobs : /\ request'[r].jobs[i].op = "process"
                                         /\ rows'[request'[r].jobs[i].doc].status # "unborn"
    BY <1>2, <1>3, <1>4
<1> QED BY <1>1, <1>3, <1>4, <1>5 DEF Books

LEMMA NewPcBooks ==
    ASSUME TypeInv, Lists, RowsStay, NEW r \in Requests,
           request[r].pc # "idle", request[r].jobs = <<>>,
           UNCHANGED <<body, phase, queue>>, UNCHANGED shownReady \/ Refresh,
           \A p \in Requests \ {r} : request'[p] = request[p],
           request'[r].pc # "idle", request'[r].jobs = request[r].jobs,
           request'[r].left = request[r].left,
           request'[r].doc \in {None, request[r].doc} \/ rows'[request'[r].doc].status # "unborn"
    PROVE  Books(r)
<1>1. DOMAIN <<>> = {}
    OBVIOUS
<1> QED BY <1>1, AtWork DEF Books

LEMMA RequestBooks ==
    ASSUME TypeInv, Lists, RowsStay, NEW r \in Requests, RequestStep(r)
    PROVE  Books(r)
<1> USE DEF AtR
<1>1. CASE LookUpHash(r)
    <2>1. /\ request[r].pc = "stage" /\ request[r].jobs = <<>>
          /\ UNCHANGED <<rows, body, phase, queue, shownReady>>
        BY <1>1, AtWork DEF LookUpHash, store
    <2>2. CASE Done(r)
        BY <2>1, <2>2, DoneBooks
    <2>3. ASSUME NEW d \in Docs, NEW h, HasHash(d, h),
                 request' = [request EXCEPT ![r].pc = "found", ![r].doc = d,
                                            ![r].seen = rows[d].status]
          PROVE  Books(r)
        <3>1. rows'[d].status # "unborn"
            BY <2>1, <2>3 DEF HasHash, Exists, NoRow
        <3>2. /\ \A p \in Requests \ {r} : request'[p] = request[p]
              /\ request'[r].pc = "found" /\ request'[r].jobs = request[r].jobs
              /\ request'[r].left = request[r].left /\ request'[r].doc = d
            BY <2>3, FoundEffect
        <3> QED BY <2>1, <3>1, <3>2, NewPcBooks
    <2>4. CASE request' = [request EXCEPT ![r].pc = "found"]
        BY <2>1, <2>4, NewPcEffect, NewPcBooks
    <2> QED BY <1>1, <2>2, <2>3, <2>4 DEF LookUpHash
<1>2. CASE InsertNew(r)
    <2>1. request[r].pc = "found" /\ UNCHANGED <<body, phase, queue, shownReady>>
        BY <1>2 DEF InsertNew
    <2>2. ASSUME NEW d \in Docs, InsertDocument(d, Head(request[r].left)),
                 NextFile(r, Append(request[r].jobs, Job(r, d)))
          PROVE  Books(r)
        <3>1. rows'[d].status # "unborn"
            BY <2>2 DEF InsertDocument, TypeInv, TablesOK
        <3> QED BY <2>1, <2>2, <3>1, NextFileBooks
    <2>3. CASE Done(r)
        BY <2>1, <2>3, DoneBooks
    <2> QED BY <1>2, <2>2, <2>3 DEF InsertNew
<1>3. CASE StageAgain(r) \/ StoreReplacement(r) \/ SwapVersion(r)
    <2>1. /\ request[r].pc \in {"found", "replace", "replaceStored"}
          /\ UNCHANGED <<body, phase, queue, shownReady>>
        BY <1>3 DEF StageAgain, StoreReplacement, SwapVersion
    <2>2. PICK pc \in {"restage", "replaceStored", "replaced"} :
              request' = [request EXCEPT ![r].pc = pc]
        BY <1>3 DEF StageAgain, StoreReplacement, SwapVersion
    <2>3. request[r].jobs = <<>>
        BY <2>1, AtWork
    <2> QED BY <2>1, <2>2, <2>3, NewPcEffect, NewPcBooks
<1>4. CASE StageKnown(r)
    BY <1>4, NextFileBooks DEF StageKnown
<1>5. CASE MarkReceived(r)
    <2>1. PICK d \in Docs : d = request[r].doc
        BY <1>5, RequestIsOK DEF RequestOK, MarkReceived
    <2>2. rows'[d].status # "unborn"
        BY <2>1, AtWork, LibraryAssumption
    <2> QED
        BY <1>5, <2>1, <2>2, NextFileBooks DEF MarkReceived
<1>6. CASE ProcessMany(r) \/ ReplaceDone(r) \/ ReplaceFails(r)
    BY <1>6, DoneBooks DEF ProcessMany, ReplaceDone, ReplaceFails
<1> QED
    BY <1>1, <1>2, <1>3, <1>4, <1>5, <1>6 DEF RequestStep

LEMMA CallBooks ==
    ASSUME TypeInv, Lists, RowsStay, \A files \in Selections : Len(files) <= 1, NEW r \in Requests,
           \/ \E files \in Selections : IngestMany(r, files)
           \/ \E d \in Docs : ReindexCall(r, d) \/ \E h \in Contents : ReplaceCall(r, d, h)
    PROVE  Books(r)
<1>0. /\ DOMAIN <<>> = {} /\ Len(<<>>) = 0
      /\ r \in Callers /\ queue \in [Callers -> Seq(Call)]
    BY CallerTypes DEF TypeInv, QueuesOK
<1>1. ASSUME NEW files \in Selections, IngestMany(r, files) PROVE Books(r)
    <2> DEFINE q == [NoRequest EXCEPT !.pc = "stage", !.left = files]
    <2>1. q.pc = "stage" /\ q.left = files /\ q.jobs = <<>> /\ q.doc = None
        BY DEF NoRequest
    <2> HIDE DEF q
    <2>2. request' = [request EXCEPT ![r] = q]
        BY <1>1 DEF IngestMany, q
    <2>3. /\ queue[r] = <<>> /\ UNCHANGED <<body, phase, queue, shownReady>>
        BY <1>1 DEF IngestMany, Available, Drained
    <2> QED BY <1>0, <2>1, <2>2, <2>3, RequestEffect DEF Books
<1>2. ASSUME NEW d \in Docs, ReindexCall(r, d) PROVE Books(r)
    <2> DEFINE call == [op |-> "reindex", doc |-> d, hash |-> rows[d].hash]
    <2>1. call.doc = d
        OBVIOUS
    <2>2. queue' = [queue EXCEPT ![r] = <<call>>]
        BY <1>2 DEF ReindexCall
    <2> HIDE DEF call
    <2>3. /\ queue'[r] = <<call>> /\ \A c \in Callers \ {r} : queue'[c] = queue[c]
        BY <1>0, <2>2
    <2>4. /\ request[r].pc = "idle" /\ d \in shownReady
          /\ UNCHANGED <<body, phase, request, shownReady>>
        BY <1>2 DEF ReindexCall, Available
    <2>5. rows'[d].status # "unborn"
        BY <2>4, NamedStay DEF Lists
    <2>6. \A i \in DOMAIN queue'[r] : rows'[queue'[r][i].doc].status # "unborn"
        BY <2>1, <2>3, <2>5
    <2> QED BY <2>3, <2>4, <2>6, AtWork DEF Books
<1>3. ASSUME NEW d \in Docs, NEW h \in Contents, ReplaceCall(r, d, h) PROVE Books(r)
    <2> DEFINE q == [NoRequest EXCEPT !.pc = "replace", !.doc = d, !.hash = h]
    <2>1. q.pc = "replace" /\ q.left = <<>> /\ q.jobs = <<>> /\ q.doc = d
        BY DEF NoRequest
    <2> HIDE DEF q
    <2>2. request' = [request EXCEPT ![r] = q]
        BY <1>3 DEF ReplaceCall, q
    <2>3. /\ queue[r] = <<>> /\ UNCHANGED <<rows, body, phase, queue, shownReady>> /\ Exists(d)
        BY <1>3 DEF ReplaceCall, Available, Drained, store
    <2>4. rows'[d].status # "unborn"
        BY <2>3 DEF Exists, NoRow
    <2>5. /\ \A p \in Requests \ {r} : request'[p] = request[p]
          /\ request'[r].left = <<>> /\ request'[r].jobs = <<>> /\ request'[r].doc = d
        BY <2>1, <2>2, RequestEffect
    <2> QED BY <1>0, <2>3, <2>4, <2>5 DEF Books
<1> QED BY <1>1, <1>2, <1>3

LEMMA BootBooks ==
    ASSUME TypeInv, Lists, BootStep
    PROVE  Lists'
<1>1. ASSUME NEW next, NEW op, op = OpOf(next), next # "init",
             NEW S \in SUBSET {d \in Docs : rows[d].status # "unborn"}, BootPhase(next, op, S),
             UNCHANGED shownReady \/ Refresh,
             phase = "rechecking" => \A s \in Slots : body[s].pc # "recheck",
             phase # "stopped"
      PROVE  Lists'
    <2>1. UNCHANGED <<rows, body, request>> /\ phase' = next
        BY <1>1 DEF BootPhase, store
    <2>2. S \in SUBSET Docs
        OBVIOUS
    <2>3. /\ \A c \in Callers \ {"boot"} : queue'[c] = queue[c]
          /\ \A i \in DOMAIN queue'["boot"] :
                queue'["boot"][i].op = op /\ queue'["boot"][i].doc \in S
        BY <1>1, <2>2, BootList
    <2>4. Born'
        BY <1>1, <2>1, <2>3 DEF Lists, Born, Refresh, Doc
    <2>5. OneFile'
        BY <2>1, <2>3, CallerTypes, LibraryAssumption DEF Lists, OneFile
    <2>6. BootLists'
        BY <1>1, <2>1, <2>3 DEF Lists, BootLists
    <2> QED BY <2>4, <2>5, <2>6 DEF Lists
<1>2. CASE BootResume
    <2> DEFINE S == {d \in Docs : rows[d].status \in InFlight}
    <2>1. S \in SUBSET {d \in Docs : rows[d].status # "unborn"}
        BY DEF InFlight
    <2>2. phase = "init" /\ BootPhase("resuming", "resume", S) /\ Refresh
        BY <1>2 DEF BootResume
    <2> HIDE DEF S
    <2> QED BY <1>1, <2>1, <2>2 DEF OpOf
<1>3. CASE BootRecheck
    <2> DEFINE S == {d \in Docs : ~ocrIndexed /\ rows[d].status = "ready"}
    <2>1. S \in SUBSET {d \in Docs : rows[d].status # "unborn"}
        OBVIOUS
    <2>2. phase = "resuming" /\ BootPhase("rechecking", "recheck", S) /\ UNCHANGED shownReady
        BY <1>3 DEF BootRecheck
    <2> HIDE DEF S
    <2> QED BY <1>1, <2>1, <2>2 DEF OpOf
<1>4. CASE BootRebuild
    <2> DEFINE S == {d \in Docs : /\ rows[d].status = "ready"
                                  /\ d \notin processing /\ ocrAborts[d] = None
                                  /\ ~rows[d].current \/ chunks[d] = <<>>}
    <2>1. S \in SUBSET {d \in Docs : rows[d].status # "unborn"}
        OBVIOUS
    <2>2. /\ phase = "rechecking" /\ BootPhase("rebuilding", "reindex", S) /\ UNCHANGED shownReady
          /\ Running("boot") = {}
        BY <1>4 DEF BootRebuild, Drained
    <2>3. \A s \in Slots : body[s].pc # "recheck"
        BY <2>2 DEF Lists, BootLists, Running
    <2> HIDE DEF S
    <2> QED BY <1>1, <2>1, <2>2, <2>3 DEF OpOf
<1>5. CASE BootDone
    <2>1. /\ phase = "rebuilding" /\ queue["boot"] = <<>> /\ phase' = "up" /\ Refresh
          /\ UNCHANGED <<rows, body, queue, request>>
        BY <1>5 DEF BootDone, Drained, store
    <2>2. Born'
        BY <2>1 DEF Lists, Born, Refresh, Doc
    <2>3. OneFile' /\ BootLists'
        BY <2>1, EmptySeq DEF Lists, OneFile, BootLists
    <2> QED BY <2>2, <2>3 DEF Lists
<1> QED BY <1>2, <1>3, <1>4, <1>5 DEF BootStep

\* The steps that leave callers and bodies alone.
LEMMA IdleBooks ==
    ASSUME TypeInv, Lists, RowsStay, UNCHANGED <<body, callers>>, UNCHANGED shownReady \/ Refresh
    PROVE  Lists'
<1>1. Born'
    BY NamedStay DEF Lists, Born, Doc, Refresh, callers
<1>2. OneFile' /\ BootLists'
    BY DEF Lists, OneFile, BootLists, callers
<1> QED BY <1>1, <1>2 DEF Lists
-----------------------------------------------------------------------------
LEMMA StepCares ==
    ASSUME \A files \in Selections : Len(files) <= 1
    PROVE  TypeInv /\ ProcessingIsExclusive /\ CareInv /\ [Next]_vars => CareInv'
<1> SUFFICES ASSUME TypeInv, ProcessingIsExclusive, CareInv, [Next]_vars PROVE CareInv'
    OBVIOUS
<1>1. Lists /\ RowsStay
    BY StepKeepsRows DEF CareInv, Lists, RowsStay
<1>2. Main' /\ Lists' => CareInv'
    BY DEF Main, Lists, CareInv
<1>3. ASSUME NEW s \in Slots, BodyStep(s) PROVE CareInv'
    <2>1. Lists'
        BY <1>1, <1>3, BodyStepShape, BodyBorn, BodyOneFile, BodyBootLists DEF Lists, RowsStay
    <2> QED BY <1>2, <1>3, <2>1, BodyStepCares
<1>4. ASSUME NEW r \in Requests, RequestStep(r) PROVE CareInv'
    <2>1. Lists'
        BY <1>1, <1>4, RequestBooks, BooksKept
    <2> QED BY <1>2, <1>4, <2>1, RequestStepCares
<1>5. CASE Deliver
    <2>1. Lists'
        BY <1>1, <1>5, IdleBooks DEF Deliver
    <2> QED BY <1>2, <1>5, <2>1, DeliverCares
<1>6. CASE BootStep
    BY <1>1, <1>2, <1>6, BootBooks, BootCares
<1>7. ASSUME NEW r \in Requests,
             \/ \E files \in Selections : IngestMany(r, files)
             \/ \E d \in Docs : ReindexCall(r, d) \/ \E h \in Contents : ReplaceCall(r, d, h)
      PROVE  CareInv'
    <2>1. Lists'
        BY <1>1, <1>7, CallBooks, BooksKept
    <2>2. Main'
        BY <1>7, CallCares, ReindexCallCares
    <2> QED BY <1>2, <2>1, <2>2
<1>8. ASSUME NEW d \in Docs, Remove(d) PROVE CareInv'
    <2>1. Lists'
        BY <1>1, <1>8, IdleBooks DEF Remove
    <2> QED BY <1>2, <1>8, <2>1, RemoveCares
<1>9. CASE UNCHANGED vars
    <2>1. Lists'
        BY <1>1, <1>9, IdleBooks DEF vars
    <2> QED BY <1>2, <1>9, <2>1, StutterCares
<1> QED
    BY <1>3, <1>4, <1>5, <1>6, <1>7, <1>8, <1>9, ReloadCares DEF Next, Page, User

LEMMA CaredIsWatched == CareInv => NoStrandedRow
<1> SUFFICES ASSUME CareInv, NEW d \in Docs, rows[d].status \in InFlight PROVE Watched(d)
    BY DEF NoStrandedRow
<1>1. phase = "init" \/ Cared(d)
    BY DEF CareInv, AllCared, InHand
<1> QED
    BY <1>1 DEF Cared, WorksOn, Ticket, HasJob, Replaced, Watched

\* No interleaving of ingestMany, the start-up repairs, OCR, reindex, replace,
\* deletion and reload leaves a row in progress that nobody has in hand, as
\* long as files are dropped one at a time. The hypothesis is what the code
\* needs: in a longer selection a file that cannot be read, or that loses the
\* race for its hash, makes ingestMany reject, and the rows it has staged
\* already are handed to nobody until the next start.
THEOREM NothingIsStranded ==
    ASSUME \A files \in Selections : Len(files) <= 1
    PROVE  Spec => []NoStrandedRow
<1> DEFINE Inv == TypeInv /\ ProcessingIsExclusive /\ CareInv
<1>1. Init => Inv
    BY InitTypes, InitIsExclusive, InitCares
<1>2. Inv /\ [Next]_vars => Inv'
    BY StepTypes, StepKeepsExclusion, StepCares
<1>3. Inv => NoStrandedRow
    BY CaredIsWatched
<1> QED
    BY <1>1, <1>2, <1>3, PTL DEF Spec
===========================================================================
