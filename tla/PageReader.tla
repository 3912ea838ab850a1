---------------------------- MODULE PageReader ----------------------------
(***************************************************************************)
(* Reading the pages of PDF files: parseWithLayout and ocrPages over the   *)
(* single worker of ocr-worker.ts, which keeps ONE open document for all   *)
(* its clients.                                                            *)
(*                                                                         *)
(* A pass parses one file, asking the worker for the layout of its         *)
(* uncertain pages (the detector opens the file there on the first of      *)
(* them), and then opens it again to recognise the pages that need it.     *)
(* An ingest ends with its parse and queues the recognition as a pass of   *)
(* its own on ocrChain; a rebuild (reindex, replace, the boot recheck)     *)
(* recognises at once.  What the pass writes is the Library's business.    *)
(*                                                                         *)
(* A pass has one call to the worker at a time.  A handler runs to its     *)
(* next await in one step, so handlers of two passes interleave there.     *)
(***************************************************************************)
EXTENDS Naturals, Sequences, FiniteSetsExt, Functions

CONSTANTS
    Files,
    Pages,      \* [Files -> number of pages of the file]
    Uncertain,  \* [Files -> pages whose layout the parser asks for]
    Scanned,    \* [Files -> pages that need recognition]
    None

ASSUME ReaderAssumption ==
    /\ None \notin Files /\ None \notin Files \X Nat
    /\ Pages \in [Files -> Nat \ {0}]
    /\ Uncertain \in [Files -> SUBSET Nat]
    /\ \A f \in Files : Uncertain[f] \cup Scanned[f] \subseteq 1..Pages[f]

VARIABLES
    kind,      \* [Files -> ingest or rebuild]
    pc,        \* [Files -> what the pass is doing]
    left,      \* [Files -> pages of this phase it still has to ask for]
    detector,  \* [Files -> the open promise of its layout detector]
    step,      \* [Files -> the await at which its call is suspended]
    opens,     \* [Files -> documents it opened in the worker]
    held,      \* [Files -> the document its call captured]
    page,      \* [Files -> what was read of the page in hand]
    layout,    \* [Files -> regions its parse used]
    read,      \* [Files -> pages it recognised]
    cause,     \* [Files -> why the pass failed, if it did]
    chain,     \* ocrChain: ingested files awaiting recognition, oldest first
    current,   \* loadingTask and documentPromise: the document open in the worker
    live,      \* documents loaded and not destroyed
    disturbed  \* history: passes whose document another pass swapped or closed

client == <<kind, pc, left, detector, layout, read, cause, chain>>
worker == <<current, live, disturbed>>
call   == <<step, opens, held, page>>
vars   == <<client, worker, call>>

MaxOpens == 3   \* layout of the ingest, layout and scan of the queued pass
Documents == Files \X (1..MaxOpens)
Blank == [image |-> None, native |-> None]

Phases == {"new", "parse", "queued", "scan", "read", "regions", "closing", "done", "failed"}
Steps  == {"idle", "importing", "loading", "rendering", "recognising", "analysing"}

TypeOK ==
    /\ kind \in [Files -> {"ingest", "rebuild"}]
    /\ pc \in [Files -> Phases]
    /\ \A f \in Files : left[f] \subseteq 1..Pages[f]
    /\ detector \in [Files -> {"none", "open", "broken"}]
    /\ step \in [Files -> Steps]
    /\ opens \in [Files -> 0..MaxOpens]
    /\ held \in [Files -> Documents \cup {None}]
    /\ page \in [Files -> [image : Files \cup {None}, native : Files \cup {None}]]
    /\ \A f \in Files : layout[f] \subseteq (1..Pages[f]) \X Files
    /\ \A f \in Files : \A b \in read[f] :
          /\ b.page \in 1..Pages[f] /\ b.image \in Files
          /\ {b.native, b.regions} \subseteq Files \cup {None}
    /\ cause \in [Files -> {"none", "removed", "load", "document", "model"}]
    /\ chain \in Seq(Files)
    /\ current \in Documents \cup {None}
    /\ live \subseteq Documents
    /\ disturbed \subseteq Files

Init ==
    /\ kind \in [Files -> {"ingest", "rebuild"}]
    /\ pc = [f \in Files |-> "new"]
    /\ left = Uncertain
    /\ detector = [f \in Files |-> "none"]
    /\ step = [f \in Files |-> "idle"]
    /\ opens = [f \in Files |-> 0]
    /\ held = [f \in Files |-> None]
    /\ page = [f \in Files |-> Blank]
    /\ layout = [f \in Files |-> {}]
    /\ read = [f \in Files |-> {}]
    /\ cause = [f \in Files |-> "none"]
    /\ chain = <<>>
    /\ current = None
    /\ live = {}
    /\ disturbed = {}
-----------------------------------------------------------------------------
(* Shared by the operations. *)

Next1(f) == Min(left[f])             \* pages are asked for in order
Document(f) == <<f, opens[f]>>       \* the one f opened last
At(f, phase) == pc[f] = phase /\ step[f] = "idle"

\* Passes between the opening of a document and the closing that follows it.
Holding(f) ==
    \/ step[f] \in {"importing", "loading"}
    \/ pc[f] = "parse" /\ detector[f] # "none"
    \/ pc[f] \in {"read", "regions", "closing"}

\* f swaps or closes the worker's document under every other pass.
Disturb(f) == disturbed' = disturbed \cup {g \in Files \ {f} : Holding(g)}

\* closeDocument: the open document is forgotten, then destroyed.
CloseDocument(f) ==
    /\ current' = None
    /\ live' = live \ {current}
    /\ Disturb(f)

\* A page can be rendered from d, or its text read.
Has(d, n) == d \in live /\ n <= Pages[d[1]]

Goto(f, phase) == pc' = [pc EXCEPT ![f] = phase]
Suspend(f, s) == step' = [step EXCEPT ![f] = s]
Return(f) == Suspend(f, "idle")

Fail(f, why) ==
    /\ Goto(f, "failed")
    /\ cause' = [cause EXCEPT ![f] = why]
-----------------------------------------------------------------------------
(* openDocument, for the detector on its first page and for ocrPages. *)

StartOpen(f) ==
    /\ step[f] = "idle"
    /\ \/ pc[f] = "parse" /\ left[f] # {} /\ detector[f] = "none"
       \/ pc[f] = "scan" /\ left[f] # {}
    /\ opens' = [opens EXCEPT ![f] = @ + 1]
    /\ CloseDocument(f)
    /\ Suspend(f, "importing")
    /\ UNCHANGED <<client, held, page>>

\* The former document is destroyed and pdf.js imported: the new one is set.
SetDocument(f) ==
    /\ step[f] = "importing"
    /\ current' = Document(f)
    /\ live' = live \cup {Document(f)}
    /\ Disturb(f)
    /\ Suspend(f, "loading")
    /\ UNCHANGED <<client, opens, held, page>>

\* What the opening's rejection does.  The detector keeps the rejected promise;
\* ocrPages opens outside its try, so its pass fails without closing.
OpeningRejects(f, why) ==
    /\ Return(f)
    /\ \/ /\ pc[f] = "parse"
          /\ detector' = [detector EXCEPT ![f] = "broken"]
          /\ UNCHANGED <<pc, cause>>
       \/ /\ pc[f] = "scan"
          /\ Fail(f, why)
          /\ UNCHANGED detector
    /\ UNCHANGED <<kind, left, layout, read, chain, current, disturbed, opens, held, page>>

\* pdf.js does not load, or getDocument rejects for reasons of its own: then
\* loadingTask and documentPromise stay those of a document that never was.
CannotOpen(f) ==
    /\ step[f] = "importing" \/ (step[f] = "loading" /\ Document(f) \in live)
    /\ live' = live \ {Document(f)}
    /\ OpeningRejects(f, "load")

\* Loading answers; a document destroyed meanwhile rejects.
Opened(f) ==
    /\ step[f] = "loading"
    /\ \/ /\ Document(f) \in live
          /\ Return(f)
          /\ IF pc[f] = "parse"
             THEN detector' = [detector EXCEPT ![f] = "open"] /\ UNCHANGED pc
             ELSE Goto(f, "read") /\ UNCHANGED detector
          /\ UNCHANGED <<kind, left, layout, read, cause, chain, worker, opens, held, page>>
       \/ Document(f) \notin live /\ UNCHANGED live /\ OpeningRejects(f, "document")
-----------------------------------------------------------------------------
(* recognizePage and detectLayout. *)

\* renderPage takes the document open at this moment and waits for it.
StartRender(f) ==
    /\ current # None
    /\ held' = [held EXCEPT ![f] = current]
    /\ Suspend(f, "rendering")
    /\ UNCHANGED <<client, worker, opens, page>>

\* What the answer to detectLayout does: the parse orders the page by the
\* regions, the recognised page is cut by them; null and [] mean neither.
\* Mutant of UseRegions: a page whose layout could not be found is dropped.
UseRegionsOrDrop(f, regions) ==
    /\ left' = [left EXCEPT ![f] = @ \ {Next1(f)}]
    /\ page' = [page EXCEPT ![f] = Blank]
    /\ held' = [held EXCEPT ![f] = None]
    /\ Return(f)
    /\ \/ /\ pc[f] = "parse"
          /\ layout' = [layout EXCEPT ![f] = @ \cup ({Next1(f)} \X (regions \ {None}))]
          /\ UNCHANGED <<pc, read>>
       \/ /\ pc[f] = "regions"
          /\ read' = [read EXCEPT ![f] = @ \cup
                 [page : {Next1(f)}, image : {page[f].image},
                  native : {page[f].native}, regions : regions \ {None}]]
          /\ Goto(f, "read")
          /\ UNCHANGED layout
    /\ UNCHANGED <<kind, detector, cause, chain, worker, opens>>

UseRegions(f, regions) ==
    /\ left' = [left EXCEPT ![f] = @ \ {Next1(f)}]
    /\ page' = [page EXCEPT ![f] = Blank]
    /\ held' = [held EXCEPT ![f] = None]
    /\ Return(f)
    /\ \/ /\ pc[f] = "parse"
          /\ layout' = [layout EXCEPT ![f] = @ \cup ({Next1(f)} \X (regions \ {None}))]
          /\ UNCHANGED <<pc, read>>
       \/ /\ pc[f] = "regions"
          /\ read' = [read EXCEPT ![f] = @ \cup
                 [page : {Next1(f)}, image : {page[f].image},
                  native : {page[f].native}, regions : regions]]
          /\ Goto(f, "read")
          /\ UNCHANGED layout
    /\ UNCHANGED <<kind, detector, cause, chain, worker, opens>>

AsksLayout(f) ==
    \/ At(f, "parse") /\ left[f] # {} /\ detector[f] = "open"
    \/ At(f, "regions")

DetectLayout(f) == AsksLayout(f) /\ StartRender(f)

\* No document is open, or the detector's own opening failed: no regions.
NoLayout(f) ==
    /\ \/ AsksLayout(f) /\ current = None
       \/ At(f, "parse") /\ left[f] # {} /\ detector[f] = "broken"
    /\ UseRegions(f, {None})

RenderForLayout(f) ==
    /\ step[f] = "rendering" /\ pc[f] \in {"parse", "regions"}
    /\ \/ /\ Has(held[f], Next1(f))
          /\ Suspend(f, "analysing")
          /\ UNCHANGED <<client, worker, opens, held, page>>
       \/ ~Has(held[f], Next1(f)) /\ UseRegions(f, {None})

\* The layout model answers, or could not be loaded.
Analyse(f) ==
    /\ step[f] = "analysing"
    /\ \E r \in {held[f][1], None} : UseRegions(f, {r})

RecognizePage(f) == At(f, "read") /\ left[f] # {} /\ StartRender(f)

\* Mutant of ReadFails: no finally.
ReadFailsOpen(f, why) ==
    /\ Fail(f, why)
    /\ Return(f)
    /\ held' = [held EXCEPT ![f] = None]
    /\ page' = [page EXCEPT ![f] = Blank]
    /\ UNCHANGED <<kind, left, detector, layout, read, chain, worker, opens>>

\* The recognition of a page rejects: what remains is the finally of ocrPages.
ReadFails(f, why) ==
    /\ Goto(f, "closing")
    /\ cause' = [cause EXCEPT ![f] = why]
    /\ Return(f)
    /\ held' = [held EXCEPT ![f] = None]
    /\ page' = [page EXCEPT ![f] = Blank]
    /\ UNCHANGED <<kind, left, detector, layout, read, chain, worker, opens>>

\* The finally: a message of its own, which closes whatever is open by then.
CloseFailed(f) ==
    /\ At(f, "closing")
    /\ CloseDocument(f)
    /\ Goto(f, "failed")
    /\ UNCHANGED <<kind, left, detector, layout, read, cause, chain, call>>

NothingToRead(f) ==
    /\ At(f, "read") /\ left[f] # {} /\ current = None
    /\ ReadFails(f, "document")

\* The page is rendered; its native text is then asked of the document that
\* is open by now.
RenderForReading(f) ==
    /\ step[f] = "rendering" /\ pc[f] = "read"
    /\ \/ /\ Has(held[f], Next1(f))
          /\ page' = [page EXCEPT ![f].image = held[f][1]]
          /\ held' = [held EXCEPT ![f] = current]
          /\ Suspend(f, "recognising")
          /\ UNCHANGED <<client, worker, opens>>
       \/ ~Has(held[f], Next1(f)) /\ ReadFails(f, "document")

\* A failed extraction of native text is no failure; a model that cannot be
\* loaded is.
Recognise(f) ==
    /\ step[f] = "recognising"
    /\ \/ /\ page' = [page EXCEPT ![f].native =
                 IF held[f] # None /\ Has(held[f], Next1(f)) THEN held[f][1] ELSE None]
          /\ held' = [held EXCEPT ![f] = None]
          /\ Goto(f, "regions")
          /\ Return(f)
          /\ UNCHANGED <<kind, left, detector, layout, read, cause, chain, worker, opens>>
       \/ ReadFails(f, "model")
-----------------------------------------------------------------------------
(* The passes: processDocument, reindex, replace, ocrDocument. *)

Begin(f) ==
    /\ \/ pc[f] = "new"
       \/ pc[f] = "queued" /\ Head(chain) = f
    /\ Goto(f, "parse")
    /\ left' = [left EXCEPT ![f] = Uncertain[f]]
    /\ detector' = [detector EXCEPT ![f] = "none"]
    /\ layout' = [layout EXCEPT ![f] = {}]
    /\ disturbed' = disturbed \ {f}
    /\ UNCHANGED <<kind, read, cause, chain, current, live, call>>

\* The file was removed, or its original is gone, before its turn came.
Gone(f) ==
    /\ pc[f] = "queued" /\ Head(chain) = f
    /\ Fail(f, "removed")
    /\ UNCHANGED <<kind, left, detector, layout, read, chain, worker, call>>

Queued(f) == \E i \in DOMAIN chain : chain[i] = f

\* parseWithLayout is over.  Its detector is disposed of first, then an
\* ingest queues what needs recognition and every other pass goes on to it.
ParseEnds(f) ==
    /\ At(f, "parse") /\ left[f] = {}
    /\ \/ detector[f] = "none" /\ UNCHANGED worker
       \/ detector[f] # "none" /\ CloseDocument(f)
    /\ detector' = [detector EXCEPT ![f] = "none"]
    /\ left' = [left EXCEPT ![f] = Scanned[f]]
    /\ IF kind[f] = "ingest" /\ ~Queued(f) /\ Scanned[f] # {}
       THEN Goto(f, "queued") /\ chain' = Append(chain, f)
       ELSE Goto(f, "scan") /\ UNCHANGED chain
    /\ UNCHANGED <<kind, layout, read, cause, call>>

\* ocrPages with no page to read returns at once; else it closes at the end.
ReadEnds(f) ==
    /\ left[f] = {}
    /\ \/ At(f, "scan") /\ UNCHANGED worker
       \/ At(f, "read") /\ CloseDocument(f)
    /\ Goto(f, "done")
    /\ UNCHANGED <<kind, left, detector, layout, read, cause, chain, call>>

\* Mutant of ChainAdvances: a failed pass leaves the chain rejected.
ChainStops ==
    /\ chain # <<>> /\ pc[Head(chain)] = "done"
    /\ chain' = Tail(chain)
    /\ UNCHANGED <<kind, pc, left, detector, layout, read, cause, worker, call>>

\* ocrChain goes on to the next file however this one ended.
ChainAdvances ==
    /\ chain # <<>> /\ pc[Head(chain)] \in {"done", "failed"}
    /\ chain' = Tail(chain)
    /\ UNCHANGED <<kind, pc, left, detector, layout, read, cause, worker, call>>

Pass(f) ==
    \/ StartOpen(f) \/ SetDocument(f) \/ CannotOpen(f) \/ Opened(f)
    \/ DetectLayout(f) \/ NoLayout(f) \/ RenderForLayout(f) \/ Analyse(f)
    \/ RecognizePage(f) \/ NothingToRead(f) \/ RenderForReading(f) \/ Recognise(f)
    \/ CloseFailed(f) \/ ParseEnds(f) \/ ReadEnds(f)

Next == ChainAdvances \/ \E f \in Files : Begin(f) \/ Gone(f) \/ Pass(f)

Spec == Init /\ [][Next]_vars

\* Whether a file is added is its owner's choice; a queued one is begun by
\* the chain, and every promise of the worker settles.
FairSpec ==
    /\ Spec
    /\ WF_vars(ChainAdvances)
    /\ \A f \in Files : WF_vars(Pass(f)) /\ WF_vars(pc[f] = "queued" /\ Begin(f))
-----------------------------------------------------------------------------
(* ocr.ts:112-113: "returns the blocks of every page that yielded text,    *)
(* positioned at its page number so citations resolve correctly".  The text *)
(* kept for a page of a file was recognised on a page of that file.        *)
PagesAreOfTheirFile == \A f \in Files : \A b \in read[f] : b.image = f

(* A pass during which no other pass opened or closed a document reads its *)
(* own file only, never fails for want of the document, and when it ends   *)
(* has read every page that needed it: nothing of an earlier use of the    *)
(* worker (a detector, a failed pass) reaches it.                          *)
AloneReadsItsFile ==
    \A f \in Files \ disturbed :
        /\ cause[f] # "document"
        /\ \A l \in layout[f] : l[2] = f
        /\ \A b \in read[f] : b.image = f /\ {b.native, b.regions} \subseteq {f, None}
        /\ pc[f] = "done" => {b.page : b \in read[f]} = Scanned[f]

(* However passes collide and fail, once none of them is using the worker  *)
(* it has no current document, with one exception: a load that rejected by *)
(* itself in a recognition, which opens outside its try.  Then what is     *)
(* still current is no document that can be read, and the next opening or  *)
(* closing drops it.  (A document overwritten by an interleaved opening is *)
(* not current, and stays live: see the README.)                           *)
NothingStaysOpen ==
    (\A f \in Files : ~Holding(f)) /\ current # None =>
        current \notin live /\ cause[current[1]] = "load"

(* Every pass that begins ends, recognised or failed, and a pass that      *)
(* fails never stops the files queued behind it.                           *)
PassesEnd ==
    \A f \in Files : (pc[f] # "new") ~> (pc[f] \in {"done", "failed"})
=============================================================================
