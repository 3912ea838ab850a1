--------------------------- MODULE Workers_proofs ---------------------------
(***************************************************************************)
(* What holds of the two workers that prepare a document, for every number *)
(* of files, pages, callers, questions and passages. PageReader: however   *)
(* passes collide, the worker is left without a document open, and a pass  *)
(* that is alone reads its file. Embedding: every question and every  *)
(* passage gets its own vector, and all of them are of one model.          *)
(***************************************************************************)
EXTENDS PageReader, Embedding, FiniteSetTheorems, SequenceTheorems, WellFoundedInduction, TLAPS

-----------------------------------------------------------------------------
(***************************************************************************)
(* The reader's worker lets go of every document.                          *)
(***************************************************************************)
(* The worker's document is the last one its pass opened.  Either it is     *)
(* alive and that pass is still to close it, or its load rejected by itself, *)
(* under a detector that will be disposed of or in a recognition that failed *)
(* with it.                                                                 *)
Rejected(f) ==
    \/ pc[f] = "parse" /\ detector[f] = "broken"
    \/ pc[f] = "failed" /\ cause[f] = "load"

OwnerIsHolding ==
    current # None =>
        \E f \in Files :
            /\ current = Document(f)
            /\ IF current \in live THEN Holding(f) ELSE Rejected(f)

Shape ==
    /\ pc \in [Files -> Phases]
    /\ detector \in [Files -> {"none", "open", "broken"}]
    /\ step \in [Files -> Steps]
    /\ opens \in [Files -> Nat]
    /\ cause = [f \in Files |-> cause[f]]
    /\ \A f \in Files : pc[f] \in {"new", "queued", "closing", "done", "failed"} => step[f] = "idle"
    /\ \A f \in Files : step[f] \in {"importing", "loading"} =>
          (pc[f] = "parse" /\ detector[f] = "none") \/ pc[f] = "scan"
    /\ \A f \in Files : step[f] = "recognising" => pc[f] = "read"

IInv == Shape /\ OwnerIsHolding

(* A handler that leaves the document alone leaves its owner holding.      *)
LEMMA StillOwned ==
    ASSUME IInv, UNCHANGED <<current, live, opens>>,
           \A f \in Files : (Holding(f) => Holding(f)') /\ (Rejected(f) => Rejected(f)')
    PROVE  OwnerIsHolding'
  BY DEF IInv, OwnerIsHolding, Document

LEMMA InitIInv == ASSUME Init PROVE IInv
  BY DEF Init, IInv, Shape, OwnerIsHolding, Phases, Steps

LEMMA OpenStep ==
    ASSUME IInv, NEW f \in Files, StartOpen(f) \/ SetDocument(f)
    PROVE  IInv'
<1>1. CASE StartOpen(f)
  <2>1. Shape'
    BY <1>1 DEF IInv, Shape, StartOpen, Suspend, client, Steps
  <2>2. OwnerIsHolding'
    BY <1>1 DEF StartOpen, CloseDocument, OwnerIsHolding
  <2> QED BY <2>1, <2>2 DEF IInv
<1>2. CASE SetDocument(f)
  <2>1. Shape'
    BY <1>2 DEF IInv, Shape, SetDocument, Suspend, client, Steps
  <2>2. current' = Document(f)' /\ current' \in live' /\ Holding(f)'
    BY <1>2 DEF IInv, Shape, SetDocument, Suspend, Document, Holding
  <2> QED BY <2>1, <2>2 DEF IInv, OwnerIsHolding
<1> QED BY <1>1, <1>2

LEMMA OpenedStep ==
    ASSUME IInv, NEW f \in Files, Opened(f) \/ CannotOpen(f)
    PROVE  IInv'
<1> USE DEF Return, Suspend, Goto, Fail, worker
<1>1. Shape'
  BY DEF Opened, CannotOpen, OpeningRejects, IInv, Shape, Phases, Steps
<1>2. CASE Opened(f) /\ Document(f) \in live
  <2>1. \A g \in Files : (Holding(g) => Holding(g)') /\ (Rejected(g) => Rejected(g)')
    BY <1>2 DEF Opened, IInv, Shape, Holding, Rejected
  <2> QED BY <1>1, <1>2, <2>1, StillOwned DEF Opened, IInv
<1>3. ASSUME NEW why, OpeningRejects(f, why), step[f] \in {"importing", "loading"},
             \/ CannotOpen(f)
             \/ Document(f) \notin live /\ UNCHANGED live
      PROVE  OwnerIsHolding'
  <2>1. UNCHANGED <<current, opens>> /\ \A g \in Files : Document(g)' = Document(g)
    BY <1>3 DEF OpeningRejects, Document
  <2>2. \A g \in Files \ {f} : (Holding(g) => Holding(g)') /\ (Rejected(g) => Rejected(g)')
    BY <1>3 DEF OpeningRejects, IInv, Shape, Holding, Rejected
  <2>3. ASSUME current # None PROVE OwnerIsHolding'
    <3>1. PICK g \in Files : /\ current = Document(g)
                            /\ IF current \in live THEN Holding(g) ELSE Rejected(g)
      BY <2>3 DEF IInv, OwnerIsHolding
    <3>2. CASE g # f
      <4>1. current # Document(f)
        BY <3>1, <3>2 DEF Document
      <4>2. current \in live <=> current \in live'
        BY <1>3, <4>1 DEF CannotOpen
      <4> QED BY <2>1, <2>2, <3>1, <3>2, <4>2 DEF OwnerIsHolding
    <3>3. CASE g = f
      <4>1. current \notin live' /\ Rejected(f)'
        <5>1. CASE CannotOpen(f)
          BY <3>1, <3>3, <5>1 DEF CannotOpen, OpeningRejects, IInv, Shape, Rejected
        <5>2. CASE Document(f) \notin live /\ UNCHANGED live
          BY <1>3, <3>1, <3>3, <5>2 DEF OpeningRejects, IInv, Shape, Rejected
        <5> QED BY <1>3, <5>1, <5>2
      <4> QED BY <2>1, <3>1, <3>3, <4>1 DEF OwnerIsHolding
    <3> QED BY <3>2, <3>3
  <2> QED BY <2>1, <2>3 DEF OwnerIsHolding
<1>4. CASE CannotOpen(f)
  BY <1>1, <1>3, <1>4 DEF CannotOpen, IInv
<1>5. CASE Opened(f) /\ Document(f) \notin live
  BY <1>1, <1>3, <1>5 DEF Opened, IInv
<1> QED BY <1>2, <1>4, <1>5

LEMMA RenderStep == ASSUME IInv, NEW f \in Files, StartRender(f), step[f] = "idle",
                           pc[f] \in {"parse", "read", "regions"}
                    PROVE  IInv'
<1> USE DEF StartRender, Suspend, client, worker
<1>1. Shape'
  BY DEF IInv, Shape, Steps
<1>2. \A g \in Files : (Holding(g) => Holding(g)') /\ (Rejected(g) => Rejected(g)')
  BY DEF IInv, Shape, Holding, Rejected
<1> QED BY <1>1, <1>2, StillOwned DEF IInv

LEMMA RegionsStep ==
    ASSUME IInv, NEW f \in Files, NEW r, UseRegions(f, r),
           step[f] \notin {"importing", "loading"}
    PROVE  IInv'
<1> USE DEF UseRegions, Return, Suspend, Goto, worker
<1>1. Shape'
  BY DEF IInv, Shape, Phases, Steps
<1>2. \A g \in Files : (Holding(g) => Holding(g)') /\ (Rejected(g) => Rejected(g)')
  BY DEF IInv, Shape, Holding, Rejected
<1> QED BY <1>1, <1>2, StillOwned DEF IInv

LEMMA ReadFailsStep ==
    ASSUME IInv, NEW f \in Files, NEW why, ReadFails(f, why), pc[f] = "read",
           step[f] \notin {"importing", "loading"}
    PROVE  IInv'
<1> USE DEF ReadFails, Goto, Return, Suspend, worker
<1>1. Shape'
  BY DEF IInv, Shape, Phases, Steps
<1>2. \A g \in Files : (Holding(g) => Holding(g)') /\ (Rejected(g) => Rejected(g)')
  BY DEF IInv, Shape, Holding, Rejected
<1> QED BY <1>1, <1>2, StillOwned DEF IInv

LEMMA RenderedStep ==
    ASSUME IInv, NEW f \in Files, RenderForLayout(f) \/ RenderForReading(f) \/ Recognise(f)
    PROVE  IInv'
<1>1. ASSUME RenderForLayout(f) \/ RenderForReading(f), UNCHANGED worker,
             UNCHANGED <<opens, detector, cause>>, Shape',
             \A g \in Files \ {f} : pc'[g] = pc[g] /\ step'[g] = step[g],
             pc[f] \in {"parse", "read", "regions"} /\ step[f] \notin {"importing", "loading"},
             pc'[f] = pc[f]
      PROVE  IInv'
  <2>1. \A g \in Files : (Holding(g) => Holding(g)') /\ (Rejected(g) => Rejected(g)')
    BY <1>1 DEF Holding, Rejected
  <2> QED BY <1>1, <2>1, StillOwned DEF IInv, worker
<1>2. CASE RenderForLayout(f)
  <2>1. CASE Has(held[f], Next1(f))
    BY <1>1, <1>2, <2>1 DEF RenderForLayout, IInv, Shape, Suspend, Steps, client
  <2>2. CASE ~Has(held[f], Next1(f))
    BY <1>2, <2>2, RegionsStep DEF RenderForLayout
  <2> QED BY <2>1, <2>2
<1>3. CASE RenderForReading(f)
  <2>1. CASE Has(held[f], Next1(f))
    BY <1>1, <1>3, <2>1 DEF RenderForReading, IInv, Shape, Suspend, Steps, client
  <2>2. CASE ~Has(held[f], Next1(f))
    BY <1>3, <2>2, ReadFailsStep DEF RenderForReading
  <2> QED BY <2>1, <2>2
<1>4. CASE Recognise(f)
  <2>1. CASE ReadFails(f, "model")
    BY <1>4, <2>1, ReadFailsStep DEF Recognise, IInv, Shape
  <2>2. CASE /\ Goto(f, "regions") /\ Return(f) /\ step[f] = "recognising"
             /\ UNCHANGED <<detector, worker, opens, cause>>
    <3>1. Shape'
      BY <2>2 DEF IInv, Shape, Goto, Return, Suspend, Phases, Steps
    <3>2. \A g \in Files : (Holding(g) => Holding(g)') /\ (Rejected(g) => Rejected(g)')
      BY <1>4, <2>2 DEF Recognise, IInv, Shape, Holding, Rejected, Goto, Return, Suspend
    <3> QED BY <2>2, <3>1, <3>2, StillOwned DEF worker, IInv
  <2> QED BY <1>4, <2>1, <2>2 DEF Recognise
<1> QED BY <1>2, <1>3, <1>4

LEMMA PassStep ==
    ASSUME IInv, NEW f \in Files, Begin(f) \/ Gone(f) \/ CloseFailed(f) \/ ParseEnds(f) \/ ReadEnds(f)
           \/ ChainAdvances
    PROVE  IInv'
<1>1. CASE Begin(f)
  <2>1. Shape'
    BY <1>1 DEF Begin, Goto, call, IInv, Shape, Phases
  <2>2. \A g \in Files : (Holding(g) => Holding(g)') /\ (Rejected(g) => Rejected(g)')
    BY <1>1 DEF Begin, Goto, call, IInv, Shape, Holding, Rejected
  <2> QED BY <1>1, <2>1, <2>2, StillOwned DEF Begin, call, IInv
<1>2. CASE Gone(f)
  <2>1. Shape'
    BY <1>2 DEF Gone, Fail, Goto, call, IInv, Shape, Phases
  <2>2. \A g \in Files : (Holding(g) => Holding(g)') /\ (Rejected(g) => Rejected(g)')
    BY <1>2 DEF Gone, Fail, Goto, call, IInv, Shape, Holding, Rejected
  <2> QED BY <1>2, <2>1, <2>2, StillOwned DEF Gone, call, worker, IInv
<1>3. CASE ParseEnds(f)
  <2>1. Shape'
    BY <1>3 DEF ParseEnds, At, Goto, call, IInv, Shape, Phases
  <2>2. CASE detector[f] = "none"
    <3>1. \A g \in Files : (Holding(g) => Holding(g)') /\ (Rejected(g) => Rejected(g)')
      BY <1>3, <2>2 DEF ParseEnds, At, Goto, call, IInv, Shape, Holding, Rejected
    <3> QED BY <1>3, <2>1, <2>2, <3>1, StillOwned DEF ParseEnds, call, worker, IInv
  <2>3. CASE detector[f] # "none"
    <3>1. current' = None
      BY <1>3, <2>3 DEF ParseEnds, CloseDocument
    <3> QED BY <2>1, <3>1 DEF IInv, OwnerIsHolding
  <2> QED BY <2>2, <2>3
<1>4. CASE ReadEnds(f)
  <2>1. Shape'
    BY <1>4 DEF ReadEnds, At, Goto, call, IInv, Shape, Phases
  <2>2. CASE At(f, "scan") /\ UNCHANGED worker
    <3>1. \A g \in Files : (Holding(g) => Holding(g)') /\ (Rejected(g) => Rejected(g)')
      BY <1>4, <2>2 DEF ReadEnds, At, Goto, call, IInv, Shape, Holding, Rejected
    <3> QED BY <1>4, <2>1, <2>2, <3>1, StillOwned DEF ReadEnds, call, worker, IInv
  <2>3. CASE CloseDocument(f)
    BY <2>1, <2>3 DEF CloseDocument, IInv, OwnerIsHolding
  <2> QED BY <1>4, <2>2, <2>3 DEF ReadEnds
<1>5. CASE ChainAdvances
  <2>1. Shape'
    BY <1>5 DEF ChainAdvances, call, IInv, Shape
  <2>2. \A g \in Files : (Holding(g) => Holding(g)') /\ (Rejected(g) => Rejected(g)')
    BY <1>5 DEF ChainAdvances, call, Holding, Rejected
  <2> QED BY <1>5, <2>1, <2>2, StillOwned DEF ChainAdvances, call, worker, IInv
<1>6. CASE CloseFailed(f)
  BY <1>6 DEF CloseFailed, CloseDocument, At, Goto, call, IInv, Shape, OwnerIsHolding, Phases
<1> QED BY <1>1, <1>2, <1>3, <1>4, <1>5, <1>6

LEMMA NextIInv == ASSUME IInv, [Next]_vars PROVE IInv'
<1>1. CASE UNCHANGED vars
  BY <1>1 DEF vars, client, worker, call, IInv, Shape, OwnerIsHolding, Holding, Rejected, Document
<1>2. CASE ChainAdvances
  <2>1. CASE Files = {}
    BY <1>2, <2>1 DEF ChainAdvances, call, worker, IInv, Shape, OwnerIsHolding
  <2>2. CASE Files # {}
    BY <1>2, <2>2, PassStep
  <2> QED BY <2>1, <2>2
<1>3. ASSUME NEW f \in Files, Begin(f) \/ Gone(f) \/ Pass(f) PROVE IInv'
  <2>1. CASE Begin(f) \/ Gone(f) \/ CloseFailed(f) \/ ParseEnds(f) \/ ReadEnds(f)
    BY <2>1, PassStep
  <2>2. CASE StartOpen(f) \/ SetDocument(f)
    BY <2>2, OpenStep
  <2>3. CASE Opened(f) \/ CannotOpen(f)
    BY <2>3, OpenedStep
  <2>4. CASE DetectLayout(f) \/ RecognizePage(f)
    BY <2>4, RenderStep DEF DetectLayout, AsksLayout, RecognizePage, At
  <2>5. CASE NoLayout(f) \/ Analyse(f)
    <3>1. step[f] \notin {"importing", "loading"}
      BY <2>5 DEF NoLayout, AsksLayout, Analyse, At
    <3>2. PICK r : UseRegions(f, r)
      BY <2>5 DEF NoLayout, Analyse
    <3> QED BY <3>1, <3>2, RegionsStep
  <2>6. CASE NothingToRead(f)
    BY <2>6, ReadFailsStep DEF NothingToRead, At
  <2>7. CASE RenderForLayout(f) \/ RenderForReading(f) \/ Recognise(f)
    BY <2>7, RenderedStep
  <2> QED BY <1>3, <2>1, <2>2, <2>3, <2>4, <2>5, <2>6, <2>7 DEF Pass
<1> QED BY <1>1, <1>2, <1>3 DEF Next

(* For every set of files, however many passes collide in the worker and   *)
(* however they fail, once none of them uses it no document is open in it: *)
(* none is current, or the current one is what a load that rejected in a   *)
(* recognition has left (ocr-worker.ts closeDocument, the finally of       *)
(* ocrPages, the dispose of parseWithLayout).                              *)
THEOREM WorkerIsReleased == Spec => []NothingStaysOpen
<1>1. IInv => NothingStaysOpen
  BY DEF IInv, OwnerIsHolding, NothingStaysOpen, Rejected, Holding, Document
<1> QED BY <1>1, InitIInv, NextIInv, PTL DEF Spec

-----------------------------------------------------------------------------
(***************************************************************************)
(* What a pass reads when no other pass touches the worker's document.     *)
(* FlowInv follows one pass through its phases, disturbed or not: which    *)
(* pages it still has to ask for, and that those recognised are the rest.  *)
(* AloneInv is what an undisturbed pass may rely on: from the moment its   *)
(* document is set until it closes it, that document is the current one    *)
(* and is alive, so whatever the worker captured for it is its own.        *)
(***************************************************************************)
PagesRead(f) == {b.page : b \in read[f]}

FlowTypes ==
    /\ left \in [Files -> SUBSET Nat]
    /\ held \in [Files -> (Files \X Nat) \cup {None}]
    /\ page \in [Files -> [image : Files \cup {None}, native : Files \cup {None}]]
    /\ current \in (Files \X Nat) \cup {None}
    /\ layout = [f \in Files |-> layout[f]]
    /\ read = [f \in Files |-> read[f]]
    /\ cause = [f \in Files |-> cause[f]]

FlowInv(f) ==
    /\ left[f] \subseteq 1..Pages[f]
    /\ step[f] \in {"importing", "loading"} =>
          \/ pc[f] = "parse" /\ detector[f] = "none"
          \/ pc[f] = "scan"
    /\ step[f] \in {"rendering", "recognising", "analysing"} =>
          /\ left[f] # {}
          /\ held[f] = None => step[f] = "recognising"
          /\ \/ pc[f] = "parse" /\ detector[f] = "open" /\ step[f] # "recognising"
             \/ pc[f] = "read" /\ step[f] # "analysing"
             \/ pc[f] = "regions" /\ step[f] # "recognising"
    /\ pc[f] = "regions" => left[f] # {}
    /\ pc[f] \notin {"closing", "failed"} => cause[f] = "none"
    /\ pc[f] \in {"new", "parse", "queued"} => read[f] = {}
    /\ pc[f] \in {"scan", "read", "regions", "done"} => PagesRead(f) \cup left[f] = Scanned[f]
    /\ pc[f] = "done" => left[f] = {}

ReadsItsOwn(f) ==
    /\ cause[f] # "document"
    /\ \A l \in layout[f] : l[2] = f
    /\ \A b \in read[f] : b.image = f /\ {b.native, b.regions} \subseteq {f, None}

LoadRejected(f) == pc[f] = "parse" /\ detector[f] = "broken"

AloneInv(f) ==
    /\ ReadsItsOwn(f)
    /\ Holding(f) /\ step[f] # "importing" /\ ~LoadRejected(f) =>
          current = Document(f) /\ Document(f) \in live
    /\ step[f] \in {"rendering", "recognising", "analysing"} => held[f] = Document(f)
    /\ step[f] = "recognising" \/ pc[f] = "regions" => page[f].image = f
    /\ pc[f] = "regions" => page[f].native \in {f, None}

AloneIInv ==
    /\ Shape /\ FlowTypes
    /\ \A f \in Files : FlowInv(f)
    /\ \A f \in Files \ disturbed : AloneInv(f)

\* The least page that is left: FiniteSetsExt's Min, for any set of numbers.
LEMMA MinIsLeast ==
    ASSUME NEW S \in SUBSET Nat, S # {}
    PROVE  Min(S) \in S /\ \A n \in S : Min(S) <= n
<1> DEFINE R == OpToRel(<, Nat)
<1>1. \A x, y \in Nat : <<y, x>> \in R <=> y < x
    BY DEF OpToRel
<1>2. PICK x \in S : \A y \in S : ~(<<y, x>> \in R)
    <2> HIDE DEF R
    <2>1. IsWellFoundedOn(R, Nat)
        BY NatLessThanWellFounded DEF R
    <2> QED
        BY <2>1, WFMin
<1>3. \A y \in S : x <= y
    <2> HIDE DEF R
    <2> TAKE y \in S
    <2>1. x \in Nat /\ y \in Nat
        OBVIOUS
    <2>2. ~(y < x)
        BY <1>1, <1>2, <2>1, Zenon
    <2> QED
        BY <2>1, <2>2
<1> QED
    BY <1>3 DEF Min

LEMMA NextIsLeft ==
    ASSUME FlowTypes, NEW f \in Files, left[f] # {}
    PROVE  Next1(f) \in left[f]
BY MinIsLeast DEF FlowTypes, Next1

\* An undisturbed pass finds the page it asks for in the document it captured.
LEMMA HasItsPage ==
    ASSUME AloneIInv, NEW f \in Files \ disturbed,
           step[f] \in {"rendering", "recognising", "analysing"}
    PROVE  Has(held[f], Next1(f)) /\ held[f] = Document(f) /\ held[f][1] = f
<1>1. Holding(f) /\ left[f] # {}
    BY DEF AloneIInv, FlowInv, Holding
<1>2. Next1(f) \in left[f] /\ Next1(f) <= Pages[f]
    BY <1>1, NextIsLeft DEF AloneIInv, FlowInv, FlowTypes
<1>3. held[f] = Document(f) /\ Document(f) \in live
    BY <1>1 DEF AloneIInv, AloneInv, FlowInv, LoadRejected
<1>4. Document(f)[1] = f
    BY DEF Document
<1> QED
    BY <1>2, <1>3, <1>4 DEF Has

(* A pass f that takes a step leaves the others as they were, and disturbs  *)
(* those that hold a document when it swaps or closes the current one.      *)
Others(f) ==
    /\ \A g \in Files \ {f} :
          /\ pc'[g] = pc[g] /\ step'[g] = step[g] /\ left'[g] = left[g] /\ detector'[g] = detector[g]
          /\ opens'[g] = opens[g] /\ held'[g] = held[g] /\ page'[g] = page[g]
          /\ layout'[g] = layout[g] /\ read'[g] = read[g] /\ cause'[g] = cause[g]
    /\ \/ /\ UNCHANGED current /\ live' \in {live, live \ {Document(f)}}
          /\ disturbed \subseteq disturbed' \cup {f}
       \/ Disturb(f)

LEMMA OthersKeep ==
    ASSUME AloneIInv, NEW f \in Files, Others(f), Shape', FlowTypes', FlowInv(f)',
           f \notin disturbed' => AloneInv(f)'
    PROVE  AloneIInv'
<1>1. \A g \in Files \ {f} : FlowInv(g)'
    BY DEF Others, AloneIInv, FlowInv, PagesRead
<1>2. ASSUME NEW g \in Files \ {f}, g \notin disturbed' PROVE AloneInv(g)'
    <2>1. /\ g \notin disturbed
          /\ Holding(g) => UNCHANGED current /\ (Document(g) \in live => Document(g) \in live')
        BY <1>2 DEF Others, Disturb, Document
    <2>2. /\ AloneInv(g) /\ Document(g)' = Document(g)
          /\ (Holding(g)' <=> Holding(g)) /\ (LoadRejected(g)' <=> LoadRejected(g))
        BY <2>1 DEF Others, AloneIInv, Holding, Document, LoadRejected
    <2> QED
        BY <2>1, <2>2 DEF Others, AloneInv, ReadsItsOwn
<1> QED
    BY <1>1, <1>2 DEF AloneIInv

LEMMA AloneInit == Init => AloneIInv
<1> SUFFICES ASSUME Init PROVE AloneIInv
    OBVIOUS
<1>1. Shape
    BY InitIInv DEF IInv
<1>2. FlowTypes
    BY ReaderAssumption DEF Init, FlowTypes, Blank
<1>3. \A f \in Files : FlowInv(f)
    BY ReaderAssumption DEF Init, FlowInv
<1>4. \A f \in Files : AloneInv(f)
    BY DEF Init, AloneInv, ReadsItsOwn, Holding
<1> QED
    BY <1>1, <1>2, <1>3, <1>4 DEF AloneIInv

LEMMA AloneOpens ==
    ASSUME AloneIInv, Shape', NEW f \in Files, StartOpen(f) \/ SetDocument(f) \/ CannotOpen(f) \/ Opened(f)
    PROVE  AloneIInv'
<1> USE DEF AloneIInv
<1>1. CASE StartOpen(f)
    <2> USE <1>1 DEF StartOpen, CloseDocument, Suspend, client
    <2>1. FlowTypes'
        BY DEF FlowTypes
    <2>2. Others(f)
        BY DEF Others, Shape
    <2>3. FlowInv(f)'
        BY DEF FlowInv, Shape, PagesRead
    <2>4. f \notin disturbed' => AloneInv(f)'
        BY DEF AloneInv, ReadsItsOwn, FlowInv, Shape, Disturb
    <2> QED
        BY <2>1, <2>2, <2>3, <2>4, OthersKeep
<1>2. CASE SetDocument(f)
    <2> USE <1>2 DEF SetDocument, Suspend, client
    <2>1. FlowTypes'
        BY DEF FlowTypes, Document, Shape
    <2>2. Others(f)
        BY DEF Others, Shape
    <2>3. FlowInv(f)'
        BY DEF FlowInv, Shape, PagesRead
    <2>4. f \notin disturbed' => AloneInv(f)'
        BY DEF AloneInv, ReadsItsOwn, FlowInv, Shape, Disturb, Document
    <2> QED
        BY <2>1, <2>2, <2>3, <2>4, OthersKeep
<1>3. ASSUME NEW why, OpeningRejects(f, why), step[f] \in {"importing", "loading"},
             f \notin disturbed => why # "document",
             UNCHANGED live \/ live' = live \ {Document(f)}
      PROVE  AloneIInv'
    <2> USE <1>3 DEF OpeningRejects, Return, Suspend, Goto, Fail
    <2>1. FlowTypes'
        BY DEF FlowTypes
    <2>2. Others(f)
        BY DEF Others, Shape, FlowTypes
    <2>3. FlowInv(f)'
        BY DEF FlowInv, Shape, FlowTypes, PagesRead
    <2>4. f \notin disturbed' => AloneInv(f)'
        BY DEF AloneInv, ReadsItsOwn, Shape, FlowTypes, FlowInv, Holding, LoadRejected
    <2> QED
        BY <2>1, <2>2, <2>3, <2>4, OthersKeep
<1>4. CASE CannotOpen(f)
    BY <1>3, <1>4 DEF CannotOpen
<1>5. CASE Opened(f) /\ Document(f) \notin live
    <2>1. f \in disturbed
        BY <1>5 DEF Opened, AloneInv, FlowInv, Holding, LoadRejected
    <2> QED
        BY <1>3, <1>5, <2>1 DEF Opened
<1>6. CASE Opened(f) /\ Document(f) \in live
    <2> USE <1>6 DEF Opened, Return, Suspend, Goto, worker
    <2>1. FlowTypes'
        BY DEF FlowTypes
    <2>2. Others(f)
        BY DEF Others, Shape, FlowTypes
    <2>3. FlowInv(f)'
        BY DEF FlowInv, Shape, FlowTypes, PagesRead
    <2>4. ASSUME f \notin disturbed' PROVE AloneInv(f)'
        <3>1. AloneInv(f) /\ Holding(f) /\ current = Document(f)
            BY <2>4 DEF AloneInv, FlowInv, Holding, LoadRejected
        <3>2. /\ UNCHANGED <<current, live, cause, layout, read, opens>>
              /\ step'[f] = "idle" /\ pc'[f] \in {"parse", "read"}
              /\ pc'[f] = "parse" => detector'[f] = "open"
            BY DEF FlowInv, Shape
        <3>3. ReadsItsOwn(f)'
            BY <3>1, <3>2 DEF AloneInv, ReadsItsOwn
        <3> QED
            BY <3>1, <3>2, <3>3 DEF AloneInv, Document, LoadRejected
    <2> QED
        BY <2>1, <2>2, <2>3, <2>4, OthersKeep
<1> QED
    BY <1>1, <1>2, <1>4, <1>5, <1>6

LEMMA AloneRenders ==
    ASSUME AloneIInv, Shape', NEW f \in Files, DetectLayout(f) \/ RecognizePage(f)
    PROVE  AloneIInv'
<1> USE DEF AloneIInv, StartRender, Suspend, client, worker
<1>1. /\ StartRender(f) /\ step[f] = "idle"
      /\ \/ pc[f] = "parse" /\ left[f] # {} /\ detector[f] = "open"
         \/ pc[f] = "regions"
         \/ pc[f] = "read" /\ left[f] # {}
    BY DEF DetectLayout, AsksLayout, RecognizePage, At
<1>2. Others(f)
    BY <1>1 DEF Others, Shape, FlowTypes
<1>3. FlowInv(f)'
    BY <1>1 DEF FlowInv, Shape, FlowTypes, PagesRead
<1>4. ASSUME f \notin disturbed' PROVE AloneInv(f)' /\ current = Document(f)
    <2>1. AloneInv(f) /\ Holding(f) /\ current = Document(f) /\ Document(f) \in live
        BY <1>1, <1>4 DEF AloneInv, Holding, LoadRejected
    <2> QED
        BY <1>1, <2>1 DEF AloneInv, ReadsItsOwn, Shape, FlowTypes, Document
<1>5. FlowTypes'
    BY <1>1 DEF FlowTypes
<1> QED
    BY <1>2, <1>3, <1>4, <1>5, OthersKeep

\* A page is ordered or cut by the regions found: those of its own file, or none.
LEMMA AloneRegions ==
    ASSUME AloneIInv, Shape', NEW f \in Files, NEW r \in Files \cup {None}, UseRegions(f, {r}),
           left[f] # {}, step[f] # "importing", f \notin disturbed => r \in {f, None}
    PROVE  AloneIInv'
<1> USE DEF AloneIInv, UseRegions, Return, Suspend, Goto
<1>1. FlowTypes'
    BY DEF FlowTypes, Blank, worker
<1>2. Others(f)
    BY DEF Others, Shape, FlowTypes, worker
<1>3. Next1(f) \in left[f]
    BY NextIsLeft
<1>4. FlowInv(f)'
    <2>1. CASE pc[f] = "parse"
        BY <2>1 DEF FlowInv, Shape, FlowTypes, PagesRead
    <2>2. CASE pc[f] = "regions"
        <3>1. PagesRead(f)' = PagesRead(f) \cup {Next1(f)}
            <4> DEFINE new == [page : {Next1(f)}, image : {page[f].image},
                               native : {page[f].native}, regions : {r}]
            <4>1. read'[f] = read[f] \cup new
                BY <2>2 DEF FlowTypes
            <4>2. \A b \in new : b.page = Next1(f)
                OBVIOUS
            <4>3. [page |-> Next1(f), image |-> page[f].image,
                   native |-> page[f].native, regions |-> r] \in new
                OBVIOUS
            <4> QED
                <5> HIDE DEF new
                <5> QED BY <4>1, <4>2, <4>3 DEF PagesRead
        <3>2. left'[f] = left[f] \ {Next1(f)} /\ pc'[f] = "read" /\ step'[f] = "idle"
            BY <2>2 DEF FlowTypes, Shape
        <3> QED
            BY <1>3, <2>2, <3>1, <3>2 DEF FlowInv
    <2> QED
        BY <2>1, <2>2
<1>5. ASSUME f \notin disturbed' PROVE AloneInv(f)'
    <2>1. f \notin disturbed /\ UNCHANGED <<current, live, opens, detector, cause>>
        BY <1>5 DEF worker
    <2>2. AloneInv(f) /\ Document(f)' = Document(f) /\ (Holding(f)' => Holding(f))
        BY <2>1 DEF Holding, Document, Shape
    <2>3. ReadsItsOwn(f)'
        BY <2>1, <2>2 DEF AloneInv, ReadsItsOwn, FlowTypes
    <2>4. step'[f] = "idle" /\ pc'[f] # "regions" /\ (LoadRejected(f)' <=> LoadRejected(f))
        BY <2>1 DEF Shape, LoadRejected
    <2> QED
        BY <2>1, <2>2, <2>3, <2>4 DEF AloneInv
<1> QED
    BY <1>1, <1>2, <1>4, <1>5, OthersKeep

\* A recognition rejects: for want of the document only when disturbed.
LEMMA AloneFails ==
    ASSUME AloneIInv, Shape', NEW f \in Files, NEW why, ReadFails(f, why), pc[f] = "read",
           f \notin disturbed => why # "document"
    PROVE  AloneIInv'
<1> USE DEF AloneIInv, ReadFails, Goto, Return, Suspend, worker
<1>1. FlowTypes'
    BY DEF FlowTypes, Blank
<1>2. Others(f)
    BY DEF Others, Shape, FlowTypes
<1>3. FlowInv(f)'
    BY DEF FlowInv, Shape, FlowTypes
<1>4. f \notin disturbed' => AloneInv(f)'
    BY DEF AloneInv, ReadsItsOwn, FlowTypes, FlowInv, Shape, Holding, LoadRejected, Document
<1> QED
    BY <1>1, <1>2, <1>3, <1>4, OthersKeep

LEMMA AloneAnswers ==
    ASSUME AloneIInv, Shape', NEW f \in Files,
           RenderForLayout(f) \/ Analyse(f) \/ NoLayout(f)
    PROVE  AloneIInv'
<1> USE DEF AloneIInv
<1>1. CASE RenderForLayout(f)
    <2>1. left[f] # {}
        BY <1>1 DEF RenderForLayout, FlowInv
    <2>2. CASE ~Has(held[f], Next1(f))
        BY <1>1, <2>1, <2>2, AloneRegions DEF RenderForLayout
    <2>3. CASE Has(held[f], Next1(f))
        <3> USE <1>1, <2>3 DEF RenderForLayout, Suspend, client, worker
        <3>1. FlowTypes' /\ Others(f)
            BY DEF FlowTypes, Others, Shape
        <3>2. FlowInv(f)'
            BY DEF FlowInv, Shape, PagesRead
        <3>3. f \notin disturbed' => AloneInv(f)'
            BY DEF AloneInv, ReadsItsOwn, Shape, Holding, Document, LoadRejected
        <3> QED
            BY <3>1, <3>2, <3>3, OthersKeep
    <2> QED
        BY <2>2, <2>3
<1>2. CASE Analyse(f)
    <2>1. left[f] # {} /\ held[f] \in Files \X Nat
        BY <1>2 DEF Analyse, FlowInv, FlowTypes
    <2>2. PICK r \in {held[f][1], None} : UseRegions(f, {r})
        BY <1>2 DEF Analyse
    <2>3. f \notin disturbed => held[f][1] = f
        BY <1>2, HasItsPage DEF Analyse
    <2> QED
        BY <1>2, <2>1, <2>2, <2>3, AloneRegions DEF Analyse
<1>3. CASE NoLayout(f)
    <2>1. left[f] # {}
        BY <1>3 DEF NoLayout, AsksLayout, At, FlowInv
    <2> QED
        BY <1>3, <2>1, AloneRegions DEF NoLayout, AsksLayout, At
<1> QED
    BY <1>1, <1>2, <1>3

LEMMA AloneReads ==
    ASSUME AloneIInv, Shape', NEW f \in Files,
           NothingToRead(f) \/ RenderForReading(f) \/ Recognise(f)
    PROVE  AloneIInv'
<1> USE DEF AloneIInv
<1>1. CASE NothingToRead(f)
    <2>1. f \in disturbed
        <3>1. Document(f) # None
            BY ReaderAssumption DEF Document, Shape
        <3> QED
            BY <1>1, <3>1 DEF NothingToRead, At, AloneInv, Holding, LoadRejected
    <2> QED
        BY <1>1, <2>1, AloneFails DEF NothingToRead, At
<1>2. CASE RenderForReading(f)
    <2>1. CASE ~Has(held[f], Next1(f))
        <3>1. f \in disturbed
            BY <1>2, <2>1, HasItsPage DEF RenderForReading
        <3> QED
            BY <1>2, <2>1, <3>1, AloneFails DEF RenderForReading
    <2>2. CASE Has(held[f], Next1(f))
        <3> USE <1>2, <2>2 DEF RenderForReading, Suspend, client, worker
        <3>1. FlowTypes'
            <4>1. held[f][1] \in Files
                BY DEF FlowTypes, FlowInv
            <4>2. page' \in [Files -> [image : Files \cup {None}, native : Files \cup {None}]]
                BY <4>1 DEF FlowTypes
            <4> QED
                BY <4>2 DEF FlowTypes
        <3>2. Others(f)
            <4>1. /\ UNCHANGED <<pc, left, detector, opens, layout, read, cause>>
                  /\ UNCHANGED <<current, live, disturbed>>
                OBVIOUS
            <4>2. \A g \in Files \ {f} :
                      step'[g] = step[g] /\ held'[g] = held[g] /\ page'[g] = page[g]
                BY DEF Shape, FlowTypes
            <4> HIDE <1>2, <2>2
            <4> QED
                BY <4>1, <4>2 DEF Others
        <3>3. FlowInv(f)'
            BY DEF FlowInv, Shape, PagesRead
        <3>4. ASSUME f \notin disturbed' PROVE AloneInv(f)'
            <4>1. held[f][1] = f /\ AloneInv(f) /\ current = Document(f)
                BY <3>4, HasItsPage DEF AloneInv, Holding, LoadRejected
            <4>2. page'[f].image = f /\ held'[f] = Document(f)
                BY <4>1 DEF FlowTypes
            <4> QED
                BY <4>1, <4>2 DEF AloneInv, ReadsItsOwn, Shape, Holding, Document, LoadRejected
        <3> QED
            BY <3>1, <3>2, <3>3, <3>4, OthersKeep
    <2> QED
        BY <2>1, <2>2
<1>3. CASE Recognise(f)
    <2>1. CASE ReadFails(f, "model")
        BY <1>3, <2>1, AloneFails DEF Recognise, Shape
    <2>2. CASE ~ReadFails(f, "model")
        <3> USE <1>3, <2>2 DEF Recognise, Return, Suspend, Goto, worker
        <3>1. FlowTypes'
            <4>1. held[f] # None => held[f][1] \in Files
                BY DEF FlowTypes
            <4>2. page' \in [Files -> [image : Files \cup {None}, native : Files \cup {None}]]
                BY <4>1 DEF FlowTypes
            <4> QED
                BY <4>2 DEF FlowTypes
        <3>2. Others(f)
            BY DEF Others, Shape, FlowTypes
        <3>3. FlowInv(f)'
            BY DEF FlowInv, Shape, PagesRead
        <3>4. ASSUME f \notin disturbed' PROVE AloneInv(f)'
            <4>1. held[f][1] = f /\ AloneInv(f) /\ current = Document(f) /\ Document(f) \in live
                BY <3>4, HasItsPage DEF AloneInv, Holding, FlowInv, LoadRejected
            <4>2. page'[f].image = f /\ page'[f].native \in {f, None}
                BY <4>1 DEF FlowTypes, AloneInv
            <4> QED
                BY <4>1, <4>2 DEF AloneInv, ReadsItsOwn, Shape, Holding, Document, LoadRejected
        <3> QED
            BY <3>1, <3>2, <3>3, <3>4, OthersKeep
    <2> QED
        BY <2>1, <2>2
<1> QED
    BY <1>1, <1>2, <1>3

LEMMA AlonePasses ==
    ASSUME AloneIInv, Shape', NEW f \in Files, Begin(f) \/ Gone(f) \/ CloseFailed(f) \/ ParseEnds(f) \/ ReadEnds(f)
    PROVE  AloneIInv'
<1> USE DEF AloneIInv
<1>1. CASE Begin(f)
    <2> USE <1>1 DEF Begin, Goto, call
    <2>1. FlowTypes'
        BY ReaderAssumption DEF FlowTypes
    <2>2. Others(f)
        BY DEF Others, Shape, FlowTypes
    <2>3. FlowInv(f)' /\ cause[f] = "none" /\ read[f] = {}
        <3>1. FlowInv(f) /\ cause[f] = "none" /\ read[f] = {}
            BY DEF FlowInv
        <3>2. pc'[f] = "parse" /\ left'[f] \subseteq 1..Pages[f]
            BY ReaderAssumption DEF Shape, FlowTypes
        <3>3. step'[f] = step[f] /\ read'[f] = {} /\ cause'[f] = "none" /\ step[f] = "idle"
            BY <3>1 DEF Shape
        <3> QED
            BY <3>2, <3>3 DEF FlowInv
    <2>4. AloneInv(f)'
        BY <2>3 DEF AloneInv, ReadsItsOwn, Shape, FlowTypes, Holding
    <2> QED
        BY <2>1, <2>2, <2>3, <2>4, OthersKeep
<1>2. CASE Gone(f)
    <2> USE <1>2 DEF Gone, Fail, Goto, call, worker
    <2>1. FlowTypes'
        BY DEF FlowTypes
    <2>2. Others(f)
        BY DEF Others, Shape, FlowTypes
    <2>3. FlowInv(f)'
        BY DEF FlowInv, Shape, FlowTypes
    <2>4. f \notin disturbed' => AloneInv(f)'
        BY DEF AloneInv, ReadsItsOwn, Shape, FlowTypes, Holding
    <2> QED
        BY <2>1, <2>2, <2>3, <2>4, OthersKeep
<1>3. CASE ParseEnds(f)
    <2> USE <1>3 DEF ParseEnds, At, Goto, call
    <2>1. FlowTypes'
        BY ReaderAssumption DEF FlowTypes, worker, CloseDocument
    <2>2. Others(f)
        BY DEF Others, Shape, FlowTypes, worker, CloseDocument
    <2>3. FlowInv(f)'
        <3>1. /\ left' = [left EXCEPT ![f] = Scanned[f]] /\ UNCHANGED <<read, cause, step, held>>
              /\ pc[f] = "parse" /\ step[f] = "idle" /\ pc'[f] \in {"queued", "scan"}
            BY DEF Shape
        <3>2. left'[f] = Scanned[f] /\ Scanned[f] \subseteq 1..Pages[f]
            BY <3>1, ReaderAssumption DEF FlowTypes
        <3>3. read'[f] = {} /\ cause'[f] = "none" /\ PagesRead(f)' = {}
            BY <3>1 DEF FlowInv, PagesRead
        <3> HIDE <1>3
        <3> QED
            BY <3>1, <3>2, <3>3 DEF FlowInv
    <2>4. f \notin disturbed' => AloneInv(f)'
        BY DEF AloneInv, ReadsItsOwn, Shape, FlowTypes, Holding, worker, CloseDocument, Disturb
    <2> QED
        BY <2>1, <2>2, <2>3, <2>4, OthersKeep
<1>4. CASE ReadEnds(f)
    <2> USE <1>4 DEF ReadEnds, At, Goto, call
    <2>1. FlowTypes'
        BY DEF FlowTypes, worker, CloseDocument
    <2>2. Others(f)
        BY DEF Others, Shape, worker, CloseDocument
    <2>3. FlowInv(f)'
        BY DEF FlowInv, Shape, PagesRead
    <2>4. f \notin disturbed' => AloneInv(f)'
        BY DEF AloneInv, ReadsItsOwn, Shape, Holding, worker, CloseDocument, Disturb
    <2> QED
        BY <2>1, <2>2, <2>3, <2>4, OthersKeep
<1>5. CASE CloseFailed(f)
    <2> USE <1>5 DEF CloseFailed, At, Goto, call, CloseDocument
    <2>1. FlowTypes'
        BY DEF FlowTypes
    <2>2. Others(f)
        BY DEF Others, Shape
    <2>3. FlowInv(f)'
        BY DEF FlowInv, Shape, PagesRead
    <2>4. f \notin disturbed' => AloneInv(f)'
        BY DEF AloneInv, ReadsItsOwn, Shape, Holding, Disturb
    <2> QED
        BY <2>1, <2>2, <2>3, <2>4, OthersKeep
<1> QED
    BY <1>1, <1>2, <1>3, <1>4, <1>5

LEMMA AloneNext == IInv /\ AloneIInv /\ [Next]_vars => AloneIInv'
<1> SUFFICES ASSUME IInv, AloneIInv, [Next]_vars PROVE AloneIInv'
    OBVIOUS
<1>1. Shape'
    BY NextIInv DEF IInv
<1>2. CASE UNCHANGED vars
    BY <1>2 DEF vars, client, worker, call, AloneIInv, Shape, FlowTypes, FlowInv, PagesRead, AloneInv,
                ReadsItsOwn, Holding, LoadRejected, Document
<1>3. CASE ChainAdvances
    BY <1>3 DEF ChainAdvances, worker, call, AloneIInv, Shape, FlowTypes, FlowInv, PagesRead, AloneInv,
                ReadsItsOwn, Holding, LoadRejected, Document
<1>4. ASSUME NEW f \in Files, Begin(f) \/ Gone(f) \/ Pass(f) PROVE AloneIInv'
    BY <1>1, <1>4, AloneOpens, AloneRenders, AloneAnswers, AloneReads, AlonePasses DEF Pass
<1> QED
    BY <1>2, <1>3, <1>4 DEF Next

(* A pass that no other pass disturbs reads its own file, all of it, and    *)
(* does not fail for want of the document, for any number of files, pages   *)
(* and passes that went before it (ocrPages, parseWithLayout).              *)
THEOREM AloneIsExact == Spec => []AloneReadsItsFile
<1>1. AloneIInv => AloneReadsItsFile
    BY DEF AloneIInv, AloneInv, ReadsItsOwn, FlowInv, PagesRead, AloneReadsItsFile
<1>2. Init => IInv
    BY InitIInv
<1>3. IInv /\ [Next]_vars => IInv'
    BY NextIInv
<1> QED
    BY <1>1, <1>2, <1>3, AloneInit, AloneNext, PTL DEF Spec

-----------------------------------------------------------------------------
(***************************************************************************)
(* Lists taken apart: the elements at some positions, in order.            *)
(***************************************************************************)
LEMMA PartOfInterval ==
    ASSUME NEW n \in Nat, NEW at \in SUBSET (1 .. n)
    PROVE  IsFiniteSet(at) /\ Cardinality(at) \in 0 .. n
<1>1. IsFiniteSet(1 .. n) /\ Cardinality(1 .. n) = n
    BY FS_Interval
<1>2. IsFiniteSet(at) /\ Cardinality(at) <= n
    BY <1>1, FS_Subset
<1>3. Cardinality(at) \in Nat
    BY <1>2, FS_CardinalityType
<1> QED
    BY <1>2, <1>3

\* Counting the positions up to each one of them meets every number.
LEMMA CountedPosition ==
    ASSUME NEW n \in Nat, NEW at \in SUBSET (1 .. n), NEW k \in 1 .. Cardinality(at)
    PROVE  \E i \in at : Cardinality({j \in at : j <= i}) = k
<1> DEFINE upTo(i) == {j \in at : j <= i}
           count   == [i \in at |-> Cardinality(upTo(i))]
<1>1. IsFiniteSet(at) /\ Cardinality(at) \in Nat
    BY PartOfInterval
<1>2. ASSUME NEW i \in at PROVE IsFiniteSet(upTo(i)) /\ Cardinality(upTo(i)) \in 1 .. Cardinality(at)
  <2>1. IsFiniteSet(upTo(i)) /\ Cardinality(upTo(i)) <= Cardinality(at) /\ Cardinality(upTo(i)) \in Nat
    <3>1. upTo(i) \in SUBSET at
        OBVIOUS
    <3> HIDE DEF upTo
    <3> QED
        BY <1>1, <3>1, FS_Subset, FS_CardinalityType
  <2>2. Cardinality(upTo(i)) # 0
    <3>1. i \in upTo(i)
        OBVIOUS
    <3> HIDE DEF upTo
    <3> QED
        BY <2>1, <3>1, FS_EmptySet
  <2> QED
    BY <1>1, <2>1, <2>2
<1>3. ASSUME NEW i \in at, NEW j \in at, i < j PROVE count[i] # count[j]
  <2>0. \A x \in at : x \in Int
    OBVIOUS
  <2>1. upTo(i) \in SUBSET upTo(j)
    <3>1. ASSUME NEW x \in at, x <= i PROVE x <= j
        BY <1>3, <2>0, <3>1
    <3> QED
        BY <3>1
  <2>2. j \in upTo(j) /\ j \notin upTo(i)
    BY <1>3, <2>0
  <2> HIDE DEF upTo
  <2>3. Cardinality(upTo(i)) # Cardinality(upTo(j))
    BY <1>2, <2>1, <2>2, FS_Subset
  <2> QED
    BY <2>3
<1>4. count \in Injection(at, 1 .. Cardinality(at))
  <2>1. count \in [at -> 1 .. Cardinality(at)]
    BY <1>2
  <2>2. \A i, j \in at : i # j => i < j \/ j < i
    OBVIOUS
  <2> HIDE DEF count
  <2> QED
    BY <1>3, <2>1, <2>2 DEF Injection, IsInjective
<1>5. IsFiniteSet(1 .. Cardinality(at)) /\ Cardinality(1 .. Cardinality(at)) = Cardinality(at)
    BY <1>1, FS_Interval
<1>6. count \in Surjection(at, 1 .. Cardinality(at))
  <2> HIDE DEF count
  <2> QED
    BY <1>4, <1>5, FS_Injection
<1> QED
    BY <1>6 DEF Surjection

LEMMA PickedIsAList ==
    ASSUME NEW S, NEW list \in Seq(S), NEW at \in SUBSET DOMAIN list
    PROVE  Picked(list, at) \in Seq(S)
<1>1. DOMAIN list = 1 .. Len(list) /\ Len(list) \in Nat
    BY LenProperties
<1>2. Cardinality(at) \in Nat
    BY <1>1, PartOfInterval
<1> DEFINE place(k) == CHOOSE i \in at : Cardinality({j \in at : j <= i}) = k
<1>3. \A k \in 1 .. Cardinality(at) : place(k) \in at
    BY <1>1, CountedPosition
<1>4. \A k \in 1 .. Cardinality(at) : list[place(k)] \in S
  <2> HIDE DEF place
  <2> QED
    BY <1>1, <1>3, ElementOfSeq
<1>5. Picked(list, at) = [k \in 1 .. Cardinality(at) |-> list[place(k)]]
    BY DEF Picked
<1> HIDE DEF place
<1> QED
    BY <1>2, <1>4, <1>5

\* A prefix of a list has as many positions as its length.
LEMMA CountedPrefix ==
    ASSUME NEW n \in Nat, NEW at \in SUBSET (1 .. n), \A i \in at : 1 .. i \subseteq at
    PROVE  Cardinality(at) \in 0 .. n /\ 1 .. Cardinality(at) \subseteq at
<1>1. IsFiniteSet(at) /\ Cardinality(at) \in 0 .. n
    BY PartOfInterval
<1>2. ASSUME NEW i \in 1 .. Cardinality(at), i \notin at PROVE FALSE
  <2>1. at \in SUBSET (1 .. i - 1)
    BY <1>2
  <2>2. Cardinality(at) \in 0 .. i - 1
    BY <1>1, <2>1, PartOfInterval
  <2> QED
    BY <1>1, <2>2
<1> QED
    BY <1>1, <1>2
-----------------------------------------------------------------------------
(***************************************************************************)
(* The cache: every entry is the vector of a text of its key, and of the   *)
(* model that was resolved.                                                *)
(***************************************************************************)
Resolved == {embedder} \cap Models
Kept == {[key |-> KeyOf[t], vector |-> [text |-> t, model |-> m]] : t \in Texts, m \in Resolved}

\* A vector for this question.
Answering(key, v) == v.text \in Texts /\ KeyOf[v.text] = key /\ v.model \in Resolved

LEMMA VectorAnswers ==
    ASSUME NEW list \in Seq(Kept), NEW key \in Keys(list)
    PROVE  /\ [key |-> key, vector |-> Vector(list, key)] \in Kept
           /\ Answering(key, Vector(list, key))
<1>1. \A entry \in ToSet(list) : entry \in Kept
    BY LenProperties, ElementOfSeq DEF ToSet
<1>2. \E entry \in ToSet(list) : entry.key = key
    BY DEF Keys
<1>3. PICK entry \in ToSet(list) : entry.key = key /\ Vector(list, key) = entry.vector
    BY <1>2 DEF Vector
<1>4. PICK t \in Texts, m \in Resolved :
          entry = [key |-> KeyOf[t], vector |-> [text |-> t, model |-> m]]
    BY <1>1 DEF Kept
<1>5. key = KeyOf[t] /\ Vector(list, key) = [text |-> t, model |-> m]
    BY <1>3, <1>4
<1> QED
    BY <1>5 DEF Kept, Answering

LEMMA MissingIsAList ==
    ASSUME NEW texts \in Seq(Texts), NEW list
    PROVE  Missing(texts, list) \in Seq(Texts)
<1> DEFINE isNew(i) == KeyOf[texts[i]] \notin Keys(list) \cup {KeyOf[texts[j]] : j \in 1 .. i - 1}
<1>1. {i \in DOMAIN texts : isNew(i)} \in SUBSET DOMAIN texts
    OBVIOUS
<1> HIDE DEF isNew
<1>2. Picked(texts, {i \in DOMAIN texts : isNew(i)}) \in Seq(Texts)
    BY <1>1, PickedIsAList
<1> QED
    BY <1>2 DEF Missing, isNew

LEMMA StoredAreKept ==
    ASSUME NEW list \in Seq(Kept), NEW missing \in Seq(Texts), NEW texts, embedder \in Models
    PROVE  Stored(list, missing, texts, Vectors(missing, embedder)) \in Seq(Kept)
<1> DEFINE new == Entries(missing, Vectors(missing, embedder))
           placed(i) == [key |-> list[i].key,
                         vector |-> IF list[i].key \in Keys(new) THEN Vector(new, list[i].key)
                                    ELSE list[i].vector]
           fresh == {i \in DOMAIN new : new[i].key \notin Keys(list)}
<1>1. new \in Seq(Kept)
  <2>1. DOMAIN missing = 1 .. Len(missing) /\ Len(missing) \in Nat
    BY LenProperties
  <2>2. \A i \in 1 .. Len(missing) : missing[i] \in Texts
    BY ElementOfSeq
  <2>3. new = [i \in 1 .. Len(missing) |->
                  [key |-> KeyOf[missing[i]], vector |-> [text |-> missing[i], model |-> embedder]]]
    BY <2>1 DEF Entries, Vectors
  <2>4. \A i \in 1 .. Len(missing) :
           [key |-> KeyOf[missing[i]], vector |-> [text |-> missing[i], model |-> embedder]] \in Kept
    BY <2>2 DEF Kept, Resolved
  <2> QED
    BY <2>1, <2>3, <2>4
<1> HIDE DEF new
<1>2. DOMAIN list = 1 .. Len(list) /\ Len(list) \in Nat
    BY LenProperties
<1>3. ASSUME NEW i \in 1 .. Len(list) PROVE placed(i) \in Kept
  <2>1. list[i] \in Kept
    BY ElementOfSeq
  <2>2. PICK t \in Texts, m \in Resolved :
            list[i] = [key |-> KeyOf[t], vector |-> [text |-> t, model |-> m]]
    BY <2>1 DEF Kept
  <2>3. list[i] = [key |-> list[i].key, vector |-> list[i].vector]
    BY <2>2
  <2>4. CASE list[i].key \in Keys(new)
    BY <1>1, <2>4, VectorAnswers
  <2>5. CASE list[i].key \notin Keys(new)
    BY <2>1, <2>3, <2>5
  <2> QED
    BY <2>4, <2>5
<1>4. [i \in 1 .. Len(list) |-> placed(i)] \in Seq(Kept)
  <2> HIDE DEF placed
  <2> QED
    BY <1>2, <1>3
<1>5. Picked(new, fresh) \in Seq(Kept)
    BY <1>1, PickedIsAList
<1>6. Stored(list, missing, texts, Vectors(missing, embedder)) =
          [i \in 1 .. Len(list) |-> placed(i)] \o Picked(new, fresh)
    BY <1>2 DEF Stored, Put, new
<1> HIDE DEF placed, fresh
<1> QED
    BY <1>4, <1>5, <1>6, ConcatProperties

LEMMA TouchedAreKept ==
    ASSUME NEW list \in Seq(Kept), NEW texts \in Seq(Texts),
           \A i \in 1 .. Len(texts) : KeyOf[texts[i]] \in Keys(list)
    PROVE  Touched(list, texts) \in Seq(Kept)
<1> DEFINE found == [i \in DOMAIN texts |-> Vector(list, KeyOf[texts[i]])]
           old   == {i \in DOMAIN list : list[i].key \notin {KeyOf[t] : t \in ToSet(texts)}}
           last  == {i \in DOMAIN texts : \A j \in i + 1 .. Len(texts) : KeyOf[texts[j]] # KeyOf[texts[i]]}
<1>1. DOMAIN texts = 1 .. Len(texts) /\ Len(texts) \in Nat
    BY LenProperties
<1>2. Entries(texts, found) = [i \in 1 .. Len(texts) |->
          [key |-> KeyOf[texts[i]], vector |-> Vector(list, KeyOf[texts[i]])]]
    BY <1>1 DEF Entries
<1>3. \A i \in 1 .. Len(texts) :
         [key |-> KeyOf[texts[i]], vector |-> Vector(list, KeyOf[texts[i]])] \in Kept
    BY VectorAnswers
<1>4. Entries(texts, found) \in Seq(Kept) /\ DOMAIN Entries(texts, found) = DOMAIN texts
    BY <1>1, <1>2, <1>3
<1>5. Picked(list, old) \in Seq(Kept)
    BY PickedIsAList
<1>6. Picked(Entries(texts, found), last) \in Seq(Kept)
  <2>1. last \in SUBSET DOMAIN Entries(texts, found)
    BY <1>4
  <2> HIDE DEF found, last
  <2> QED
    BY <1>4, <2>1, PickedIsAList
<1>7. Touched(list, texts) = Picked(list, old) \o Picked(Entries(texts, found), last)
    BY DEF Touched
<1> HIDE DEF found, old, last
<1> QED
    BY <1>5, <1>6, <1>7, ConcatProperties

LEMMA EvictedAreKept ==
    ASSUME NEW list \in Seq(Kept)
    PROVE  Evicted(list) \in Seq(Kept)
<1>1. DOMAIN list = 1 .. Len(list) /\ Len(list) \in Nat /\ MaxEntries \in Nat
    BY LenProperties, EmbeddingAssumption
<1> DEFINE from == 1 + (IF Len(list) > MaxEntries THEN Len(list) - MaxEntries ELSE 0)
<1>2. from \in Nat \ {0}
    BY <1>1
<1>3. Evicted(list) = SubSeq(list, from, Len(list))
    BY DEF Evicted
<1> HIDE DEF from
<1>4. \A i \in from .. Len(list) : list[i] \in Kept
    BY <1>1, <1>2, ElementOfSeq
<1> QED
    BY <1>1, <1>2, <1>3, <1>4, SubSeqProperties

\* Given a list of entries, a call ends with the vectors of its texts or with
\* an error, and leaves entries only.
Exact(r) ==
    /\ DOMAIN r.found = DOMAIN r.texts
    /\ \A i \in DOMAIN r.texts : Answering(KeyOf[r.texts[i]], r.found[i])

LEMMA CollectedAreKept ==
    ASSUME NEW a, NEW list \in Seq(Kept), NEW texts \in Seq(Texts), Collect(a, list, texts)
    PROVE  /\ vectors' \in Seq(Kept)
           /\ asking' = [asking EXCEPT ![a] = Idle]
           /\ \E r : results' = [results EXCEPT ![a] = r] /\ (r = Error \/ Exact(r))
<1> DEFINE met   == {i \in DOMAIN texts : \A j \in 1 .. i : KeyOf[texts[j]] \in Keys(list)}
           there == Cardinality(met)
           touched == Touched(list, SubSeq(texts, 1, there))
<1>1. DOMAIN texts = 1 .. Len(texts) /\ Len(texts) \in Nat
    BY LenProperties
<1>2. there \in 0 .. Len(texts) /\ 1 .. there \subseteq met
  <2>1. met \in SUBSET (1 .. Len(texts))
    BY <1>1
  <2>2. \A i \in met : 1 .. i \subseteq met
    BY <1>1
  <2> HIDE DEF met
  <2> QED
    BY <1>1, <2>1, <2>2, CountedPrefix
<1>3. \A i \in 1 .. there : KeyOf[texts[i]] \in Keys(list)
    BY <1>2
<1>4. /\ vectors' = IF there = Len(texts) THEN Evicted(touched) ELSE touched
      /\ results' = [results EXCEPT ![a] =
             IF there = Len(texts)
             THEN [texts |-> texts, found |-> [i \in DOMAIN texts |-> Vector(list, KeyOf[texts[i]])]]
             ELSE Error]
      /\ asking' = [asking EXCEPT ![a] = Idle]
    BY DEF Collect
<1> HIDE DEF there
<1>5. touched \in Seq(Kept)
  <2> DEFINE part == SubSeq(texts, 1, there)
  <2>1. part \in Seq(Texts) /\ Len(part) = there /\ \A i \in 1 .. there : part[i] = texts[i]
    <3>1. \A i \in 1 .. there : texts[i] \in Texts
        BY <1>1, <1>2, ElementOfSeq
    <3>2. there \in Int
        BY <1>2
    <3>3. /\ part \in Seq(Texts)
          /\ Len(part) = IF 1 <= there THEN there - 1 + 1 ELSE 0
          /\ \A i \in 1 .. there - 1 + 1 : part[i] = texts[1 + i - 1]
        BY <3>1, <3>2, SubSeqProperties
    <3> HIDE DEF part
    <3>4. there \in Nat /\ there - 1 + 1 = there
        BY <1>2
    <3>5. \A i \in 1 .. there : part[i] = texts[i]
      <4>1. ASSUME NEW i \in 1 .. there PROVE 1 + i - 1 = i
        BY <3>4
      <4> QED
        BY <3>3, <3>4, <4>1
    <3>6. Len(part) = there
        BY <3>3, <3>4
    <3> QED
        BY <3>3, <3>5, <3>6
  <2> HIDE DEF part
  <2>2. Touched(list, part) \in Seq(Kept)
    BY <1>3, <2>1, TouchedAreKept
  <2> QED
    BY <2>2 DEF part
<1> HIDE DEF touched
<1>6. vectors' \in Seq(Kept)
    BY <1>4, <1>5, EvictedAreKept
<1>7. CASE there = Len(texts)
  <2> DEFINE r == [texts |-> texts, found |-> [i \in DOMAIN texts |-> Vector(list, KeyOf[texts[i]])]]
  <2>1. Exact(r)
    BY <1>1, <1>3, <1>7, VectorAnswers DEF Exact
  <2>2. results' = [results EXCEPT ![a] = r]
    BY <1>4, <1>7
  <2> HIDE DEF r
  <2> QED
    BY <1>4, <1>6, <2>1, <2>2
<1>8. CASE there # Len(texts)
    BY <1>4, <1>6, <1>8
<1> QED
    BY <1>7, <1>8
-----------------------------------------------------------------------------
(***************************************************************************)
(* Jobs: each is in one line, once, and its client awaits it.              *)
(***************************************************************************)
Clients  == Askers \cup Docs
AllTexts == Texts \cup (Docs \X Nat)
Job      == [by : Clients, texts : Seq(AllTexts)]
Stations == {"sent", "queries", "passages", "running", "answered"}

Senders(line) == {line[i].by : i \in DOMAIN line}
OneEach(line) == \A i, j \in DOMAIN line : line[i].by = line[j].by => i = j

InOrder(l) ==
    /\ l \in [Stations -> Seq(Job)]
    /\ \A s \in Stations : OneEach(l[s])
    /\ \A s, t \in Stations : s # t => Senders(l[s]) \cap Senders(l[t]) = {}

\* What its client sent, and still waits for.
Matches(j, ask, ind) ==
    IF j.by \in Askers
    THEN ask[j.by] # Idle /\ j.texts = ask[j.by].missing
    ELSE ind[j.by].at = "waiting" /\ j.texts = Batch(j.by, Len(ind[j.by].done), BatchSize)
Awaited(l, ask, ind) == \A s \in Stations : \A i \in DOMAIN l[s] : Matches(l[s][i], ask, ind)

LEMMA ShorterLine ==
    ASSUME NEW line \in Seq(Job), line # <<>>, OneEach(line)
    PROVE  /\ Head(line) \in Job /\ Head(line) = line[1] /\ 1 \in DOMAIN line
           /\ Tail(line) \in Seq(Job) /\ OneEach(Tail(line))
           /\ Senders(Tail(line)) = Senders(line) \ {Head(line).by}
           /\ \A i \in DOMAIN Tail(line) : i + 1 \in DOMAIN line /\ Tail(line)[i] = line[i + 1]
<1>1. Len(line) \in Nat \ {0} /\ DOMAIN line = 1 .. Len(line)
    BY EmptySeq, LenProperties
<1>2. /\ Head(line) \in Job /\ Head(line) = line[1]
      /\ Tail(line) \in Seq(Job) /\ Len(Tail(line)) = Len(line) - 1
      /\ \A i \in 1 .. Len(Tail(line)) : Tail(line)[i] = line[i + 1]
    BY HeadTailProperties
<1> DEFINE rest == Tail(line)
<1>3. DOMAIN rest = 1 .. Len(line) - 1
    BY <1>2, LenProperties
<1>4. \A i \in 1 .. Len(line) - 1 : rest[i] = line[i + 1] /\ i + 1 \in 1 .. Len(line)
    BY <1>1, <1>2
<1>5. \A i \in 1 .. Len(line) : i = 1 \/ (i - 1 \in 1 .. Len(line) - 1 /\ rest[i - 1] = line[i])
  <2>1. ASSUME NEW i \in 1 .. Len(line), i # 1 PROVE i - 1 \in 1 .. Len(line) - 1 /\ (i - 1) + 1 = i
    BY <1>1, <2>1
  <2> QED
    BY <1>4, <2>1
<1> HIDE DEF rest
<1>6. OneEach(rest)
  <2>1. ASSUME NEW i \in 1 .. Len(line) - 1, NEW j \in 1 .. Len(line) - 1, rest[i].by = rest[j].by
        PROVE  i = j
    <3>1. i + 1 = j + 1
        BY <1>1, <1>4, <2>1 DEF OneEach
    <3> QED
        BY <3>1
  <2> QED
    BY <1>3, <2>1 DEF OneEach
<1>7. Senders(rest) = Senders(line) \ {line[1].by}
  <2>1. ASSUME NEW i \in 1 .. Len(line) - 1
        PROVE  rest[i].by \in Senders(line) /\ rest[i].by # line[1].by
    <3>1. i + 1 # 1
        OBVIOUS
    <3>2. 1 \in 1 .. Len(line)
        BY <1>1
    <3> QED
        BY <1>1, <1>4, <3>1, <3>2 DEF OneEach, Senders
  <2>2. ASSUME NEW i \in 1 .. Len(line), line[i].by # line[1].by PROVE line[i].by \in Senders(rest)
    BY <1>3, <1>5, <2>2 DEF Senders
  <2> QED
    BY <1>1, <1>3, <2>1, <2>2 DEF Senders
<1>8. 1 \in DOMAIN line
    BY <1>1
<1> QED
    BY <1>1, <1>2, <1>3, <1>4, <1>6, <1>7, <1>8 DEF rest

LEMMA LongerLine ==
    ASSUME NEW line \in Seq(Job), NEW j \in Job, OneEach(line), j.by \notin Senders(line)
    PROVE  /\ Append(line, j) \in Seq(Job) /\ OneEach(Append(line, j))
           /\ Senders(Append(line, j)) = Senders(line) \cup {j.by}
           /\ \A i \in DOMAIN Append(line, j) :
                  Append(line, j)[i] = j \/ (i \in DOMAIN line /\ Append(line, j)[i] = line[i])
<1>1. Len(line) \in Nat /\ DOMAIN line = 1 .. Len(line)
    BY LenProperties
<1> DEFINE more == Append(line, j)
<1>2. /\ more \in Seq(Job) /\ Len(more) = Len(line) + 1
      /\ \A i \in 1 .. Len(line) : more[i] = line[i]
      /\ more[Len(line) + 1] = j
    BY AppendProperties
<1>3. DOMAIN more = 1 .. Len(line) + 1
    BY <1>2, LenProperties
<1> HIDE DEF more
<1>4. \A i \in 1 .. Len(line) + 1 : i \in 1 .. Len(line) \/ i = Len(line) + 1
    BY <1>1
<1>5. Len(line) + 1 \in 1 .. Len(line) + 1 /\ 1 .. Len(line) \subseteq 1 .. Len(line) + 1
    BY <1>1
<1>6. OneEach(more)
    BY <1>1, <1>2, <1>3, <1>4 DEF OneEach, Senders
<1>7. Senders(more) = Senders(line) \cup {j.by}
    BY <1>1, <1>2, <1>3, <1>4, <1>5 DEF Senders
<1> QED
    BY <1>1, <1>2, <1>3, <1>4, <1>6, <1>7 DEF more

\* From one line to the end of another.
Moved(l, s, t) == [l EXCEPT ![s] = Tail(l[s]), ![t] = Append(l[t], Head(l[s]))]

LEMMA MovedJobs ==
    ASSUME NEW l, NEW ask, NEW ind, InOrder(l), Awaited(l, ask, ind),
           NEW s \in Stations, NEW t \in Stations, s # t, l[s] # <<>>
    PROVE  InOrder(Moved(l, s, t)) /\ Awaited(Moved(l, s, t), ask, ind)
<1> DEFINE m == Moved(l, s, t)
           j == Head(l[s])
<1>1. l \in [Stations -> Seq(Job)] /\ \A x \in Stations : OneEach(l[x])
    BY DEF InOrder
<1>2. /\ j \in Job /\ j = l[s][1] /\ 1 \in DOMAIN l[s]
      /\ Tail(l[s]) \in Seq(Job) /\ OneEach(Tail(l[s]))
      /\ Senders(Tail(l[s])) = Senders(l[s]) \ {j.by}
      /\ \A i \in DOMAIN Tail(l[s]) : i + 1 \in DOMAIN l[s] /\ Tail(l[s])[i] = l[s][i + 1]
    BY <1>1, ShorterLine
<1> HIDE DEF j
<1>3. j.by \in Senders(l[s])
    BY <1>2 DEF Senders
<1>4. j.by \notin Senders(l[t])
    BY <1>3 DEF InOrder
<1>5. /\ Append(l[t], j) \in Seq(Job) /\ OneEach(Append(l[t], j))
      /\ Senders(Append(l[t], j)) = Senders(l[t]) \cup {j.by}
      /\ \A i \in DOMAIN Append(l[t], j) :
             Append(l[t], j)[i] = j \/ (i \in DOMAIN l[t] /\ Append(l[t], j)[i] = l[t][i])
    BY <1>1, <1>2, <1>4, LongerLine
<1>6. /\ m \in [Stations -> Seq(Job)] /\ m[s] = Tail(l[s]) /\ m[t] = Append(l[t], j)
      /\ \A x \in Stations \ {s, t} : m[x] = l[x]
    BY <1>1, <1>2, <1>5 DEF Moved, j
<1> HIDE DEF m
<1>7. InOrder(m)
  <2>1. \A x \in Stations : OneEach(m[x])
    BY <1>1, <1>2, <1>5, <1>6
  <2>2. ASSUME NEW x \in Stations, NEW y \in Stations, x # y
        PROVE  Senders(m[x]) \cap Senders(m[y]) = {}
    <3>1. \A z \in Stations : Senders(m[z]) = IF z = s THEN Senders(l[s]) \ {j.by}
                                 ELSE IF z = t THEN Senders(l[t]) \cup {j.by} ELSE Senders(l[z])
        BY <1>2, <1>5, <1>6
    <3>2. \A z \in Stations : z # s => j.by \notin Senders(l[z])
        BY <1>3 DEF InOrder
    <3>3. Senders(l[x]) \cap Senders(l[y]) = {}
        BY <2>2 DEF InOrder
    <3> QED
        BY <2>2, <3>1, <3>2, <3>3
  <2> QED
    BY <1>6, <2>1, <2>2 DEF InOrder
<1>8. Awaited(m, ask, ind)
  <2>1. Matches(j, ask, ind)
    BY <1>2 DEF Awaited
  <2>2. ASSUME NEW x \in Stations, NEW i \in DOMAIN m[x] PROVE Matches(m[x][i], ask, ind)
    <3>1. CASE x = s
        BY <1>2, <1>6, <2>2, <3>1 DEF Awaited
    <3>2. CASE x = t
        BY <1>5, <1>6, <2>1, <2>2, <3>2 DEF Awaited
    <3>3. CASE x \notin {s, t}
        BY <1>6, <2>2, <3>3 DEF Awaited
    <3> QED
        BY <3>1, <3>2, <3>3
  <2> QED
    BY <2>2 DEF Awaited
<1> QED
    BY <1>7, <1>8 DEF m

\* Only one client's wait has changed, and none of these jobs are its own.
LEMMA StillAwaited ==
    ASSUME NEW l, NEW ask, NEW ind, NEW ask1, NEW ind1, NEW c,
           InOrder(l), Awaited(l, ask, ind), \A s \in Stations : c \notin Senders(l[s]),
           \A a \in Askers \ {c} : ask1[a] = ask[a],
           \A d \in Docs \ {c} : ind1[d] = ind[d]
    PROVE  Awaited(l, ask1, ind1)
<1>1. ASSUME NEW s \in Stations, NEW i \in DOMAIN l[s] PROVE Matches(l[s][i], ask1, ind1)
  <2>1. l[s][i] \in Job
    BY LenProperties, ElementOfSeq DEF InOrder
  <2>2. l[s][i].by \in Clients /\ l[s][i].by # c
    BY <2>1 DEF Job, Senders
  <2>3. Matches(l[s][i], ask, ind)
    BY DEF Awaited
  <2> QED
    BY <2>2, <2>3 DEF Matches, Clients
<1> QED
    BY <1>1 DEF Awaited

\* A client that waits for nothing has no job anywhere.
Waits(c, ask, ind) == IF c \in Askers THEN ask[c] # Idle ELSE ind[c].at = "waiting"

LEMMA NothingSent ==
    ASSUME NEW l, NEW ask, NEW ind, NEW c, Awaited(l, ask, ind), ~Waits(c, ask, ind),
           NEW s \in Stations
    PROVE  c \notin Senders(l[s])
BY DEF Awaited, Matches, Waits, Senders

LEMMA SentJobs ==
    ASSUME NEW l, NEW ask, NEW ind, NEW ask1, NEW ind1, NEW j \in Job,
           InOrder(l), Awaited(l, ask, ind), ~Waits(j.by, ask, ind),
           \A a \in Askers \ {j.by} : ask1[a] = ask[a],
           \A d \in Docs \ {j.by} : ind1[d] = ind[d],
           Matches(j, ask1, ind1)
    PROVE  /\ InOrder([l EXCEPT !["sent"] = Append(l["sent"], j)])
           /\ Awaited([l EXCEPT !["sent"] = Append(l["sent"], j)], ask1, ind1)
<1> DEFINE m == [l EXCEPT !["sent"] = Append(l["sent"], j)]
           line == l["sent"]
<1>0. "sent" \in Stations
    BY DEF Stations
<1>1. l \in [Stations -> Seq(Job)] /\ \A x \in Stations : OneEach(l[x])
    BY DEF InOrder
<1>2. \A x \in Stations : j.by \notin Senders(l[x])
    BY NothingSent
<1>3. Awaited(l, ask1, ind1)
    BY <1>2, StillAwaited
<1>4. /\ Append(line, j) \in Seq(Job) /\ OneEach(Append(line, j))
      /\ Senders(Append(line, j)) = Senders(line) \cup {j.by}
      /\ \A i \in DOMAIN Append(line, j) :
             Append(line, j)[i] = j \/ (i \in DOMAIN line /\ Append(line, j)[i] = line[i])
    BY <1>0, <1>1, <1>2, LongerLine
<1>5. /\ m \in [Stations -> Seq(Job)] /\ m["sent"] = Append(line, j)
      /\ \A x \in Stations \ {"sent"} : m[x] = l[x]
    BY <1>0, <1>1, <1>4
<1> HIDE DEF m
<1>6. InOrder(m)
  <2>1. \A x \in Stations : OneEach(m[x])
    BY <1>1, <1>4, <1>5
  <2>2. \A x \in Stations : Senders(m[x]) = IF x = "sent" THEN Senders(l[x]) \cup {j.by} ELSE Senders(l[x])
    BY <1>4, <1>5
  <2>3. \A x, y \in Stations : x # y => Senders(m[x]) \cap Senders(m[y]) = {}
    BY <1>2, <2>2 DEF InOrder
  <2> QED
    BY <1>5, <2>1, <2>3 DEF InOrder
<1>7. Awaited(m, ask1, ind1)
  <2>1. ASSUME NEW x \in Stations, NEW i \in DOMAIN m[x] PROVE Matches(m[x][i], ask1, ind1)
    <3>1. CASE x = "sent"
        BY <1>0, <1>3, <1>4, <1>5, <2>1, <3>1 DEF Awaited
    <3>2. CASE x # "sent"
        BY <1>3, <1>5, <2>1, <3>2 DEF Awaited
    <3> QED
        BY <3>1, <3>2
  <2> QED
    BY <2>1 DEF Awaited
<1> QED
    BY <1>6, <1>7 DEF m

\* The first answer goes to its client, which waits no more, or for another.
LEMMA CollectedJobs ==
    ASSUME NEW l, NEW ask, NEW ind, NEW ask1, NEW ind1, NEW c,
           InOrder(l), Awaited(l, ask, ind), l["answered"] # <<>>, Head(l["answered"]).by = c,
           \A a \in Askers \ {c} : ask1[a] = ask[a],
           \A d \in Docs \ {c} : ind1[d] = ind[d]
    PROVE  /\ InOrder([l EXCEPT !["answered"] = Tail(l["answered"])])
           /\ Awaited([l EXCEPT !["answered"] = Tail(l["answered"])], ask1, ind1)
<1> DEFINE m == [l EXCEPT !["answered"] = Tail(l["answered"])]
           line == l["answered"]
<1>0. "answered" \in Stations
    BY DEF Stations
<1>1. l \in [Stations -> Seq(Job)] /\ \A x \in Stations : OneEach(l[x])
    BY DEF InOrder
<1>2. /\ Head(line) \in Job /\ Head(line) = line[1] /\ 1 \in DOMAIN line
      /\ Tail(line) \in Seq(Job) /\ OneEach(Tail(line))
      /\ Senders(Tail(line)) = Senders(line) \ {c}
      /\ \A i \in DOMAIN Tail(line) : i + 1 \in DOMAIN line /\ Tail(line)[i] = line[i + 1]
    BY <1>0, <1>1, ShorterLine
<1>3. c \in Senders(line)
    BY <1>2 DEF Senders
<1>4. /\ m \in [Stations -> Seq(Job)] /\ m["answered"] = Tail(line)
      /\ \A x \in Stations \ {"answered"} : m[x] = l[x]
    BY <1>0, <1>1, <1>2
<1> HIDE DEF m
<1>5. \A x \in Stations : Senders(m[x]) = Senders(l[x]) \ {c}
  <2>1. \A x \in Stations : x # "answered" => c \notin Senders(l[x])
    BY <1>0, <1>3 DEF InOrder
  <2> QED
    BY <1>2, <1>4, <2>1
<1>6. InOrder(m)
  <2>1. \A x \in Stations : OneEach(m[x])
    BY <1>1, <1>2, <1>4
  <2>2. ASSUME NEW x \in Stations, NEW y \in Stations, x # y
        PROVE  Senders(m[x]) \cap Senders(m[y]) = {}
    <3>1. Senders(l[x]) \cap Senders(l[y]) = {}
        BY <2>2 DEF InOrder
    <3> QED
        BY <1>5, <3>1
  <2> QED
    BY <1>4, <2>1, <2>2 DEF InOrder
<1>7. Awaited(m, ask, ind)
  <2>1. ASSUME NEW x \in Stations, NEW i \in DOMAIN m[x] PROVE Matches(m[x][i], ask, ind)
    <3>1. CASE x = "answered"
      <4>1. i + 1 \in DOMAIN line /\ m[x][i] = line[i + 1]
        BY <1>2, <1>4, <2>1, <3>1
      <4> QED
        BY <1>0, <4>1 DEF Awaited
    <3>2. CASE x # "answered"
        BY <1>4, <2>1, <3>2 DEF Awaited
    <3> QED
        BY <3>1, <3>2
  <2> QED
    BY <2>1 DEF Awaited
<1>8. Awaited(m, ask1, ind1)
  <2>1. \A x \in Stations : c \notin Senders(m[x])
    BY <1>5
  <2>2. /\ \A a \in Askers \ {c} : ask1[a] = ask[a]
        /\ \A d \in Docs \ {c} : ind1[d] = ind[d]
    OBVIOUS
  <2> HIDE DEF line
  <2> QED
    BY ONLY <1>6, <1>7, <2>1, <2>2, StillAwaited
<1> QED
    BY <1>6, <1>8 DEF m
-----------------------------------------------------------------------------
(***************************************************************************)
(* The invariant.                                                          *)
(***************************************************************************)
lines ==
    [s \in Stations |->
        CASE s = "sent"     -> posted
          [] s = "queries"  -> queryJobs
          [] s = "passages" -> passageJobs
          [] s = "running"  -> (IF stage = "none" THEN <<>> ELSE <<job>>)
          [] s = "answered" -> [i \in DOMAIN answers |-> answers[i].job]]

\* An embedder that has resolved stays; none is built beside another.
EngineOK ==
    /\ stage \in {"none", "device", "inference"} \cup Models
    /\ stage \in {"device"} \cup Models => embedder = "pending"
    /\ stage = "inference" => embedder \in Models
    /\ stage = "none" => embedder \in Models \cup {"none"}

\* An error, or the vectors of what was sent.
Answer ==
    {[job |-> j, outcome |-> Error] : j \in Job}
        \cup {[job |-> j, outcome |-> Vectors(j.texts, m)] : j \in Job, m \in Resolved}

Question == [texts : Seq(Texts), missing : Seq(Texts) \ {<<>>}]
Part     == [text : Docs \X Nat, model : Resolved]
Reading  == [at : {"idle", "waiting", "yielding", "done", "failed"}, done : Seq(Part)]

Vouched ==
    /\ asking \in [Askers -> {Idle} \cup Question]
    /\ vectors \in Seq(Kept)
    /\ DOMAIN results = Askers
    /\ \A a \in Askers : results[a] \in {Nothing, Error} \/ Exact(results[a])

\* What a document has is its first passages, and it goes on until it has all.
Progress(d, r) ==
    /\ \A i \in DOMAIN r.done : r.done[i].text = <<d, i>>
    /\ Len(r.done) <= Passages[d]
    /\ r.at \in {"waiting", "yielding"} => Len(r.done) < Passages[d]
    /\ r.at = "done" => Len(r.done) = Passages[d]
Indexed ==
    /\ indexing \in [Docs -> Reading]
    /\ \A d \in Docs : Progress(d, indexing[d])

EmbedInv ==
    /\ InOrder(lines) /\ Awaited(lines, asking, indexing)
    /\ EngineOK /\ answers \in Seq(Answer) /\ Vouched /\ Indexed

-----------------------------------------------------------------------------
(***************************************************************************)
(* The worker.                                                             *)
(***************************************************************************)
\* What is known of vectors stays known when an embedder resolves.
LEMMA MoreResolved ==
    ASSUME Resolved \subseteq Resolved'
    PROVE  /\ Seq(Kept) \subseteq Seq(Kept') /\ Seq(Answer) \subseteq Seq(Answer')
           /\ Seq(Part) \subseteq Seq(Part')
           /\ \A r : Exact(r) => Exact(r)'
<1>1. Kept \subseteq Kept'
    BY DEF Kept
<1>2. Answer \subseteq Answer'
    BY DEF Answer
<1>3. Part \subseteq Part'
    BY DEF Part
<1>4. \A r : Exact(r) => Exact(r)'
    BY DEF Exact, Answering
<1> HIDE DEF Kept, Answer, Part
<1> QED
    BY <1>1, <1>2, <1>3, <1>4, SeqMonotonic

LEMMA ClientsUndisturbed ==
    ASSUME EmbedInv, Resolved \subseteq Resolved', UNCHANGED <<cache, asking, results, indexing>>
    PROVE  Vouched' /\ Indexed'
<1>1. Vouched'
    BY MoreResolved DEF EmbedInv, Vouched, cache, Question
<1>2. Indexed'
  <2>1. Reading \subseteq Reading'
    BY MoreResolved DEF Reading
  <2>2. indexing \in [Docs -> Reading] /\ indexing' = indexing
    BY DEF EmbedInv, Indexed
  <2>3. indexing' \in [Docs -> Reading']
    BY <2>1, <2>2
  <2> QED
    BY <2>2, <2>3 DEF EmbedInv, Indexed, Progress
<1> QED
    BY <1>1, <1>2

\* The lines after a step, when its effect on them is known one by one.
LEMMA LinesAre ==
    ASSUME NEW m, DOMAIN m = Stations, m["sent"] = posted', m["queries"] = queryJobs',
           m["passages"] = passageJobs', m["running"] = (IF stage' = "none" THEN <<>> ELSE <<job'>>),
           m["answered"] = [i \in DOMAIN answers' |-> answers'[i].job],
           m = [s \in Stations |-> m[s]]
    PROVE  lines' = m
<1>1. \A s \in Stations : lines'[s] = m[s]
    BY DEF lines, Stations
<1> QED
    BY <1>1 DEF lines

LEMMA TakenJobs ==
    ASSUME NEW l, NEW engine, InOrder(l), Awaited(l, asking, indexing), l["running"] = <<>>,
           engine \in Models \cup {"none"}, TakeJob(l["queries"], l["passages"], engine)
    PROVE  /\ \E m : /\ InOrder(m) /\ Awaited(m, asking, indexing)
                     /\ m["sent"] = l["sent"] /\ m["answered"] = l["answered"]
                     /\ m["queries"] = queryJobs' /\ m["passages"] = passageJobs'
                     /\ m["running"] = IF stage' = "none" THEN <<>> ELSE <<job'>>
           /\ EngineOK' /\ (engine \in Models => embedder' = engine)
<1> DEFINE Q == l["queries"]
           P == l["passages"]
<1>0. {"sent", "queries", "passages", "running", "answered"} = Stations
    BY DEF Stations
<1>1. EngineOK' /\ (engine \in Models => embedder' = engine)
    BY DEF TakeJob, EngineOK, Models
<1>2. Q \in Seq(Job) /\ P \in Seq(Job) /\ l \in [Stations -> Seq(Job)]
    BY <1>0 DEF InOrder
<1>3. CASE Q # <<>>
  <2> DEFINE m == Moved(l, "queries", "running")
  <2>1. InOrder(m) /\ Awaited(m, asking, indexing)
    BY <1>0, <1>3, MovedJobs
  <2>2. P # Q
    <3>1. 1 \in DOMAIN Q
        BY <1>2, <1>3, EmptySeq, LenProperties
    <3>2. Q[1].by \in Senders(Q)
        BY <3>1 DEF Senders
    <3> QED
        BY <1>0, <3>2 DEF InOrder
  <2>3. /\ job' = Head(Q) /\ queryJobs' = Tail(Q) /\ passageJobs' = P /\ stage' # "none"
    BY <1>3, <2>2 DEF TakeJob, FirstOf
  <2>4. Append(<<>>, Head(Q)) = <<Head(Q)>>
    OBVIOUS
  <2>5. /\ m["sent"] = l["sent"] /\ m["answered"] = l["answered"]
        /\ m["queries"] = queryJobs' /\ m["passages"] = passageJobs' /\ m["running"] = <<job'>>
    BY <1>0, <1>2, <2>3, <2>4 DEF Moved
  <2> QED
    BY <1>1, <2>1, <2>3, <2>5
<1>4. CASE Q = <<>> /\ P # <<>>
  <2> DEFINE m == Moved(l, "passages", "running")
  <2>1. InOrder(m) /\ Awaited(m, asking, indexing)
    BY <1>0, <1>4, MovedJobs
  <2>2. /\ job' = Head(P) /\ queryJobs' = Q /\ passageJobs' = Tail(P) /\ stage' # "none"
    BY <1>4 DEF TakeJob, FirstOf
  <2>3. Append(<<>>, Head(P)) = <<Head(P)>>
    OBVIOUS
  <2>4. /\ m["sent"] = l["sent"] /\ m["answered"] = l["answered"]
        /\ m["queries"] = queryJobs' /\ m["passages"] = passageJobs' /\ m["running"] = <<job'>>
    BY <1>0, <1>2, <2>2, <2>3 DEF Moved
  <2> QED
    BY <1>1, <2>1, <2>2, <2>4
<1>5. CASE Q = <<>> /\ P = <<>>
  <2>1. queryJobs' = Q /\ passageJobs' = P /\ stage' = "none"
    BY <1>5 DEF TakeJob, FirstOf
  <2> QED
    BY <1>1, <2>1
<1> QED
    BY <1>3, <1>4, <1>5

LEMMA ReceiveKeeps == ASSUME EmbedInv, Receive PROVE EmbedInv'
<1> DEFINE new == Head(posted)
           queries  == IF new.by \in Askers THEN Append(queryJobs, new) ELSE queryJobs
           passages == IF new.by \in Docs THEN Append(passageJobs, new) ELSE passageJobs
<1>0. {"sent", "queries", "passages", "running", "answered"} = Stations
    BY DEF Stations
<1>1. /\ posted # <<>> /\ posted' = Tail(posted)
      /\ UNCHANGED <<answers, cache, asking, results, indexing>>
    BY DEF Receive
<1>2. /\ lines["sent"] = posted /\ lines["queries"] = queryJobs /\ lines["passages"] = passageJobs
      /\ lines["running"] = (IF stage = "none" THEN <<>> ELSE <<job>>)
      /\ lines["answered"] = [i \in DOMAIN answers |-> answers[i].job]
    BY <1>0 DEF lines
<1>3. InOrder(lines) /\ Awaited(lines, asking, indexing) /\ EngineOK
    BY DEF EmbedInv
<1>4. new.by \in Clients /\ Askers \cap Docs = {}
  <2>1. posted \in Seq(Job)
    BY <1>0, <1>2, <1>3 DEF InOrder
  <2>2. new \in Job
    BY <1>1, <2>1, HeadTailProperties
  <2> QED
    BY <2>2, EmbeddingAssumption DEF Job
<1> DEFINE line == IF new.by \in Askers THEN "queries" ELSE "passages"
           l == Moved(lines, "sent", line)
<1>5. InOrder(l) /\ Awaited(l, asking, indexing)
  <2>1. line \in Stations /\ line # "sent"
    BY <1>0
  <2> HIDE DEF line
  <2> QED
    BY <1>0, <1>1, <1>2, <1>3, <2>1, MovedJobs
<1>6. /\ l["sent"] = posted' /\ l["queries"] = queries /\ l["passages"] = passages
      /\ l["running"] = lines["running"] /\ l["answered"] = lines["answered"]
      /\ DOMAIN l = Stations /\ l = [s \in Stations |-> l[s]]
  <2>1. DOMAIN lines = Stations
    BY DEF lines
  <2>2. CASE new.by \in Askers
    BY <1>0, <1>1, <1>2, <1>4, <2>1, <2>2 DEF Moved
  <2>3. CASE new.by \in Docs /\ new.by \notin Askers
    BY <1>0, <1>1, <1>2, <1>4, <2>1, <2>3 DEF Moved
  <2> QED
    BY <1>4, <2>2, <2>3 DEF Clients
<1>7. IF stage = "none" THEN TakeJob(queries, passages, embedder)
      ELSE queryJobs' = queries /\ passageJobs' = passages /\ UNCHANGED <<job, stage, encoded, embedder>>
    BY DEF Receive
<1> HIDE DEF l, queries, passages
<1>8. CASE stage = "none"
  <2>1. TakeJob(l["queries"], l["passages"], embedder)
    BY <1>6, <1>7, <1>8
  <2>2. l["running"] = <<>> /\ embedder \in Models \cup {"none"}
    BY <1>2, <1>3, <1>6, <1>8 DEF EngineOK
  <2>3. PICK m : /\ InOrder(m) /\ Awaited(m, asking, indexing)
                 /\ m["sent"] = l["sent"] /\ m["answered"] = l["answered"]
                 /\ m["queries"] = queryJobs' /\ m["passages"] = passageJobs'
                 /\ m["running"] = IF stage' = "none" THEN <<>> ELSE <<job'>>
    BY <1>5, <2>1, <2>2, TakenJobs
  <2>4. EngineOK' /\ (embedder \in Models => embedder' = embedder)
    BY <1>5, <2>1, <2>2, TakenJobs
  <2>5. lines' = m
    <3>1. DOMAIN m = Stations /\ m = [s \in Stations |-> m[s]]
        BY <2>3 DEF InOrder
    <3>2. m["sent"] = posted' /\ m["answered"] = [i \in DOMAIN answers' |-> answers'[i].job]
        BY <1>1, <1>2, <1>6, <2>3
    <3> QED
        BY <2>3, <3>1, <3>2, LinesAre
  <2>6. Resolved \subseteq Resolved'
    BY <2>4 DEF Resolved
  <2>7. answers' \in Seq(Answer')
    BY <1>1, <2>6, MoreResolved DEF EmbedInv
  <2> QED
    BY <1>1, <2>3, <2>4, <2>5, <2>6, <2>7, ClientsUndisturbed DEF EmbedInv
<1>9. CASE stage # "none"
  <2>1. lines' = l
    BY <1>1, <1>2, <1>6, <1>7, <1>9, LinesAre
  <2>2. EngineOK' /\ Resolved' = Resolved
    BY <1>3, <1>7, <1>9 DEF EngineOK, Resolved
  <2>3. answers' \in Seq(Answer')
    BY <1>1, <2>2, MoreResolved DEF EmbedInv
  <2> QED
    BY <1>1, <1>5, <2>1, <2>2, <2>3, ClientsUndisturbed DEF EmbedInv
<1> QED
    BY <1>8, <1>9

\* Nothing moves while an embedder is built, or between two inferences.
LEMMA NothingMoves ==
    ASSUME EmbedInv,
           UNCHANGED <<posted, queryJobs, passageJobs, job, answers, cache, asking, results, indexing>>,
           stage # "none", stage' # "none", EngineOK', embedder \in Models => embedder' = embedder
    PROVE  EmbedInv'
<1>1. lines' = lines
    BY DEF lines
<1>2. Resolved \subseteq Resolved'
    BY DEF Resolved
<1>3. answers' \in Seq(Answer')
    BY <1>2, MoreResolved DEF EmbedInv
<1> QED
    BY <1>1, <1>2, <1>3, ClientsUndisturbed DEF EmbedInv

LEMMA BuildingKeeps ==
    ASSUME EmbedInv, PickDevice \/ EmbedderBuilt \/ GemmaFails
    PROVE  EmbedInv'
<1>1. EngineOK
    BY DEF EmbedInv
<1>2. CASE PickDevice
  <2>1. EngineOK' /\ stage # "none" /\ stage' # "none" /\ embedder' = embedder
    BY <1>1, <1>2 DEF PickDevice, EngineOK, Models
  <2> QED
    BY <1>2, <2>1, NothingMoves DEF PickDevice
<1>3. CASE EmbedderBuilt
  <2>1. EngineOK' /\ stage # "none" /\ stage' # "none" /\ embedder = "pending" /\ "pending" \notin Models
    BY <1>1, <1>3 DEF EmbedderBuilt, EngineOK, Models
  <2> QED
    BY <1>3, <2>1, NothingMoves DEF EmbedderBuilt
<1>4. CASE GemmaFails
  <2>1. EngineOK' /\ stage # "none" /\ stage' # "none" /\ embedder' = embedder
    BY <1>1, <1>4 DEF GemmaFails, EngineOK, Models
  <2> QED
    BY <1>4, <2>1, NothingMoves DEF GemmaFails
<1> QED
    BY <1>2, <1>3, <1>4

\* A job is answered with an error, or with the vectors of its texts.
LEMMA SettleKeeps ==
    ASSUME EmbedInv, stage # "none", NEW outcome, NEW engine, Settle(outcome, engine),
           engine \in Models \cup {"none"}, embedder \in Models => engine = embedder,
           outcome = Error \/ (embedder \in Models /\ outcome = Vectors(job.texts, embedder))
    PROVE  EmbedInv'
<1>0. {"sent", "queries", "passages", "running", "answered"} = Stations
    BY DEF Stations
<1>1. /\ answers' = Append(answers, [job |-> job, outcome |-> outcome])
      /\ TakeJob(queryJobs, passageJobs, engine)
      /\ UNCHANGED <<posted, cache, asking, results, indexing>>
    BY DEF Settle
<1>2. /\ lines["sent"] = posted /\ lines["queries"] = queryJobs /\ lines["passages"] = passageJobs
      /\ lines["running"] = <<job>>
      /\ lines["answered"] = [i \in DOMAIN answers |-> answers[i].job]
    BY <1>0 DEF lines
<1>3. InOrder(lines) /\ Awaited(lines, asking, indexing) /\ answers \in Seq(Answer)
    BY DEF EmbedInv
<1>4. job \in Job
  <2>1. <<job>> \in Seq(Job)
    BY <1>0, <1>2, <1>3 DEF InOrder
  <2> QED
    BY <2>1
<1>5. [job |-> job, outcome |-> outcome] \in Answer
    BY <1>4 DEF Answer, Resolved
<1> DEFINE l == Moved(lines, "running", "answered")
<1>6. InOrder(l) /\ Awaited(l, asking, indexing)
  <2>1. lines["running"] # <<>>
    BY <1>2
  <2> QED
    BY <1>0, <1>3, <2>1, MovedJobs
<1>7. [i \in DOMAIN answers' |-> answers'[i].job] = Append(lines["answered"], job)
  <2>1. Len(answers) \in Nat /\ DOMAIN answers = 1 .. Len(answers)
    BY <1>3, LenProperties
  <2>2. lines["answered"] \in Seq(Job)
    BY <1>0, <1>3 DEF InOrder
  <2>3. DOMAIN lines["answered"] = 1 .. Len(answers)
    BY <1>2, <2>1
  <2>4. Len(lines["answered"]) = Len(answers)
    BY <2>1, <2>2, <2>3, LenProperties
  <2>5. /\ answers' \in Seq(Answer) /\ Len(answers') = Len(answers) + 1
        /\ \A i \in 1 .. Len(answers) : answers'[i] = answers[i]
        /\ answers'[Len(answers) + 1] = [job |-> job, outcome |-> outcome]
    BY <1>1, <1>3, <1>5, AppendProperties
  <2>6. DOMAIN answers' = 1 .. Len(answers) + 1
    BY <2>5, LenProperties
  <2> DEFINE more == Append(lines["answered"], job)
  <2>7. /\ more \in Seq(Job) /\ Len(more) = Len(answers) + 1
        /\ \A i \in 1 .. Len(answers) : more[i] = lines["answered"][i]
        /\ more[Len(answers) + 1] = job
    BY <1>4, <2>2, <2>4, AppendProperties
  <2>8. more = [i \in 1 .. Len(answers) + 1 |-> more[i]]
    BY <2>7, LenProperties
  <2> HIDE DEF more
  <2>9. ASSUME NEW i \in 1 .. Len(answers) + 1 PROVE answers'[i].job = more[i]
    <3>1. CASE i = Len(answers) + 1
        BY <2>5, <2>7, <3>1
    <3>2. CASE i \in 1 .. Len(answers)
        BY <1>2, <2>1, <2>5, <2>7, <3>2
    <3> QED
        BY <2>1, <3>1, <3>2
  <2> QED
    BY <2>6, <2>8, <2>9 DEF more
<1>8. /\ l["sent"] = posted' /\ l["queries"] = queryJobs /\ l["passages"] = passageJobs
      /\ l["running"] = <<>> /\ l["answered"] = [i \in DOMAIN answers' |-> answers'[i].job]
  <2>1. Tail(<<job>>) = <<>> /\ Head(<<job>>) = job
    OBVIOUS
  <2>2. DOMAIN lines = Stations
    BY DEF lines
  <2> QED
    BY <1>0, <1>1, <1>2, <1>7, <2>1, <2>2 DEF Moved
<1> HIDE DEF l
<1>9. TakeJob(l["queries"], l["passages"], engine)
    BY <1>1, <1>8
<1>10. PICK m : /\ InOrder(m) /\ Awaited(m, asking, indexing)
                /\ m["sent"] = l["sent"] /\ m["answered"] = l["answered"]
                /\ m["queries"] = queryJobs' /\ m["passages"] = passageJobs'
                /\ m["running"] = IF stage' = "none" THEN <<>> ELSE <<job'>>
    BY <1>6, <1>8, <1>9, TakenJobs
<1>11. EngineOK' /\ (engine \in Models => embedder' = engine)
    BY <1>6, <1>8, <1>9, TakenJobs
<1>12. lines' = m
  <2>1. DOMAIN m = Stations /\ m = [s \in Stations |-> m[s]]
    BY <1>10 DEF InOrder
  <2>2. m["sent"] = posted' /\ m["answered"] = [i \in DOMAIN answers' |-> answers'[i].job]
    BY <1>8, <1>10
  <2> QED
    BY <1>10, <2>1, <2>2, LinesAre
<1>13. Resolved \subseteq Resolved'
    BY <1>11 DEF Resolved
<1>14. answers' \in Seq(Answer')
  <2>1. answers' \in Seq(Answer)
    BY <1>1, <1>3, <1>5, AppendProperties
  <2> QED
    BY <1>13, <2>1, MoreResolved
<1> QED
    BY <1>1, <1>10, <1>11, <1>12, <1>13, <1>14, ClientsUndisturbed DEF EmbedInv

LEMMA ServingKeeps ==
    ASSUME EmbedInv, NoEmbedder \/ Infer \/ InferenceFails
    PROVE  EmbedInv'
<1>1. EngineOK
    BY DEF EmbedInv
<1>2. CASE NoEmbedder
  <2>1. stage # "none" /\ embedder = "pending" /\ "pending" \notin Models /\ Settle(Error, "none")
    BY <1>1, <1>2 DEF NoEmbedder, EngineOK, Models
  <2> QED
    BY <2>1, SettleKeeps
<1>3. CASE Infer
  <2>1. stage = "inference" /\ embedder \in Models
    BY <1>1, <1>3 DEF Infer, EngineOK
  <2>2. CASE encoded + Inference < Len(job.texts)
    <3>1. UNCHANGED <<posted, queryJobs, passageJobs, job, stage, embedder, answers, cache, asking, results, indexing>>
        BY <1>3, <2>2 DEF Infer
    <3>2. EngineOK'
        BY <1>1, <3>1 DEF EngineOK
    <3> QED
        BY <2>1, <3>1, <3>2, NothingMoves
  <2>3. CASE ~(encoded + Inference < Len(job.texts))
    <3>1. Settle(Vectors(job.texts, embedder), embedder)
        BY <1>3, <2>3 DEF Infer
    <3> DEFINE found == Vectors(job.texts, embedder)
    <3>2. Settle(found, embedder) /\ found = Vectors(job.texts, embedder)
        BY <3>1
    <3> HIDE DEF found
    <3> QED
        BY <2>1, <3>2, SettleKeeps
  <2> QED
    BY <2>2, <2>3
<1>4. CASE InferenceFails
  <2>1. stage = "inference" /\ embedder \in Models /\ Settle(Error, embedder)
    BY <1>1, <1>4 DEF InferenceFails, EngineOK
  <2> QED
    BY <2>1, SettleKeeps
<1> QED
    BY <1>2, <1>3, <1>4
-----------------------------------------------------------------------------
(***************************************************************************)
(* The page: questions and passages.                                       *)
(***************************************************************************)
LEMMA WorkerUndisturbed ==
    ASSUME EmbedInv, UNCHANGED served
    PROVE  EngineOK' /\ Resolved' = Resolved /\ Kept' = Kept /\ Answer' = Answer /\ Part' = Part
BY DEF EmbedInv, served, EngineOK, Resolved, Kept, Answer, Part

\* A job is sent, or the first answer taken; the worker goes on.
LEMMA LinesAfterPost ==
    ASSUME NEW j, posted' = Append(posted, j), UNCHANGED <<served, answers>>
    PROVE  lines' = [lines EXCEPT !["sent"] = Append(lines["sent"], j)]
<1> DEFINE m == [lines EXCEPT !["sent"] = Append(lines["sent"], j)]
<1>1. /\ DOMAIN lines = Stations /\ lines["sent"] = posted /\ lines["queries"] = queryJobs
      /\ lines["passages"] = passageJobs /\ lines["running"] = (IF stage = "none" THEN <<>> ELSE <<job>>)
      /\ lines["answered"] = [i \in DOMAIN answers |-> answers[i].job]
    BY DEF lines, Stations
<1>2. /\ DOMAIN m = Stations /\ m = [s \in Stations |-> m[s]]
      /\ m["sent"] = Append(posted, j) /\ m["queries"] = queryJobs /\ m["passages"] = passageJobs
      /\ m["running"] = lines["running"] /\ m["answered"] = lines["answered"]
    BY <1>1 DEF Stations
<1> HIDE DEF m
<1>3. UNCHANGED <<queryJobs, passageJobs, job, stage, answers>>
    BY DEF served
<1>4. lines' = m
    BY <1>1, <1>2, <1>3, LinesAre
<1> QED
    BY <1>4 DEF m

LEMMA LinesAfterTake ==
    ASSUME answers \in Seq(Answer), answers # <<>>, answers' = Tail(answers), UNCHANGED <<posted, served>>
    PROVE  /\ lines' = [lines EXCEPT !["answered"] = Tail(lines["answered"])]
           /\ lines["answered"] # <<>> /\ Head(lines["answered"]) = Head(answers).job
           /\ Head(answers) \in Answer /\ answers' \in Seq(Answer)
<1> DEFINE jobs == [i \in 1 .. Len(answers) |-> answers[i].job]
           rest == [i \in 1 .. Len(answers) - 1 |-> answers[i + 1].job]
<1>1. Len(answers) \in Nat \ {0} /\ DOMAIN answers = 1 .. Len(answers)
    BY EmptySeq, LenProperties
<1>2. /\ Head(answers) \in Answer /\ answers' \in Seq(Answer) /\ Len(answers') = Len(answers) - 1
      /\ \A i \in 1 .. Len(answers') : answers'[i] = answers[i + 1]
    BY HeadTailProperties
<1>3. Head(answers) = answers[1]
    BY HeadTailProperties
<1>4. jobs \in Seq({answers[i].job : i \in 1 .. Len(answers)}) /\ Len(jobs) = Len(answers)
    BY <1>1
<1>5. jobs # <<>> /\ Head(jobs) = answers[1].job
    BY <1>1
<1>6. Tail(jobs) = rest
  <2>1. Len(Tail(jobs)) = Len(answers) - 1 /\ \A i \in 1 .. Len(Tail(jobs)) : Tail(jobs)[i] = jobs[i + 1]
    BY <1>4, <1>5, HeadTailProperties
  <2>2. Tail(jobs) = [i \in 1 .. Len(answers) - 1 |-> Tail(jobs)[i]]
    BY <1>4, <1>5, <2>1, HeadTailProperties, LenProperties
  <2>3. \A i \in 1 .. Len(answers) - 1 : i + 1 \in 1 .. Len(answers)
    BY <1>1
  <2> QED
    BY <2>1, <2>2, <2>3
<1>7. [i \in DOMAIN answers' |-> answers'[i].job] = rest
  <2>1. DOMAIN answers' = 1 .. Len(answers) - 1
    BY <1>2, LenProperties
  <2> QED
    BY <1>2, <2>1
<1>8. lines["answered"] = jobs
    BY <1>1 DEF lines, Stations
<1> HIDE DEF jobs, rest
<1> DEFINE m == [lines EXCEPT !["answered"] = Tail(lines["answered"])]
<1>9. /\ DOMAIN lines = Stations /\ lines["sent"] = posted /\ lines["queries"] = queryJobs
      /\ lines["passages"] = passageJobs /\ lines["running"] = (IF stage = "none" THEN <<>> ELSE <<job>>)
    BY DEF lines, Stations
<1>10. /\ DOMAIN m = Stations /\ m = [s \in Stations |-> m[s]]
       /\ m["sent"] = posted /\ m["queries"] = queryJobs /\ m["passages"] = passageJobs
       /\ m["running"] = lines["running"] /\ m["answered"] = rest
    BY <1>6, <1>8, <1>9 DEF Stations
<1> HIDE DEF m
<1>11. UNCHANGED <<posted, queryJobs, passageJobs, job, stage>>
    BY DEF served
<1>12. lines' = m
    BY <1>7, <1>9, <1>10, <1>11, LinesAre DEF rest
<1> QED
    BY <1>2, <1>3, <1>5, <1>8, <1>12 DEF m

LEMMA EmbedQueriesKeeps ==
    ASSUME EmbedInv, NEW a \in Askers, NEW texts \in Batches, EmbedQueries(a, texts)
    PROVE  EmbedInv'
<1> DEFINE missing == Missing(texts, vectors)
           j == [by |-> a, texts |-> missing]
<1>1. /\ asking[a] = Idle /\ UNCHANGED <<served, answers, profile, indexing>>
      /\ IF missing = <<>> THEN Collect(a, vectors, texts) /\ UNCHANGED posted
         ELSE /\ asking' = [asking EXCEPT ![a] = [texts |-> texts, missing |-> missing]]
              /\ posted' = Append(posted, j) /\ UNCHANGED <<vectors, results>>
    BY DEF EmbedQueries
<1>2. texts \in Seq(Texts) /\ a \notin Docs
    BY EmbeddingAssumption
<1>3. missing \in Seq(Texts)
    BY <1>2, MissingIsAList
<1> HIDE DEF missing
<1>4. EngineOK' /\ Resolved' = Resolved /\ Kept' = Kept /\ Answer' = Answer /\ Part' = Part
    BY <1>1, WorkerUndisturbed
<1>5. Indexed' /\ answers' \in Seq(Answer')
    BY <1>1, <1>4 DEF EmbedInv, Indexed, Reading
<1>6. InOrder(lines) /\ Awaited(lines, asking, indexing)
    BY DEF EmbedInv
<1>7. /\ asking \in [Askers -> {Idle} \cup Question] /\ vectors \in Seq(Kept) /\ DOMAIN results = Askers
      /\ \A x \in Askers : results[x] \in {Nothing, Error} \/ Exact(results[x])
    BY DEF EmbedInv, Vouched
<1>8. \A r : Exact(r)' <=> Exact(r)
    BY <1>4 DEF Exact, Answering
<1>9. CASE missing = <<>>
  <2>1. /\ vectors' \in Seq(Kept) /\ asking' = [asking EXCEPT ![a] = Idle]
        /\ \E r : results' = [results EXCEPT ![a] = r] /\ (r = Error \/ Exact(r))
    BY <1>1, <1>2, <1>7, <1>9, CollectedAreKept
  <2>2. asking' = asking
    BY <1>1, <1>7, <2>1
  <2>3. Vouched'
    BY <1>4, <1>7, <1>8, <2>1, <2>2 DEF Vouched, Question
  <2>4. lines' = lines
    <3>1. UNCHANGED <<posted, queryJobs, passageJobs, job, stage, answers>>
        BY <1>1, <1>9 DEF served
    <3> QED
        BY <3>1 DEF lines
  <2> QED
    BY <1>1, <1>4, <1>5, <1>6, <2>2, <2>3, <2>4 DEF EmbedInv
<1>10. CASE missing # <<>>
  <2>1. j \in Job /\ j.by = a /\ j.texts = missing
    <3>1. missing \in Seq(AllTexts)
        BY <1>3, SeqMonotonic DEF AllTexts
    <3> QED
        BY <3>1 DEF Job, Clients
  <2>2. /\ asking' = [asking EXCEPT ![a] = [texts |-> texts, missing |-> missing]]
        /\ posted' = Append(posted, j) /\ UNCHANGED <<vectors, results>>
    BY <1>1, <1>10
  <2>3. lines' = [lines EXCEPT !["sent"] = Append(lines["sent"], j)]
    BY <1>1, <2>2, LinesAfterPost
  <2>4. [texts |-> texts, missing |-> missing] \in Question /\ [texts |-> texts, missing |-> missing] # Idle
    BY <1>2, <1>3, <1>10 DEF Question, Idle
  <2> HIDE DEF j
  <2>5. Matches(j, asking', indexing')
    BY <1>7, <2>1, <2>2, <2>4 DEF Matches
  <2>6. ~Waits(j.by, asking, indexing)
    BY <1>1, <2>1 DEF Waits
  <2>7. /\ \A x \in Askers \ {j.by} : asking'[x] = asking[x]
        /\ \A d \in Docs \ {j.by} : indexing'[d] = indexing[d]
    BY <1>1, <1>7, <2>1, <2>2
  <2>8. InOrder(lines') /\ Awaited(lines', asking', indexing')
    BY <1>6, <2>1, <2>3, <2>5, <2>6, <2>7, SentJobs
  <2>9. Vouched'
    BY <1>4, <1>7, <1>8, <2>2, <2>4 DEF Vouched, Question
  <2> QED
    BY <1>4, <1>5, <2>8, <2>9 DEF EmbedInv
<1> QED
    BY <1>9, <1>10

LEMMA QueriesEmbeddedKeeps ==
    ASSUME EmbedInv, NEW a \in Askers, QueriesEmbedded(a)
    PROVE  EmbedInv'
<1> DEFINE found == Head(answers).outcome
<1>1. /\ answers # <<>> /\ Head(answers).job.by = a /\ answers' = Tail(answers)
      /\ UNCHANGED <<posted, served, indexing, calls>>
    BY DEF QueriesEmbedded
<1>2. /\ InOrder(lines) /\ Awaited(lines, asking, indexing) /\ answers \in Seq(Answer)
    BY DEF EmbedInv
<1>3. /\ asking \in [Askers -> {Idle} \cup Question] /\ vectors \in Seq(Kept) /\ DOMAIN results = Askers
      /\ \A x \in Askers : results[x] \in {Nothing, Error} \/ Exact(results[x])
    BY DEF EmbedInv, Vouched
<1>4. /\ lines' = [lines EXCEPT !["answered"] = Tail(lines["answered"])]
      /\ lines["answered"] # <<>> /\ Head(lines["answered"]) = Head(answers).job
      /\ Head(answers) \in Answer /\ answers' \in Seq(Answer)
    BY <1>1, <1>2, LinesAfterTake
<1>5. EngineOK' /\ Resolved' = Resolved /\ Kept' = Kept /\ Answer' = Answer /\ Part' = Part
    BY <1>1, WorkerUndisturbed
<1>6. Indexed' /\ answers' \in Seq(Answer')
    BY <1>1, <1>4, <1>5 DEF EmbedInv, Indexed, Reading
<1>7. \A r : Exact(r)' <=> Exact(r)
    BY <1>5 DEF Exact, Answering
<1>8. asking[a] \in Question /\ Head(answers).job.texts = asking[a].missing
  <2>1. "answered" \in Stations
    BY DEF Stations
  <2>2. lines["answered"] \in Seq(Job) /\ OneEach(lines["answered"])
    BY <1>2, <2>1 DEF InOrder
  <2>3. 1 \in DOMAIN lines["answered"] /\ Head(lines["answered"]) = lines["answered"][1]
    BY <1>4, <2>2, ShorterLine
  <2>4. Matches(Head(answers).job, asking, indexing)
    BY <1>2, <1>4, <2>1, <2>3 DEF Awaited
  <2> QED
    BY <1>1, <1>3, <2>4 DEF Matches
<1>9. /\ vectors' \in Seq(Kept) /\ asking' = [asking EXCEPT ![a] = Idle]
      /\ \E r : results' = [results EXCEPT ![a] = r] /\ (r = Error \/ Exact(r))
  <2>1. CASE found = Error
    <3>1. results' = [results EXCEPT ![a] = Error] /\ asking' = [asking EXCEPT ![a] = Idle] /\ UNCHANGED cache
        BY <2>1 DEF QueriesEmbedded
    <3> QED
        BY <1>3, <3>1 DEF cache
  <2>2. CASE found # Error
    <3> DEFINE missing == asking[a].missing
               texts == asking[a].texts
    <3>1. PICK sent \in Job, m \in Resolved :
              Head(answers) = [job |-> sent, outcome |-> Vectors(sent.texts, m)]
        BY <1>4, <2>2 DEF Answer
    <3>2. embedder \in Models /\ found = Vectors(missing, embedder)
        BY <1>8, <3>1 DEF Resolved
    <3>3. missing \in Seq(Texts) /\ missing # <<>> /\ texts \in Seq(Texts)
        BY <1>8 DEF Question
    <3>4. found[1].model = embedder
      <4>1. 1 \in DOMAIN missing
        BY <3>3, EmptySeq, LenProperties
      <4> QED
        BY <3>2, <4>1 DEF Vectors
    <3> DEFINE kept == IF profile \in {Nothing, embedder} THEN vectors ELSE <<>>
               list == Stored(kept, missing, texts, found)
    <3>5. Collect(a, list, texts)
      <4>1. \E l \in {Stored(IF profile \in {Nothing, found[1].model} THEN vectors ELSE <<>>, missing, texts, found)} :
                Collect(a, l, texts)
        BY <2>2 DEF QueriesEmbedded
      <4> QED
        BY <3>4, <4>1
    <3>6. list \in Seq(Kept)
      <4>1. kept \in Seq(Kept)
        BY <1>3, EmptySeq
      <4> HIDE DEF kept, found
      <4> QED
        BY <3>2, <3>3, <4>1, StoredAreKept
    <3> HIDE DEF list, texts
    <3> QED
        BY <3>3, <3>5, <3>6, CollectedAreKept
  <2> QED
    BY <2>1, <2>2
<1>10. Vouched'
  <2>1. asking' \in [Askers -> {Idle} \cup Question]
    BY <1>3, <1>9
  <2> QED
    BY <1>3, <1>5, <1>7, <1>9, <2>1 DEF Vouched, Question
<1>11. InOrder(lines') /\ Awaited(lines', asking', indexing')
  <2>1. /\ \A x \in Askers \ {a} : asking'[x] = asking[x]
        /\ \A d \in Docs \ {a} : indexing'[d] = indexing[d]
    BY <1>1, <1>3, <1>9
  <2>2. Head(lines["answered"]).by = a
    BY <1>1, <1>4
  <2> QED
    BY <1>2, <1>4, <2>1, <2>2, CollectedJobs
<1> QED
    BY <1>5, <1>6, <1>10, <1>11 DEF EmbedInv

\* A batch goes on where the last one stopped, and never past the end.
LEMMA NextPassages ==
    ASSUME NEW d \in Docs, NEW n \in Nat, n < Passages[d]
    PROVE  /\ Batch(d, n, BatchSize) \in Seq(Docs \X Nat)
           /\ Len(Batch(d, n, BatchSize)) \in 1 .. Passages[d] - n
           /\ \A i \in 1 .. Len(Batch(d, n, BatchSize)) : Batch(d, n, BatchSize)[i] = <<d, n + i>>
<1> DEFINE k == Min({BatchSize, Passages[d] - n})
<1>1. BatchSize \in Nat \ {0} /\ Passages[d] - n \in Nat \ {0} /\ Passages[d] \in Nat
    BY EmbeddingAssumption
<1>2. k \in 1 .. Passages[d] - n
  <2>1. {BatchSize, Passages[d] - n} \in SUBSET Nat /\ {BatchSize, Passages[d] - n} # {}
    BY <1>1
  <2>2. k \in {BatchSize, Passages[d] - n} /\ \A x \in {BatchSize, Passages[d] - n} : k <= x
    BY <2>1, MinIsLeast
  <2> HIDE DEF k
  <2> QED
    BY <1>1, <2>2
<1>3. Batch(d, n, BatchSize) = [i \in 1 .. k |-> <<d, n + i>>]
    BY DEF Batch
<1> HIDE DEF k
<1>4. \A i \in 1 .. k : <<d, n + i>> \in Docs \X Nat
    BY <1>2
<1>5. k \in Nat
    BY <1>2
<1>6. Batch(d, n, BatchSize) \in Seq(Docs \X Nat) /\ Len(Batch(d, n, BatchSize)) = k
    BY <1>3, <1>4, <1>5
<1> QED
    BY <1>2, <1>3, <1>6

\* A document asks for a batch.
LEMMA AskedKeeps ==
    ASSUME EmbedInv, NEW d \in Docs, indexing[d].at # "waiting",
           NEW r \in Reading, r.at = "waiting", Progress(d, r),
           indexing' = [indexing EXCEPT ![d] = r],
           posted' = Append(posted, [by |-> d, texts |-> Batch(d, Len(r.done), BatchSize)]),
           UNCHANGED <<served, answers, cache, asking, results>>
    PROVE  EmbedInv'
<1> DEFINE j == [by |-> d, texts |-> Batch(d, Len(r.done), BatchSize)]
<1>1. InOrder(lines) /\ Awaited(lines, asking, indexing) /\ Indexed /\ Vouched
    BY DEF EmbedInv
<1>2. EngineOK' /\ Resolved' = Resolved /\ Kept' = Kept /\ Answer' = Answer /\ Part' = Part
    BY WorkerUndisturbed
<1>3. d \notin Askers
    BY EmbeddingAssumption
<1>4. j \in Job /\ j.by = d /\ j.texts = Batch(d, Len(r.done), BatchSize)
  <2>1. Len(r.done) \in Nat /\ Len(r.done) < Passages[d]
    BY LenProperties DEF Progress, Reading
  <2>2. Batch(d, Len(r.done), BatchSize) \in Seq(Docs \X Nat)
    BY <2>1, NextPassages
  <2>3. Batch(d, Len(r.done), BatchSize) \in Seq(AllTexts)
    BY <2>2, SeqMonotonic DEF AllTexts
  <2> QED
    BY <2>3 DEF Job, Clients
<1>5. posted' = Append(posted, j)
    OBVIOUS
<1> HIDE DEF j
<1>6. lines' = [lines EXCEPT !["sent"] = Append(lines["sent"], j)]
    BY <1>5, LinesAfterPost
<1>7. indexing'[d] = r /\ \A e \in Docs \ {d} : indexing'[e] = indexing[e]
    BY <1>1 DEF Indexed
<1>8. Matches(j, asking', indexing')
    BY <1>3, <1>4, <1>7 DEF Matches
<1>9. ~Waits(j.by, asking, indexing)
    BY <1>3, <1>4 DEF Waits
<1>10. InOrder(lines') /\ Awaited(lines', asking', indexing')
  <2>1. /\ \A a \in Askers \ {j.by} : asking'[a] = asking[a]
        /\ \A e \in Docs \ {j.by} : indexing'[e] = indexing[e]
    BY <1>4, <1>7
  <2> QED
    BY <1>1, <1>4, <1>6, <1>8, <1>9, <2>1, SentJobs
<1>11. Indexed'
  <2>1. indexing' \in [Docs -> Reading']
    BY <1>1, <1>2 DEF Indexed, Reading
  <2>2. \A e \in Docs : Progress(e, indexing'[e])
    BY <1>1, <1>7 DEF Indexed
  <2> QED
    BY <2>1, <2>2 DEF Indexed
<1>12. Vouched' /\ answers' \in Seq(Answer')
  <2>1. \A x : Exact(x)' <=> Exact(x)
    BY <1>2 DEF Exact, Answering
  <2> QED
    BY <1>1, <1>2, <2>1 DEF EmbedInv, Vouched, Question, cache
<1> QED
    BY <1>2, <1>10, <1>11, <1>12 DEF EmbedInv

LEMMA AskingKeeps ==
    ASSUME EmbedInv, NEW d \in Docs, EmbedPassages(d) \/ NextBatch(d)
    PROVE  EmbedInv'
<1>1. indexing \in [Docs -> Reading] /\ Progress(d, indexing[d])
    BY DEF EmbedInv, Indexed
<1>2. CASE EmbedPassages(d)
  <2> DEFINE r == [at |-> "waiting", done |-> <<>>]
  <2>1. r \in Reading /\ r.at = "waiting" /\ r.done = <<>>
    BY EmptySeq DEF Reading
  <2>2. Progress(d, r)
    BY <2>1, EmbeddingAssumption DEF Progress
  <2>3. /\ indexing[d].at # "waiting" /\ indexing' = [indexing EXCEPT ![d] = r]
        /\ posted' = Append(posted, [by |-> d, texts |-> Batch(d, 0, BatchSize)])
        /\ UNCHANGED <<served, answers, cache, asking, results>>
    BY <1>2 DEF EmbedPassages
  <2>4. Len(r.done) = 0
    BY <2>1
  <2> HIDE DEF r
  <2> QED
    BY <2>1, <2>2, <2>3, <2>4, AskedKeeps
<1>3. CASE NextBatch(d)
  <2> DEFINE r == [indexing[d] EXCEPT !.at = "waiting"]
  <2>1. indexing[d] \in Reading /\ indexing[d].at = "yielding"
    BY <1>1, <1>3 DEF NextBatch
  <2>2. r \in Reading /\ r.at = "waiting" /\ r.done = indexing[d].done
    BY <2>1 DEF Reading
  <2>3. Progress(d, r)
    BY <1>1, <2>1, <2>2 DEF Progress
  <2>4. /\ indexing' = [indexing EXCEPT ![d] = r]
        /\ posted' = Append(posted, [by |-> d, texts |-> Batch(d, Len(r.done), BatchSize)])
        /\ UNCHANGED <<served, answers, cache, asking, results>>
    BY <1>3, <2>2 DEF NextBatch
  <2> HIDE DEF r
  <2> QED
    BY <2>1, <2>2, <2>3, <2>4, AskedKeeps
<1> QED
    BY <1>2, <1>3

LEMMA BatchEmbeddedKeeps ==
    ASSUME EmbedInv, NEW d \in Docs, BatchEmbedded(d)
    PROVE  EmbedInv'
<1> DEFINE found == Head(answers).outcome
           parts == indexing[d].done
           r == IF found = Error \/ (parts # <<>> /\ parts[1].model # found[1].model)
                THEN [at |-> "failed", done |-> <<>>]
                ELSE [at   |-> IF Len(parts \o found) < Passages[d] THEN "yielding" ELSE "done",
                      done |-> parts \o found]
<1>1. /\ answers # <<>> /\ Head(answers).job.by = d /\ answers' = Tail(answers)
      /\ indexing' = [indexing EXCEPT ![d] = r]
      /\ UNCHANGED <<posted, served, cache, asking, results>>
    BY DEF BatchEmbedded
<1>2. InOrder(lines) /\ Awaited(lines, asking, indexing) /\ answers \in Seq(Answer) /\ Indexed /\ Vouched
    BY DEF EmbedInv
<1>3. /\ lines' = [lines EXCEPT !["answered"] = Tail(lines["answered"])]
      /\ lines["answered"] # <<>> /\ Head(lines["answered"]) = Head(answers).job
      /\ Head(answers) \in Answer /\ answers' \in Seq(Answer)
    BY <1>1, <1>2, LinesAfterTake
<1>4. EngineOK' /\ Resolved' = Resolved /\ Kept' = Kept /\ Answer' = Answer /\ Part' = Part
    BY <1>1, WorkerUndisturbed
<1>5. indexing[d].at = "waiting" /\ Head(answers).job.texts = Batch(d, Len(parts), BatchSize)
  <2>1. "answered" \in Stations
    BY DEF Stations
  <2>2. lines["answered"] \in Seq(Job) /\ OneEach(lines["answered"])
    BY <1>2, <2>1 DEF InOrder
  <2>3. 1 \in DOMAIN lines["answered"] /\ Head(lines["answered"]) = lines["answered"][1]
    BY <1>3, <2>2, ShorterLine
  <2>4. Matches(Head(answers).job, asking, indexing)
    BY <1>2, <1>3, <2>1, <2>3 DEF Awaited
  <2> QED
    BY <1>1, <2>4, EmbeddingAssumption DEF Matches
<1>6. /\ indexing \in [Docs -> Reading] /\ parts \in Seq(Part) /\ Len(parts) \in Nat
      /\ DOMAIN parts = 1 .. Len(parts) /\ Progress(d, indexing[d]) /\ Len(parts) < Passages[d]
    BY <1>2, <1>5, LenProperties DEF Indexed, Reading, Progress
<1>7. r \in Reading /\ Progress(d, r)
  <2>1. CASE r = [at |-> "failed", done |-> <<>>]
    <3>1. r.at = "failed" /\ r.done = <<>> /\ r \in Reading
        BY <2>1, EmptySeq DEF Reading
    <3> HIDE DEF r
    <3> QED
        BY <3>1, EmbeddingAssumption DEF Progress
  <2>2. CASE r # [at |-> "failed", done |-> <<>>]
    <3> DEFINE n == Len(parts)
               all == parts \o found
    <3>1. /\ found # Error
          /\ r = [at |-> IF Len(all) < Passages[d] THEN "yielding" ELSE "done", done |-> all]
        BY <2>2
    <3>2. PICK j \in Job, m \in Resolved : Head(answers) = [job |-> j, outcome |-> Vectors(j.texts, m)]
        BY <1>3, <3>1 DEF Answer
    <3> DEFINE batch == Batch(d, n, BatchSize)
    <3>3. found = Vectors(batch, m)
        BY <1>5, <3>2
    <3>4. /\ batch \in Seq(Docs \X Nat) /\ Len(batch) \in 1 .. Passages[d] - n
          /\ \A i \in 1 .. Len(batch) : batch[i] = <<d, n + i>>
        BY <1>6, NextPassages
    <3> HIDE DEF batch, found
    <3>5. /\ found \in Seq(Part) /\ Len(found) = Len(batch)
          /\ \A i \in 1 .. Len(batch) : found[i].text = <<d, n + i>>
      <4>1. DOMAIN batch = 1 .. Len(batch) /\ Len(batch) \in Nat
        BY <3>4, LenProperties
      <4>2. found = [i \in 1 .. Len(batch) |-> [text |-> batch[i], model |-> m]]
        BY <3>3, <4>1 DEF Vectors
      <4>3. \A i \in 1 .. Len(batch) : [text |-> batch[i], model |-> m] \in Part
        BY <3>4, ElementOfSeq DEF Part
      <4> QED
        BY <3>4, <4>1, <4>2, <4>3
    <3>6. Passages[d] \in Nat
        BY EmbeddingAssumption
    <3>7. /\ all \in Seq(Part) /\ Len(all) = n + Len(batch)
          /\ \A i \in 1 .. n + Len(batch) : all[i] = IF i <= n THEN parts[i] ELSE found[i - n]
      <4>0. parts \in Seq(Part) /\ found \in Seq(Part)
        BY <1>6, <3>5
      <4> HIDE DEF parts
      <4>1. /\ all \in Seq(Part) /\ Len(all) = n + Len(found)
            /\ \A i \in 1 .. n + Len(found) : all[i] = IF i <= n THEN parts[i] ELSE found[i - n]
        BY <4>0, ConcatProperties
      <4> HIDE DEF all
      <4> QED
        BY <3>5, <4>1
    <3>8. DOMAIN all = 1 .. n + Len(batch)
        BY <3>7, LenProperties
    <3> HIDE DEF all
    <3>9. ASSUME NEW i \in 1 .. n + Len(batch) PROVE all[i].text = <<d, i>>
      <4>1. CASE i <= n
        BY <1>6, <3>7, <4>1 DEF Progress
      <4>2. CASE ~(i <= n)
        <5>1. i - n \in 1 .. Len(batch) /\ n + (i - n) = i
            BY <1>6, <3>4, <4>2
        <5> QED
            BY <3>5, <3>7, <4>2, <5>1
      <4> QED
        BY <4>1, <4>2
    <3>10. Len(all) <= Passages[d]
        BY <1>6, <3>4, <3>6, <3>7
    <3>11. r.done = all /\ r.at = (IF Len(all) < Passages[d] THEN "yielding" ELSE "done") /\ r \in Reading
        BY <3>1, <3>7 DEF Reading
    <3> HIDE DEF r
    <3>12. Len(all) \in Nat
        BY <3>7, LenProperties
    <3> QED
        BY <3>6, <3>8, <3>9, <3>10, <3>11, <3>12 DEF Progress
  <2> QED
    BY <2>1, <2>2
<1> HIDE DEF r
<1>8. indexing'[d] = r /\ \A e \in Docs \ {d} : indexing'[e] = indexing[e]
    BY <1>1, <1>6
<1>9. Indexed'
  <2>1. indexing' \in [Docs -> Reading']
    BY <1>1, <1>4, <1>6, <1>7 DEF Reading
  <2>2. \A e \in Docs : Progress(e, indexing'[e])
    BY <1>2, <1>7, <1>8 DEF Indexed
  <2> QED
    BY <2>1, <2>2 DEF Indexed
<1>10. InOrder(lines') /\ Awaited(lines', asking', indexing')
  <2>1. \A a \in Askers \ {d} : asking'[a] = asking[a]
    BY <1>1
  <2>2. Head(lines["answered"]).by = d
    BY <1>1, <1>3
  <2> QED
    BY <1>2, <1>3, <1>8, <2>1, <2>2, CollectedJobs
<1>11. Vouched' /\ answers' \in Seq(Answer')
  <2>1. \A x : Exact(x)' <=> Exact(x)
    BY <1>4 DEF Exact, Answering
  <2> QED
    BY <1>1, <1>2, <1>3, <1>4, <2>1 DEF Vouched, Question, cache
<1> QED
    BY <1>4, <1>9, <1>10, <1>11 DEF EmbedInv
-----------------------------------------------------------------------------
LEMMA InitEmbeds == ASSUME EmbedInit PROVE EmbedInv
<1>1. lines = [s \in Stations |-> <<>>]
    BY DEF EmbedInit, lines, Stations
<1>2. InOrder(lines) /\ Awaited(lines, asking, indexing)
    BY <1>1, EmptySeq DEF InOrder, Awaited, OneEach, Senders
<1>3. EngineOK
    BY DEF EmbedInit, EngineOK, Models
<1>3a. answers \in Seq(Answer)
    BY EmptySeq DEF EmbedInit
<1>4. Vouched
    BY EmptySeq DEF EmbedInit, Vouched
<1>5. Indexed
  <2>1. Unread \in Reading /\ Unread.at = "idle" /\ Unread.done = <<>>
    BY EmptySeq DEF Unread, Reading
  <2>2. \A d \in Docs : Progress(d, Unread)
    BY <2>1, EmbeddingAssumption DEF Progress
  <2> QED
    BY <2>1, <2>2 DEF EmbedInit, Indexed
<1> QED
    BY <1>2, <1>3, <1>3a, <1>4, <1>5 DEF EmbedInv

LEMMA StepEmbeds == ASSUME EmbedInv, [EmbedNext]_embedVars PROVE EmbedInv'
<1>1. CASE EmbedNext
    BY <1>1, ReceiveKeeps, BuildingKeeps, ServingKeeps, EmbedQueriesKeeps, QueriesEmbeddedKeeps,
       AskingKeeps, BatchEmbeddedKeeps DEF EmbedNext, Serve
<1>2. CASE UNCHANGED embedVars
  <2>1. UNCHANGED <<posted, served, answers, cache, asking, results, indexing>>
    BY <1>2 DEF embedVars
  <2>2. EngineOK' /\ Resolved' = Resolved /\ Kept' = Kept /\ Answer' = Answer /\ Part' = Part
    BY <2>1, WorkerUndisturbed
  <2>3. lines' = lines
    BY <2>1 DEF lines, served
  <2> QED
    BY <2>1, <2>2, <2>3, ClientsUndisturbed DEF EmbedInv
<1> QED
    BY <1>1, <1>2

LEMMA EmbedInvGivesTheirs == ASSUME EmbedInv PROVE VectorsAreTheirs
<1>1. ASSUME NEW r \in Given PROVE Exact(r)
    BY DEF EmbedInv, Vouched, Given
<1>2. ASSUME NEW d \in Finished
      PROVE  /\ d \in Docs /\ indexing[d].done \in Seq(Part)
             /\ embedder \in Models /\ indexing[d].done = Vectors(Batch(d, 0, Passages[d]), embedder)
  <2> DEFINE parts == indexing[d].done
  <2>1. /\ d \in Docs /\ parts \in Seq(Part) /\ Len(parts) = Passages[d]
        /\ \A i \in DOMAIN parts : parts[i].text = <<d, i>>
    BY DEF EmbedInv, Indexed, Reading, Progress, Finished
  <2>2. Passages[d] \in Nat \ {0}
    BY <2>1, EmbeddingAssumption
  <2>3. DOMAIN parts = 1 .. Passages[d] /\ \A i \in 1 .. Passages[d] : parts[i] \in Part
    BY <2>1, LenProperties, ElementOfSeq
  <2>4. parts = [i \in 1 .. Passages[d] |-> parts[i]]
    BY <2>1, LenProperties
  <2>5. embedder \in Models
    <3>1. parts[1] \in Part
        BY <2>2, <2>3
    <3> QED
        BY <3>1 DEF Part, Resolved
  <2>6. \A i \in 1 .. Passages[d] : parts[i] = [text |-> <<d, i>>, model |-> embedder]
    BY <2>1, <2>3 DEF Part, Resolved
  <2>7. Batch(d, 0, Passages[d]) = [i \in 1 .. Passages[d] |-> <<d, i>>]
    <3>1. Min({Passages[d], Passages[d] - 0}) = Passages[d]
      <4>1. Passages[d] - 0 = Passages[d] /\ {Passages[d]} \in SUBSET Nat
        BY <2>2
      <4>2. Min({Passages[d]}) \in {Passages[d]}
        BY <4>1, MinIsLeast
      <4> QED
        BY <4>1, <4>2
    <3>2. \A i \in 1 .. Passages[d] : 0 + i = i
        BY <2>2
    <3> QED
        BY <3>1, <3>2 DEF Batch
  <2>8. Vectors(Batch(d, 0, Passages[d]), embedder) =
            [i \in 1 .. Passages[d] |-> [text |-> <<d, i>>, model |-> embedder]]
    BY <2>7 DEF Vectors
  <2> HIDE DEF parts
  <2> QED
    BY <2>1, <2>4, <2>5, <2>6, <2>8 DEF parts
<1>3. ASSUME NEW v \in InUse PROVE v.model = embedder
  <2>1. CASE v \in UNION {ToSet(r.found) : r \in Given}
    BY <1>1, <2>1 DEF ToSet, Exact, Answering, Resolved
  <2>2. CASE v \in UNION {ToSet(indexing[d].done) : d \in Finished}
    <3>1. PICK d \in Finished : v \in ToSet(indexing[d].done)
        BY <2>2
    <3>2. v \in Part
        BY <1>2, <3>1, LenProperties, ElementOfSeq DEF ToSet
    <3> QED
        BY <3>2 DEF Part, Resolved
  <2> QED
    BY <1>3, <2>1, <2>2 DEF InUse
<1> QED
    BY <1>1, <1>2, <1>3 DEF VectorsAreTheirs, Exact, Answering

\* However calls interleave, share the cache, repeat a question or fail, and
\* whichever embedder could be built: a list of questions that is answered has
\* the vector of each of them, a document that is done has those of all its
\* passages in order, and all that is in use came from one model. Embedders
\* are built again only until one resolves, and an answer finds its client
\* still waiting for what it sent.
THEOREM EachItsOwnVector == EmbedSpec => []VectorsAreTheirs
<1> QED
    BY InitEmbeds, StepEmbeds, EmbedInvGivesTheirs, PTL DEF EmbedSpec
=============================================================================
