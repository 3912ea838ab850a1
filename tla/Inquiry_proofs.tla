--------------------------- MODULE Inquiry_proofs ---------------------------
(***************************************************************************)
(* What holds of the fact cache for every number of documents, files,      *)
(* inquiries and writes, whatever is read from a passage: the facts kept   *)
(* of a document are those of its present passages, and a marker keeps its *)
(* facts.                                                                  *)
(*                                                                         *)
(* An inquiry stores what it read some messages ago.  What it holds then   *)
(* names the writing of the passages it was read from, and a document's    *)
(* writings are numbered upwards: facts of an earlier writing name ids     *)
(* that are gone, and facts of the present one are what would be read now. *)
(***************************************************************************)
EXTENDS Inquiry, TLAPS

IsInquiry(r) ==
    DOMAIN r = {"at", "docs", "todo", "doc", "read", "question", "facts"}

Shape ==
    /\ version \in [Docs -> Nat]
    /\ chunks = [d \in Docs |-> chunks[d]]
    /\ facts = [d \in Docs |-> facts[d]]
    /\ known = [d \in Docs |-> known[d]]
    /\ runs \subseteq Docs
    /\ asking = [a \in Askers |-> asking[a]]
    /\ \A a \in Askers :
        /\ IsInquiry(asking[a])
        /\ asking[a].docs \subseteq Docs /\ asking[a].todo \subseteq Docs
        /\ asking[a].at \in {"read", "store"} => asking[a].doc \in Docs

\* What was read of d is of one writing, and of d as it is if that is the last one.
ReadOf(d, read) ==
    read # {} =>
        \E v \in 0 .. version[d] :
            /\ \A f \in read : f.chunk[1] = v
            /\ v = version[d] /\ chunks[d] # <<>> => read = Facts(d)

ReadsAreDated ==
    \A a \in Askers : asking[a].at = "store" => ReadOf(asking[a].doc, asking[a].read)

InquiryInv == Shape /\ ReadsAreDated /\ FactsAreCurrent /\ MarkersStand

-----------------------------------------------------------------------------
LEMMA InquiryInit == Init => InquiryInv
<1>1. ASSUME Init PROVE Shape
    <2>1. version \in [Docs -> Nat]
        BY <1>1 DEF Init
    <2>2. \A a \in Askers : asking[a] = Idle
        BY <1>1 DEF Init
    <2>3. IsInquiry(Idle) /\ Idle.docs = {} /\ Idle.todo = {} /\ Idle.at = "idle"
        BY DEF Idle, IsInquiry
    <2>4. asking = [a \in Askers |-> asking[a]] /\ chunks = [d \in Docs |-> chunks[d]]
        BY <1>1 DEF Init
    <2>5. facts = [d \in Docs |-> facts[d]] /\ known = [d \in Docs |-> known[d]] /\ runs = {}
        BY <1>1 DEF Init
    <2> QED
        BY <2>1, <2>2, <2>3, <2>4, <2>5 DEF Shape
<1>2. Init => ReadsAreDated /\ FactsAreCurrent /\ MarkersStand
    BY DEF Init, ReadsAreDated, Idle, FactsAreCurrent, MarkersStand
<1> QED
    BY <1>1, <1>2 DEF InquiryInv

(* What a write does to the document it names, as far as the cache can tell:  *)
(* nothing; the first passages of a new writing, when it had none; or all its *)
(* passages at once, taken out or written again, and its facts with them.     *)
Rewrites(d) ==
    /\ asking' = asking
    /\ \A e \in Docs \ {d} :
        /\ version'[e] = version[e] /\ chunks'[e] = chunks[e]
        /\ facts'[e] = facts[e] /\ known'[e] = known[e]
        /\ e \in runs' <=> e \in runs
    /\ \/ /\ version'[d] = version[d] /\ chunks'[d] = chunks[d]
          /\ facts' = facts /\ known' = known /\ runs' = runs
       \/ /\ version'[d] = version[d] + 1 /\ chunks[d] = <<>>
          /\ facts' = facts /\ known' = known /\ runs' = runs
       \/ /\ \/ version'[d] = version[d] + 1
             \/ version'[d] = version[d] /\ chunks'[d] = <<>>
          /\ facts'[d] = {} /\ known'[d] = {} /\ d \notin runs'

LEMMA Numbering ==
    ASSUME Shape, NEW d \in Docs, Written(d)
    PROVE  /\ version' \in [Docs -> Nat] /\ version'[d] = version[d] + 1
           /\ \A e \in Docs \ {d} : version'[e] = version[e]
<1>1. version[d] + 1 \in Nat
    BY DEF Shape
<1> QED
    BY <1>1 DEF Shape, Written

LEMMA WriteShape ==
    ASSUME Shape, Write
    PROVE  Shape' /\ \E d \in Docs : Rewrites(d)
<1>1. PICK d \in Docs :
        \/ \E c \in Contents : Add(d, c) \/ Replace(d, c)
        \/ Index(d) \/ Indexed(d)
        \/ OcrStarts(d) \/ OcrClears(d) \/ OcrWrites(d) \/ OcrReady(d)
        \/ Reindex(d) \/ RemoveDocument(d)
    BY DEF Write
<1>2. ASSUME NEW c \in Contents, Add(d, c) PROVE Shape' /\ Rewrites(d)
    BY <1>2 DEF Add, InsertDocument, Shape, IsInquiry, Rewrites, cache, Library
<1>3. ASSUME NEW c \in Contents, Replace(d, c) PROVE Shape' /\ Rewrites(d)
    <2>1. Written(d)
        BY <1>3 DEF Replace
    <2> QED
        BY <1>3, <2>1, Numbering DEF Replace, ReplaceDocument, Forget, Shape, IsInquiry, Rewrites, Library
<1>4. CASE Index(d)
    <2>1. Written(d)
        BY <1>4 DEF Index
    <2> QED
        BY <1>4, <2>1, Numbering DEF Index, InsertChunks, Shape, IsInquiry, Rewrites, cache, Library
<1>5. CASE Indexed(d) \/ OcrStarts(d) \/ OcrReady(d)
    BY <1>5 DEF Indexed, OcrStarts, OcrReady, SetStatus, Shape, IsInquiry, Rewrites, cache, Library
<1>6. CASE OcrClears(d)
    BY <1>6 DEF OcrClears, DeleteChunks, Forget, Shape, IsInquiry, Rewrites, Library
<1>7. CASE OcrWrites(d)
    <2>1. Written(d)
        BY <1>7 DEF OcrWrites
    <2> QED
        BY <1>7, <2>1, Numbering DEF OcrWrites, InsertChunks, Shape, IsInquiry, Rewrites, cache, Library
<1>8. CASE Reindex(d)
    <2>1. Written(d)
        BY <1>8 DEF Reindex
    <2> QED
        BY <1>8, <2>1, Numbering DEF Reindex, ReindexDocument, Forget, Shape, IsInquiry, Rewrites, Library
<1>9. CASE RemoveDocument(d)
    BY <1>9 DEF RemoveDocument, DeleteDocument, Forget, Shape, IsInquiry, Rewrites, Library
<1> QED
    BY <1>1, <1>2, <1>3, <1>4, <1>5, <1>6, <1>7, <1>8, <1>9

LEMMA WriteKeeps ==
    ASSUME InquiryInv, Write
    PROVE  InquiryInv'
<1> USE DEF InquiryInv
<1>1. Shape'
    BY WriteShape
<1>2. PICK d \in Docs : Rewrites(d)
    BY WriteShape
<1>3. ASSUME NEW e \in Docs, version'[e] = version[e], chunks'[e] = chunks[e]
      PROVE  Facts(e)' = Facts(e)
    BY <1>3 DEF Facts
<1>4. ASSUME NEW e \in Docs, NEW read, ReadOf(e, read) PROVE ReadOf(e, read)'
    <2>1. version[e] \in Nat /\ version'[e] \in Nat
        BY <1>1 DEF Shape
    <2>2. CASE version'[e] = version[e] /\ chunks'[e] = chunks[e]
        BY <1>3, <1>4, <2>2 DEF ReadOf
    <2>3. CASE version'[e] = version[e] + 1 \/ (version'[e] = version[e] /\ chunks'[e] = <<>>)
        BY <1>4, <2>1, <2>3 DEF ReadOf
    <2> QED
        BY <1>2, <2>2, <2>3 DEF Rewrites
<1>5. ReadsAreDated'
    BY <1>2, <1>4 DEF ReadsAreDated, Rewrites, Shape
<1>6. FactsAreCurrent'
    <2> SUFFICES ASSUME NEW e \in Docs, facts'[e] # {} PROVE e \in runs' /\ facts'[e] = Facts(e)'
        BY DEF FactsAreCurrent
    <2>1. CASE version'[e] = version[e] /\ chunks'[e] = chunks[e]
        BY <1>2, <1>3, <2>1 DEF FactsAreCurrent, Rewrites
    <2>2. facts[e] # {} => chunks[e] # <<>>
        BY DEF FactsAreCurrent, Facts
    <2> QED
        BY <1>2, <2>1, <2>2 DEF Rewrites
<1>7. MarkersStand'
    BY <1>1, <1>2 DEF MarkersStand, Rewrites, Shape
<1> QED
    BY <1>1, <1>5, <1>6, <1>7

(* An inquiry that moves leaves the passages alone; it may hold nothing new   *)
(* unless it has just read.                                                   *)
LEMMA Moves ==
    ASSUME InquiryInv, NEW a \in Askers, NEW next, Go(a, next), IsInquiry(next),
           next.docs \subseteq Docs, next.todo \subseteq Docs,
           next.at \in {"read", "store"} => next.doc \in Docs,
           next.at = "store" => ReadOf(next.doc, next.read),
           UNCHANGED <<store, version, cache>>
    PROVE  InquiryInv'
<1> USE DEF InquiryInv
<1>1. Shape'
    BY DEF Shape, Go, store, cache, IsInquiry
<1>2. ASSUME NEW e, NEW read, ReadOf(e, read) PROVE ReadOf(e, read)'
    BY <1>2 DEF ReadOf, Facts, store
<1>3. ReadsAreDated'
    BY <1>2 DEF ReadsAreDated, Shape, Go
<1>4. FactsAreCurrent' /\ MarkersStand'
    BY DEF FactsAreCurrent, MarkersStand, Facts, store, cache
<1> QED
    BY <1>1, <1>3, <1>4

LEMMA InquireKeeps ==
    ASSUME InquiryInv, Inquire
    PROVE  InquiryInv'
<1> USE DEF InquiryInv
<1>1. PICK a \in Askers :
        \/ \E docs \in SUBSET Docs, q \in Questions : Ask(a, docs, q)
        \/ ListRuns(a) \/ ReadChunks(a) \/ StoreFacts(a) \/ Answer(a) \/ Done(a)
    BY DEF Inquire
<1>2. IsInquiry(asking[a]) /\ asking[a].docs \subseteq Docs /\ asking[a].todo \subseteq Docs
    BY DEF Shape
<1>3. IsInquiry(Idle) /\ Idle.docs = {} /\ Idle.todo = {} /\ Idle.at = "idle"
    BY DEF Idle, IsInquiry
<1>4. ASSUME NEW todo \in SUBSET Docs, Proceed(a, todo)
      PROVE  \E next : /\ Go(a, next) /\ IsInquiry(next)
                       /\ next.docs \subseteq Docs /\ next.todo \subseteq Docs
                       /\ next.at \in {"read", "list"} /\ (next.at = "read" => next.doc \in Docs)
    <2>1. CASE todo = {}
        <3> DEFINE next == [asking[a] EXCEPT !.at = "list", !.todo = {}, !.doc = None, !.read = {}]
        <3>1. /\ IsInquiry(next) /\ next.docs = asking[a].docs /\ next.todo = {} /\ next.at = "list"
            BY <1>2 DEF IsInquiry
        <3> QED
            BY <1>2, <1>4, <2>1, <3>1 DEF Proceed
    <2>2. CASE todo # {}
        <3>1. PICK d \in todo :
                Go(a, [asking[a] EXCEPT !.at = "read", !.todo = todo \ {d}, !.doc = d, !.read = {}])
            BY <1>4, <2>2 DEF Proceed
        <3> DEFINE next == [asking[a] EXCEPT !.at = "read", !.todo = todo \ {d}, !.doc = d, !.read = {}]
        <3>2. /\ IsInquiry(next) /\ next.docs = asking[a].docs /\ next.todo = todo \ {d}
              /\ next.at = "read" /\ next.doc = d
            BY <1>2 DEF IsInquiry
        <3> QED
            BY <1>2, <3>1, <3>2
    <2> QED
        BY <2>1, <2>2
<1>5. ASSUME NEW docs \in SUBSET Docs, NEW q \in Questions, Ask(a, docs, q) PROVE InquiryInv'
    <2> DEFINE next == [Idle EXCEPT !.at = "markers", !.docs = docs, !.question = q]
    <2>1. IsInquiry(next) /\ next.docs = docs /\ next.todo = {} /\ next.at = "markers"
        BY DEF Idle, IsInquiry
    <2>2. Go(a, next) /\ UNCHANGED <<store, version, cache>>
        BY <1>5 DEF Ask
    <2> HIDE DEF next
    <2> QED
        BY <2>1, <2>2, Moves
<1>6. CASE ListRuns(a)
    <2>1. Proceed(a, asking[a].docs \ runs) /\ UNCHANGED <<store, version, cache>>
        BY <1>6 DEF ListRuns
    <2>2. asking[a].docs \ runs \in SUBSET Docs
        BY <1>2
    <2> QED
        BY <1>4, <2>1, <2>2, Moves
<1>7. CASE ReadChunks(a)
    <2> DEFINE d == asking[a].doc
               next == [asking[a] EXCEPT !.at = "store", !.read = Read(d)]
    <2>1. /\ IsInquiry(next) /\ next.docs = asking[a].docs /\ next.todo = asking[a].todo
          /\ next.at = "store" /\ next.doc = d /\ next.read = Read(d)
        BY <1>2 DEF IsInquiry
    <2>2. Go(a, next) /\ UNCHANGED <<store, version, cache>>
        BY <1>7 DEF ReadChunks
    <2>3. d \in Docs /\ version[d] \in Nat
        BY <1>7 DEF ReadChunks, Shape
    <2>4. Read(d) # {} => Read(d) = Facts(d) /\ \A f \in Read(d) : f.chunk[1] = version[d]
        BY DEF Read, Facts
    <2>5. ReadOf(d, Read(d))
        BY <2>3, <2>4 DEF ReadOf
    <2> HIDE DEF next
    <2> QED
        BY <1>2, <2>1, <2>2, <2>3, <2>5, Moves
<1>8. CASE StoreFacts(a)
    <2> DEFINE d == asking[a].doc
               read == asking[a].read
    <2>1. d \in Docs /\ ReadOf(d, read) /\ UNCHANGED <<store, version>>
        BY <1>8 DEF StoreFacts, Shape, ReadsAreDated
    <2>2. CASE ~Accepted(d, read)
        BY <1>3, <1>8, <2>2, Moves DEF StoreFacts
    <2>3. CASE Accepted(d, read)
        <3>1. Keep(d, read) /\ Proceed(a, asking[a].todo)
            BY <1>8, <2>3 DEF StoreFacts
        <3>2. read # {} => read = Facts(d)
            <4> SUFFICES ASSUME NEW f \in read PROVE read = Facts(d)
                OBVIOUS
            <4>1. f.chunk \in ChunkIds(d)
                BY <2>3 DEF Accepted
            <4>2. chunks[d] # <<>> /\ \E n : f.chunk = <<version[d], n>>
                BY <4>1, Zenon DEF ChunkIds
            <4> QED
                BY <2>1, <4>2 DEF ReadOf
        <3>3. \A e \in Docs : Facts(e)' = Facts(e)
            BY <2>1 DEF Facts, store
        <3>4. PICK next : /\ Go(a, next) /\ IsInquiry(next)
                          /\ next.docs \subseteq Docs /\ next.todo \subseteq Docs
                          /\ next.at \in {"read", "list"} /\ (next.at = "read" => next.doc \in Docs)
            BY <1>2, <1>4, <3>1
        <3>5. Shape'
            BY <2>1, <3>1, <3>4 DEF Shape, Go, Keep, store
        <3>6. FactsAreCurrent' /\ MarkersStand'
            BY <2>1, <3>1, <3>2, <3>3 DEF FactsAreCurrent, MarkersStand, Keep, Shape
        <3>7. ASSUME NEW e, NEW held, ReadOf(e, held) PROVE ReadOf(e, held)'
            BY <2>1, <3>7 DEF ReadOf, Facts, store
        <3>8. ReadsAreDated'
            BY <3>4, <3>7 DEF ReadsAreDated, Shape, Go
        <3> QED
            BY <3>5, <3>6, <3>8
    <2> QED
        BY <2>2, <2>3
<1>9. CASE Answer(a)
    <2> DEFINE next == [asking[a] EXCEPT !.at = "answered", !.facts = ListMoneyFacts(asking[a].docs)]
    <2>1. /\ IsInquiry(next) /\ next.docs = asking[a].docs /\ next.todo = asking[a].todo
          /\ next.at = "answered"
        BY <1>2 DEF IsInquiry
    <2>2. Go(a, next) /\ UNCHANGED <<store, version, cache>>
        BY <1>9 DEF Answer
    <2> HIDE DEF next
    <2> QED
        BY <1>2, <2>1, <2>2, Moves
<1>10. CASE Done(a)
    BY <1>3, <1>10, Moves DEF Done
<1> QED
    BY <1>1, <1>5, <1>6, <1>7, <1>8, <1>9, <1>10

LEMMA InquiryNext == InquiryInv /\ [Next]_vars => InquiryInv'
<1> SUFFICES ASSUME InquiryInv, [Next]_vars PROVE InquiryInv'
    OBVIOUS
<1>1. CASE UNCHANGED vars
    <2> USE <1>1 DEF InquiryInv, vars, cache, store
    <2>1. \A e : Facts(e)' = Facts(e)
        BY DEF Facts
    <2>2. Shape'
        BY DEF Shape, IsInquiry
    <2>3. ReadsAreDated'
        BY <2>1 DEF ReadsAreDated, ReadOf
    <2>4. FactsAreCurrent' /\ MarkersStand'
        BY <2>1 DEF FactsAreCurrent, MarkersStand
    <2> QED
        BY <2>2, <2>3, <2>4
<1> QED
    BY <1>1, WriteKeeps, InquireKeeps DEF Next

(* The facts an exact sum is computed from are those of the document's        *)
(* present passages, however the library's writes fall between the messages   *)
(* of the inquiries that store them (aggregate, replaceDocumentFacts).        *)
THEOREM SumsAreOfPresentText == Spec => []FactsAreCurrent
<1>1. InquiryInv => FactsAreCurrent
    BY DEF InquiryInv
<1> QED
    BY <1>1, InquiryInit, InquiryNext, PTL DEF Spec

(* A document marked as read still has the facts that were read: no write     *)
(* takes them and leaves the marker, so an inquiry that skips the document    *)
(* misses nothing (listDocumentsWithFacts, the cascades of the schema).       *)
THEOREM MarkedFactsStay == Spec => []MarkersStand
<1>1. InquiryInv => MarkersStand
    BY DEF InquiryInv
<1> QED
    BY <1>1, InquiryInit, InquiryNext, PTL DEF Spec
=============================================================================
