------------------------------- MODULE Inquiry -------------------------------
(***************************************************************************)
(* Exact questions ("how much in all?") against a library that is being    *)
(* rewritten.  aggregate of documents.svelte.ts answers from the tables    *)
(* document_facts and document_fact_runs, which it fills on demand: one    *)
(* message asks which documents are known, then for each of the others one *)
(* reads the passages and a second stores the facts read from them, and a  *)
(* last one reads the facts of all.  Any write of the library may come     *)
(* between two of these messages.                                          *)
(***************************************************************************)
EXTENDS DocStore, MoneyRecords

CONSTANTS
  Texts,       \* per content, the text OCR completes, and how much of it a first pass reads
  Questions,   \* [role, period]
  Askers,      \* inquiries that may be under way together
  MaxWrites    \* bound: times the passages of a document are written

\* native: the sections with native text, all of them unless the document is scanned.
ASSUME TextsAssumption ==
  \A c \in Contents : Texts[c].native \in 0 .. Len(Texts[c].full)
ASSUME BoundAssumption == MaxWrites \in Nat

VARIABLES
  version,   \* per document, how often its passages were written: passage ids are never used again
  facts,     \* table document_facts, per document
  runs,      \* documents with a marker in document_fact_runs
  known,     \* ghost: per document, the facts of the run that left its marker
  asking     \* per inquiry, where aggregate stands

cache == <<facts, runs, known>>
vars  == <<store, version, cache, asking>>

(***************************************************************************)
(* Passages and facts.  Passage n of the i-th writing of a document has    *)
(* the id <<i, n>>.                                                        *)
(***************************************************************************)
Scanned(c) == Texts[c].native < Len(Texts[c].full)
Cut[c \in Contents, full \in BOOLEAN] ==
  ChunkBlocks(IF full THEN Texts[c].full ELSE SubSeq(Texts[c].full, 1, Texts[c].native))
Extracted == [c \in Contents |-> ExtractFinancialRecords(Cut[c, TRUE])]

ChunkIds(d) ==
  IF chunks[d] = <<>> THEN {}
  ELSE {<<version[d], n>> : n \in DOMAIN Cut[chunks[d][1].of, chunks[d][1].full]}

\* extractFinancialRecords(listChunksForDocuments([d])); only a ready document has passages to list.
Read(d) ==
  IF chunks[d] = <<>> \/ rows[d].status # "ready" THEN {}
  ELSE {[document |-> d, key |-> f.key, date |-> f.date, kind |-> f.kind, value |-> f.value,
         chunk |-> <<version[d], f.chunk>>] : f \in Extracted[chunks[d][1].of]}

Idle == [at |-> "idle", docs |-> {}, todo |-> {}, doc |-> None, read |-> {},
         question |-> None, facts |-> {}]

Init ==
  /\ rows = [d \in Docs |-> [hash |-> CHOOSE c \in Contents : TRUE, status |-> "unborn",
                             error |-> "none", current |-> FALSE]]
  /\ chunks = [d \in Docs |-> <<>>]
  /\ originals = [c \in Contents |-> "whole"]
  /\ version = [d \in Docs |-> 0]
  /\ facts = [d \in Docs |-> {}] /\ runs = {} /\ known = [d \in Docs |-> {}]
  /\ asking = [a \in Askers |-> Idle]

(***************************************************************************)
(* The library.  A write that takes the passages of a document out takes   *)
(* their facts with them (ON DELETE CASCADE), and the marker too; a        *)
(* write that only puts passages in leaves the marker.  Library shows how  *)
(* the writes of several flows meet; here one flow writes a document.      *)
(***************************************************************************)
\* Mutated: the cascade takes the facts, the marker stays.
ForgetFacts(d) ==
  /\ facts' = [facts EXCEPT ![d] = {}] /\ UNCHANGED <<runs, known>>

Forget(d) ==
  /\ facts' = [facts EXCEPT ![d] = {}] /\ runs' = runs \ {d}
  /\ known' = [known EXCEPT ![d] = {}]

Written(d) == version[d] < MaxWrites /\ version' = [version EXCEPT ![d] = @ + 1]
Library == UNCHANGED <<originals, asking>>

Add(d, c) ==
  /\ InsertDocument(d, c)
  /\ UNCHANGED <<version, cache>> /\ Library

\* processDocument: a document with image pages is indexed in part and left scanned.
Index(d) ==
  /\ rows[d].status = "received" /\ chunks[d] = <<>> /\ Written(d)
  /\ InsertChunks(d, [of |-> rows[d].hash, full |-> ~Scanned(rows[d].hash)])
  /\ UNCHANGED cache /\ Library

Indexed(d) ==
  /\ rows[d].status = "received" /\ chunks[d] # <<>>
  /\ SetStatus(d, IF chunks[d][1].full THEN "ready" ELSE "scanned", "none")
  /\ UNCHANGED <<version, cache>> /\ Library

\* ocrDocument takes the partial index out, writes the full one, then says ready.
OcrStarts(d) ==
  /\ rows[d].status = "scanned"
  /\ SetStatus(d, "ocr", "none")
  /\ UNCHANGED <<version, cache>> /\ Library

OcrClears(d) ==
  /\ rows[d].status = "ocr" /\ chunks[d] # <<>> /\ ~chunks[d][1].full
  /\ DeleteChunks(d) /\ Forget(d)
  /\ UNCHANGED version /\ Library

OcrWrites(d) ==
  /\ rows[d].status = "ocr" /\ chunks[d] = <<>> /\ Written(d)
  /\ InsertChunks(d, [of |-> rows[d].hash, full |-> TRUE])
  /\ UNCHANGED cache /\ Library

OcrReady(d) ==
  /\ rows[d].status = "ocr" /\ chunks[d] # <<>> /\ chunks[d][1].full
  /\ SetStatus(d, "ready", "none")
  /\ UNCHANGED <<version, cache>> /\ Library

Reindex(d) ==
  /\ rows[d].status = "ready" /\ Written(d)
  /\ ReindexDocument(d, [of |-> rows[d].hash, full |-> TRUE])
  /\ Forget(d) /\ Library

Replace(d, c) ==
  /\ rows[d].status = "ready" /\ c # rows[d].hash /\ Written(d)
  /\ ReplaceDocument(d, c, [of |-> c, full |-> TRUE])
  /\ Forget(d) /\ Library

RemoveDocument(d) ==
  /\ rows[d].status \in {"ready", "scanned"}
  /\ DeleteDocument(d) /\ Forget(d)
  /\ UNCHANGED version /\ Library

Write ==
  \E d \in Docs :
    \/ \E c \in Contents : Add(d, c) \/ Replace(d, c)
    \/ Index(d) \/ Indexed(d)
    \/ OcrStarts(d) \/ OcrClears(d) \/ OcrWrites(d) \/ OcrReady(d)
    \/ Reindex(d) \/ RemoveDocument(d)

(***************************************************************************)
(* An inquiry: aggregate(question, docs), one action per message.          *)
(***************************************************************************)
Go(a, next) == asking' = [asking EXCEPT ![a] = next]

\* The chat's documents that are ready.
Ask(a, docs, question) ==
  /\ asking[a].at = "idle"
  /\ docs # {} /\ \A d \in docs : rows[d].status = "ready"
  /\ Go(a, [Idle EXCEPT !.at = "markers", !.docs = docs, !.question = question])
  /\ UNCHANGED <<store, version, cache>>

\* The loop goes through the unknown documents in the order of the chat.
Proceed(a, todo) ==
  IF todo = {} THEN Go(a, [asking[a] EXCEPT !.at = "list", !.todo = {}, !.doc = None, !.read = {}])
  ELSE \E d \in todo :
    Go(a, [asking[a] EXCEPT !.at = "read", !.todo = todo \ {d}, !.doc = d, !.read = {}])

ListRuns(a) ==
  /\ asking[a].at = "markers"
  /\ Proceed(a, asking[a].docs \ runs)
  /\ UNCHANGED <<store, version, cache>>

ReadChunks(a) ==
  /\ asking[a].at = "read"
  /\ Go(a, [asking[a] EXCEPT !.at = "store", !.read = Read(asking[a].doc)])
  /\ UNCHANGED <<store, version, cache>>

\* Mutated: no foreign key on chunk_id.
AcceptedAny(d, read) == Exists(d)

Accepted(d, read) == Exists(d) /\ \A f \in read : f.chunk \in ChunkIds(d)

Keep(d, read) ==
  /\ facts' = [facts EXCEPT ![d] = read] /\ runs' = runs \cup {d}
  /\ known' = [known EXCEPT ![d] = read]

\* replaceDocumentFacts, one transaction; a foreign key that fails ends the inquiry.
StoreFacts(a) ==
  LET d == asking[a].doc IN
  /\ asking[a].at = "store"
  /\ IF Accepted(d, asking[a].read) THEN Keep(d, asking[a].read) /\ Proceed(a, asking[a].todo)
     ELSE Go(a, Idle) /\ UNCHANGED cache
  /\ UNCHANGED <<store, version>>

ListMoneyFacts(docs) == UNION {facts[d] : d \in docs}

Answer(a) ==
  /\ asking[a].at = "list"
  /\ Go(a, [asking[a] EXCEPT !.at = "answered", !.facts = ListMoneyFacts(asking[a].docs)])
  /\ UNCHANGED <<store, version, cache>>

Done(a) ==
  /\ asking[a].at = "answered" /\ Go(a, Idle)
  /\ UNCHANGED <<store, version, cache>>

Inquire ==
  \E a \in Askers :
    \/ \E docs \in SUBSET Docs, q \in Questions : Ask(a, docs, q)
    \/ ListRuns(a) \/ ReadChunks(a) \/ StoreFacts(a) \/ Answer(a) \/ Done(a)

Next == Write \/ Inquire
Spec == Init /\ [][Next]_vars

(***************************************************************************)
(* Properties.                                                             *)
(***************************************************************************)
Facts(d) == IF chunks[d] = <<>> THEN {} ELSE
  {[document |-> d, key |-> f.key, date |-> f.date, kind |-> f.kind, value |-> f.value,
    chunk |-> <<version[d], f.chunk>>] : f \in Extracted[chunks[d][1].of]}

Points == {"idle", "markers", "read", "store", "list", "answered"}
TypeOK ==
  /\ StoreTypeOK
  /\ version \in [Docs -> 0 .. MaxWrites]
  /\ \A d \in Docs : Len(chunks[d]) <= 1 /\ (rows[d].status = "ready" => chunks[d][1].full)
  /\ runs \subseteq {d \in Docs : Exists(d)}
  /\ \A a \in Askers :
       /\ asking[a].at \in Points
       /\ asking[a].at \in {"read", "store"} => asking[a].doc \in asking[a].docs \ asking[a].todo

\* Whatever an inquiry stores late, the facts of a document are those of the
\* passages it has now (the foreign key on chunk_id of document_facts): exact
\* sums never mix two versions of a file.
FactsAreCurrent == \A d \in Docs : facts[d] # {} => d \in runs /\ facts[d] = Facts(d)

\* A marker that was left with facts still has them: no rewriting of a document
\* takes its facts and leaves the marker that says they were read.
MarkersStand == \A d \in runs : known[d] = {} \/ known[d] = facts[d]

\* The pieces of a document that open a record, and tell it apart from all others.
Pieces(c) == UNION {ToSet(Texts[c].full[s].pieces) : s \in DOMAIN Texts[c].full}
Readable(c, p) == \E i \in DOMAIN Cut[c, TRUE] : Reliable(Cut[c, TRUE][i]) /\ p \in ToSet(Cut[c, TRUE][i].pieces)
Opening(c) ==
  {p \in Pieces(c) :
     /\ p.anchored /\ Readable(c, p)
     /\ \/ p.id # None /\ \A o \in Pieces(c) \ {p} : o.id # p.id
        \/ p.id = None /\ p.date # None /\ \A o \in Pieces(c) \ {p} : o.date # p.date}
StatedBy(d, p, f) ==
  /\ f.document = d
  /\ IF p.id # None THEN f.key[1] = p.id ELSE f.date = p.date
  /\ \E m \in p.amounts : m.kind = f.kind /\ m.value = f.value
AsksFor(q, p) ==
  /\ q.role # None /\ \E m \in p.amounts : m.kind = q.role
  /\ q.period # None => p.date = q.period
Unequivocal(q, p) == Cardinality({m \in p.amounts : m.kind = q.role}) = 1

Result(a) == AggregateMoneyFacts(asking[a].question, asking[a].facts)

\* The facts listed for d are those of content c.
Answered(a, d, c) ==
  LET listed == {f \in asking[a].facts : f.document = d}
      Bare(f) == <<f.key, f.date, f.kind, f.value>>
  IN listed # {} /\ {Bare(f) : f \in listed} = {Bare(f) : f \in Extracted[c]}

\* An answer counts the amount of every record that a number or a date of its
\* own tells apart, or, when the record states several, reports it as ambiguous,
\* however the passages and their parents were cut; and it counts a numbered
\* record once.
RecordsAreCounted ==
  \A a \in Askers : asking[a].at = "answered" =>
    \A c \in Contents : \A p \in Opening(c), d \in asking[a].docs :
        LET q   == asking[a].question
            own == {f \in asking[a].facts : StatedBy(d, p, f)}
            r   == Result(a)
        IN (AsksFor(q, p) /\ Answered(a, d, c)) =>
             /\ IF Unequivocal(q, p) THEN own \cap r.counted # {}
                ELSE RecordsOf(own) \cap r.ambiguous # {}
             /\ p.id # None => Cardinality(own \cap r.counted) <= 1

\* Stated by specs/026 ("Deduplicate overlapping copies only inside one record",
\* "exact calculation"): no record is counted twice.  The parents of a section
\* repeat its passages, and in them a record has another rank.
RecordsCountOnce ==
  \A a \in Askers : asking[a].at = "answered" =>
    \A c \in Contents : \A p \in Opening(c), d \in asking[a].docs :
      Answered(a, d, c) => Cardinality({f \in Result(a).counted : StatedBy(d, p, f)}) <= 1
=============================================================================
