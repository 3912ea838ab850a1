----------------------------- MODULE Embedding -----------------------------
(***************************************************************************)
(* Vectors: the embedding worker (embed-worker.ts), which serves one job   *)
(* at a time and questions before passages, and its two clients on the     *)
(* page, the cache of question vectors (query-embedding-cache.ts) and the  *)
(* batches of a document (embed-batches.ts).                               *)
(*                                                                         *)
(* Page and worker are two threads: a job is posted, received, served and  *)
(* answered in steps of their own, in the order of the messages.  A vector *)
(* is the text it encodes and the model that encoded it.                   *)
(***************************************************************************)
EXTENDS Naturals, SequencesExt

CONSTANTS
    Askers,      \* callers of embedQueries: a turn, a follow-up, a search
    Docs,        \* documents being embedded
    Passages,    \* [Docs -> number of passages]
    Texts,       \* questions as they are typed
    KeyOf,       \* [Texts -> normalizeForFuzzy]
    Batches,     \* the lists of questions that are asked
    MaxEntries,  \* maxEntries of the cache
    BatchSize,   \* batchSize, passages per job
    Inference,   \* BATCH_SIZE, texts per inference
    MaxCalls,    \* bound: lists asked and documents begun
    Error,       \* a rejected promise
    Nothing

ASSUME EmbeddingAssumption ==
    /\ Askers \cap Docs = {} /\ Nothing \notin Askers \cup Docs \cup Texts /\ Error # Nothing
    /\ Passages \in [Docs -> Nat \ {0}]
    /\ DOMAIN KeyOf = Texts
    /\ {MaxEntries, BatchSize, Inference} \subseteq Nat \ {0} /\ MaxCalls \in Nat
    /\ \A batch \in Batches : batch # <<>> /\ batch \in Seq(Texts)

VARIABLES
    posted,       \* jobs on their way to the worker
    queryJobs, passageJobs,
    job,          \* the job drainJobs waits for
    stage,        \* what that job waits for; "none": draining is false
    encoded,      \* its texts encoded so far
    embedder,     \* embedderPromise: none, pending, or the model it resolved to
    answers,      \* answers on their way to the page
    vectors,      \* the cache, least recently used first
    profile,      \* the model of its vectors
    asking,       \* [Askers -> the list awaited, and what was missing of it]
    results,      \* [Askers -> the last answer of embedQueries]
    indexing,     \* [Docs -> where embedPassagesInBatches stands]
    calls         \* counts calls, for the bound

served == <<queryJobs, passageJobs, job, stage, encoded, embedder>>
cache  == <<vectors, profile>>
embedVars   == <<posted, served, answers, cache, asking, results, indexing, calls>>

Models == {"gemma", "e5"}
Idle   == [texts |-> <<>>, missing |-> <<>>]
Unread == [at |-> "idle", done |-> <<>>]

EmbedInit ==
    /\ posted = <<>> /\ answers = <<>>
    /\ queryJobs = <<>> /\ passageJobs = <<>> /\ job = Nothing /\ stage = "none"
    /\ encoded = 0 /\ embedder = "none"
    /\ vectors = <<>> /\ profile = Nothing
    /\ asking = [a \in Askers |-> Idle] /\ results = [a \in Askers |-> Nothing]
    /\ indexing = [d \in Docs |-> Unread]
    /\ calls = 0
-----------------------------------------------------------------------------
(* The worker. *)

\* queryJobs.shift() ?? passageJobs.shift(): "queries can enter the worker
\* between calls instead of waiting behind an entire large-document rebuild".
FirstOf(queries, passages) == IF queries # <<>> THEN queries ELSE passages

\* drainJobs goes to its next await: the embedder, which may have to be built.
TakeJob(queries, passages, held) ==
    LET line == FirstOf(queries, passages)
        left(jobs) == IF line # <<>> /\ jobs = line THEN Tail(jobs) ELSE jobs
    IN  /\ job' = IF line = <<>> THEN Nothing ELSE Head(line)
        /\ queryJobs' = left(queries) /\ passageJobs' = left(passages)
        /\ embedder' = IF line # <<>> /\ held = "none" THEN "pending" ELSE held
        /\ stage' = CASE line = <<>> -> "none"
                      [] line # <<>> /\ held = "none" -> "device"
                      [] OTHER -> "inference"
        /\ encoded' = 0

\* A call arrives: it joins its line, and is served if nothing is.
Receive ==
    /\ posted # <<>>
    /\ posted' = Tail(posted)
    /\ LET new      == Head(posted)
           queries  == IF new.by \in Askers THEN Append(queryJobs, new) ELSE queryJobs
           passages == IF new.by \in Docs THEN Append(passageJobs, new) ELSE passageJobs
       IN  /\ IF stage = "none"
              THEN TakeJob(queries, passages, embedder)
              ELSE /\ queryJobs' = queries /\ passageJobs' = passages
                   /\ UNCHANGED <<job, stage, encoded, embedder>>
    /\ UNCHANGED <<answers, cache, asking, results, indexing, calls>>

\* pickDevice(): a real adapter, or none.
PickDevice ==
    /\ stage = "device"
    /\ stage' \in Models
    /\ UNCHANGED <<posted, queryJobs, passageJobs, job, encoded, embedder, answers,
                   cache, asking, results, indexing, calls>>

EmbedderBuilt ==
    /\ stage \in Models
    /\ embedder' = stage
    /\ stage' = "inference"
    /\ UNCHANGED <<posted, queryJobs, passageJobs, job, encoded, answers,
                   cache, asking, results, indexing, calls>>

\* WebGPU embeddings failed: fall back to WASM.
GemmaFails ==
    /\ stage = "gemma"
    /\ stage' = "e5"
    /\ UNCHANGED <<posted, queryJobs, passageJobs, job, encoded, embedder, answers,
                   cache, asking, results, indexing, calls>>

\* Mutant of Settle: an error that is thrown past the loop ends the draining
\* without clearing its flag.
SettleOrThrow(outcome, held) ==
    /\ answers' = Append(answers, [job |-> job, outcome |-> outcome])
    /\ IF outcome = Error
       THEN /\ stage' = "thrown" /\ embedder' = held
            /\ UNCHANGED <<queryJobs, passageJobs, job, encoded>>
       ELSE TakeJob(queryJobs, passageJobs, held)
    /\ UNCHANGED <<posted, cache, asking, results, indexing, calls>>

\* The job is answered, and the next one taken, in one turn of the loop.
Settle(outcome, held) ==
    /\ answers' = Append(answers, [job |-> job, outcome |-> outcome])
    /\ TakeJob(queryJobs, passageJobs, held)
    /\ UNCHANGED <<posted, cache, asking, results, indexing, calls>>

\* Neither engine could be built; the next job tries again.
NoEmbedder == stage = "e5" /\ Settle(Error, "none")

Vectors(texts, model) == [i \in DOMAIN texts |-> [text |-> texts[i], model |-> model]]

\* One inference; other messages are received between two of them.
Infer ==
    /\ stage = "inference"
    /\ IF encoded + Inference < Len(job.texts)
       THEN /\ encoded' = encoded + Inference
            /\ UNCHANGED <<posted, queryJobs, passageJobs, job, stage, embedder, answers,
                           cache, asking, results, indexing, calls>>
       ELSE Settle(Vectors(job.texts, embedder), embedder)

\* The embedder that failed is kept.
InferenceFails == stage = "inference" /\ Settle(Error, embedder)
-----------------------------------------------------------------------------
(* The cache of question vectors. *)

Keys(list) == {entry.key : entry \in ToSet(list)}
Vector(list, key) == (CHOOSE entry \in ToSet(list) : entry.key = key).vector

\* The elements of a list at these positions, in order.
Picked(list, at) ==
    [k \in 1 .. Cardinality(at) |->
        list[CHOOSE i \in at : Cardinality({j \in at : j <= i}) = k]]

\* The texts to encode: one for each key that neither the cache nor an earlier
\* text of the list has.
Missing(texts, list) ==
    LET isNew(i) == KeyOf[texts[i]] \notin Keys(list) \cup {KeyOf[texts[j]] : j \in 1 .. i - 1}
    IN  Picked(texts, {i \in DOMAIN texts : isNew(i)})

Entries(texts, found) == [i \in DOMAIN texts |-> [key |-> KeyOf[texts[i]], vector |-> found[i]]]

\* Map.set: a key that is there keeps its place.
Put(list, new) ==
    LET vectorOf(entry) == IF entry.key \in Keys(new) THEN Vector(new, entry.key) ELSE entry.vector
    IN  [i \in DOMAIN list |-> [key |-> list[i].key, vector |-> vectorOf(list[i])]]
            \o Picked(new, {i \in DOMAIN new : new[i].key \notin Keys(list)})

\* Mutant of Stored: vectors are laid on the texts of the list, not on those
\* that were sent.
StoredByPosition(list, missing, texts, found) ==
    Put(list, Entries(SubSeq(texts, 1, Len(found)), found))

Stored(list, missing, texts, found) == Put(list, Entries(missing, found))

\* Looked up in turn, each of these entries becomes the most recent one.
Touched(list, texts) ==
    LET old(i)    == list[i].key \notin {KeyOf[t] : t \in ToSet(texts)}
        isLast(i) == \A j \in i + 1 .. Len(texts) : KeyOf[texts[j]] # KeyOf[texts[i]]
        found     == [i \in DOMAIN texts |-> Vector(list, KeyOf[texts[i]])]
    IN  Picked(list, {i \in DOMAIN list : old(i)})
            \o Picked(Entries(texts, found), {i \in DOMAIN texts : isLast(i)})

Evicted(list) == SubSeq(list, 1 + (IF Len(list) > MaxEntries THEN Len(list) - MaxEntries ELSE 0), Len(list))

\* Every text is looked up in turn.  One whose vector was evicted since it was
\* found ends the call where it stands, with nothing evicted.
Collect(a, list, texts) ==
    \E there \in {Cardinality({i \in DOMAIN texts : \A j \in 1 .. i : KeyOf[texts[j]] \in Keys(list)})} :
    \E touched \in {Touched(list, SubSeq(texts, 1, there))} :
        /\ vectors' = IF there = Len(texts) THEN Evicted(touched) ELSE touched
        /\ results' = [results EXCEPT ![a] =
               IF there = Len(texts)
               THEN [texts |-> texts,
                     found |-> [i \in DOMAIN texts |-> Vector(list, KeyOf[texts[i]])]]
               ELSE Error]
        /\ asking' = [asking EXCEPT ![a] = Idle]

\* embedQueries(texts)
EmbedQueries(a, texts) ==
    /\ asking[a] = Idle /\ calls < MaxCalls
    /\ calls' = calls + 1
    /\ LET missing == Missing(texts, vectors)
       IN  IF missing = <<>>
           THEN Collect(a, vectors, texts) /\ UNCHANGED posted
           ELSE /\ asking' = [asking EXCEPT ![a] = [texts |-> texts, missing |-> missing]]
                /\ posted' = Append(posted, [by |-> a, texts |-> missing])
                /\ UNCHANGED <<vectors, results>>
    /\ UNCHANGED <<served, answers, profile, indexing>>

\* The vectors come back.  A change of model forgets the others.
QueriesEmbedded(a) ==
    /\ answers # <<>> /\ Head(answers).job.by = a
    /\ answers' = Tail(answers)
    /\ LET found == Head(answers).outcome
       IN  IF found = Error
           THEN /\ results' = [results EXCEPT ![a] = Error]
                /\ asking' = [asking EXCEPT ![a] = Idle]
                /\ UNCHANGED cache
           ELSE LET model == found[1].model
                    kept  == IF profile \in {Nothing, model} THEN vectors ELSE <<>>
                IN  /\ profile' = model
                    /\ \E list \in {Stored(kept, asking[a].missing, asking[a].texts, found)} :
                          Collect(a, list, asking[a].texts)
    /\ UNCHANGED <<posted, served, indexing, calls>>
-----------------------------------------------------------------------------
(* The passages of a document. *)

\* Passages from + 1 and on, as many as a job takes.
Batch(d, from, size) ==
    [i \in 1 .. Min({size, Passages[d] - from}) |-> <<d, from + i>>]

\* embedPassages: the first batch of a document, the first time or again.
EmbedPassages(d) ==
    /\ indexing[d].at \notin {"waiting", "yielding"} /\ calls < MaxCalls
    /\ calls' = calls + 1
    /\ indexing' = [indexing EXCEPT ![d] = [at |-> "waiting", done |-> <<>>]]
    /\ posted' = Append(posted, [by |-> d, texts |-> Batch(d, 0, BatchSize)])
    /\ UNCHANGED <<served, answers, cache, asking, results>>

\* A batch comes back: an error, or vectors of another model, end the document.
BatchEmbedded(d) ==
    /\ answers # <<>> /\ Head(answers).job.by = d
    /\ answers' = Tail(answers)
    /\ LET found == Head(answers).outcome
           parts == indexing[d].done
       IN  indexing' = [indexing EXCEPT ![d] =
               IF found = Error \/ (parts # <<>> /\ parts[1].model # found[1].model)
               THEN [at |-> "failed", done |-> <<>>]
               ELSE [at   |-> IF Len(parts \o found) < Passages[d] THEN "yielding" ELSE "done",
                     done |-> parts \o found]]
    /\ UNCHANGED <<posted, served, cache, asking, results, calls>>

\* The next batch, once the main thread has had its turn.
NextBatch(d) ==
    /\ indexing[d].at = "yielding"
    /\ indexing' = [indexing EXCEPT ![d].at = "waiting"]
    /\ posted' = Append(posted, [by |-> d, texts |-> Batch(d, Len(indexing[d].done), BatchSize)])
    /\ UNCHANGED <<served, answers, cache, asking, results, calls>>
-----------------------------------------------------------------------------
Serve == PickDevice \/ EmbedderBuilt \/ GemmaFails \/ NoEmbedder \/ Infer \/ InferenceFails

EmbedNext ==
    \/ Receive \/ Serve
    \/ \E a \in Askers :
        \/ \E texts \in Batches : EmbedQueries(a, texts)
        \/ QueriesEmbedded(a)
    \/ \E d \in Docs : EmbedPassages(d) \/ BatchEmbedded(d) \/ NextBatch(d)

\* Messages arrive, a download or an inference ends one way or the other, and
\* the page yields only for a turn.  Nobody is owed a call.
Fairness ==
    /\ WF_embedVars(Receive) /\ WF_embedVars(Serve)
    /\ \A a \in Askers : WF_embedVars(QueriesEmbedded(a))
    /\ \A d \in Docs : WF_embedVars(BatchEmbedded(d)) /\ WF_embedVars(NextBatch(d))

EmbedSpec == EmbedInit /\ [][EmbedNext]_embedVars /\ Fairness
-----------------------------------------------------------------------------
EmbedTypeOK ==
    /\ stage \in Models \cup {"none", "device", "inference"} /\ (job = Nothing <=> stage = "none")
    /\ embedder \in Models \cup {"none", "pending"} /\ profile \in Models \cup {Nothing}
    /\ Cardinality(Keys(vectors)) = Len(vectors)
    /\ \A a \in Askers : asking[a].texts \in Batches \cup {<<>>}
    /\ \A d \in Docs : indexing[d].at \in {"idle", "waiting", "yielding", "done", "failed"}

Given == {results[a] : a \in {b \in Askers : results[b] \notin {Nothing, Error}}}
Finished == {d \in Docs : indexing[d].at = "done"}
InUse ==
    (UNION {ToSet(r.found) : r \in Given}) \cup (UNION {ToSet(indexing[d].done) : d \in Finished})

\* However calls interleave, share the cache, repeat a question or fail: each
\* question gets the vector of that question, each passage its own, in order,
\* and all of a session come from one model, since a question is compared with
\* the passages (getEmbedder, QueryEmbeddingCache.embed, embedPassagesInBatches).
VectorsAreTheirs ==
    /\ \A r \in Given : \A i \in DOMAIN r.texts : KeyOf[r.found[i].text] = KeyOf[r.texts[i]]
    /\ \A d \in Finished : \E model \in Models : indexing[d].done = Vectors(Batch(d, 0, Passages[d]), model)
    /\ \A v, w \in InUse : v.model = w.model

\* Every list of questions gets its vectors or an error, and every document is
\* embedded or fails, whatever could not be built or run.
EveryEmbeddingSettles ==
    /\ \A a \in Askers : asking[a] # Idle ~> asking[a] = Idle
    /\ \A d \in Docs : indexing[d].at \in {"waiting", "yielding"} ~> indexing[d].at \in {"done", "failed"}
=============================================================================
