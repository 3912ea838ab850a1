------------------------------ MODULE Retrieval ------------------------------
(***************************************************************************)
(* The evidence of a question: documents.svelte.ts retrieveMany, the reads *)
(* of the database worker it makes, and the ranking algorithms of          *)
(* pipeline/retrieval.ts, against a library that is rewritten meanwhile.   *)
(* One action per group of messages that reach the database worker         *)
(* together; every pure stage is an operator.                              *)
(*                                                                         *)
(* A passage is known by its place, <<content, number>>, and Texts gives   *)
(* what ranking can tell of it.  What a question finds (Ranking), how well *)
(* a passage covers it (Utility, in tenths), which passages carry the kind *)
(* of answer asked for (Typed) or an address, a phone or a URL (Carries)   *)
(* are constants: they are functions of two texts.  Scores are             *)
(* ten-thousandths.                                                        *)
(***************************************************************************)
EXTENDS Integers, Sequences, FiniteSets, SequencesExt

CONSTANTS
    Docs,       \* document ids
    Texts,      \* content -> <<passage, ...>>, as chunkBlocks numbers them
    Ranking,    \* variant -> channel -> <<place, ...>>, best first
    Utility,    \* question -> place -> 0..10
    Typed,      \* question -> place -> 0..10, zero: not the kind of answer asked
    Carries,    \* question -> set of places
    Batches,    \* the batches of requests that are tried
    Limit,      \* the numeric limits of the code, by name
    MaxWrites,  \* bound: writes to the library
    MaxSearches \* bound: calls of retrieveMany

Nil == "none"
Channels == {"semantic", "lexical", "fuzzy"}
Routes == {"targeted", "explanation", "synthesis", "aggregate"}

LimitNames == {"channel", "anchors", "context", "pool", "head", "pack", "coarse", "coarseWide", "leading",
               "leadingWide", "final", "contacts", "perPage", "perPageWide", "chars", "reach", "reachWide",
               "long", "window", "early"}

\* parent: a section's routing copy; under: the parents over it; same:
\* class of near-duplicates, Nil for a text without a word of three letters;
\* figures: its material numbers; open: it ends inside a sentence.
PassageOf == [parent : BOOLEAN, under : SUBSET Nat, page : Nat, same : STRING,
              figures : STRING, open : BOOLEAN, size : Nat]
RequestOf == [question : DOMAIN Utility, route : Routes, docs : SUBSET Docs,
              sparse : Seq(DOMAIN Ranking), dense : Seq(DOMAIN Ranking)]

ASSUME TextsAssumption == \A c \in DOMAIN Texts : Texts[c] \in Seq(PassageOf)
ASSUME RankingAssumption ==
    \A variant \in DOMAIN Ranking, channel \in Channels :
        Ranking[variant][channel] \in Seq(UNION {{c} \X DOMAIN Texts[c] : c \in DOMAIN Texts})
ASSUME LimitAssumption == Limit \in [LimitNames -> Nat]
ASSUME BatchesAssumption == \A batch \in Batches : batch # <<>> /\ batch \in Seq(RequestOf)

VARIABLES
    index,      \* document -> its content and the id before its first chunk
    nextId,     \* sqlite_sequence of chunks
    search,     \* the retrieveMany in progress
    cited,      \* table citations: a chunk id and the snippet kept with it
    writes,     \* counts writes, for the bound
    searches,   \* counts searches, for the bound
    quiet       \* history: nothing was written since this search began

searchVars == <<index, nextId, search, cited, writes, searches, quiet>>

-----------------------------------------------------------------------------
(* Lists of hits. *)

Chunk(hit) == Texts[hit.of][hit.n]
Place(hit) == <<hit.of, hit.n>>
IsParent(hit) == Chunk(hit).parent
Useful(question, hit) == Utility[question][Place(hit)]
Near(hit, anchor, distance) ==
    hit.doc = anchor.doc /\ hit.n - anchor.n \in -distance .. distance

Take(list, k) == SubSeq(list, 1, IF Len(list) < k THEN Len(list) ELSE k)
IdsOf(list) == {list[i].id : i \in DOMAIN list}
Sum(list) == FoldLeft(LAMBDA x, y : x + y, 0, list)

\* The entries of a list at some of its positions.
Pick(list, at) ==
    LET picked[n \in 0 .. Len(list)] ==
            IF n = 0 THEN <<>>
            ELSE IF n \in at THEN Append(picked[n - 1], list[n]) ELSE picked[n - 1]
    IN  picked[Len(list)]
Once(list) == Pick(list, {i \in DOMAIN list : \A j \in 1 .. i - 1 : list[j].id # list[i].id})

Flat(lists) ==
    LET flat[n \in 0 .. Len(lists)] == IF n = 0 THEN <<>> ELSE flat[n - 1] \o lists[n]
    IN  flat[Len(lists)]

\* key gives a number for each position.  Array.prototype.sort is stable: an
\* equal key stays behind those before it.  (Concatenation makes TLC compute
\* a list once, and not each of its entries whenever it is looked at.)
Descending(list, key) ==
    LET keys == <<>> \o key
        sorted[n \in 0 .. Len(list)] ==
            IF n = 0 THEN <<>>
            ELSE LET done == sorted[n - 1]
                 IN  InsertAt(done, Cardinality({i \in DOMAIN done : keys[done[i]] >= keys[n]}) + 1, n)
        order == sorted[Len(list)]
    IN  <<>> \o [i \in DOMAIN order |-> list[order[i]]]
Weight == 100000        \* larger than any score
ByScore(list) == Descending(list, [i \in DOMAIN list |-> list[i].score])
By(list, key) == Descending(list, [i \in DOMAIN list |-> key[i] * Weight + list[i].score])
UsefulOf(question, list) == [i \in DOMAIN list |-> Useful(question, list[i])]

-----------------------------------------------------------------------------
(* Reads of the database worker. *)

HitsOf(d) ==
    IF index[d].of = Nil THEN <<>>
    ELSE [n \in DOMAIN Texts[index[d].of] |->
             [id |-> index[d].base + n, doc |-> d, of |-> index[d].of, n |-> n, score |-> 0]]
Live == UNION {ToSet(HitsOf(d)) : d \in Docs}
HitsAt(place, scope) == {hit \in Live : Place(hit) = place /\ (scope = {} \/ hit.doc \in scope)}

\* bm25 grows as a passage gets worse, cosine similarity falls.
RawScore(channel, rank) == IF channel = "semantic" THEN 0 - rank ELSE rank

\* An empty scope is no scope (scopeSql).
Found(channel, variant, scope) ==
    LET all == Ranking[variant][channel]
        list == Pick(all, {i \in DOMAIN all : HitsAt(all[i], scope) # {}})
    IN  Take([rank \in DOMAIN list |->
                 [(CHOOSE hit \in HitsAt(list[rank], scope) : TRUE) EXCEPT !.score = RawScore(channel, rank)]],
             Limit.channel)

\* Document-local chunks around the anchors that still exist, in order.
Ordered(hits) ==
    LET list[id \in 0 .. nextId] ==
            IF id = 0 THEN <<>>
            ELSE list[id - 1] \o (IF \E hit \in hits : hit.id = id
                                  THEN <<CHOOSE hit \in hits : hit.id = id>> ELSE <<>>)
    IN  list[nextId]
ListNeighborChunks(ids, radius) ==
    Ordered({hit \in Live : \E anchor \in Live : anchor.id \in ids /\ Near(hit, anchor, radius)})

\* The first precise chunk of every page an anchor is on.
ListPageLeadChunks(ids) ==
    LET SamePage(a, b) == a.doc = b.doc /\ Chunk(a).page = Chunk(b).page
    IN  Ordered({hit \in Live :
            /\ ~ IsParent(hit)
            /\ \E anchor \in Live : anchor.id \in ids /\ SamePage(anchor, hit)
            /\ \A other \in Live : SamePage(other, hit) /\ ~ IsParent(other) => hit.n <= other.n})

ListChildChunksForParents(ids) ==
    LET pairs == {[parent |-> p, child |-> c] : p \in {hit \in Live : hit.id \in ids /\ IsParent(hit)},
                                                c \in {hit \in Live : ~ IsParent(hit)}}
    IN  {pair \in pairs : pair.parent.doc = pair.child.doc /\ pair.parent.n \in Chunk(pair.child).under}

-----------------------------------------------------------------------------
(* Ranking. *)

RRF(rank) == 10000 \div (60 + rank)
RankIn(list, id) == CHOOSE rank \in DOMAIN list : list[rank].id = id
RankScore(list, id) == IF id \in IdsOf(list) THEN RRF(RankIn(list, id)) ELSE 0
\* The first list, the words of the question itself, counts double.
MergeRankedCandidateLists(lists) ==
    LET all == Once(ByScore(Flat(lists)))
        Score(hit) == RankScore(lists[1], hit.id) + Sum([i \in DOMAIN lists |-> RankScore(lists[i], hit.id)])
    IN  Take(By(all, [i \in DOMAIN all |-> Score(all[i])]), Limit.channel)

\* The passages beside an anchor that cover some of the question, best first.
ContextOf(question, anchor, near) ==
    LET beside == Pick(near, {i \in DOMAIN near : /\ near[i].id # anchor.id /\ Near(near[i], anchor, 1)
                                                  /\ Useful(question, near[i]) > 0})
    IN  Descending(beside, [i \in DOMAIN beside |-> Useful(question, beside[i]) * Weight - beside[i].id])

\* Each anchor, then the passages beside it; candidates and context have a
\* budget each.
ExpandChannelCandidatesWithNeighbors(question, ranked, near) ==
    LET New(list, done) == Pick(list, {i \in DOMAIN list : list[i].id \notin IdsOf(done)})
        AddContext(done, hits) ==
            LET new == Take(New(hits, done.list), Limit.context - done.context)
            IN  [done EXCEPT !.list = @ \o new, !.context = @ + Len(new)]
        AddAnchor(done, hit) ==
            LET new == New(<<hit>>, done.list)
            IN  [done EXCEPT !.list = @ \o new, !.anchors = @ + Len(new)]
        expanded[i \in 0 .. Len(ranked)] ==
            IF i = 0 THEN [list |-> <<>>, anchors |-> 0, context |-> 0]
            ELSE LET done == expanded[i - 1]
                     added == AddAnchor(done, ranked[i])
                 IN  IF done.anchors = Limit.channel THEN done
                     ELSE IF i > Limit.anchors THEN added
                     ELSE AddContext(added, ContextOf(question, ranked[i], near))
    IN  expanded[Len(ranked)].list

\* Reciprocal rank fusion of the three channels.
FuseCandidates(channels) ==
    LET all == Once(Flat(channels))
        Score(hit) == Sum([c \in DOMAIN channels |-> RankScore(channels[c], hit.id)])
    IN  Take(ByScore([i \in DOMAIN all |-> [all[i] EXCEPT !.score = Score(all[i])]]), Limit.pool)

Covered(question, fused) ==
    ByScore([i \in DOMAIN fused |-> [fused[i] EXCEPT !.score = @ + 30 * Useful(question, fused[i])]])

\* The hits of a list that one channel found too.
FoundBy(list, channel) == Pick(list, {i \in DOMAIN list : list[i].id \in IdsOf(channel)})

\* A bonus for the best grounded hit of each channel.
Rescored(question, channels, scored) ==
    LET grounded == Pick(scored, {i \in DOMAIN scored : Useful(question, scored[i]) >= 4})
        Leader(list) == Take(By(list, UsefulOf(question, list)), 1)
        leaders == IdsOf(Flat([c \in DOMAIN channels |-> Leader(FoundBy(grounded, channels[c]))]))
        Bonus(hit) == IF hit.id \in leaders THEN 160 * Useful(question, hit) ELSE 0
    IN  ByScore([i \in DOMAIN scored |-> [scored[i] EXCEPT !.score = @ + Bonus(scored[i])]])

\* Mutant of Contact: the restriction of refineCandidates is not restated.
NoContact(question, sorted) == <<>>

Contact(question, sorted) ==
    Take(Pick(sorted, {i \in DOMAIN sorted : Place(sorted[i]) \in Carries[question]}), Limit.contacts)

Strengths(question, list) == [i \in DOMAIN list |-> Typed[question][Place(list[i])]]
Carriers(question, list) == Pick(list, {i \in DOMAIN list : Typed[question][Place(list[i])] > 0})
Strongest(question, list) == By(list, Strengths(question, list))

\* Carriers of the asked-for kind of answer come first.
CarriersFirst(question, channels, rescored) ==
    LET carriers == Carriers(question, rescored)
        typed == Once(Flat([c \in DOMAIN channels |->
                     Take(Strongest(question, FoundBy(carriers, channels[c])), 1)]))
    IN  Once(Contact(question, rescored) \o Strongest(question, typed) \o rescored)

RefineCandidates(question, channels, topK) ==
    Take(CarriersFirst(question, channels,
             Rescored(question, channels, Covered(question, FuseCandidates(channels)))), topK)

Precise(list) == Pick(list, {i \in DOMAIN list : ~ IsParent(list[i])})

\* A child inherits nine tenths of its parent's score, the best if it has
\* several; parents go.
ExpandStructuralParents(question, ranked, pairs, topK) ==
    LET ScoreOf(id) == ranked[RankIn(ranked, id)].score
        children == Ordered({pair.child : pair \in pairs})
        Inherited(hit) == Max({(ScoreOf(pair.parent.id) * 9) \div 10 : pair \in {p \in pairs : p.child = hit}})
        promoted == [i \in DOMAIN children |-> [children[i] EXCEPT !.score =
                        Inherited(children[i]) + 38 * Useful(question, children[i])]]
    IN  Take(Once(ByScore(Precise(ranked) \o promoted)), topK)

\* At most two pages with two winners or more lend their lead to those winners.
PageOf(hit) == <<hit.doc, Chunk(hit).page>>
OnPage(list, page) == Pick(list, {i \in DOMAIN list : PageOf(list[i]) = page})
LendLeads(leads, hits, pages) ==
    LET LeadOf(hit) == IF PageOf(hit) \in pages THEN OnPage(leads, PageOf(hit))[1].id ELSE hit.id
    IN  [i \in DOMAIN hits |-> [hit |-> hits[i],
                                context |-> IF LeadOf(hits[i]) = hits[i].id THEN 0 ELSE LeadOf(hits[i])]]
EnrichRepeatedPageLeadContext(leads, hits) ==
    LET Repeated(hit) == Len(OnPage(hits, PageOf(hit))) >= 2 /\ OnPage(hits, PageOf(hit))[1] = hit
        Scores(list) == [i \in DOMAIN list |-> list[i].score]
        repeated == Pick(hits, {i \in DOMAIN hits : Repeated(hits[i])})
        pages == Descending(repeated, [i \in DOMAIN repeated |-> Sum(Scores(OnPage(hits, PageOf(repeated[i]))))])
        lent == Take(Pick(pages, {i \in DOMAIN pages : OnPage(leads, PageOf(pages[i])) # <<>>}), 2)
    IN  LendLeads(leads, hits, {PageOf(lent[i]) : i \in DOMAIN lent})

-----------------------------------------------------------------------------
(* selectWithNeighbors: the candidates, their order, the packing.  The     *)
(* dozen lists of the code that sort the candidates by one kind of         *)
(* evidence (dates, names, constraints, clauses, rows...) are one here,    *)
(* the typed one.                                                          *)

Wide(route) == route \in {"explanation", "synthesis"}
Reach(route) == IF Wide(route) THEN Limit.reachWide ELSE Limit.reach

\* A neighbour's score is its first anchor's, less with distance.
Apart(hit, other) == IF hit.n > other.n THEN hit.n - other.n ELSE other.n - hit.n
NeighborScore(question, hit, anchor) ==
    (anchor.score * (IF Useful(question, hit) > 0 THEN 55 ELSE 45)) \div (100 * Apart(hit, anchor))
    + 28 * Useful(question, hit)
Candidates(question, route, ranked, near) ==
    LET AnchorsOf(hit) == Pick(ranked, {i \in DOMAIN ranked : /\ ranked[i].n # hit.n
                                                              /\ Near(hit, ranked[i], Reach(route))})
        new == Pick(near, {i \in DOMAIN near : near[i].id \notin IdsOf(ranked) /\ AnchorsOf(near[i]) # <<>>})
    IN  ByScore(ranked \o [i \in DOMAIN new |->
                    [new[i] EXCEPT !.score = NeighborScore(question, new[i], AnchorsOf(new[i])[1])]])

\* The best stretch of one document around its best passage.
Around(list, anchor, route) == Pick(list, {i \in DOMAIN list : Near(list[i], anchor, Reach(route))})
WindowAround(question, route, precise, anchor) ==
    LET around == Around(precise, anchor, route)
        kept == Pick(around, {i \in DOMAIN around : Apart(around[i], anchor) <= 1 \/ Chunk(around[i]).size >= Limit.long})
        Worth(hit) == IF route = "synthesis" THEN 100 * Useful(question, hit) ELSE 0
        Key(hit) == IF hit.id = anchor.id THEN 1000000 ELSE Worth(hit) - Apart(hit, anchor)
    IN  Take(Descending(kept, [i \in DOMAIN kept |-> Key(kept[i])]), Limit.window)
ContextualWindow(question, route, precise) ==
    LET best == By(precise, UsefulOf(question, precise))
        Worth(anchor) == Sum(UsefulOf(question, Around(precise, anchor, route)))
    IN  IF ~ Wide(route) \/ precise = <<>> THEN <<>>
        ELSE WindowAround(question, route, precise, Descending(best, [i \in DOMAIN best |-> Worth(best[i])])[1])

\* What follows the first passages that end inside a sentence.
Continuations(sorted, heads) ==
    LET once == Once(heads)
        open == Take(Pick(once, {i \in DOMAIN once : Chunk(once[i]).open}), 2)
        After(hit) == Pick(sorted, {i \in DOMAIN sorted : sorted[i].doc = hit.doc /\ sorted[i].n = hit.n + 1})
    IN  Flat([i \in DOMAIN open |-> Take(After(open[i]), 1)])

Order(question, route, ranked, sorted, window) ==
    LET contact == Contact(question, sorted)
        scoped == Take(By(sorted, UsefulOf(question, sorted)), 2)
        typed == Strongest(question, Carriers(question, sorted))
        leaders == Pick(sorted, {i \in DOMAIN sorted : \A j \in 1 .. i - 1 : sorted[j].doc # sorted[i].doc})
    IN  CASE route = "aggregate" -> ranked \o sorted
          [] route = "synthesis" -> contact \o window
                                    \o Continuations(Precise(sorted), Precise(window \o Take(sorted, Limit.early)))
                                    \o typed \o leaders \o sorted
          [] OTHER -> contact \o Continuations(sorted, scoped) \o window \o typed \o scoped \o sorted

\* A near-duplicate of a kept passage adds nothing, unless a synthesis finds
\* other figures in it or an aggregate finds it on another page.  Two texts
\* without a word are never alike, not even to themselves.
RepeatsKept(route, hit, kept) ==
    /\ kept.doc = hit.doc
    /\ Chunk(kept).same = Chunk(hit).same /\ Chunk(hit).same # Nil
    /\ route = "synthesis" => \/ Chunk(kept).figures = Chunk(hit).figures
                              \/ Nil \in {Chunk(kept).figures, Chunk(hit).figures}
    /\ route = "aggregate" => Chunk(kept).page = Chunk(hit).page

\* Structural parents are routing aids, never excerpts.
Excerpts(order) == Precise(order)

Packed(route, order, topK) ==
    LET perPage == IF Wide(route) THEN Limit.perPageWide ELSE Limit.perPage
        SizeOf(list) == Sum([i \in DOMAIN list |-> Chunk(list[i]).size])
        OnPageOf(list, hit) == {i \in DOMAIN list : list[i].doc = hit.doc /\ Chunk(list[i]).page = Chunk(hit).page}
        Full(kept, hit) ==
            \/ Len(kept) = topK
            \/ \E i \in DOMAIN kept : RepeatsKept(route, hit, kept[i])
            \/ Cardinality(OnPageOf(kept, hit)) >= perPage
            \/ kept # <<>> /\ SizeOf(kept) + Chunk(hit).size > Limit.chars
        packed[n \in 0 .. Len(order)] ==
            IF n = 0 THEN <<>>
            ELSE LET kept == packed[n - 1]
                 IN  IF Full(kept, order[n]) THEN kept ELSE Append(kept, order[n])
    IN  packed[Len(order)]

SelectFrom(question, route, ranked, sorted, topK) ==
    Packed(route, Excerpts(Order(question, route, ranked, sorted,
                                 ContextualWindow(question, route, Precise(sorted)))), topK)
SelectWithNeighbors(question, route, ranked, near, topK) ==
    SelectFrom(question, route, ranked, Candidates(question, route, ranked, near), topK)

-----------------------------------------------------------------------------
(* The stages of retrieveMany, over a batch. *)

Tagged(i, variants) == [k \in DOMAIN variants |-> [request |-> i, variant |-> variants[k]]]
Sparse(batch) == Flat([i \in DOMAIN batch |-> Tagged(i, batch[i].sparse)])
Dense(batch)  == Flat([i \in DOMAIN batch |-> Tagged(i, batch[i].dense)])

\* Mutant of Scope: the scopes are taken in the order of the variants.
ScopeByPosition(batch, flat, k) == batch[IF k > Len(batch) THEN Len(batch) ELSE k].docs

Scope(batch, flat, k) == batch[flat[k].request].docs

Searched(channel, batch, flat) ==
    [k \in DOMAIN flat |-> Found(channel, flat[k].variant, Scope(batch, flat, k))]
ListsOf(i, flat, lists) == Pick(lists, {k \in DOMAIN flat : flat[k].request = i})

\* The candidates of each request, one list per channel.
CandidateSets(batch, lexical, fuzzy, semantic) ==
    [i \in DOMAIN batch |-> <<MergeRankedCandidateLists(ListsOf(i, Dense(batch), semantic)),
                              MergeRankedCandidateLists(ListsOf(i, Sparse(batch), lexical)),
                              MergeRankedCandidateLists(ListsOf(i, Sparse(batch), fuzzy))>>]

\* The leading hits of every channel: of one request, of the batch.
Anchors(channels, k) == Flat([c \in DOMAIN channels |-> Take(channels[c], k)])
Leading(route) == IF route = "synthesis" THEN Limit.leadingWide ELSE Limit.leading
PreFusionAnchors(sets) == UNION {IdsOf(Anchors(sets[i], Limit.anchors)) : i \in DOMAIN sets}
ChannelAnchors(batch, sets) ==
    UNION {IdsOf(Anchors(sets[i], Leading(batch[i].route))) : i \in DOMAIN sets}

RankInitialChannels(request, channels, near) ==
    LET Alone(c) == [<<<<>>, <<>>, <<>>>> EXCEPT ![c] =
                        ExpandChannelCandidatesWithNeighbors(request.question, channels[c], near)]
    IN  [c \in DOMAIN channels |-> RefineCandidates(request.question, Alone(c), Limit.head)]

\* Mutant of NeighborsForAnchors: the batch's neighbours go to every request.
NeighborsOfBatch(near, anchors) == near

\* A read for the whole batch returned the union of its requests' neighbours.
NeighborsForAnchors(near, anchors) ==
    Pick(near, {k \in DOMAIN near : \E i \in DOMAIN anchors : Near(near[k], anchors[i], 1)})

CandidateLimit(request) ==
    IF request.route = "synthesis" \/ \E place \in DOMAIN Typed[request.question] :
                                          Typed[request.question][place] > 0
    THEN Limit.coarseWide ELSE Limit.coarse

PackAndFuseChannels(request, channels, near) ==
    LET own == NeighborsForAnchors(near, Anchors(channels, Leading(request.route)))
        packed == [c \in DOMAIN channels |->
            SelectWithNeighbors(request.question, request.route, channels[c], own, Limit.pack)]
    IN  RefineCandidates(request.question, packed, CandidateLimit(request))

ParentIds(coarse) == IdsOf(Pick(coarse, {i \in DOMAIN coarse : IsParent(coarse[i])}))
Ranked(request, coarse, pairs) ==
    ExpandStructuralParents(request.question, coarse, pairs, CandidateLimit(request))
FinalAnchors(request, ranked) == IdsOf(Take(ranked, Leading(request.route)))

PackFinalEvidence(request, ranked, near, leads) ==
    EnrichRepeatedPageLeadContext(leads,
        SelectWithNeighbors(request.question, request.route, ranked, near, Limit.final))

\* All the stages for one request alone, over the library as it is.
EvidenceOfRanked(request, ranked) ==
    PackFinalEvidence(request, ranked, ListNeighborChunks(FinalAnchors(request, ranked), Reach(request.route)),
                      ListPageLeadChunks(FinalAnchors(request, ranked)))
EvidenceOfCoarse(request, coarse) ==
    EvidenceOfRanked(request, Ranked(request, coarse, ListChildChunksForParents(ParentIds(coarse))))
EvidenceOfChannels(request, channels) ==
    EvidenceOfCoarse(request, PackAndFuseChannels(request, channels,
                                  ListNeighborChunks(ChannelAnchors(<<request>>, <<channels>>), 1)))
EvidenceOfSets(request, sets) ==
    EvidenceOfChannels(request, RankInitialChannels(request, sets[1], ListNeighborChunks(PreFusionAnchors(sets), 1)))
EvidenceOfBatch(batch) ==
    EvidenceOfSets(batch[1], CandidateSets(batch, Searched("lexical", batch, Sparse(batch)),
                                 Searched("fuzzy", batch, Sparse(batch)),
                                 Searched("semantic", batch, Dense(batch))))
Evidence(request) == EvidenceOfBatch(<<request>>)

-----------------------------------------------------------------------------
(* The search in progress, one action per arrival at the database worker.  *)

Idle == [step |-> "idle"]
Batch == search.batch
Requests == DOMAIN Batch

\* Both sparse searches are posted at once; the embedding starts meanwhile.
RetrieveMany(batch) ==
    /\ search.step = "idle" /\ searches < MaxSearches
    /\ search' = [step |-> "embedding", batch |-> batch,
                  lexical |-> Searched("lexical", batch, Sparse(batch)),
                  fuzzy |-> Searched("fuzzy", batch, Sparse(batch))]
    /\ quiet' = TRUE /\ searches' = searches + 1
    /\ UNCHANGED <<index, nextId, cited, writes>>

SearchVectorMany ==
    /\ search.step = "embedding"
    /\ search' = [step |-> "candidates", batch |-> Batch,
                  sets |-> CandidateSets(Batch, search.lexical, search.fuzzy,
                                         Searched("semantic", Batch, Dense(Batch)))]
    /\ UNCHANGED <<index, nextId, cited, writes, searches, quiet>>

RankInitial ==
    /\ search.step = "candidates"
    /\ LET near == ListNeighborChunks(PreFusionAnchors(search.sets), 1)
       IN  search' = [step |-> "channels", batch |-> Batch,
                      channels |-> [i \in Requests |-> RankInitialChannels(Batch[i], search.sets[i], near)]]
    /\ UNCHANGED <<index, nextId, cited, writes, searches, quiet>>

PackAndFuse ==
    /\ search.step = "channels"
    /\ LET near == ListNeighborChunks(ChannelAnchors(Batch, search.channels), 1)
       IN  search' = [step |-> "fused", batch |-> Batch,
                      coarse |-> [i \in Requests |-> PackAndFuseChannels(Batch[i], search.channels[i], near)]]
    /\ UNCHANGED <<index, nextId, cited, writes, searches, quiet>>

ExpandParents ==
    /\ search.step = "fused"
    /\ search' = [step |-> "packing", batch |-> Batch,
                  ranked |-> [i \in Requests |->
                      Ranked(Batch[i], search.coarse[i],
                             ListChildChunksForParents(ParentIds(search.coarse[i])))],
                  results |-> <<>>]
    /\ UNCHANGED <<index, nextId, cited, writes, searches, quiet>>

\* Each request reads its neighbours and page leads together; when the last
\* has them the evidence is handed over.
PackFinal(i) ==
    /\ search.step = "packing" /\ i \notin DOMAIN search.results
    /\ LET ids == FinalAnchors(Batch[i], search.ranked[i])
           result == PackFinalEvidence(Batch[i], search.ranked[i],
                         ListNeighborChunks(ids, Reach(Batch[i].route)), ListPageLeadChunks(ids))
           results == [j \in DOMAIN search.results \cup {i} |-> IF j = i THEN result ELSE search.results[j]]
       IN  search' = [search EXCEPT !.results = results,
                                    !.step = IF DOMAIN results = Requests THEN "answered" ELSE @]
    /\ UNCHANGED <<index, nextId, cited, writes, searches, quiet>>

HitsFor(i) == IF i \notin DOMAIN search.results THEN {}
              ELSE {search.results[i][k].hit : k \in DOMAIN search.results[i]}

\* The answer cites a passage of its evidence (insertCitations) or none.
Cite ==
    /\ search.step = "answered"
    /\ \E used \in {{}} \cup {{hit} : hit \in UNION {HitsFor(i) : i \in Requests}} :
           cited' = cited \cup {[chunk |-> hit.id, snippet |-> Place(hit)] : hit \in used}
    /\ search' = Idle
    /\ UNCHANGED <<index, nextId, writes, searches, quiet>>

-----------------------------------------------------------------------------
(* The library, as far as a search sees it: ready documents only. *)

\* Mutant of FreshBase: ids without AUTOINCREMENT follow the largest one left.
LargestLeft(id) == IF Live = {} THEN 0
                   ELSE CHOOSE n \in {hit.id : hit \in Live} : \A hit \in Live : hit.id <= n

\* AUTOINCREMENT: an id is never given twice.
FreshBase(id) == id

\* A document indexed, indexed anew or replaced: its chunks go, others come.
Rewrite(d, content) ==
    /\ writes < MaxWrites
    /\ \A e \in Docs \ {d} : index[e].of # content
    /\ LET base == FreshBase(nextId)
       IN  index' = [index EXCEPT ![d] = [of |-> content, base |-> base]]
    /\ nextId' = nextId + Len(Texts[content])
    /\ writes' = writes + 1 /\ quiet' = FALSE
    /\ UNCHANGED <<search, searches, cited>>

RemoveDocument(d) ==
    /\ writes < MaxWrites /\ index[d].of # Nil
    /\ index' = [index EXCEPT ![d] = [of |-> Nil, base |-> 0]]
    /\ writes' = writes + 1 /\ quiet' = FALSE
    /\ UNCHANGED <<nextId, search, searches, cited>>

SearchInit ==
    /\ index = [d \in Docs |-> [of |-> Nil, base |-> 0]]
    /\ nextId = 0 /\ search = Idle /\ cited = {} /\ writes = 0 /\ searches = 0 /\ quiet = TRUE

SearchNext ==
    \/ \E batch \in Batches : RetrieveMany(batch)
    \/ SearchVectorMany \/ RankInitial \/ PackAndFuse \/ ExpandParents
    \/ search.step = "packing" /\ \E i \in Requests : PackFinal(i)
    \/ Cite
    \/ \E d \in Docs : RemoveDocument(d) \/ \E content \in DOMAIN Texts : Rewrite(d, content)

SearchSpec == SearchInit /\ [][SearchNext]_searchVars

-----------------------------------------------------------------------------
(* Properties. *)

\* The index, the citations and the evidence have their types; evidence is
\* made of precise passages only, never of a section's routing copy.
SearchTypeOK ==
    /\ index \in [Docs -> [of : DOMAIN Texts \cup {Nil}, base : Nat]]
    /\ nextId \in Nat /\ writes \in 0 .. MaxWrites /\ searches \in 0 .. MaxSearches /\ quiet \in BOOLEAN
    /\ search.step \in {"idle", "embedding", "candidates", "channels", "fused", "packing", "answered"}
    /\ \A c \in cited : c.chunk <= nextId /\ c.snippet[2] \in DOMAIN Texts[c.snippet[1]]
    /\ search.step \in {"packing", "answered"} => \A i \in Requests : \A hit \in HitsFor(i) : ~ IsParent(hit)

\* Batching cannot change what a question gets (retrieval.ts:24-26): if the
\* library stood still, every request of the batch has the evidence that
\* retrieving it alone returns, page context included.
BatchIsolation ==
    search.step = "answered" /\ quiet =>
        \A i \in Requests : search.results[i] = Evidence(Batch[i])

\* A request with a scope gets evidence from no other document, at no stage
\* of a batch that mixes scopes, whatever is written meanwhile.
ScopeIsKept ==
    search.step \in {"packing", "answered"} =>
        \A i \in Requests :
            Batch[i].docs = {} \/ \A hit \in ToSet(search.ranked[i]) \cup HitsFor(i) : hit.doc \in Batch[i].docs

\* Context never costs recall (retrieval.ts:93-96): every candidate of a
\* channel is still there when its neighbours have been put beside it.
ContextCostsNoRecall ==
    search.step = "candidates" =>
        LET near == ListNeighborChunks(PreFusionAnchors(search.sets), 1)
        IN  \A i \in Requests : \A ch \in DOMAIN search.sets[i] :
                IdsOf(search.sets[i][ch]) \subseteq
                    IdsOf(ExpandChannelCandidatesWithNeighbors(Batch[i].question, search.sets[i][ch], near))

\* A question that asks for an address, a phone or a URL gets a passage that
\* carries one (retrieval.ts:1320-1330): if a precise passage heading a channel
\* carries it, so does one of the evidence.
CarriersReachEvidence ==
    search.step = "answered" /\ quiet =>
        \A i \in Requests :
            LET Heading(ch, v) == ToSet(Take(Found(ch, v, Batch[i].docs), 1))
                heading == UNION {Heading(ch, v) : ch \in {"lexical", "fuzzy"}, v \in ToSet(Batch[i].sparse)}
                Carrier(hit) == ~ IsParent(hit) /\ Place(hit) \in Carries[Batch[i].question]
            IN  Batch[i].route # "aggregate" /\ (\E hit \in heading : Carrier(hit)) =>
                    \E hit \in HitsFor(i) : Carrier(hit)

\* Opening a stored citation (viewer.svelte.ts openCitation) shows the passage
\* that was cited or, when its chunk is gone, the snippet: never another text.
CitationShowsItsPassage ==
    \A c \in cited : \A hit \in Live : hit.id = c.chunk => Place(hit) = c.snippet

\* What the documentation says of parents (retrieval.ts:1342): their score
\* promotes precise children of the same section.  A parent that heads the
\* lexical channel and covers the question better than any other passage in
\* scope brings the child that covers most of it among the ranked candidates.
ParentsPromote ==
    search.step = "packing" /\ quiet =>
        \A i \in Requests :
            LET found == Found("lexical", Batch[i].sparse[1], Batch[i].docs)
                U(hit) == Useful(Batch[i].question, hit)
                Children == {hit \in Live : hit.doc = found[1].doc /\ found[1].n \in Chunk(hit).under}
                leads == found # <<>> /\ IsParent(found[1])
                         /\ \A other \in Live : other.id = found[1].id \/ U(other) < U(found[1])
            IN  leads =>
                   \E child \in Children :
                       /\ \A other \in Children : U(other) <= U(child)
                       /\ child.id \in IdsOf(search.ranked[i])
=============================================================================
