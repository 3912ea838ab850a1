---------------------------- MODULE MoneyRecords ----------------------------
(***************************************************************************)
(* From the text of a document to an exact sum: how pipeline/chunk.ts cuts *)
(* a section into passages and lays overlapping parent passages over them, *)
(* how analysis/financial-records.ts reads money facts out of passages and *)
(* names the record each belongs to, and how analysis/aggregate.ts turns   *)
(* the facts of many records into counted amounts.                         *)
(*                                                                         *)
(* A text is a sequence of sections (a page, or the lines under a          *)
(* heading); a section a sequence of pieces, each a line or a few.  What   *)
(* the regular expressions find in a piece is given: the identifier, the   *)
(* date and the amounts in it, and whether it opens a record               *)
(* (anchored, "Facture ...").  Sizes are in units of 80 characters.        *)
(***************************************************************************)
EXTENDS Integers, SequencesExt

None == "none"

Target    == 8      \* CHUNK_TARGET_CHARS, 650
Overlap   == 1      \* CHUNK_OVERLAP_CHARS, 80
ParentMin == 11     \* PARENT_CHUNK_MIN_CHARS, 900
ParentMax == 18     \* PARENT_CHUNK_MAX_CHARS, 1500

(***************************************************************************)
(* Cutting.  chunkBlocks packs consecutive pieces of one section, and      *)
(* repeats the last piece of a full passage in the next when it is small.  *)
(***************************************************************************)
SizeOf(pieces) == FoldLeft(LAMBDA n, p : n + p.size, 0, pieces)

Pack(packed, piece) ==
  LET buf  == packed.buf
      tail == IF Last(buf).size <= Overlap THEN <<Last(buf)>> ELSE <<>>
  IN IF buf # <<>> /\ SizeOf(buf) + piece.size > Target
     THEN [done |-> Append(packed.done, buf), buf |-> Append(tail, piece)]
     ELSE [packed EXCEPT !.buf = Append(@, piece)]

Children(pieces) ==
  LET packed == FoldLeft(Pack, [done |-> <<>>, buf |-> <<>>], pieces)
  IN IF packed.buf = <<>> THEN packed.done ELSE Append(packed.done, packed.buf)

\* A parent holds at least two children and as many more as fit; the next one
\* starts with its last child.
Parents(children) ==
  LET n == Len(children)
      Size(i, j) == SizeOf(FlattenSeq(SubSeq(children, i, j)))
      End[i \in 1 .. n] == CHOOSE j \in i + 1 .. n :
        /\ \A k \in i + 2 .. j : Size(i, k) <= ParentMax
        /\ j < n => Size(i, j + 1) > ParentMax
      From[i \in 1 .. n] ==
        IF i = n THEN <<>>
        ELSE <<FlattenSeq(SubSeq(children, i, End[i]))>> \o (IF End[i] = n THEN <<>> ELSE From[End[i]])
  IN IF n > 1 /\ Size(1, n) >= ParentMin THEN From[1] ELSE <<>>

\* The passages in the order of seq; a passage is known by its number.
ChunkBlocks(text) ==
  LET Cut(s) ==
        LET children == Children(text[s].pieces)
            Passages(list, parent) ==
              [i \in DOMAIN list |-> [place |-> text[s].place, parent |-> parent, pieces |-> list[i]]]
        IN Passages(children, FALSE) \o Passages(Parents(children), TRUE)
  IN FlattenSeq([s \in DOMAIN text |-> Cut(s)])

(***************************************************************************)
(* Reading.  extractFinancialRecords leaves weak recognition out, splits a *)
(* passage where a record opens, and names the record by its identifier,   *)
(* or by its place, its rank in the passage and its date.  Text without    *)
(* pages or headings is placed by the passage itself.                      *)
(***************************************************************************)
Reliable(chunk) == \A i \in DOMAIN chunk.pieces : ~chunk.pieces[i].weak
Location(chunks, i) == <<chunks[i].place, IF chunks[i].place = None THEN i ELSE 0>>

SplitRecordSegments(pieces) ==
  FoldLeft(LAMBDA segments, p :
             IF segments = <<>> \/ p.anchored THEN Append(segments, <<p>>)
             ELSE Front(segments) \o <<Append(Last(segments), p)>>,
           <<>>, pieces)

First(pieces, values) ==   \* the first of a sequence of matches, or none
  LET found == SelectSeq([i \in DOMAIN pieces |-> values[pieces[i]]], LAMBDA v : v # None)
  IN IF found = <<>> THEN None ELSE Head(found)
RecordDate(pieces) == First(pieces, [p \in ToSet(pieces) |-> p.date])
RecordId(pieces)   == First(pieces, [p \in ToSet(pieces) |-> p.id])

\* Mutated: the date is left out of the name of a record.
KeyWithoutDate(location, rank, id, date) ==
  IF id # None THEN <<id, <<>>, 0, None>> ELSE <<None, location, rank, None>>

Key(location, rank, id, date) ==
  IF id # None THEN <<id, <<>>, 0, None>> ELSE <<None, location, rank, date>>

\* What one passage says alone, or what all passages of its place agree on.
Own(value, location, chunks, Read(_)) ==
  LET peers  == {i \in DOMAIN chunks : Reliable(chunks[i]) /\ Location(chunks, i) = location}
      shared == {Read(chunks[i].pieces) : i \in peers} \ {None}
  IN IF value # None THEN value ELSE IF Cardinality(shared) = 1 THEN CHOOSE v \in shared : TRUE ELSE None

\* A fact repeated inside one record is kept once, with the passage read first.
ExtractFinancialRecords(chunks) ==
  LET Found(i) ==
        LET segments == SplitRecordSegments(chunks[i].pieces)
            location == Location(chunks, i)
        IN UNION {
             LET date == Own(RecordDate(segments[r]), location, chunks, RecordDate)
                 id   == Own(RecordId(segments[r]), location, chunks, RecordId)
             IN {[key |-> Key(location, r, id, date), date |-> date, kind |-> a.kind,
                  value |-> a.value, chunk |-> i] :
                   a \in UNION {p.amounts : p \in ToSet(segments[r])}} :
             r \in DOMAIN segments}
      all == UNION {Found(i) : i \in {j \in DOMAIN chunks : Reliable(chunks[j])}}
  IN {f \in all : \A g \in all :
        (g.key = f.key /\ g.kind = f.kind /\ g.value = f.value) => f.chunk <= g.chunk}

(***************************************************************************)
(* Counting.  A question asks for one role of amounts or none, and for one *)
(* period or none.  A fact is a record with a document, a record name, a   *)
(* date, a role and an amount.                                             *)
(***************************************************************************)
Preferred == <<"total", "amount">>      \* total_ttc, total, subtotal, amount in the code

RecordsOf(facts) == {<<f.document, f.key>> : f \in facts}
FactsOf(record, facts) == {f \in facts : <<f.document, f.key>> = record}
InScope(question, facts) == {f \in facts : question.period \in {None, f.date}}

Desired(question, own) ==
  LET OfKind(k) == {f \in own : f.kind = k}
      ranked    == SelectSeq(Preferred, LAMBDA k : OfKind(k) # {})
  IN IF question.role # None THEN OfKind(question.role)
     ELSE IF ranked # <<>> THEN OfKind(Head(ranked))
     ELSE IF \A f, g \in own : f.kind = g.kind THEN own ELSE {}

Distinct(facts) == {<<f.kind, f.value>> : f \in facts}
Earliest(facts) == CHOOSE f \in facts : \A g \in facts : f.chunk[2] <= g.chunk[2]

AggregateMoneyFacts(question, facts) ==
  LET scoped    == InScope(question, facts)
      Wanted(r) == Desired(question, FactsOf(r, scoped))
      Single(r) == Cardinality(Distinct(Wanted(r))) = 1
      Unclear(r) == Wanted(r) # {} \/ (question.role = None /\ Cardinality(FactsOf(r, scoped)) > 1)
      records   == RecordsOf(scoped)
  IN [counted   |-> {Earliest(Wanted(r)) : r \in {s \in records : Single(s)}},
      ambiguous |-> {r \in records : ~Single(r) /\ Unclear(r)}]
=============================================================================
