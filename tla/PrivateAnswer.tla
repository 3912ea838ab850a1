--------------------------- MODULE PrivateAnswer ---------------------------
(***************************************************************************)
(* How a question of a private chat becomes the answer that is stored:     *)
(* generatePrivate of src/src/lib/state/chats.svelte.ts.  The passages are *)
(* trimmed, an extract or the local model writes a draft, and up to nine   *)
(* passes judge it in a fixed order; each may ask the model once more and  *)
(* adopt what it says.  Two last gates decide what is shown.  Between two  *)
(* passes nothing else runs: only while the model writes, or the database  *)
(* is asked, can the person press Stop.                                    *)
(*                                                                         *)
(* A text is its form, the typed parts of the question it states, and      *)
(* whether it holds a figure no passage of the library holds.  What the    *)
(* model writes is any text.                                               *)
(***************************************************************************)
EXTENDS Naturals, SequencesExt

CONSTANTS
  MaxHits,      \* the most passages a search returns; one more is out of its reach
  Questions,    \* the questions that are asked
  None

Kinds   == {"contact", "duration", "schedule", "person", "amount"}
Figures == {"duration", "schedule", "amount"}

ASSUME HitsAssumption == MaxHits \in Nat \ {0}

VARIABLES
  pass,           \* what the turn is waiting for
  question,       \* what was asked, and how the passages answer it
  hits,           \* the passages citations are resolved against, in order
  prompt,         \* the numbered passages of the last prompt (groundedPrompt)
  context,        \* the earlier turns are in the prompt of the draft under way
  raw,            \* the answer so far
  stopRequested,  \* the flag of the store, shared by all turns
  heard,          \* Stop was pressed while a text of this turn was being written
  stored          \* the assistant message of the turn, with its excerpts

vars == <<pass, question, hits, prompt, context, raw, stopRequested, heard, stored>>

Passage == 1 .. MaxHits + 1
List(n) == [i \in 1 .. n |-> i]

Forms == {"empty", "fragment", "loop", "terse", "refusal", "copy", "prose"}
Text(parts) ==
  {t \in [form : Forms, states : SUBSET parts, invented : BOOLEAN] :
     /\ t.form \in {"empty", "fragment", "loop", "refusal"} => t.states = {} /\ ~t.invented
     /\ t.form = "copy" => ~t.invented}
Empty   == [form |-> "empty",   states |-> {}, invented |-> FALSE]
Refusal == [form |-> "refusal", states |-> {}, invented |-> FALSE]

(***************************************************************************)
(* Questions.  A lookup asks for parts directly; an audited one has words  *)
(* that call for a verification; a compound one was decomposed by the      *)
(* model into several searches; an explanation is written after reasoning  *)
(* and always verified.  carrier gives the passage that holds each part    *)
(* asked; window is what the engine takes, in passages.                    *)
(***************************************************************************)
Shapes == {"lookup", "audited", "compound", "explanation"}
IsQuestion(q) ==
  /\ q.asked \subseteq Kinds /\ q.carrier \in [q.asked -> Passage]
  /\ q.shape \in Shapes /\ q.window \in Nat /\ q.extract \in {None, "exact", "audited"}
ASSUME QuestionsAssumption == \A q \in Questions : IsQuestion(q)

Reasoning  == question.shape = "explanation"
Decomposed == question.shape = "compound"
Exact      == question.extract = "exact"

Degenerate(t) == t.form \in {"empty", "fragment", "loop"}
\* Thirty-nine visible characters or fewer; a terse fact with its citation is one.
Short(t)      == t.form \in {"empty", "fragment", "terse"}
Copied(t)     == t.form = "copy" /\ question.shape # "explanation"
Covers(t)     == \A p, q \in question.asked : p # q => {p, q} \subseteq t.states
Incomplete(t) == Decomposed /\ ~Covers(t)
Held(p, list) == question.carrier[p] \in ToSet(list)
Grounded(t, list) == ~t.invented /\ \A p \in t.states \cap Figures : Held(p, list)

(***************************************************************************)
(* When a draft may be replaced.                                           *)
(***************************************************************************)
Degrades(draft, t) ==
  \/ Degenerate(t)
  \/ Copied(t)
  \/ t.form = "refusal" /\ draft.form # "refusal"

\* Mutated: a rewriting need only be an answer.
VerificationTrusts(draft, t) == ~Degrades(draft, t)

VerificationCanReplace(draft, t) ==
  /\ ~Degrades(draft, t)
  /\ Copied(draft) => Covers(t)
  /\ ~Copied(draft) =>
       /\ Decomposed => Covers(t)
       /\ Cardinality(t.states) >= Cardinality(draft.states)

\* Mutated: the figures of the synthesis are not checked.
RecoveryTrusts(draft, t, list) ==
  ~Degrades(draft, t) /\ ((Covers(t) /\ ~Covers(draft)) \/ VerificationCanReplace(draft, t))

RecoveryCanReplace(draft, t, list) ==
  /\ Grounded(t, list)
  /\ ~Degrades(draft, t)
  /\ \/ Covers(t) /\ ~Covers(draft)
     \/ VerificationCanReplace(draft, t)

CorrectionCanReplace(part, t) ==
  /\ t.form # "empty"
  /\ part \in t.states
  /\ part \in {"duration", "person", "amount"} => ~Degenerate(t)

(***************************************************************************)
(* The passes, in order, and when each is wanted.                          *)
(***************************************************************************)
Passes == <<"recovery", "verification", "contact", "duration", "schedule",
            "person", "probe", "amount", "record">>
Corrections == {"contact", "duration", "schedule", "person", "amount"}
ModelPasses == {"draft", "redraft", "recovery", "verification"} \cup Corrections

CorrectionWanted(part, t, list) ==
  /\ part \in question.asked \ t.states
  /\ list # <<>> /\ t.form # "empty" /\ ~stopRequested
  /\ part \in {"contact", "duration", "schedule"} => ~Exact
  /\ Held(part, list)
  /\ part = "schedule" => \E i \in 1 .. 3 \cap DOMAIN list : list[i] = question.carrier[part]

Uncovered(t, list) ==
  "amount" \in question.asked /\ (stopRequested \/ t.form = "empty" \/ ~Held("amount", list))

Wanted(p, t, list) ==
  CASE p = "recovery" ->
         /\ list # <<>> /\ ~stopRequested
         /\ Copied(t) \/ Incomplete(t) \/ (t.form = "refusal" /\ Decomposed)
    [] p = "verification" ->
         /\ list # <<>> /\ ~Exact /\ t.form # "empty"
         /\ \/ question.shape \in {"audited", "explanation"}
            \/ t.form = "refusal" \/ Copied(t) \/ Incomplete(t)
    [] p \in Corrections -> CorrectionWanted(p, t, list)
    [] p = "probe" -> list # <<>> /\ Uncovered(t, list)
    [] p = "record" -> TRUE

\* The code between two awaits: the next pass that is wanted for this text.
Rank(p) == IF p \in ToSet(Passes) THEN CHOOSE i \in DOMAIN Passes : Passes[i] = p ELSE 0
After(p, t, list) ==
  Passes[Min({i \in DOMAIN Passes : i > Rank(p) /\ Wanted(Passes[i], t, list)})]

(***************************************************************************)
(* A turn begins.  Passages are retrieved; then they are trimmed to what   *)
(* the prompt is estimated to hold, and an extractor or the model writes   *)
(* the draft.  Only the model's path clears the stop flag.                 *)
(***************************************************************************)
Nothing == [asked |-> {}, carrier |-> <<>>, shape |-> "lookup", window |-> 0, extract |-> None]

Init ==
  /\ pass = "idle" /\ question = Nothing
  /\ hits = <<>> /\ prompt = <<>> /\ context = FALSE
  /\ raw = Empty /\ stopRequested = FALSE /\ heard = FALSE /\ stored = None

Ask ==
  /\ pass = "idle"
  /\ question' \in Questions
  /\ \E n \in 0 .. MaxHits : hits' = List(n)
  /\ pass' = "retrieving"
  /\ UNCHANGED <<prompt, context, raw, stopRequested, heard, stored>>

Extracts(list) ==
  {t \in Text(question.asked) : /\ t.form \in {"terse", "copy", "prose"}
                                /\ ~t.invented
                                /\ \A p \in t.states : Held(p, list)}

Write ==
  /\ pass = "retrieving"
  /\ \E n \in Min({1, Len(hits)}) .. Len(hits) :
       LET list == SubSeq(hits, 1, n) IN
       /\ hits' = list /\ prompt' = list
       /\ \/ /\ question.extract # None /\ list # <<>>
             /\ \E t \in Extracts(list) :
                  /\ question.extract = "audited" => Covers(t)
                  /\ raw' = t
                  /\ pass' = After("draft", t, list)
             /\ UNCHANGED <<context, stopRequested>>
          \/ /\ ~Exact \/ list = <<>>
             /\ raw' = Empty
             /\ context' \in BOOLEAN
             /\ stopRequested' = FALSE
             /\ pass' = "draft"
  /\ UNCHANGED <<question, heard, stored>>

(***************************************************************************)
(* The draft, replayed on a shorter prompt while the engine says that it   *)
(* exceeds its window.                                                     *)
(***************************************************************************)
Fits == Len(prompt) + (IF context THEN 1 ELSE 0) <= question.window

\* Mutated: a fifth, rounded down.
DroppedFloor(n) == n \div 5
Dropped(n) == Max({1, (n + 4) \div 5})

Retries(t) ==
  /\ ~stopRequested
  /\ \/ t.form = "loop"
     \/ Reasoning /\ Short(t)
     \/ ~Reasoning /\ Degenerate(t)

Judge(t, list) ==
  /\ raw' = t
  /\ hits' = list
  /\ context' = FALSE
  /\ pass' = IF Retries(t) THEN "redraft" ELSE After("draft", t, list)

\* Mutated: the first passages are dropped.
OverflowsFromTheTop ==
  /\ pass = "draft" /\ ~Fits /\ Len(prompt) > 1
  /\ prompt' = SubSeq(prompt, 1 + Dropped(Len(prompt)), Len(prompt))
  /\ UNCHANGED <<pass, question, hits, context, raw, stopRequested, heard, stored>>

\* Mutated: a replay clears the stop flag with the stream.
OverflowsAfresh ==
  /\ pass = "draft" /\ ~Fits /\ Len(prompt) > 1
  /\ prompt' = SubSeq(prompt, 1, Len(prompt) - Dropped(Len(prompt)))
  /\ stopRequested' = FALSE
  /\ UNCHANGED <<pass, question, hits, context, raw, heard, stored>>

Overflows ==
  /\ pass = "draft" /\ ~Fits
  /\ \/ /\ Len(prompt) > 1
        /\ prompt' = SubSeq(prompt, 1, Len(prompt) - Dropped(Len(prompt)))
        /\ UNCHANGED <<pass, hits, context, raw>>
     \/ /\ Len(prompt) <= 1 /\ context
        /\ context' = FALSE
        /\ UNCHANGED <<pass, hits, prompt, raw>>
     \/ /\ Len(prompt) <= 1 /\ ~context
        /\ Judge(Empty, hits)
        /\ UNCHANGED prompt
  /\ UNCHANGED <<question, stopRequested, heard, stored>>

Drafted ==
  /\ pass = "draft" /\ Fits
  /\ \E t \in Text(question.asked) : Judge(t, prompt)
  /\ UNCHANGED <<question, prompt, stopRequested, heard, stored>>

\* The engine dies while it writes: what was streamed is kept.
DraftDies ==
  /\ pass = "draft" /\ Fits
  /\ \E t \in Text(question.asked) : Judge(t, hits)
  /\ UNCHANGED <<question, prompt, stopRequested, heard, stored>>

\* The engine is not there.
DraftUnserved ==
  /\ pass = "draft"
  /\ Judge(Empty, hits)
  /\ UNCHANGED <<question, prompt, stopRequested, heard, stored>>

\* After a loop, or notes without an answer, whatever comes back is taken;
\* after a fragment, only something longer.
Redraft ==
  /\ pass = "redraft"
  /\ \E t \in Text(question.asked) :
       /\ \/ raw.form = "loop" \/ Reasoning
          \/ t = raw
          \/ t.form # "empty"
       /\ raw' = t
       /\ pass' = After("draft", t, hits)
  /\ UNCHANGED <<question, hits, prompt, context, stopRequested, heard, stored>>

(***************************************************************************)
(* The passes that ask the model again.  A failure keeps the draft.        *)
(***************************************************************************)
Adopt(t) ==
  /\ raw' = t
  /\ pass' = After(pass, t, hits)
  /\ UNCHANGED <<question, hits, prompt, context, stopRequested, heard, stored>>

Recover ==
  /\ pass = "recovery"
  /\ \E t \in Text(question.asked) : (t = raw \/ RecoveryCanReplace(raw, t, hits)) /\ Adopt(t)

Verify ==
  /\ pass = "verification"
  /\ \E t \in Text(question.asked) : (t = raw \/ VerificationCanReplace(raw, t)) /\ Adopt(t)

Correct ==
  /\ pass \in Corrections
  /\ \E t \in Text(question.asked) : (t = raw \/ CorrectionCanReplace(pass, t)) /\ Adopt(t)

\* One more search for an amount no passage holds; what it finds is added last.
Repeats(p, list) == Held("amount", list) \/ question.carrier["amount"] = p
\* Mutated: a passage already listed is added again.
ProbeAgain ==
  /\ pass = "probe"
  /\ \E found \in {<<>>} \cup {<<p>> : p \in {q \in Passage : Repeats(q, hits)}} :
       /\ hits' = hits \o found
       /\ pass' = After(pass, raw, hits')
  /\ UNCHANGED <<question, prompt, context, raw, stopRequested, heard, stored>>

Probe ==
  /\ pass = "probe"
  /\ \E found \in {<<>>} \cup {<<p>> : p \in {q \in Passage \ ToSet(hits) : Repeats(q, hits)}} :
       /\ hits' = hits \o found
       /\ pass' = After(pass, raw, hits')
  /\ UNCHANGED <<question, prompt, context, raw, stopRequested, heard, stored>>

(***************************************************************************)
(* The last gates, and the rows that are written.                          *)
(***************************************************************************)
Repaired(t) == {t} \cup (IF t.form = "fragment" THEN {Empty} ELSE {})
\* Mutated: figures are looked up in all that was retrieved.
GateOfSearch(t, list) == IF Grounded(t, List(MaxHits)) THEN t ELSE Refusal
Gate(t, list) == IF Grounded(t, list) THEN t ELSE Refusal

Record ==
  /\ pass = "record"
  /\ \E t \in Repaired(IF Copied(raw) THEN Refusal ELSE raw) :
       stored' = [text |-> Gate(t, hits), excerpts |-> hits]
  /\ pass' = "done"
  /\ prompt' = <<>> /\ raw' = Empty /\ heard' = FALSE
  /\ UNCHANGED <<question, hits, context, stopRequested>>

Over ==
  /\ pass' = "idle" /\ question' = Nothing
  /\ hits' = <<>> /\ prompt' = <<>> /\ context' = FALSE
  /\ raw' = Empty /\ heard' = FALSE /\ stored' = None
  /\ UNCHANGED stopRequested

Close == pass = "done" /\ Over
\* A search or an insert throws: the turn ends without a message.
Throw == pass \in {"retrieving", "record"} /\ Over

Stop ==
  /\ pass \notin {"idle", "done"}
  /\ stopRequested' = TRUE
  /\ heard' = (heard \/ pass \in ModelPasses)
  /\ UNCHANGED <<pass, question, hits, prompt, context, raw, stored>>

Next ==
  \/ Ask \/ Write
  \/ Overflows \/ Drafted \/ DraftDies \/ DraftUnserved \/ Redraft
  \/ Recover \/ Verify \/ Correct \/ Probe
  \/ Record \/ Close \/ Throw \/ Stop

\* The code runs on; an engine that takes a prompt answers or is given up by
\* its watchdog, one that refuses it says so.
Fairness ==
  /\ WF_vars(Write) /\ WF_vars(Overflows) /\ WF_vars(Drafted \/ DraftDies) /\ WF_vars(Redraft)
  /\ WF_vars(Recover) /\ WF_vars(Verify) /\ WF_vars(Correct) /\ WF_vars(Probe)
  /\ WF_vars(Record) /\ WF_vars(Close)

Spec == Init /\ [][Next]_vars /\ Fairness

----------------------------------------------------------------------------
\* No passage is listed twice, and an answer without passages has none to cite.
TypeOK ==
  /\ pass \in {"idle", "retrieving", "redraft", "draft", "done"} \cup ToSet(Passes)
  /\ hits \in Seq(Passage) /\ prompt \in Seq(Passage)
  /\ Cardinality(ToSet(hits)) = Len(hits)
  /\ context \in BOOLEAN /\ stopRequested \in BOOLEAN /\ heard \in BOOLEAN
  /\ raw \in Text(question.asked)
  /\ stored = None \/ (stored.text \in Text(question.asked) /\ stored.excerpts = hits)

\* A number the model read in front of a passage is the number citations are
\* resolved with: every prompt of the turn lists a prefix of the final list,
\* however often it was shortened, and what a search adds comes after
\* (fitEvidenceToContext, shrinkEvidenceStep, the amount probe).
CitationsArePositional ==
  pass \notin {"idle", "retrieving"} => IsPrefix(prompt, hits)

\* What is shown copies no passage and states no figure that the excerpts kept
\* with it do not hold, whichever pass wrote it and whatever list it had read.
ShownIsHeld ==
  stored # None => ~Copied(stored.text) /\ Grounded(stored.text, stored.excerpts)

Presentable(t) == t.form \in {"terse", "prose"} /\ Grounded(t, hits)

\* The compact synthesis never swaps a draft that would be shown for one that
\* the last gates refuse.
RecoveryIsMonotonic ==
  [][pass = "recovery" /\ Presentable(raw) => Presentable(raw)']_vars

\* "Verification is monotonic: an audit may correct an answer, never replace
\* reader-facing evidence with a refusal" (prompt.ts).
AuditIsMonotonic ==
  [][pass = "verification" /\ Presentable(raw) => Presentable(raw)']_vars

\* A rewriting of a draft that is no transcription answers at least as many
\* parts of the question.
AuditKeepsParts ==
  [][~Copied(raw) /\ pass \in {"recovery", "verification"} =>
       Cardinality(raw'.states) >= Cardinality(raw.states)]_vars

\* Once Stop was pressed over a text of this turn, no correction begins.
StopEndsCorrections ==
  [][heard /\ pass' # pass => pass' \notin Corrections \cup {"redraft", "recovery"}]_vars

\* A turn ends: the prompt cannot be shortened for ever, and the passes are finite.
TurnEnds == pass # "idle" ~> pass = "idle"
=============================================================================
