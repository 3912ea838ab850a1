------------------------------ MODULE MCInquiry ------------------------------
(* Two documents and three files: a letter without amounts; receipts with a  *)
(* number each, small enough for passages to overlap, on two pages of which   *)
(* the second is an image; and a statement of dated records on one page long  *)
(* enough for parents, with a record that states two totals.                  *)
EXTENDS Inquiry

Of(id, date, amounts, size) ==
  [id |-> id, date |-> date, amounts |-> amounts, size |-> size, anchored |-> TRUE, weak |-> FALSE]
Sum(kind, value) == [kind |-> kind, value |-> value]
Page(n, pieces) == [place |-> n, pieces |-> pieces]

Letter   == <<Page("p1", <<Of(None, None, {}, 5)>>)>>
Receipts == <<Page("p1", <<Of("r1", "may", {Sum("total", 10), Sum("fee", 1)}, 7),
                           Of("r2", "may", {Sum("total", 10)}, 1),
                           Of("r3", "june", {Sum("total", 20)}, 7)>>),
              Page("p2", <<Of("r4", None, {Sum("total", 30), Sum("total", 40)}, 5)>>)>>
Statement == <<Page("p1", <<Of(None, "may", {Sum("total", 10)}, 4), Of(None, "june", {Sum("total", 10)}, 4),
                            Of(None, "july", {Sum("total", 20)}, 4), Of(None, "august", {Sum("total", 50)}, 4)>>)>>

MCTexts == [letter   |-> [full |-> Letter, native |-> 1],
            receipts |-> [full |-> Receipts, native |-> 1],
            statement |-> [full |-> Statement, native |-> 1]]
Symmetry == Permutations(Docs) \cup Permutations(Askers)
MCContents  == DOMAIN MCTexts
MCQuestions == {[role |-> "total", period |-> None], [role |-> None, period |-> "june"]}
=============================================================================
