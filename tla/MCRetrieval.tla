----------------------------- MODULE MCRetrieval -----------------------------
(* A form whose section has a parent over its label and its split values, a   *)
(* letter that ends a sentence in the next passage and repeats a line, and a  *)
(* notice with contact details; a question about a detail, one about a list,  *)
(* one for a phone number.  The limits keep the order they have in the code.  *)
EXTENDS Retrieval, TLC

P(page, same, size) == [parent |-> FALSE, under |-> {}, page |-> page, same |-> same,
                        figures |-> Nil, open |-> FALSE, size |-> size]
Under(passage) == [passage EXCEPT !.under = {5}]
Parent(page, size) == [P(page, "parent", size) EXCEPT !.parent = TRUE]

Form   == <<P(1, "title", 1), Under(P(1, "label", 1)), Under(P(1, "value", 1)), Under(P(1, "note", 2)), Parent(1, 4)>>
Letter == <<[P(1, "lead", 2) EXCEPT !.open = TRUE], P(1, "tail", 1), [P(2, "line", 1) EXCEPT !.figures = "120"],
            [P(2, "line", 1) EXCEPT !.figures = "150"], P(2, "end", 3)>>
Notice == <<P(1, "digits", 1), [P(1, "desk", 2) EXCEPT !.open = TRUE], P(2, "rooms", 1), P(2, "hours", 1), P(2, "phone", 1)>>

MCTexts == [form |-> Form, letter |-> Letter, notice |-> Notice]
Places == UNION {{<<c, n>> : n \in DOMAIN MCTexts[c]} : c \in DOMAIN MCTexts}
Marks(some) == [place \in Places |-> IF place \in DOMAIN some THEN some[place] ELSE 0]

F(n) == <<"form", n>>
L(n) == <<"letter", n>>
N(n) == <<"notice", n>>

MCUtility == [detail |-> Marks(F(5) :> 5 @@ F(2) :> 3 @@ L(1) :> 4 @@ L(2) :> 2 @@ N(2) :> 1),
              list   |-> Marks(L(4) :> 5 @@ L(3) :> 4 @@ L(2) :> 4 @@ F(2) :> 2 @@ N(4) :> 1),
              phone  |-> Marks(N(2) :> 6 @@ N(4) :> 5 @@ N(3) :> 5 @@ L(5) :> 2)]
MCTyped == [detail |-> Marks(L(2) :> 3), list |-> Marks(L(4) :> 2 @@ L(3) :> 1), phone |-> Marks(<<>>)]
MCCarries == [detail |-> {}, list |-> {}, phone |-> {N(5), L(5)}]

Finds(lexical, fuzzy, semantic) == [lexical |-> lexical, fuzzy |-> fuzzy, semantic |-> semantic]
MCRanking ==
    [words   |-> Finds(<<F(5), L(1), N(2)>>, <<L(1), F(5)>>, <<F(5), L(1), L(5), N(1), N(4)>>),
     variant |-> Finds(<<L(1), L(5), F(5)>>, <<F(5), L(5)>>, <<L(1), L(5), F(5), N(4), N(1)>>),
     items   |-> Finds(<<L(5), L(4), F(2)>>, <<L(5), N(4)>>, <<L(5), F(2), N(4), N(1), L(4)>>),
     number  |-> Finds(<<N(2), N(4), N(3)>>, <<N(5), N(3)>>, <<N(2), N(3), N(4), L(1), F(1)>>)]

Request(question, route, docs, sparse, dense) ==
    [question |-> question, route |-> route, docs |-> docs, sparse |-> sparse, dense |-> dense]
MCBatches ==
    LET d == CHOOSE x \in Docs : TRUE
        e == CHOOSE x \in Docs : x # d
    IN  {<<Request("detail", "explanation", {d}, <<"words", "variant">>, <<"words">>),
           Request("list", "synthesis", {d, e}, <<"items", "words">>, <<"items">>)>>,
         <<Request("phone", "targeted", {}, <<"number">>, <<"number", "items">>),
           Request("list", "aggregate", {e}, <<"items">>, <<"items">>)>>,
         <<Request("list", "synthesis", {}, <<"items">>, <<"items">>),
           Request("detail", "targeted", {}, <<"words">>, <<"words">>)>>}

MCLimit == [channel |-> 4, anchors |-> 3, context |-> 2, pool |-> 6, head |-> 3, pack |-> 2, coarse |-> 3,
            coarseWide |-> 4, leading |-> 1, leadingWide |-> 2, final |-> 4, contacts |-> 2, perPage |-> 2,
            perPageWide |-> 3, chars |-> 8, reach |-> 1, reachWide |-> 3, long |-> 3, window |-> 2, early |-> 3]
=============================================================================
