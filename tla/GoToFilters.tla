---------------------------- MODULE GoToFilters ----------------------------
(***************************************************************************)
(* The stylesheets 1 to 4, by which XMLToDDIImpl turns the GoTos of a      *)
(* questionnaire ("after this question, if the condition holds, go there") *)
(* into filters around the questions that are to be skipped.  Each one is  *)
(* a pass over the whole document, so a step of the specification.         *)
(*                                                                         *)
(* A document is the sequence of its tags: a question is one token, a      *)
(* sequence (a chapter) has one at either end.  Stylesheet 1 replaces the  *)
(* GoTos by BeginIfType elements, 2 ends them and deals with those that    *)
(* overlap, 3 cuts them where chapters begin or end, 4 makes FilterType    *)
(* elements of the pairs.                                                  *)
(***************************************************************************)
EXTENDS Integers, SequencesExt, FiniteSetsExt

CONSTANT Questionnaires  \* [document, goTos]: the tags and, in the order of the
                         \* document, the GoTos, each [id, from, target]

\* XML has it that the tags of chapters match and identifiers are unique, and in the
\* documents of the repository GoTos are of questions and go ahead.
ASSUME QuestionnairesAssumption ==
    \A q \in Questionnaires :
        LET d == q.document
            Names == {d[i].id : i \in DOMAIN d}
            children == {i \in DOMAIN d : d[i].kind \in {"question", "sequence"}}
        IN  /\ d \in Seq([kind : {"question", "sequence", "/sequence"}, id : Names])
            /\ \A i, j \in children : d[i].id = d[j].id => i = j
            /\ \A i \in DOMAIN d : d[i].kind = "sequence" =>
                  \E j \in i .. Len(d) : d[j].kind = "/sequence" /\ d[j].id = d[i].id
            /\ \A j \in DOMAIN d : d[j].kind = "/sequence" =>
                  \E i \in 1 .. j : d[i].kind = "sequence" /\ d[i].id = d[j].id
            /\ q.goTos \in Seq([id : {q.goTos[k].id : k \in DOMAIN q.goTos}, from : Names, target : Names])
            /\ \A k \in DOMAIN q.goTos :
                  /\ q.goTos[k].id \notin Names
                  /\ \E i, j \in children : /\ d[i].id = q.goTos[k].from /\ d[i].kind = "question"
                                            /\ d[j].id = q.goTos[k].target /\ i < j

VARIABLES
    questionnaire,  \* the one being converted
    document,       \* what the passes so far have made of it
    pass            \* the number of the next one

vars == <<questionnaire, document, pass>>

Question(q) == [kind |-> "question", id |-> q]
Sequence(s, body) == <<[kind |-> "sequence", id |-> s]>> \o body \o <<[kind |-> "/sequence", id |-> s]>>
Begin(g, expression, target) ==
    [kind |-> "begin", id |-> g, expression |-> expression, IfTrue |-> target]
End(g) == [kind |-> "end", id |-> g]
FilterTag(kind, b) == [kind |-> kind, id |-> b.id, expression |-> b.expression]

(***************************************************************************)
(* Expressions.  What the stylesheets write is a disjunction of conditions *)
(* and negated conditions: "not (a) or (b)" is {not a, b}, as the language *)
(* of the expressions reads it.                                            *)
(***************************************************************************)
Not(g) == [condition |-> g, value |-> FALSE]
Plain(g) == [condition |-> g, value |-> TRUE]

\* The text of an expression that starts with "not " without these letters.
WithoutNot(expression) == {Plain(l.condition) : l \in expression}

\* Its value where the conditions in valuation are true and no others.
Holds(expression, valuation) ==
    \E l \in expression : (l.condition \in valuation) = l.value
-----------------------------------------------------------------------------
(***************************************************************************)
(* The axes of XPath.                                                      *)
(***************************************************************************)
Children == {"question", "sequence"}

\* The position of the tag that ends the element at i.
Close(d, i) ==
    IF d[i].kind = "sequence"
    THEN CHOOSE j \in DOMAIN d : d[j].kind = "/sequence" /\ d[j].id = d[i].id
    ELSE i

Ancestors(d, i) == {j \in 1 .. i - 1 : d[j].kind = "sequence" /\ Close(d, j) > i}

Parent(d, i) == Max(Ancestors(d, i) \cup {0})

\* Positions of a kind before, inside and behind the element at i.
Kind(d, kind, from, to) == {j \in from .. to : d[j].kind = kind}

\* The positions in P, and the tags there, in the order of the document.
InOrder(d, P) ==
    LET upTo[i \in 0 .. Len(d)] ==
            IF i = 0 THEN <<>> ELSE IF i \in P THEN Append(upTo[i - 1], i) ELSE upTo[i - 1]
    IN  upTo[Len(d)]

Tags(d, P) == LET order == InOrder(d, P) IN [k \in DOMAIN order |-> d[order[k]]]

IdsOf(d, P) == {d[j].id : j \in P}

\* Of the elements that share an identifier the first one.
FirstOfEach(s) ==
    LET firsts == {k \in DOMAIN s : \A j \in 1 .. k - 1 : s[j].id # s[k].id}
    IN  Tags(s, firsts)

\* What a template makes of the tags of d, one after the other.
Rewrite(d, Template(_)) == FlattenSeq([i \in DOMAIN d |-> Template(i)])
-----------------------------------------------------------------------------
\* The GoTos of question q, as the stylesheets meet them.
GoTosOf(gs, q) == Tags(gs, {k \in DOMAIN gs : gs[k].from = q})

\* How many elements lie between i and the target of a GoTo at i: the key they
\* are sorted by.
Distance(d, i, target) ==
    Cardinality({j \in i + 1 .. Len(d) :
        /\ d[j].kind \in Children
        /\ \E k \in Close(d, j) + 1 .. Len(d) : d[k].kind \in Children /\ d[k].id = target})

\* The expression of GoTos that have one target: "not (a) or (b) or (c)".
SkipExpression(same) ==
    {Not(same[1].id)} \cup {Plain(same[k].id) : k \in 2 .. Len(same)}

\* Those of the GoTos that come to the same target as the one at k.
SameTarget(goTos, k) == Tags(goTos, {m \in DOMAIN goTos : goTos[m].target = goTos[k].target})

\* Of each target the first, by the distance that is left of the farthest there is.
ByDistance(d, i, goTos) ==
    LET firsts == {k \in DOMAIN goTos : \A j \in 1 .. k - 1 : goTos[j].target # goTos[k].target}
    IN  [n \in 1 .. Len(d) + 1 |->
            InOrder(goTos, {k \in firsts : Distance(d, i, goTos[k].target) = Len(d) + 1 - n})]

\* A mutant: the nearest target first.
BeginsBehindNearest(d, gs, i) ==
    LET goTos == GoTosOf(gs, d[i].id)
        order == FlattenSeq(Reverse(ByDistance(d, i, goTos)))
    IN  [n \in DOMAIN order |->
            LET g == goTos[order[n]] IN Begin(g.id, SkipExpression(SameTarget(goTos, order[n])), g.target)]

\* Behind a question, its GoTos: those of one target as one, the farthest first.
BeginsBehind(d, gs, i) ==
    LET goTos == GoTosOf(gs, d[i].id)
        order == FlattenSeq(ByDistance(d, i, goTos))
    IN  [n \in DOMAIN order |->
            LET g == goTos[order[n]] IN Begin(g.id, SkipExpression(SameTarget(goTos, order[n])), g.target)]

GoTo2IfThen(d, gs) ==
    Rewrite(d, LAMBDA i : IF d[i].kind = "question"
                          THEN <<d[i]>> \o BeginsBehind(d, gs, i)
                          ELSE <<d[i]>>)
-----------------------------------------------------------------------------
\* The begins before i that point at the element at i.
PointingAt(d, i) ==
    {b \in Kind(d, "begin", 1, i - 1) : d[b].IfTrue = d[i].id}

\* The first of these and the ones behind it that are open at i, as their
\* targets have not been passed.
OpenAt(d, i) ==
    LET first == Min(PointingAt(d, i))
        passed == {d[j].id : j \in first + 1 .. i - 1}
    IN  {b \in Kind(d, "begin", first, i - 1) : d[b].IfTrue \notin passed}

\* A mutant: it is opened again with the expression it had.
ReopenedAsItWas(d, i, b) == d[b]

\* A begin that points farther, opened again at i: there it also holds where a
\* filter whose target lies between the two is false, for then it was skipped.
Reopened(d, i, b) ==
    LET between == {d[j].id : j \in {k \in b + 1 .. i - 1 :
                                       d[k].kind # "/sequence" /\ k \notin Ancestors(d, i)}}
                   \cup {d[i].id}
        skipping == {c \in Kind(d, "begin", 1, b - 1) : d[c].IfTrue \in between}
    IN  [d[b] EXCEPT !.expression =
            @ \cup UNION {WithoutNot(d[c].expression) : c \in skipping}]

\* A mutant: ended in the order they began in.
EndsInOrder(d, i) ==
    LET ended == InOrder(d, OpenAt(d, i))
        again == InOrder(d, OpenAt(d, i) \ PointingAt(d, i))
    IN  [n \in DOMAIN ended |-> End(d[ended[n]].id)]
        \o [n \in DOMAIN again |-> Reopened(d, i, again[n])]

EndsAndReopenings(d, i) ==
    LET ended == Reverse(InOrder(d, OpenAt(d, i)))
        again == InOrder(d, OpenAt(d, i) \ PointingAt(d, i))
    IN  [n \in DOMAIN ended |-> End(d[ended[n]].id)]
        \o [n \in DOMAIN again |-> Reopened(d, i, again[n])]

\* A mutant: an element that GoTos point at is not copied behind what ends there.
GoGo2ToToUncopied(d) ==
    Rewrite(d, LAMBDA i : IF d[i].kind \in Children /\ PointingAt(d, i) # {}
                          THEN EndsAndReopenings(d, i)
                          ELSE <<d[i]>>)

GoGo2ToTo(d) ==
    Rewrite(d, LAMBDA i : IF d[i].kind \in Children /\ PointingAt(d, i) # {}
                          THEN EndsAndReopenings(d, i) \o <<d[i]>>
                          ELSE <<d[i]>>)
-----------------------------------------------------------------------------
\* The ends in the sequence at i of what began before it, and the begins in it
\* of what ends behind it.
LonelyEnds(d, i) ==
    Tags(d, {j \in Kind(d, "end", i, Close(d, i)) :
                d[j].id \in IdsOf(d, Kind(d, "begin", 1, i))})

LonelyBegins(d, i) ==
    Tags(d, {j \in Kind(d, "begin", i, Close(d, i)) :
                d[j].id \in IdsOf(d, Kind(d, "end", Close(d, i), Len(d)))})

\* The last begin before i of what e ends.
LastBegin(d, i, e) ==
    d[Max({j \in Kind(d, "begin", 1, i) : d[j].id = e.id})]

\* A mutant: what began before the sequence is not begun in it again.
EnteringWithoutBegins(d, i) == FirstOfEach(LonelyEnds(d, i)) \o <<d[i]>>

\* What began before the sequence is ended in front of it and begun in it again.
Entering(d, i) ==
    LET ends == FirstOfEach(LonelyEnds(d, i))
    IN  ends \o <<d[i]>> \o [n \in DOMAIN ends |-> LastBegin(d, i, Reverse(ends)[n])]

\* A mutant: ended in the order they began in.
LeavingInOrder(d, i) ==
    LET begins == FirstOfEach(LonelyBegins(d, i))
    IN  [n \in DOMAIN begins |-> End(begins[n].id)] \o <<d[Close(d, i)]>> \o begins

\* What ends behind it is ended in it and begun again.
Leaving(d, i) ==
    LET begins == FirstOfEach(LonelyBegins(d, i))
    IN  [n \in DOMAIN begins |-> End(Reverse(begins)[n].id)] \o <<d[Close(d, i)]>> \o begins

GoTo2Sequence(d) ==
    Rewrite(d, LAMBDA i :
        CASE d[i].kind = "sequence" -> Entering(d, i)
          [] d[i].kind = "/sequence" ->
                Leaving(d, CHOOSE j \in 1 .. i : d[j].kind = "sequence" /\ d[j].id = d[i].id)
          [] OTHER -> <<d[i]>>)
-----------------------------------------------------------------------------
\* The siblings behind b that end it.
EndsOf(d, b) ==
    {e \in Kind(d, "end", b, Len(d)) : d[e].id = d[b].id /\ Parent(d, e) = Parent(d, b)}

\* The template is applied to the first child of an element and to the sibling
\* behind it; an end stops it, and a begin goes on behind its end.
BeginEnd2Filter(d) ==
    LET from[i \in 1 .. Len(d) + 1] ==
            IF i > Len(d) THEN <<>>
            ELSE CASE d[i].kind = "question" -> <<d[i]>> \o from[i + 1]
                   [] d[i].kind = "sequence" ->
                         <<d[i]>> \o from[i + 1] \o <<d[Close(d, i)]>> \o from[Close(d, i) + 1]
                   [] d[i].kind = "begin" ->
                         IF EndsOf(d, i) = {} THEN <<>>
                         ELSE LET e == Min(EndsOf(d, i)) IN
                              (IF \E j \in i .. e : d[j].kind \in Children /\ Parent(d, j) = Parent(d, i)
                               THEN <<FilterTag("filter", d[i])>> \o from[i + 1]
                                    \o <<FilterTag("/filter", d[i])>>
                               ELSE <<>>) \o from[e + 1]
                   [] OTHER -> <<>>
    IN  from[1]
-----------------------------------------------------------------------------
Init ==
    /\ questionnaire \in Questionnaires
    /\ document = questionnaire.document
    /\ pass = 1

Pass(n, result) ==
    /\ pass = n
    /\ document' = result
    /\ pass' = n + 1
    /\ UNCHANGED questionnaire

Next ==
    \/ Pass(1, GoTo2IfThen(document, questionnaire.goTos))
    \/ Pass(2, GoGo2ToTo(document))
    \/ Pass(3, GoTo2Sequence(document))
    \/ Pass(4, BeginEnd2Filter(document))

Spec == Init /\ [][Next]_vars
-----------------------------------------------------------------------------
(***************************************************************************)
(* The meaning of the GoTos.  Questions are asked in their order; after one *)
(* whose conditions hold the next one is the farthest of the targets.      *)
(***************************************************************************)
GoTos == Range(questionnaire.goTos)

Valuations == SUBSET {g.id : g \in GoTos}

PositionOf(d, id) == CHOOSE i \in DOMAIN d : d[i].kind \in Children /\ d[i].id = id

\* The questions that are asked where the conditions in valuation are true.
Asked(valuation) ==
    LET d == questionnaire.document
        jumps(i) == {g \in GoTos : g.from = d[i].id /\ g.id \in valuation}
        next(i) == Max({i + 1} \cup {PositionOf(d, g.target) : g \in jumps(i)})
        from[i \in 1 .. Len(d) + 1] ==
            IF i > Len(d) THEN {}
            ELSE IF d[i].kind = "question" THEN {d[i].id} \cup from[next(i)] ELSE from[i + 1]
    IN  from[1]

\* Those that the filters of the result leave.
Shown(valuation) ==
    LET false(kind, i) == {j \in Kind(document, kind, 1, i) : ~ Holds(document[j].expression, valuation)}
    IN  {document[i].id : i \in {k \in Kind(document, "question", 1, Len(document)) :
            Cardinality(false("filter", k)) = Cardinality(false("/filter", k))}}

\* Valuations in which the condition of a question that is not asked is false,
\* as one on the answer to that question is.
Possible(valuation) ==
    \A g \in GoTos : g.id \in valuation => g.from \in Asked(valuation)

\* No two GoTos of a question have one target.
Unmerged == \A g, h \in GoTos : g.from = h.from /\ g.target = h.target => g = h

\* No chapter begins or ends between a question and the target of its GoTo.
WithinChapters ==
    LET d == questionnaire.document IN
    \A g \in GoTos : \A j \in PositionOf(d, g.from) .. PositionOf(d, g.target) : d[j].kind = "question"

\* What the stylesheets deal with: GoTos that stay in their chapters, or two.
Simple == WithinChapters \/ Cardinality(GoTos) <= 2

Done == pass = 5
-----------------------------------------------------------------------------
(***************************************************************************)
(* Properties.                                                             *)
(***************************************************************************)

\* The tags of d of the kinds in opening and closing nest.
Nested(d, opening, closing) ==
    LET read(open, tag) ==
            IF tag.kind \in opening THEN Append(open, tag.id)
            ELSE IF tag.kind \notin closing THEN open
            ELSE IF open # <<>> /\ Last(open) = tag.id THEN Front(open) ELSE Append(open, "crossed")
        upTo[i \in 0 .. Len(d)] == IF i = 0 THEN <<>> ELSE read(upTo[i - 1], d[i])
    IN  upTo[Len(d)] = <<>>

\* However GoTos overlap, the begins and ends that stylesheet 2 leaves nest.
BeginsNest == pass = 3 => Nested(document, {"begin"}, {"end"})

\* Behind stylesheet 3 they nest within every chapter as well.
FiltersNest ==
    pass = 4 /\ Simple => Nested(document, {"begin", "sequence"}, {"end", "/sequence"})

\* The questions and chapters of d.
Kept(d) == Tags(d, {i \in DOMAIN d : d[i].kind \in Children \cup {"/sequence"}})

\* Whatever the GoTos are, the first three stylesheets lose, double and move no
\* question and no chapter: they put begins and ends between them.
StructureIsCopied == pass <= 4 => Kept(document) = questionnaire.document

\* Nor does the fourth one, of what it deals with.
DocumentKept == Done /\ Simple => Kept(document) = questionnaire.document

\* The filters show the questions that the GoTos ask, and no others.
FiltersMeanGoTos ==
    Done /\ Simple /\ Unmerged =>
        \A valuation \in Valuations : Possible(valuation) => Shown(valuation) = Asked(valuation)

\* A question that is to be asked is shown even where the condition of a
\* question that was skipped is true.
AskedIsShown ==
    Done /\ WithinChapters /\ Unmerged =>
        \A valuation \in Valuations : Asked(valuation) \subseteq Shown(valuation)

(***************************************************************************)
(* Statements of the repository the code departs from.                     *)
(***************************************************************************)

\* "General case: the structure is copied and not touched": no question is lost,
\* also where several GoTos cross the bounds of chapters.
QuestionsAreCopied ==
    Done => \A i \in DOMAIN questionnaire.document :
               questionnaire.document[i].kind = "question" => questionnaire.document[i] \in Range(document)

\* "The condition to skip questions is replaced by the one to show them", also
\* for GoTos of one question that have one target.
SkippingIsNegated ==
    Done => \A valuation \in Valuations : Possible(valuation) => Shown(valuation) = Asked(valuation)
=============================================================================
