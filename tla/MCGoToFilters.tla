---------------------------- MODULE MCGoToFilters ----------------------------
(***************************************************************************)
(* Small questionnaires: six questions without a chapter, in two, in three *)
(* and in two nested ones, with up to three GoTos ahead; and four          *)
(* questions with GoTos that may have one target.                          *)
(***************************************************************************)
EXTENDS GoToFilters, TLC

Questions(qs) == [k \in DOMAIN qs |-> Question(qs[k])]

Plainly == Questions(<<"q1", "q2", "q3", "q4", "q5", "q6">>)
InTwo == Sequence("s1", Questions(<<"q1", "q2", "q3">>)) \o Sequence("s2", Questions(<<"q4", "q5", "q6">>))
InThree == Sequence("s1", Questions(<<"q1", "q2">>)) \o Sequence("s2", Questions(<<"q3", "q4">>))
           \o Sequence("s3", Questions(<<"q5", "q6">>))
InNested == Sequence("s1", Questions(<<"q1", "q2">>) \o Sequence("s2", Questions(<<"q3", "q4">>))
                           \o Questions(<<"q5">>))
            \o Questions(<<"q6">>)

\* Where a GoTo may come from and go to, and the order of two of them.
Jumps(d) == {j \in (DOMAIN d) \X (DOMAIN d) : /\ j[1] < j[2]
                                              /\ d[j[1]].kind = "question"
                                              /\ d[j[2]].kind \in Children}

Before(j, k) == j[1] < k[1] \/ (j[1] = k[1] /\ j[2] < k[2])

With(d, jumps) ==
    [document |-> d,
     goTos |-> [k \in DOMAIN jumps |-> [id |-> <<"g1", "g2", "g3">>[k],
                                        from |-> d[jumps[k][1]].id,
                                        target |-> d[jumps[k][2]].id]]]

\* The questionnaires over document d with n different GoTos.
Different(n, d) ==
    {With(d, jumps) : jumps \in {c \in [1 .. n -> Jumps(d)] : \A k \in 1 .. n - 1 : Before(c[k], c[k + 1])}}

\* Those with two GoTos of one question and one target.
WithOneTarget(d) == {With(d, <<j, j>>) : j \in Jumps(d)}

MCQuestionnaires ==
    UNION {Different(n, d) : n \in 1 .. 3, d \in {Plainly, InTwo}}
    \cup UNION {Different(n, d) : n \in 1 .. 2, d \in {InThree, InNested}}
    \cup WithOneTarget(InNested)

MCOverlapping == Different(3, InThree)

MCMerged == WithOneTarget(Plainly)
=============================================================================
