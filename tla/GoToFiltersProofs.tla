------------------------- MODULE GoToFiltersProofs -------------------------
(***************************************************************************)
(* What stylesheets 1 to 3 leave of a questionnaire, for every set of      *)
(* questionnaires the assumption allows: StructureSurvives has it that the *)
(* questions and chapters are copied, BeginsAreNested that the begins and  *)
(* ends of stylesheet 2 nest.  A pass joins what a template makes of each  *)
(* tag, so both go tag by tag through a document: by induction over its    *)
(* positions, which comes from the least number of a set.                  *)
(***************************************************************************)
EXTENDS GoToFilters, SequenceTheorems, WellFoundedInduction, TLAPS

(***************************************************************************)
(* Induction over the numbers up to n.  What it shows of them is a set and *)
(* what a recursion computes with is a function, for which the provers     *)
(* find the instances that they do not find for an operator.               *)
(***************************************************************************)
Inductive(Good, n) == 0 \in Good /\ \A i \in 1 .. n : i - 1 \in Good => i \in Good

Recursive(f, n, S, base, step) ==
    f \in [0 .. n -> S] /\ f[0] = base /\ \A i \in 1 .. n : f[i] = step[<<i, f[i - 1]>>]

\* A set of numbers has a least one.
LEMMA LeastNumber == \A S : S \subseteq Nat /\ S # {} => \E k \in S : \A l \in S : k <= l
<1> SUFFICES ASSUME NEW S, S \subseteq Nat, S # {} PROVE \E k \in S : \A l \in S : k <= l
    OBVIOUS
<1>1. \E k \in S : \A l \in S : ~ (<<l, k>> \in OpToRel(<, Nat))
    BY NatLessThanWellFounded, WFMin, Zenon
<1>2. PICK k \in S : \A l \in S : ~ (<<l, k>> \in OpToRel(<, Nat))
    BY <1>1, Zenon
<1>3. \A l \in S : ~ (l < k)
    BY <1>2 DEF OpToRel
<1> QED
    BY <1>3

\* Induction up to n.
LEMMA UpTo == \A Good : \A n \in Nat : Inductive(Good, n) => \A i \in 0 .. n : i \in Good
<1> SUFFICES ASSUME NEW Good, NEW n \in Nat, Inductive(Good, n) PROVE \A i \in 0 .. n : i \in Good
    OBVIOUS
<1> DEFINE Bad == {i \in 0 .. n : i \notin Good}
<1> SUFFICES ASSUME Bad # {} PROVE FALSE
    OBVIOUS
<1>1. Bad \subseteq 0 .. n /\ Bad \subseteq Nat
    OBVIOUS
<1>2. \A i \in 0 .. n : i \in Good <=> i \notin Bad
    OBVIOUS
<1> HIDE DEF Bad
<1>3. PICK k \in Bad : \A l \in Bad : k <= l
    BY <1>1, LeastNumber
<1>4. k \in 1 .. n /\ k - 1 \in 0 .. n
    BY <1>1, <1>2 DEF Inductive
<1>5. k - 1 \notin Bad
    BY <1>1, <1>3
<1> QED
    BY <1>1, <1>2, <1>4, <1>5 DEF Inductive

\* There is a function that satisfies the equation of a recursive one.
LEMMA Recursion ==
    \A S, base, step : \A n \in Nat : base \in S /\ step \in [(1 .. n) \X S -> S] =>
        \E f : Recursive(f, n, S, base, step)
<1> SUFFICES ASSUME NEW S, NEW base \in S, NEW n \in Nat, NEW step \in [(1 .. n) \X S -> S]
             PROVE  \E f : Recursive(f, n, S, base, step)
    BY Zenon
<1> DEFINE Good == {m \in 0 .. n : \E f : Recursive(f, m, S, base, step)}
<1>1. 0 \in Good
    <2>1. Recursive([i \in 0 .. 0 |-> base], 0, S, base, step)
        BY DEF Recursive
    <2> QED
        BY <2>1
<1>2. ASSUME NEW m \in 1 .. n, m - 1 \in Good PROVE m \in Good
    <2>1. PICK f : Recursive(f, m - 1, S, base, step)
        BY <1>2, Zenon
    <2> DEFINE g == [i \in 0 .. m |-> IF i = m THEN step[<<m, f[m - 1]>>] ELSE f[i]]
    <2>2. f[m - 1] \in S /\ step[<<m, f[m - 1]>>] \in S
        BY <2>1 DEF Recursive
    <2>3. g \in [0 .. m -> S]
        BY <2>1, <2>2 DEF Recursive
    <2>4. g[0] = base
        BY <2>1 DEF Recursive
    <2>5. ASSUME NEW i \in 1 .. m PROVE g[i] = step[<<i, g[i - 1]>>]
        <3>1. CASE i = m
            <4>1. g[m] = step[<<m, f[m - 1]>>] /\ g[m - 1] = f[m - 1]
                OBVIOUS
            <4> QED
                BY <3>1, <4>1
        <3>2. CASE i # m
            <4>1. i \in 1 .. m - 1 /\ i - 1 \in 0 .. m - 1 /\ i - 1 # m
                BY <3>2
            <4>2. g[i] = f[i] /\ g[i - 1] = f[i - 1]
                BY <4>1
            <4> QED
                BY <2>1, <4>1, <4>2 DEF Recursive
        <3> QED
            BY <3>1, <3>2
    <2> HIDE DEF g
    <2>6. Recursive(g, m, S, base, step)
        BY <2>3, <2>4, <2>5 DEF Recursive
    <2> QED
        BY <2>6
<1> HIDE DEF Good
<1>3. n \in Good
    BY <1>1, <1>2, UpTo DEF Inductive
<1> QED
    BY <1>3 DEF Good

\* And only one.
SameSteps(f, g, n) == f[0] = g[0] /\ \A i \in 1 .. n : f[i - 1] = g[i - 1] => f[i] = g[i]

LEMMA SameRecursion ==
    \A f, g : \A n \in Nat : SameSteps(f, g, n) => \A i \in 0 .. n : f[i] = g[i]
<1> SUFFICES ASSUME NEW f, NEW g, NEW n \in Nat, SameSteps(f, g, n)
             PROVE  \A i \in 0 .. n : f[i] = g[i]
    OBVIOUS
<1> DEFINE Good == {i \in 0 .. n : f[i] = g[i]}
<1>1. Inductive(Good, n)
    BY DEF Inductive, SameSteps
<1> HIDE DEF Good
<1>2. \A i \in 0 .. n : i \in Good
    BY <1>1, UpTo
<1> QED
    BY <1>2 DEF Good

\* f computes InOrder(d, P) position by position.
Collects(f, d, P) ==
    /\ f \in [0 .. Len(d) -> Seq(Nat)]
    /\ f[0] = <<>>
    /\ \A i \in 1 .. Len(d) : f[i] = IF i \in P THEN Append(f[i - 1], i) ELSE f[i - 1]
    /\ InOrder(d, P) = f[Len(d)]

\* InOrder is what its recursion comes to.
LEMMA InOrderRecursion ==
    ASSUME NEW d, Len(d) \in Nat, NEW P
    PROVE  \E f : Collects(f, d, P)
<1> DEFINE n == Len(d)
           S == Seq(Nat)
           base == <<>>
           Step(s, i) == IF i \in P THEN Append(s, i) ELSE s
           Equation(f) == f = [i \in 0 .. n |-> IF i = 0 THEN base ELSE Step(f[i - 1], i)]
           g == CHOOSE g : Equation(g)
           step == [x \in (1 .. n) \X S |-> Step(x[2], x[1])]
<1>1. n \in Nat /\ base \in S
    OBVIOUS
<1>2. \A i \in 1 .. n, s \in S : Step(s, i) \in S
    OBVIOUS
<1>3. InOrder(d, P) = g[n]
    BY DEF InOrder
<1> HIDE DEF n, S, base, Step
<1>4. step \in [(1 .. n) \X S -> S]
    BY <1>2
<1>5. \A i \in 1 .. n, s \in S : step[<<i, s>>] = Step(s, i)
    OBVIOUS
<1> HIDE DEF step
<1>6. PICK f : Recursive(f, n, S, base, step)
    BY <1>1, <1>4, Recursion, Zenon
<1>7. f \in [0 .. n -> S] /\ f[0] = base
    BY <1>6 DEF Recursive
<1>8. \A i \in 1 .. n : f[i] = Step(f[i - 1], i)
    <2>1. \A i \in 1 .. n : f[i - 1] \in S
        BY <1>1, <1>7
    <2> QED
        BY <1>5, <1>6, <2>1 DEF Recursive
<1>9. Equation(g)
    <2>1. Equation(f)
        BY <1>1, <1>7, <1>8
    <2> QED
        BY <2>1, Zenon
<1> HIDE DEF g
<1>10. g[0] = base /\ \A i \in 1 .. n : g[i] = Step(g[i - 1], i)
    BY <1>1, <1>9
<1>11. \A i \in 0 .. n : f[i] = g[i]
    <2>1. n \in Nat
        BY <1>1
    <2>2. SameSteps(f, g, n)
        BY <1>7, <1>8, <1>10 DEF SameSteps
    <2> QED
        BY <2>1, <2>2, SameRecursion, Zenon
<1>12. f[n] = g[n]
    BY <1>1, <1>11
<1>13. Collects(f, d, P)
    BY <1>3, <1>7, <1>8, <1>12 DEF Collects, n, S, base, Step
<1> QED
    BY <1>13

\* s lists the numbers up to n that are in P, each one before the greater ones.
Lists(s, P, n) ==
    /\ s \in Seq(Nat)
    /\ \A k \in 1 .. Len(s) : s[k] \in P /\ s[k] \in 1 .. n
    /\ \A i \in 1 .. n : i \in P => \E k \in 1 .. Len(s) : s[k] = i
    /\ \A k, l \in 1 .. Len(s) : k < l => s[k] < s[l]

\* The sequence of the numbers up to m from that of those before it.
LEMMA ListsOneMore ==
    ASSUME NEW s, NEW P, NEW m \in Nat \ {0}, Lists(s, P, m - 1)
    PROVE  Lists(IF m \in P THEN Append(s, m) ELSE s, P, m)
<1>1. CASE m \notin P
    <2>1. \A k \in 1 .. Len(s) : s[k] \in P /\ s[k] \in 1 .. m
        BY DEF Lists
    <2>2. \A i \in 1 .. m : i \in P => \E k \in 1 .. Len(s) : s[k] = i
        BY <1>1 DEF Lists
    <2> QED
        BY <1>1, <2>1, <2>2 DEF Lists
<1>2. CASE m \in P
    <2>1. PICK t : t = Append(s, m)
        OBVIOUS
    <2>2. t \in Seq(Nat) /\ s \in Seq(Nat)
        BY <2>1 DEF Lists
    <2>3. Len(s) \in Nat /\ Len(t) = Len(s) + 1 /\ t[Len(s) + 1] = m /\ \A k \in 1 .. Len(s) : t[k] = s[k]
        BY <2>1, <2>2
    <2>4. ASSUME NEW k \in 1 .. Len(t) PROVE t[k] \in P /\ t[k] \in 1 .. m
        <3>1. CASE k = Len(s) + 1
            BY <1>2, <2>3, <3>1
        <3>2. CASE k # Len(s) + 1
            <4>1. k \in 1 .. Len(s)
                BY <2>3, <3>2
            <4> QED
                BY <2>3, <4>1 DEF Lists
        <3> QED
            BY <3>1, <3>2
    <2>5. ASSUME NEW i \in 1 .. m, i \in P PROVE \E k \in 1 .. Len(t) : t[k] = i
        <3>1. CASE i = m
            <4>1. Len(s) + 1 \in 1 .. Len(t)
                BY <2>3
            <4> QED
                BY <2>3, <3>1, <4>1
        <3>2. CASE i # m
            <4>1. PICK k \in 1 .. Len(s) : s[k] = i
                BY <2>5, <3>2 DEF Lists
            <4>2. k \in 1 .. Len(t) /\ t[k] = i
                BY <2>3, <4>1
            <4> QED
                BY <4>2
        <3> QED
            BY <3>1, <3>2
    <2>6. ASSUME NEW k \in 1 .. Len(t), NEW l \in 1 .. Len(t), k < l PROVE t[k] < t[l]
        <3>1. k \in 1 .. Len(s)
            BY <2>3, <2>6
        <3>2. t[k] = s[k] /\ s[k] \in 1 .. m - 1
            BY <2>3, <3>1 DEF Lists
        <3>3. CASE l = Len(s) + 1
            BY <2>3, <3>2, <3>3
        <3>4. CASE l # Len(s) + 1
            <4>1. l \in 1 .. Len(s)
                BY <2>3, <3>4
            <4> QED
                BY <2>3, <2>6, <3>1, <4>1 DEF Lists
        <3> QED
            BY <3>3, <3>4
    <2>7. Lists(t, P, m)
        BY <2>2, <2>4, <2>5, <2>6 DEF Lists
    <2> QED
        BY <1>2, <2>1, <2>7
<1> QED
    BY <1>1, <1>2

\* InOrder lists the positions.
LEMMA InOrderLists ==
    ASSUME NEW d, Len(d) \in Nat, NEW P
    PROVE  Lists(InOrder(d, P), P, Len(d))
<1> DEFINE n == Len(d)
<1>1. PICK f : Collects(f, d, P)
    BY InOrderRecursion
<1> DEFINE Good == {m \in 0 .. n : Lists(f[m], P, m)}
<1>2. 0 \in Good
    <2>1. Lists(<<>>, P, 0)
        BY DEF Lists
    <2>2. f[0] = <<>> /\ 0 \in 0 .. n
        BY <1>1 DEF Collects
    <2> QED
        BY <2>1, <2>2
<1>3. ASSUME NEW m \in 1 .. n, m - 1 \in Good PROVE m \in Good
    <2>1. Lists(f[m - 1], P, m - 1)
        BY <1>3
    <2>2. Lists(IF m \in P THEN Append(f[m - 1], m) ELSE f[m - 1], P, m)
        BY <2>1, ListsOneMore
    <2>3. f[m] = IF m \in P THEN Append(f[m - 1], m) ELSE f[m - 1]
        BY <1>1 DEF Collects
    <2>4. Lists(f[m], P, m)
        BY <2>2, <2>3, Zenon
    <2> QED
        BY <2>4
<1> HIDE DEF Good
<1>4. n \in Good
    <2>1. Inductive(Good, n) /\ n \in Nat
        BY <1>2, <1>3 DEF Inductive
    <2> QED
        BY <2>1, UpTo
<1>5. InOrder(d, P) = f[n]
    BY <1>1 DEF Collects
<1> QED
    BY <1>4, <1>5 DEF Good

\* Only one sequence does so: where two agree so far, neither goes on with a
\* greater number than the other.
LEMMA ListsNext ==
    ASSUME NEW P, NEW n \in Nat, NEW u, NEW v, Lists(u, P, n), Lists(v, P, n),
           NEW k \in 1 .. Len(u), \A j \in 1 .. k - 1 : j \in 1 .. Len(v) /\ u[j] = v[j]
    PROVE  k \in 1 .. Len(v) /\ v[k] <= u[k]
<1>1. u[k] \in P /\ u[k] \in 1 .. n /\ Len(u) \in Nat /\ \A j \in 1 .. Len(u) : j < k => u[j] < u[k]
    BY DEF Lists
<1>2. PICK l \in 1 .. Len(v) : v[l] = u[k]
    BY <1>1 DEF Lists
<1>3. Len(v) \in Nat /\ \A i, j \in 1 .. Len(v) : i < j => v[i] < v[j]
    BY DEF Lists
<1>4. ~ (l < k)
    <2> SUFFICES ASSUME l < k PROVE FALSE
        OBVIOUS
    <2>1. l \in 1 .. k - 1 /\ l \in 1 .. Len(u)
        BY <1>1, <1>3
    <2>2. u[l] < u[k] /\ u[l] = v[l]
        BY <1>1, <2>1
    <2> QED
        BY <1>1, <1>2, <2>2
<1>5. k \in 1 .. Len(v)
    BY <1>1, <1>3, <1>4
<1>6. CASE l = k
    BY <1>1, <1>2, <1>5, <1>6
<1>7. CASE k < l
    <2>1. v[k] < v[l]
        BY <1>3, <1>5, <1>7
    <2>2. v[k] \in Nat
        BY <1>5 DEF Lists
    <2> QED
        BY <1>1, <1>2, <1>5, <2>1, <2>2
<1> QED
    BY <1>1, <1>3, <1>4, <1>6, <1>7

\* So one is the beginning of the other,
LEMMA ListsPrefix ==
    ASSUME NEW P, NEW n \in Nat, NEW s, NEW t, Lists(s, P, n), Lists(t, P, n)
    PROVE  Len(s) <= Len(t) /\ \A j \in 1 .. Len(s) : s[j] = t[j]
<1>1. Len(s) \in Nat /\ Len(t) \in Nat /\ s \in Seq(Nat) /\ t \in Seq(Nat)
    BY DEF Lists
<1> DEFINE Good == {m \in 0 .. Len(s) : m <= Len(t) /\ \A j \in 1 .. m : s[j] = t[j]}
<1>2. ASSUME NEW m \in 1 .. Len(s), m - 1 \in Good PROVE m \in Good
    <2>1. \A j \in 1 .. m - 1 : j \in 1 .. Len(s) /\ j \in 1 .. Len(t) /\ s[j] = t[j]
        BY <1>1, <1>2
    <2>2. m \in 1 .. Len(t) /\ t[m] <= s[m]
        BY <2>1, ListsNext
    <2>3. s[m] <= t[m]
        BY <2>1, <2>2, ListsNext
    <2>4. s[m] = t[m]
        BY <1>1, <2>2, <2>3
    <2>5. \A j \in 1 .. m : s[j] = t[j]
        BY <2>1, <2>4
    <2> QED
        BY <1>1, <2>2, <2>5
<1>3. 0 \in Good
    BY <1>1
<1> HIDE DEF Good
<1>4. Len(s) \in Good
    <2>1. Inductive(Good, Len(s))
        BY <1>2, <1>3 DEF Inductive
    <2> QED
        BY <1>1, <2>1, UpTo
<1> QED
    BY <1>4 DEF Good

\* and they are the same.
LEMMA ListsOnce ==
    ASSUME NEW P, NEW n \in Nat, NEW s, NEW t, Lists(s, P, n), Lists(t, P, n)
    PROVE  s = t
<1>1. Len(s) \in Nat /\ Len(t) \in Nat /\ s \in Seq(Nat) /\ t \in Seq(Nat)
    BY DEF Lists
<1>2. Len(s) <= Len(t) /\ Len(t) <= Len(s) /\ \A j \in 1 .. Len(s) : s[j] = t[j]
    BY ListsPrefix
<1> QED
    BY <1>1, <1>2

\* What lists the positions in P is therefore InOrder of them.
LEMMA InOrderIs ==
    ASSUME NEW d, Len(d) \in Nat, NEW P, NEW s, Lists(s, P, Len(d))
    PROVE  InOrder(d, P) = s
BY InOrderLists, ListsOnce

\* Sequences of lesser and of greater positions, one behind the other.
LEMMA ListsJoined ==
    ASSUME NEW n \in Nat, NEW P, NEW Q, NEW R, NEW s, NEW t, Lists(s, P, n), Lists(t, Q, n),
           \A p, q \in 1 .. n : p \in P /\ q \in Q => p < q,
           \A i \in 1 .. n : i \in R <=> i \in P \/ i \in Q
    PROVE  Lists(s \o t, R, n)
<1> s \in Seq(Nat) /\ t \in Seq(Nat) /\ Len(s) \in Nat /\ Len(t) \in Nat
    BY DEF Lists
<1>1. PICK u : u = s \o t
    OBVIOUS
<1>2. /\ \A k \in 1 .. Len(s) : s[k] \in P /\ s[k] \in 1 .. n
      /\ \A i \in 1 .. n : i \in P => \E k \in 1 .. Len(s) : s[k] = i
      /\ \A k, l \in 1 .. Len(s) : k < l => s[k] < s[l]
    BY DEF Lists
<1>3. /\ \A k \in 1 .. Len(t) : t[k] \in Q /\ t[k] \in 1 .. n
      /\ \A i \in 1 .. n : i \in Q => \E k \in 1 .. Len(t) : t[k] = i
      /\ \A k, l \in 1 .. Len(t) : k < l => t[k] < t[l]
    BY DEF Lists
<1>4. u \in Seq(Nat) /\ Len(u) = Len(s) + Len(t)
    BY <1>1
<1>5. \A k \in 1 .. Len(s) : u[k] = s[k]
    BY <1>1
<1>6. \A k \in 1 .. Len(t) : u[Len(s) + k] = t[k]
    BY <1>1
<1>7. ASSUME NEW k \in 1 .. Len(u)
      PROVE  \/ k \in 1 .. Len(s) /\ u[k] = s[k] /\ s[k] \in P /\ s[k] \in 1 .. n
             \/ k - Len(s) \in 1 .. Len(t) /\ u[k] = t[k - Len(s)]
                /\ t[k - Len(s)] \in Q /\ t[k - Len(s)] \in 1 .. n
    <2>1. CASE k \in 1 .. Len(s)
        BY <1>2, <1>5, <2>1
    <2>2. CASE k \notin 1 .. Len(s)
        <3>1. k - Len(s) \in 1 .. Len(t) /\ Len(s) + (k - Len(s)) = k
            BY <1>4, <2>2
        <3>2. u[k] = t[k - Len(s)]
            BY <1>6, <3>1
        <3> QED
            BY <1>3, <3>1, <3>2
    <2> QED
        BY <2>1, <2>2
<1>8. \A k \in 1 .. Len(u) : u[k] \in R /\ u[k] \in 1 .. n
    BY <1>7
<1>9. ASSUME NEW i \in 1 .. n, i \in R PROVE \E k \in 1 .. Len(u) : u[k] = i
    <2>1. CASE i \in P
        <3>1. PICK k \in 1 .. Len(s) : s[k] = i
            BY <1>2, <2>1
        <3>2. k \in 1 .. Len(u) /\ u[k] = i
            BY <1>4, <1>5, <3>1
        <3> QED
            BY <3>2
    <2>2. CASE i \in Q
        <3>1. \A j \in 1 .. n : j \in Q => \E k \in 1 .. Len(t) : t[k] = j
            BY <1>3, Zenon
        <3>2. PICK k \in 1 .. Len(t) : t[k] = i
            BY <2>2, <3>1
        <3>3. Len(s) + k \in 1 .. Len(u) /\ u[Len(s) + k] = i
            BY <1>4, <1>6, <3>2
        <3> QED
            BY <3>3
    <2> QED
        BY <1>9, <2>1, <2>2
<1>10. ASSUME NEW k \in 1 .. Len(u), NEW l \in 1 .. Len(u), k < l PROVE u[k] < u[l]
    <2>1. CASE l \in 1 .. Len(s)
        <3>1. k \in 1 .. Len(s)
            BY <1>10, <2>1
        <3>2. u[k] = s[k] /\ u[l] = s[l] /\ s[k] < s[l]
            BY <1>2, <1>5, <1>10, <2>1, <3>1
        <3> QED
            BY <3>2
    <2>2. CASE l \notin 1 .. Len(s) /\ k \in 1 .. Len(s)
        <3>1. u[k] \in P /\ u[k] \in 1 .. n
            BY <1>2, <1>5, <2>2
        <3>2. u[l] \in Q /\ u[l] \in 1 .. n
            BY <1>7, <2>2
        <3> QED
            BY <3>1, <3>2
    <2>3. CASE l \notin 1 .. Len(s) /\ k \notin 1 .. Len(s)
        <3>1. PICK x \in 1 .. Len(t) : u[k] = t[x] /\ x = k - Len(s)
            BY <1>7, <2>3
        <3>2. PICK y \in 1 .. Len(t) : u[l] = t[y] /\ y = l - Len(s)
            BY <1>7, <2>3
        <3>3. x < y
            BY <1>4, <1>10, <3>1, <3>2
        <3>4. t[x] < t[y]
            BY <1>3, <3>3
        <3> QED
            BY <3>1, <3>2, <3>4
    <2> QED
        BY <2>1, <2>2, <2>3
<1>11. Lists(u, R, n)
    BY <1>4, <1>8, <1>9, <1>10 DEF Lists
<1> QED
    BY <1>1, <1>11

\* The same sequence in a document that goes on.
LEMMA ListsWider ==
    ASSUME NEW n \in Nat, NEW m \in Nat, NEW P, NEW Q, NEW s, Lists(s, P, m), m <= n,
           \A i \in 1 .. n : i \in Q <=> i \in P /\ i <= m
    PROVE  Lists(s, Q, n)
<1> s \in Seq(Nat) /\ Len(s) \in Nat
    BY DEF Lists
<1>1. \A k \in 1 .. Len(s) : s[k] \in Q /\ s[k] \in 1 .. n
    BY DEF Lists
<1>2. \A i \in 1 .. n : i \in Q => \E k \in 1 .. Len(s) : s[k] = i
    BY DEF Lists
<1> QED
    BY <1>1, <1>2 DEF Lists

\* The same sequence behind another document.
LEMMA ListsShifted ==
    ASSUME NEW n \in Nat, NEW m \in Nat, NEW P, NEW Q, NEW s, Lists(s, P, n),
           \A i \in 1 .. m + n : i \in Q <=> i - m \in P /\ i > m
    PROVE  Lists([k \in 1 .. Len(s) |-> m + s[k]], Q, m + n)
<1> s \in Seq(Nat) /\ Len(s) \in Nat
    BY DEF Lists
<1>1. PICK t : t = [k \in 1 .. Len(s) |-> m + s[k]]
    OBVIOUS
<1>2. t \in Seq(Nat) /\ Len(t) = Len(s)
    BY <1>1
<1>3. ASSUME NEW k \in 1 .. Len(t) PROVE t[k] = m + s[k] /\ t[k] \in Q /\ t[k] \in 1 .. m + n
    <2>1. t[k] = m + s[k] /\ s[k] \in P /\ s[k] \in 1 .. n
        BY <1>1, <1>2 DEF Lists
    <2>2. t[k] \in 1 .. m + n /\ t[k] - m = s[k] /\ t[k] > m
        BY <2>1
    <2> QED
        BY <2>1, <2>2
<1>4. ASSUME NEW i \in 1 .. m + n, i \in Q PROVE \E k \in 1 .. Len(t) : t[k] = i
    <2>1. i - m \in P /\ i - m \in 1 .. n
        BY <1>4
    <2>2. PICK k \in 1 .. Len(s) : s[k] = i - m
        BY <2>1 DEF Lists
    <2>3. k \in 1 .. Len(t) /\ t[k] = i
        BY <1>1, <1>2, <2>2
    <2> QED
        BY <2>3
<1>5. ASSUME NEW k \in 1 .. Len(t), NEW l \in 1 .. Len(t), k < l PROVE t[k] < t[l]
    <2>1. k \in 1 .. Len(s) /\ l \in 1 .. Len(s)
        BY <1>2
    <2>2. s[k] < s[l] /\ s[k] \in 1 .. n /\ s[l] \in 1 .. n
        BY <1>5, <2>1 DEF Lists
    <2>3. t[k] = m + s[k] /\ t[l] = m + s[l]
        BY <1>1, <2>1
    <2> QED
        BY <2>2, <2>3
<1>6. Lists(t, Q, m + n)
    BY <1>2, <1>3, <1>4, <1>5 DEF Lists
<1> QED
    BY <1>1, <1>6

(***************************************************************************)
(* What Rewrite makes of a document, template by template.                 *)
(***************************************************************************)
Flattens(f, seqs, n, T) ==
    /\ f \in [0 .. n -> Seq(T)]
    /\ f[0] = <<>>
    /\ \A i \in 1 .. n : f[i] = f[i - 1] \o seqs[i]
    /\ FlattenSeq(seqs) = f[n]

\* FlattenSeq joins the sequences one by one.
LEMMA FlattenRecursion ==
    ASSUME NEW n \in Nat, NEW T, NEW seqs \in [1 .. n -> Seq(T)]
    PROVE  \E f : Flattens(f, seqs, n, T)
<1> DEFINE S == Seq(T)
           base == <<>>
           Step(s, i) == s \o seqs[i]
           Equation(f) == f = [i \in 1 .. n |-> IF i = 1 THEN seqs[i] ELSE Step(f[i - 1], i)]
           g == CHOOSE g : Equation(g)
           step == [x \in (1 .. n) \X S |-> Step(x[2], x[1])]
<1>1. base \in S /\ \A i \in 1 .. n : Step(base, i) = seqs[i]
    OBVIOUS
<1>2. \A i \in 1 .. n, s \in S : Step(s, i) \in S
    OBVIOUS
<1>3. FlattenSeq(seqs) = IF n = 0 THEN base ELSE g[n]
    <2>1. Len(seqs) = n /\ (n = 0 => seqs = <<>>)
        OBVIOUS
    <2>2. FlattenSeq(seqs) = IF n = 0 THEN seqs ELSE g[n]
        BY <2>1 DEF FlattenSeq
    <2> QED
        BY <2>1, <2>2
<1> HIDE DEF S, base, Step
<1>4. step \in [(1 .. n) \X S -> S]
    BY <1>2
<1>5. \A i \in 1 .. n, s \in S : step[<<i, s>>] = Step(s, i)
    OBVIOUS
<1> HIDE DEF step
<1>6. PICK f : Recursive(f, n, S, base, step)
    BY <1>1, <1>4, Recursion, Zenon
<1>7. f \in [0 .. n -> S] /\ f[0] = base
    BY <1>6 DEF Recursive
<1>8. \A i \in 1 .. n : f[i] = Step(f[i - 1], i)
    <2>1. \A i \in 1 .. n : f[i - 1] \in S
        BY <1>7
    <2> QED
        BY <1>5, <1>6, <2>1 DEF Recursive
<1>9. Equation(g)
    <2> DEFINE h == [i \in 1 .. n |-> f[i]]
    <2>1. \A i \in 1 .. n : h[i] = IF i = 1 THEN seqs[i] ELSE Step(h[i - 1], i)
        BY <1>1, <1>7, <1>8
    <2>2. h = [i \in 1 .. n |-> h[i]]
        OBVIOUS
    <2> HIDE DEF h
    <2>3. Equation(h)
        BY <2>1, <2>2, Zenon
    <2> QED
        BY <2>3, Zenon
<1> HIDE DEF g
<1>10. \A i \in 1 .. n : g[i] = IF i = 1 THEN seqs[i] ELSE Step(g[i - 1], i)
    BY <1>9
<1> DEFINE Good == {i \in 0 .. n : i # 0 => f[i] = g[i]}
<1>11. 0 \in Good
    OBVIOUS
<1>12. ASSUME NEW i \in 1 .. n, i - 1 \in Good PROVE i \in Good
    <2>1. CASE i = 1
        BY <1>1, <1>7, <1>8, <1>10, <2>1
    <2>2. CASE i # 1
        <3>1. f[i - 1] = g[i - 1]
            BY <1>12, <2>2
        <3> QED
            BY <1>8, <1>10, <2>2, <3>1
    <2> QED
        BY <2>1, <2>2
<1> HIDE DEF Good
<1>13. n \in Good
    <2>1. Inductive(Good, n)
        BY <1>11, <1>12 DEF Inductive
    <2> QED
        BY <2>1, UpTo
<1>14. FlattenSeq(seqs) = f[n]
    BY <1>3, <1>7, <1>13 DEF Good
<1>15. Flattens(f, seqs, n, T)
    BY <1>7, <1>8, <1>14 DEF Flattens, S, base, Step
<1> QED
    BY <1>15

\* What is where in w, two sequences that are joined.
Parts(w, T, a, b) ==
    /\ w \in Seq(T) /\ Len(w) = Len(a) + Len(b)
    /\ \A k \in 1 .. Len(a) : w[k] = a[k]
    /\ \A k \in 1 .. Len(b) : w[Len(a) + k] = b[k]

LEMMA JoinedParts ==
    ASSUME NEW T, NEW a \in Seq(T), NEW b \in Seq(T), NEW w, w = a \o b
    PROVE  Parts(w, T, a, b)
BY DEF Parts

\* A sequence whose two parts are a and b is their concatenation.
LEMMA JoinedIs ==
    ASSUME NEW T, NEW a \in Seq(T), NEW b \in Seq(T), NEW w \in Seq(T),
           Len(w) = Len(a) + Len(b),
           \A k \in 1 .. Len(a) : w[k] = a[k],
           \A k \in 1 .. Len(b) : w[Len(a) + k] = b[k]
    PROVE  w = a \o b
<1>1. PICK u : u = a \o b
    OBVIOUS
<1>2. u \in Seq(T) /\ Len(u) = Len(a) + Len(b) /\ Len(a) \in Nat /\ Len(b) \in Nat
    BY <1>1
<1>3. ASSUME NEW k \in 1 .. Len(u) PROVE w[k] = u[k]
    <2>1. CASE k \in 1 .. Len(a)
        BY <1>1, <2>1
    <2>2. CASE k \notin 1 .. Len(a)
        <3>1. k - Len(a) \in 1 .. Len(b) /\ Len(a) + (k - Len(a)) = k
            BY <1>2, <2>2
        <3>2. u[Len(a) + (k - Len(a))] = b[k - Len(a)]
            BY <1>1, <3>1
        <3> QED
            BY <3>1, <3>2
    <2> QED
        BY <2>1, <2>2
<1>4. w = u
    BY <1>2, <1>3
<1> QED
    BY <1>1, <1>4

(***************************************************************************)
(* The questions and chapters of a document.                               *)
(***************************************************************************)
IsKept(tag) == tag.kind \in Children \cup {"/sequence"}

KeptAt(d) == {i \in DOMAIN d : d[i].kind \in Children \cup {"/sequence"}}

\* Kept is the tags at the positions of those that are kept.
LEMMA KeptIs ==
    ASSUME NEW T, NEW d \in Seq(T), NEW o, Lists(o, KeptAt(d), Len(d))
    PROVE  Kept(d) = [k \in 1 .. Len(o) |-> d[o[k]]]
<1>1. InOrder(d, KeptAt(d)) = o
    <2>1. Len(d) \in Nat
        OBVIOUS
    <2> QED
        BY <2>1, InOrderIs
<1>2. DOMAIN o = 1 .. Len(o)
    BY DEF Lists
<1>3. Kept(d) = [k \in DOMAIN InOrder(d, KeptAt(d)) |-> d[InOrder(d, KeptAt(d))[k]]]
    BY DEF Kept, Tags, KeptAt
<1> QED
    BY <1>1, <1>2, <1>3

\* There is such an order, and Kept is a sequence of tags of d.
LEMMA KeptOrder ==
    ASSUME NEW T, NEW d \in Seq(T)
    PROVE  \E o : /\ Lists(o, KeptAt(d), Len(d))
                  /\ Kept(d) = [k \in 1 .. Len(o) |-> d[o[k]]]
                  /\ Kept(d) \in Seq(T) /\ Len(Kept(d)) = Len(o)
<1>1. Len(d) \in Nat
    OBVIOUS
<1>2. PICK o : Lists(o, KeptAt(d), Len(d))
    BY <1>1, InOrderLists
<1>3. Kept(d) = [k \in 1 .. Len(o) |-> d[o[k]]]
    BY <1>2, KeptIs
<1>4. Len(o) \in Nat /\ \A k \in 1 .. Len(o) : o[k] \in 1 .. Len(d)
    BY <1>2 DEF Lists
<1>5. \A k \in 1 .. Len(o) : d[o[k]] \in T
    BY <1>4
<1>6. Kept(d) \in Seq(T) /\ Len(Kept(d)) = Len(o)
    BY <1>3, <1>4, <1>5
<1> QED
    BY <1>2, <1>3, <1>6

\* Nothing is kept where there are begins and ends only.
LEMMA KeptNone ==
    ASSUME NEW T, NEW d \in Seq(T), \A i \in 1 .. Len(d) : ~ IsKept(d[i])
    PROVE  Kept(d) = <<>>
<1>1. Lists(<<>>, KeptAt(d), Len(d))
    BY DEF Lists, KeptAt, IsKept
<1>2. Kept(d) = [k \in 1 .. Len(<<>>) |-> d[<<>>[k]]]
    BY <1>1, KeptIs
<1> QED
    BY <1>2

\* All is kept where there are none.
LEMMA KeptAll ==
    ASSUME NEW T, NEW d \in Seq(T), \A i \in 1 .. Len(d) : IsKept(d[i])
    PROVE  Kept(d) = d
<1> DEFINE o == [i \in 1 .. Len(d) |-> i]
<1>1. o \in Seq(Nat) /\ Len(o) = Len(d) /\ Len(d) \in Nat
    OBVIOUS
<1>2. \A i \in 1 .. Len(d) : o[i] = i /\ i \in KeptAt(d)
    BY DEF KeptAt, IsKept
<1> HIDE DEF o
<1>3. Lists(o, KeptAt(d), Len(d))
    BY <1>1, <1>2 DEF Lists
<1>4. Kept(d) = [k \in 1 .. Len(o) |-> d[o[k]]]
    BY <1>3, KeptIs
<1> QED
    BY <1>1, <1>2, <1>4

\* What is kept of two parts of a document is kept of the whole.
LEMMA KeptJoined ==
    ASSUME NEW T, NEW s \in Seq(T), NEW t \in Seq(T)
    PROVE  Kept(s \o t) = Kept(s) \o Kept(t)
<1>1. PICK o : Lists(o, KeptAt(s), Len(s)) /\ Kept(s) = [k \in 1 .. Len(o) |-> s[o[k]]]
             /\ Kept(s) \in Seq(T) /\ Len(Kept(s)) = Len(o)
    BY KeptOrder
<1>2. PICK p : Lists(p, KeptAt(t), Len(t)) /\ Kept(t) = [k \in 1 .. Len(p) |-> t[p[k]]]
             /\ Kept(t) \in Seq(T) /\ Len(Kept(t)) = Len(p)
    BY KeptOrder
<1>3. PICK u : u = s \o t
    OBVIOUS
<1>4. u \in Seq(T) /\ Len(u) = Len(s) + Len(t) /\ Len(s) \in Nat /\ Len(t) \in Nat
    BY <1>3
<1>5. /\ \A k \in 1 .. Len(s) : u[k] = s[k]
      /\ \A k \in 1 .. Len(t) : u[Len(s) + k] = t[k]
    BY <1>3
<1>6. PICK q : q = [k \in 1 .. Len(p) |-> Len(s) + p[k]]
    OBVIOUS
<1> DEFINE front == {i \in KeptAt(u) : i <= Len(s)}
           back == {i \in KeptAt(u) : i > Len(s)}
<1>7. Lists(o, front, Len(u))
    <2>1. ASSUME NEW i \in 1 .. Len(u) PROVE i \in front <=> i \in KeptAt(s) /\ i <= Len(s)
        BY <1>4, <1>5 DEF KeptAt
    <2> HIDE DEF front
    <2> QED
        BY <1>1, <1>4, <2>1, ListsWider
<1>8. Lists(q, back, Len(u))
    <2>1. ASSUME NEW i \in 1 .. Len(s) + Len(t) PROVE i \in back <=> i - Len(s) \in KeptAt(t) /\ i > Len(s)
        <3>1. i > Len(s) => i - Len(s) \in 1 .. Len(t) /\ u[i] = t[i - Len(s)]
            BY <1>4, <1>5
        <3> QED
            BY <1>4, <3>1 DEF KeptAt
    <2> HIDE DEF back
    <2>2. Lists([k \in 1 .. Len(p) |-> Len(s) + p[k]], back, Len(s) + Len(t))
        BY <1>2, <1>4, <2>1, ListsShifted
    <2> QED
        BY <1>4, <1>6, <2>2
<1>9. Lists(o \o q, KeptAt(u), Len(u))
    <2>1. \A i, j \in 1 .. Len(u) : i \in front /\ j \in back => i < j
        BY <1>4
    <2>2. \A i \in 1 .. Len(u) : i \in KeptAt(u) <=> i \in front \/ i \in back
        BY <1>4
    <2> HIDE DEF front, back
    <2> QED
        BY <1>4, <1>7, <1>8, <2>1, <2>2, ListsJoined
<1>10. /\ o \in Seq(Nat) /\ p \in Seq(Nat) /\ Len(o) \in Nat /\ Len(p) \in Nat
       /\ \A k \in 1 .. Len(o) : o[k] \in 1 .. Len(s)
       /\ \A k \in 1 .. Len(p) : p[k] \in 1 .. Len(t)
    BY <1>1, <1>2 DEF Lists
<1>11. q \in Seq(Nat) /\ Len(q) = Len(p) /\ \A k \in 1 .. Len(p) : q[k] = Len(s) + p[k]
    BY <1>4, <1>6, <1>10
<1>12. PICK v : v = o \o q
    OBVIOUS
<1>13. /\ v \in Seq(Nat) /\ Len(v) = Len(o) + Len(p)
       /\ \A k \in 1 .. Len(o) : v[k] = o[k]
       /\ \A k \in 1 .. Len(p) : v[Len(o) + k] = q[k]
    <2>1. o \in Seq(Nat) /\ q \in Seq(Nat) /\ Len(q) = Len(p)
        BY <1>10, <1>11
    <2>2. Parts(v, Nat, o, q)
        BY <1>12, <2>1, JoinedParts
    <2> QED
        BY <2>1, <2>2 DEF Parts
<1>14. Kept(u) = [k \in 1 .. Len(v) |-> u[v[k]]]
    <2>1. Lists(v, KeptAt(u), Len(u))
        BY <1>9, <1>12, SMT
    <2> QED
        BY <1>4, <2>1, KeptIs
<1>15. \A k \in 1 .. Len(o) : u[v[k]] = s[o[k]]
    BY <1>5, <1>10, <1>13
<1>16. ASSUME NEW k \in 1 .. Len(p) PROVE u[v[Len(o) + k]] = t[p[k]]
    <2>1. v[Len(o) + k] = Len(s) + p[k] /\ p[k] \in 1 .. Len(t)
        BY <1>10, <1>11, <1>13
    <2> QED
        BY <1>5, <2>1
<1> QED
    <2>1. PICK a : a = Kept(s)
        OBVIOUS
    <2>2. PICK b : b = Kept(t)
        OBVIOUS
    <2>3. PICK w : w = Kept(u)
        OBVIOUS
    <2>4. a \in Seq(T) /\ Len(a) = Len(o) /\ b \in Seq(T) /\ Len(b) = Len(p)
        BY <1>1, <1>2, <2>1, <2>2
    <2>5. Len(w) = Len(o) + Len(p) /\ \A k \in 1 .. Len(o) + Len(p) : w[k] = u[v[k]]
        <3>1. Len(v) \in Nat /\ Len(v) = Len(o) + Len(p)
            BY <1>10, <1>13
        <3> QED
            BY <1>14, <2>3, <3>1
    <2>6. w \in Seq(T)
        BY <1>4, <2>3, KeptOrder
    <2>7. \A k \in 1 .. Len(o) : w[k] = a[k]
        <3>1. \A k \in 1 .. Len(o) : a[k] = s[o[k]]
            BY <1>1, <2>1
        <3>2. \A k \in 1 .. Len(o) : w[k] = u[v[k]]
            BY <1>10, <2>5
        <3> QED
            BY <1>15, <3>1, <3>2
    <2>8. \A k \in 1 .. Len(p) : w[Len(o) + k] = b[k]
        <3>1. \A k \in 1 .. Len(p) : b[k] = t[p[k]]
            BY <1>2, <2>2
        <3>2. \A k \in 1 .. Len(p) : w[Len(o) + k] = u[v[Len(o) + k]]
            BY <1>10, <2>5
        <3> QED
            BY <1>16, <3>1, <3>2
    <2>9. w = a \o b
        <3>1. Len(w) = Len(a) + Len(b)
            BY <2>4, <2>5
        <3>2. \A k \in 1 .. Len(a) : w[k] = a[k]
            BY <2>4, <2>7
        <3>3. \A k \in 1 .. Len(b) : w[Len(a) + k] = b[k]
            BY <2>4, <2>8
        <3> QED
            BY <2>4, <2>6, <3>1, <3>2, <3>3, JoinedIs
    <2> QED
        BY <1>3, <2>1, <2>2, <2>3, <2>9

\* The beginnings of a document, one tag longer each.
LEMMA Beginnings ==
    ASSUME NEW T, NEW d \in Seq(T)
    PROVE  /\ SubSeq(d, 1, 0) = <<>>
           /\ SubSeq(d, 1, Len(d)) = d
           /\ \A i \in 0 .. Len(d) : SubSeq(d, 1, i) \in Seq(T)
           /\ \A i \in 1 .. Len(d) :
                 <<d[i]>> \in Seq(T) /\ SubSeq(d, 1, i) = SubSeq(d, 1, i - 1) \o <<d[i]>>
<1>1. Len(d) \in Nat /\ SubSeq(d, 1, 0) = <<>> /\ SubSeq(d, 1, Len(d)) = d
    OBVIOUS
<1>2. \A i \in 0 .. Len(d) : /\ SubSeq(d, 1, i) \in Seq(T) /\ Len(SubSeq(d, 1, i)) = i
                             /\ \A j \in 1 .. i : SubSeq(d, 1, i)[j] = d[j]
    OBVIOUS
<1>3. ASSUME NEW i \in 1 .. Len(d)
      PROVE  <<d[i]>> \in Seq(T) /\ SubSeq(d, 1, i) = SubSeq(d, 1, i - 1) \o <<d[i]>>
    <2>1. PICK a : a = SubSeq(d, 1, i - 1)
        OBVIOUS
    <2>2. PICK w : w = SubSeq(d, 1, i)
        OBVIOUS
    <2>3. a \in Seq(T) /\ Len(a) = i - 1 /\ \A j \in 1 .. i - 1 : a[j] = d[j]
        BY <1>1, <1>2, <2>1
    <2>4. w \in Seq(T) /\ Len(w) = i /\ \A j \in 1 .. i : w[j] = d[j]
        BY <1>1, <1>2, <2>2
    <2>5. <<d[i]>> \in Seq(T) /\ Len(<<d[i]>>) = 1 /\ <<d[i]>>[1] = d[i]
        OBVIOUS
    <2>6. w = a \o <<d[i]>>
        <3>1. Len(w) = Len(a) + Len(<<d[i]>>)
            BY <2>3, <2>4, <2>5
        <3>2. \A k \in 1 .. Len(a) : w[k] = a[k]
            BY <2>3, <2>4
        <3>3. \A k \in 1 .. Len(<<d[i]>>) : w[Len(a) + k] = <<d[i]>>[k]
            BY <2>3, <2>4, <2>5
        <3> QED
            BY <2>3, <2>4, <2>5, <3>1, <3>2, <3>3, JoinedIs
    <2> QED
        BY <2>1, <2>2, <2>5, <2>6
<1> QED
    BY <1>1, <1>2, <1>3

\* A pass whose templates copy the questions and chapters copies all of them.
LEMMA KeptFlattened ==
    ASSUME NEW T, NEW d \in Seq(T), NEW n \in Nat, Len(d) = n, NEW templates \in [1 .. n -> Seq(T)],
           \A i \in 1 .. n : Kept(templates[i]) = Kept(<<d[i]>>)
    PROVE  FlattenSeq(templates) \in Seq(T) /\ Kept(FlattenSeq(templates)) = Kept(d)
<1>1. PICK f : Flattens(f, templates, n, T)
    BY FlattenRecursion, Zenon
<1> DEFINE S == Seq(T)
           one == [i \in 1 .. n |-> <<d[i]>>]
           front == [i \in 0 .. n |-> SubSeq(d, 1, i)]
           Cat(s, t) == s \o t
<1>2. /\ front[0] = <<>> /\ front[n] = d
      /\ \A i \in 0 .. n : front[i] \in S
      /\ \A i \in 1 .. n : one[i] \in S /\ one[i] = <<d[i]>> /\ front[i] = Cat(front[i - 1], one[i])
    <2>1. /\ SubSeq(d, 1, 0) = <<>> /\ SubSeq(d, 1, n) = d
          /\ \A i \in 0 .. n : SubSeq(d, 1, i) \in S
          /\ \A i \in 1 .. n : <<d[i]>> \in S /\ SubSeq(d, 1, i) = Cat(SubSeq(d, 1, i - 1), <<d[i]>>)
        BY Beginnings
    <2> HIDE DEF S, Cat
    <2>2. /\ front[0] = SubSeq(d, 1, 0) /\ front[n] = SubSeq(d, 1, n)
          /\ \A i \in 0 .. n : front[i] = SubSeq(d, 1, i)
          /\ \A i \in 1 .. n : one[i] = <<d[i]>> /\ i - 1 \in 0 .. n /\ i \in 0 .. n
        OBVIOUS
    <2> HIDE DEF front, one
    <2> QED
        BY <2>1, <2>2
<1>3. ASSUME NEW s \in S, NEW t \in S PROVE Kept(s \o t) = Kept(s) \o Kept(t)
    BY KeptJoined
<1>4. /\ f \in [0 .. n -> S] /\ templates \in [1 .. n -> S] /\ f[0] = <<>>
      /\ \A i \in 1 .. n : f[i] = Cat(f[i - 1], templates[i])
    BY <1>1 DEF Flattens
<1>5. \A s, t \in S : Kept(Cat(s, t)) = Cat(Kept(s), Kept(t))
    BY <1>3
<1> HIDE DEF S, one, front, Cat
<1> DEFINE Good == {i \in 0 .. n : Kept(f[i]) = Kept(front[i])}
<1>6. 0 \in Good
    BY <1>2, <1>4
<1>7. ASSUME NEW i \in 1 .. n, i - 1 \in Good PROVE i \in Good
    <2>1. i - 1 \in 0 .. n
        OBVIOUS
    <2>2. f[i - 1] \in S /\ templates[i] \in S /\ front[i - 1] \in S /\ one[i] \in S
        BY <1>2, <1>4, <2>1
    <2>3. Kept(f[i]) = Cat(Kept(f[i - 1]), Kept(templates[i]))
        BY <1>4, <1>5, <2>2
    <2>4. Kept(front[i]) = Cat(Kept(front[i - 1]), Kept(one[i]))
        BY <1>2, <1>5, <2>2
    <2>5. Kept(f[i - 1]) = Kept(front[i - 1]) /\ Kept(templates[i]) = Kept(one[i])
        BY <1>2, <1>7
    <2> QED
        BY <2>3, <2>4, <2>5
<1> HIDE DEF Good
<1>8. n \in Good
    <2>1. Inductive(Good, n)
        BY <1>6, <1>7 DEF Inductive
    <2> QED
        BY <2>1, UpTo
<1>9. Kept(f[n]) = Kept(d)
    BY <1>2, <1>8 DEF Good
<1>10. FlattenSeq(templates) = f[n] /\ f[n] \in Seq(T)
    BY <1>1 DEF Flattens
<1> QED
    BY <1>9, <1>10

\* What Tags makes of a document are the tags there, and no others.
LEMMA TagsAre ==
    ASSUME NEW T, NEW d \in Seq(T), NEW P
    PROVE  /\ Tags(d, P) \in Seq(T)
           /\ \A k \in 1 .. Len(Tags(d, P)) : \E i \in 1 .. Len(d) : i \in P /\ Tags(d, P)[k] = d[i]
           /\ \A i \in 1 .. Len(d) : i \in P => \E k \in 1 .. Len(Tags(d, P)) : Tags(d, P)[k] = d[i]
<1>1. PICK o : o = InOrder(d, P)
    OBVIOUS
<1>2. Lists(o, P, Len(d))
    BY <1>1, InOrderLists
<1>3. Tags(d, P) = [k \in 1 .. Len(o) |-> d[o[k]]]
    <2>1. DOMAIN o = 1 .. Len(o)
        BY <1>2 DEF Lists
    <2> QED
        BY <1>1, <2>1 DEF Tags
<1>4. Len(o) \in Nat /\ \A k \in 1 .. Len(o) : o[k] \in P /\ o[k] \in 1 .. Len(d)
    BY <1>2 DEF Lists
<1>5. \A i \in 1 .. Len(d) : i \in P => \E k \in 1 .. Len(o) : o[k] = i
    BY <1>2 DEF Lists
<1>6. \A k \in 1 .. Len(o) : d[o[k]] \in T
    BY <1>4
<1>7. PICK t : t = Tags(d, P)
    OBVIOUS
<1>8. t \in Seq(T) /\ Len(t) = Len(o) /\ \A k \in 1 .. Len(o) : t[k] = d[o[k]]
    BY <1>3, <1>4, <1>6, <1>7
<1>9. \A k \in 1 .. Len(t) : \E i \in 1 .. Len(d) : i \in P /\ t[k] = d[i]
    BY <1>4, <1>8
<1>10. \A i \in 1 .. Len(d) : i \in P => \E k \in 1 .. Len(t) : t[k] = d[i]
    BY <1>5, <1>8
<1> QED
    BY <1>7, <1>8, <1>9, <1>10

\* The numbers listed are positions.
LEMMA ListsWithin ==
    ASSUME NEW n \in Nat, NEW P, NEW s, Lists(s, P, n)
    PROVE  s \in Seq(1 .. n)
<1>1. s \in Seq(Nat) /\ Len(s) \in Nat /\ \A k \in 1 .. Len(s) : s[k] \in 1 .. n
    BY DEF Lists
<1> QED
    BY <1>1

(***************************************************************************)
(* The tags there are before stylesheet 4.                                 *)
(***************************************************************************)
Names(q) == {q.document[i].id : i \in DOMAIN q.document}
GoToIds(q) == {q.goTos[k].id : k \in DOMAIN q.goTos}
GoTo(q) == [id : GoToIds(q), from : Names(q), target : Names(q)]
Literal(q) == [condition : GoToIds(q), value : BOOLEAN]

StructureTag(q) == [kind : {"question", "sequence", "/sequence"}, id : Names(q)]
BeginTag(q) == [kind : {"begin"}, id : GoToIds(q), expression : SUBSET Literal(q), IfTrue : Names(q)]
EndTag(q) == [kind : {"end"}, id : GoToIds(q)]
Tag(q) == StructureTag(q) \cup BeginTag(q) \cup EndTag(q)

\* What the assumption says of a questionnaire.
LEMMA QuestionnaireTypes ==
    ASSUME NEW q \in Questionnaires
    PROVE  /\ q.document \in Seq(StructureTag(q)) /\ Len(q.document) \in Nat
           /\ DOMAIN q.document = 1 .. Len(q.document)
           /\ q.goTos \in Seq(GoTo(q)) /\ DOMAIN q.goTos = 1 .. Len(q.goTos) /\ Len(q.goTos) \in Nat
<1>1. q.document \in Seq(StructureTag(q))
    BY QuestionnairesAssumption DEF StructureTag, Names
<1>2. q.goTos \in Seq(GoTo(q))
    BY QuestionnairesAssumption DEF GoTo, GoToIds, Names
<1>3. \A S : \A s \in Seq(S) : Len(s) \in Nat /\ DOMAIN s = 1 .. Len(s)
    OBVIOUS
<1> QED
    BY <1>1, <1>2, <1>3

\* Its chapters open before they close, its children have identifiers of
\* their own, and its GoTos go from questions ahead.
LEMMA QuestionnaireShape ==
    ASSUME NEW q \in Questionnaires
    PROVE  LET d == q.document IN
           /\ \A i, j \in DOMAIN d :
                 d[i].kind \in Children /\ d[j].kind \in Children /\ d[i].id = d[j].id => i = j
           /\ \A j \in DOMAIN d : d[j].kind = "/sequence" =>
                 \E i \in 1 .. j : d[i].kind = "sequence" /\ d[i].id = d[j].id
           /\ \A k \in DOMAIN q.goTos :
                 /\ q.goTos[k].id \notin Names(q)
                 /\ \E i, j \in DOMAIN d : /\ d[i].id = q.goTos[k].from /\ d[i].kind = "question"
                                          /\ d[j].id = q.goTos[k].target /\ d[j].kind \in Children /\ i < j
<1> DEFINE d == q.document
           children == {i \in DOMAIN d : d[i].kind \in {"question", "sequence"}}
<1>1. \A i, j \in children : d[i].id = d[j].id => i = j
    BY QuestionnairesAssumption
<1>2. \A j \in DOMAIN d : d[j].kind = "/sequence" =>
          \E i \in 1 .. j : d[i].kind = "sequence" /\ d[i].id = d[j].id
    BY QuestionnairesAssumption, Zenon
<1>3. \A k \in DOMAIN q.goTos : q.goTos[k].id \notin Names(q)
    BY QuestionnairesAssumption DEF Names
<1>4. \A k \in DOMAIN q.goTos :
          \E i, j \in children : /\ d[i].id = q.goTos[k].from /\ d[i].kind = "question"
                                /\ d[j].id = q.goTos[k].target /\ i < j
    BY QuestionnairesAssumption, Zenon
<1>5. \A i : i \in children <=> i \in DOMAIN d /\ d[i].kind \in Children
    BY DEF Children
<1> HIDE DEF d, children
<1>6. \A k \in DOMAIN q.goTos :
          \E i, j \in DOMAIN d : /\ d[i].id = q.goTos[k].from /\ d[i].kind = "question"
                                /\ d[j].id = q.goTos[k].target /\ d[j].kind \in Children /\ i < j
    BY <1>4, <1>5
<1>7. \A i, j \in DOMAIN d :
          d[i].kind \in Children /\ d[j].kind \in Children /\ d[i].id = d[j].id => i = j
    BY <1>1, <1>5
<1> QED
    BY <1>2, <1>3, <1>6, <1>7, Zenon DEF d

\* A pass makes a sequence of what its templates make sequences of.
LEMMA FlattenedType ==
    ASSUME NEW n \in Nat, NEW T, NEW seqs \in [1 .. n -> Seq(T)]
    PROVE  FlattenSeq(seqs) \in Seq(T)
<1>1. PICK f : Flattens(f, seqs, n, T)
    BY FlattenRecursion, Zenon
<1> QED
    BY <1>1 DEF Flattens

\* The GoTos by distance are some of those there are.
LEMMA ByDistanceType ==
    ASSUME NEW d, Len(d) \in Nat, NEW T, NEW goTos \in Seq(T), NEW i
    PROVE  FlattenSeq(ByDistance(d, i, goTos)) \in Seq(1 .. Len(goTos))
<1> DEFINE firsts == {k \in DOMAIN goTos : \A j \in 1 .. k - 1 : goTos[j].target # goTos[k].target}
           At(n) == {k \in firsts : Distance(d, i, goTos[k].target) = Len(d) + 1 - n}
<1>1. ByDistance(d, i, goTos) = [n \in 1 .. Len(d) + 1 |-> InOrder(goTos, At(n))]
    BY DEF ByDistance
<1> HIDE DEF At
<1>2. Len(goTos) \in Nat
    OBVIOUS
<1>3. ASSUME NEW n \in 1 .. Len(d) + 1 PROVE InOrder(goTos, At(n)) \in Seq(1 .. Len(goTos))
    BY <1>2, InOrderLists, ListsWithin
<1>4. ByDistance(d, i, goTos) \in [1 .. Len(d) + 1 -> Seq(1 .. Len(goTos))]
    BY <1>1, <1>3
<1>5. Len(d) + 1 \in Nat
    OBVIOUS
<1> QED
    BY <1>4, <1>5, FlattenedType

\* The expression of GoTos is of their conditions.
LEMMA SkipExpressionType ==
    ASSUME NEW q, NEW same \in Seq(GoTo(q)), Len(same) > 0
    PROVE  SkipExpression(same) \in SUBSET Literal(q)
<1>1. \A k \in 1 .. Len(same) : same[k].id \in GoToIds(q)
    <2>1. \A k \in 1 .. Len(same) : same[k] \in GoTo(q)
        OBVIOUS
    <2>2. \A g \in GoTo(q) : g.id \in GoToIds(q)
        BY DEF GoTo
    <2> QED
        BY <2>1, <2>2
<1>2. 1 \in 1 .. Len(same)
    OBVIOUS
<1>3. \A k \in 1 .. Len(same) : Not(same[k].id) \in Literal(q) /\ Plain(same[k].id) \in Literal(q)
    BY <1>1 DEF Not, Plain, Literal
<1>4. \A k \in 2 .. Len(same) : k \in 1 .. Len(same)
    OBVIOUS
<1> QED
    BY <1>2, <1>3, <1>4 DEF SkipExpression

\* What stylesheet 1 puts behind a question are begins of its GoTos.
LEMMA BeginsBehindAre ==
    ASSUME NEW q \in Questionnaires, NEW i
    PROVE  LET begins == BeginsBehind(q.document, q.goTos, i) IN
              /\ begins \in Seq(BeginTag(q))
              /\ \A n \in 1 .. Len(begins) : \E k \in DOMAIN q.goTos :
                    q.goTos[k].from = q.document[i].id /\ q.goTos[k].target = begins[n].IfTrue
<1> DEFINE d == q.document
           gs == q.goTos
           from == d[i].id
<1>1. Len(d) \in Nat /\ gs \in Seq(GoTo(q)) /\ DOMAIN gs = 1 .. Len(gs)
    BY QuestionnaireTypes
<1>2. PICK goTos : goTos = GoTosOf(gs, from)
    OBVIOUS
<1>3. /\ goTos \in Seq(GoTo(q)) /\ Len(goTos) \in Nat
      /\ \A m \in 1 .. Len(goTos) : \E k \in DOMAIN gs : gs[k].from = from /\ goTos[m] = gs[k]
    <2> DEFINE P == {k \in DOMAIN gs : gs[k].from = from}
    <2>1. goTos = Tags(gs, P)
        BY <1>2 DEF GoTosOf
    <2>2. \A k \in P : k \in DOMAIN gs /\ gs[k].from = from
        OBVIOUS
    <2> HIDE DEF P, gs
    <2>3. /\ Tags(gs, P) \in Seq(GoTo(q))
          /\ \A m \in 1 .. Len(Tags(gs, P)) : \E k \in 1 .. Len(gs) : k \in P /\ Tags(gs, P)[m] = gs[k]
        BY <1>1, TagsAre
    <2> QED
        BY <2>1, <2>2, <2>3
<1>4. PICK order : order = FlattenSeq(ByDistance(d, i, goTos))
    OBVIOUS
<1>5. order \in Seq(1 .. Len(goTos))
    BY <1>1, <1>3, <1>4, ByDistanceType
<1>6. ASSUME NEW k \in 1 .. Len(goTos)
      PROVE  SameTarget(goTos, k) \in Seq(GoTo(q)) /\ Len(SameTarget(goTos, k)) > 0
    <2> DEFINE P == {m \in DOMAIN goTos : goTos[m].target = goTos[k].target}
    <2>1. SameTarget(goTos, k) = Tags(goTos, P)
        BY DEF SameTarget
    <2>2. k \in P
        BY <1>3
    <2> HIDE DEF P
    <2>3. PICK t : t = Tags(goTos, P)
        OBVIOUS
    <2>4. t \in Seq(GoTo(q)) /\ \E l \in 1 .. Len(t) : t[l] = goTos[k]
        BY <1>3, <2>2, <2>3, TagsAre
    <2>5. Len(t) \in Nat
        BY <2>4
    <2> QED
        BY <2>1, <2>3, <2>4, <2>5
<1> DEFINE B(n) == Begin(goTos[order[n]].id, SkipExpression(SameTarget(goTos, order[n])), goTos[order[n]].target)
<1>7. BeginsBehind(d, gs, i) = [n \in 1 .. Len(order) |-> B(n)]
    <2>1. DOMAIN order = 1 .. Len(order)
        BY <1>5
    <2> QED
        BY <1>2, <1>4, <2>1 DEF BeginsBehind
<1>8. ASSUME NEW n \in 1 .. Len(order)
      PROVE  B(n) \in BeginTag(q) /\ \E k \in DOMAIN gs : gs[k].from = from /\ gs[k].target = B(n).IfTrue
    <2>1. order[n] \in 1 .. Len(goTos)
        BY <1>5
    <2>2. PICK g : g = goTos[order[n]]
        OBVIOUS
    <2>3. PICK e : e = SkipExpression(SameTarget(goTos, order[n]))
        OBVIOUS
    <2>4. e \in SUBSET Literal(q)
        BY <1>6, <2>1, <2>3, SkipExpressionType
    <2>5. g.id \in GoToIds(q) /\ g.target \in Names(q)
        <3>1. g \in GoTo(q)
            BY <1>3, <2>1, <2>2
        <3> QED
            BY <3>1 DEF GoTo
    <2>6. \E k \in DOMAIN gs : gs[k].from = from /\ gs[k] = g
        BY <1>3, <2>1, <2>2
    <2>7. B(n) = Begin(g.id, e, g.target)
        BY <2>2, <2>3
    <2> HIDE DEF B
    <2>8. B(n) \in BeginTag(q) /\ B(n).IfTrue = g.target
        BY <2>4, <2>5, <2>7 DEF Begin, BeginTag
    <2> QED
        BY <2>6, <2>8
<1> HIDE DEF B
<1>9. Len(order) \in Nat
    BY <1>5
<1>10. PICK begins : begins = BeginsBehind(d, gs, i)
    OBVIOUS
<1>11. begins \in Seq(BeginTag(q)) /\ Len(begins) = Len(order) /\ \A n \in 1 .. Len(order) : begins[n] = B(n)
    BY <1>7, <1>8, <1>9, <1>10
<1>12. \A n \in 1 .. Len(begins) : \E k \in DOMAIN gs : gs[k].from = from /\ gs[k].target = begins[n].IfTrue
    BY <1>8, <1>11
<1> QED
    BY <1>10, <1>11, <1>12

\* Begins and ends beside a part of the document leave what is kept of it.
LEMMA KeptBeside ==
    ASSUME NEW q, NEW u \in Seq(Tag(q)), NEW s \in Seq(BeginTag(q) \cup EndTag(q))
    PROVE  /\ s \o u \in Seq(Tag(q)) /\ Kept(s \o u) = Kept(u)
           /\ u \o s \in Seq(Tag(q)) /\ Kept(u \o s) = Kept(u)
<1>1. \A t \in BeginTag(q) \cup EndTag(q) : t \in Tag(q) /\ ~ IsKept(t)
    BY DEF BeginTag, EndTag, Tag, IsKept, Children
<1>2. s \in Seq(Tag(q)) /\ \A k \in 1 .. Len(s) : ~ IsKept(s[k])
    BY <1>1
<1>3. Kept(s) = <<>>
    BY <1>2, KeptNone
<1>4. Kept(s \o u) = Kept(s) \o Kept(u) /\ Kept(u \o s) = Kept(u) \o Kept(s)
    BY <1>2, KeptJoined
<1>5. Kept(u) \in Seq(Tag(q))
    BY KeptOrder
<1>6. <<>> \o Kept(u) = Kept(u) /\ Kept(u) \o <<>> = Kept(u)
    BY <1>5
<1>7. s \o u \in Seq(Tag(q)) /\ u \o s \in Seq(Tag(q))
    BY <1>2
<1> QED
    BY <1>3, <1>4, <1>6, <1>7

\* As KeptFlattened, for the documents of a questionnaire.
LEMMA RewriteCopies ==
    ASSUME NEW q, NEW d \in Seq(Tag(q)), NEW templates,
           templates \in [1 .. Len(d) -> Seq(Tag(q))],
           \A i \in 1 .. Len(d) : Kept(templates[i]) = Kept(<<d[i]>>)
    PROVE  FlattenSeq(templates) \in Seq(Tag(q)) /\ Kept(FlattenSeq(templates)) = Kept(d)
<1>1. Len(d) \in Nat
    OBVIOUS
<1> QED
    BY <1>1, KeptFlattened

(***************************************************************************)
(* The three passes copy questions and chapters.                           *)
(***************************************************************************)
LEMMA GoTo2IfThenCopies ==
    ASSUME NEW q \in Questionnaires
    PROVE  LET result == GoTo2IfThen(q.document, q.goTos) IN
              result \in Seq(Tag(q)) /\ Kept(result) = Kept(q.document)
<1> DEFINE d == q.document
           Template(i) == IF d[i].kind = "question"
                          THEN <<d[i]>> \o BeginsBehind(d, q.goTos, i)
                          ELSE <<d[i]>>
           templates == [i \in DOMAIN d |-> Template(i)]
<1>1. GoTo2IfThen(d, q.goTos) = FlattenSeq(templates)
    BY DEF GoTo2IfThen, Rewrite
<1>2. d \in Seq(Tag(q)) /\ DOMAIN d = 1 .. Len(d)
    <2>1. d \in Seq(StructureTag(q)) /\ DOMAIN d = 1 .. Len(d)
        BY QuestionnaireTypes
    <2>2. StructureTag(q) \subseteq Tag(q)
        BY DEF Tag
    <2> QED
        BY <2>1, <2>2
<1>3. ASSUME NEW i \in 1 .. Len(d)
      PROVE  Template(i) \in Seq(Tag(q)) /\ Kept(Template(i)) = Kept(<<d[i]>>)
    <2>1. <<d[i]>> \in Seq(Tag(q))
        BY <1>2
    <2>2. BeginsBehind(d, q.goTos, i) \in Seq(BeginTag(q))
        BY BeginsBehindAre
    <2>3. BeginsBehind(d, q.goTos, i) \in Seq(BeginTag(q) \cup EndTag(q))
        BY <2>2
    <2>4. /\ <<d[i]>> \o BeginsBehind(d, q.goTos, i) \in Seq(Tag(q))
          /\ Kept(<<d[i]>> \o BeginsBehind(d, q.goTos, i)) = Kept(<<d[i]>>)
        BY <2>1, <2>3, KeptBeside
    <2> QED
        BY <2>1, <2>4
<1> HIDE DEF Template
<1>4. \A i \in 1 .. Len(d) : templates[i] = Template(i)
    BY <1>2
<1>5. templates \in [1 .. Len(d) -> Seq(Tag(q))]
    BY <1>2, <1>3
<1> HIDE DEF templates
<1>6. \A i \in 1 .. Len(d) : Kept(templates[i]) = Kept(<<d[i]>>)
    BY <1>3, <1>4
<1>7. FlattenSeq(templates) \in Seq(Tag(q)) /\ Kept(FlattenSeq(templates)) = Kept(d)
    BY <1>2, <1>5, <1>6, RewriteCopies
<1> QED
    BY <1>1, <1>7

\* What Reverse makes of a sequence.
LEMMA Reversed ==
    ASSUME NEW T, NEW s \in Seq(T)
    PROVE  /\ Reverse(s) \in Seq(T) /\ Len(Reverse(s)) = Len(s) /\ DOMAIN Reverse(s) = 1 .. Len(s)
           /\ \A k \in 1 .. Len(s) : Reverse(s)[k] = s[Len(s) - k + 1]
<1>1. Reverse(s) = [k \in 1 .. Len(s) |-> s[Len(s) - k + 1]]
    BY DEF Reverse
<1>2. Len(s) \in Nat /\ \A k \in 1 .. Len(s) : Len(s) - k + 1 \in 1 .. Len(s)
    OBVIOUS
<1>3. \A k \in 1 .. Len(s) : s[Len(s) - k + 1] \in T
    BY <1>2
<1> QED
    BY <1>1, <1>2, <1>3

\* The begins at the positions that InOrder lists.
LEMMA BeginsInOrder ==
    ASSUME NEW q, NEW d \in Seq(Tag(q)), NEW P, \A b \in P : d[b].kind = "begin"
    PROVE  LET o == InOrder(d, P) IN
              o \in Seq(Nat) /\ \A k \in 1 .. Len(o) : o[k] \in 1 .. Len(d) /\ d[o[k]] \in BeginTag(q)
<1>1. Len(d) \in Nat
    OBVIOUS
<1>2. PICK o : o = InOrder(d, P)
    OBVIOUS
<1>3. Lists(o, P, Len(d))
    BY <1>1, <1>2, InOrderLists
<1>4. \A k \in 1 .. Len(o) : o[k] \in 1 .. Len(d) /\ d[o[k]].kind = "begin"
    BY <1>3 DEF Lists
<1>5. \A t \in Tag(q) : t.kind = "begin" => t \in BeginTag(q)
    BY DEF Tag, StructureTag, EndTag
<1>6. \A k \in 1 .. Len(o) : d[o[k]] \in Tag(q)
    BY <1>4
<1>7. o \in Seq(Nat)
    BY <1>3 DEF Lists
<1> QED
    BY <1>2, <1>4, <1>5, <1>6, <1>7

\* A begin that is opened again keeps its identifier and its target.
LEMMA ReopenedType ==
    ASSUME NEW q, NEW d \in Seq(Tag(q)), NEW i, NEW b \in 1 .. Len(d), d[b] \in BeginTag(q)
    PROVE  /\ Reopened(d, i, b) \in BeginTag(q)
           /\ Reopened(d, i, b).id = d[b].id /\ Reopened(d, i, b).IfTrue = d[b].IfTrue
<1> DEFINE between == {d[j].id : j \in {k \in b + 1 .. i - 1 :
                                          d[k].kind # "/sequence" /\ k \notin Ancestors(d, i)}}
                      \cup {d[i].id}
           skipping == {c \in Kind(d, "begin", 1, b - 1) : d[c].IfTrue \in between}
           added == UNION {WithoutNot(d[c].expression) : c \in skipping}
<1>1. Reopened(d, i, b) = [d[b] EXCEPT !.expression = d[b].expression \cup added]
    BY DEF Reopened
<1>2. \A c \in skipping : c \in 1 .. Len(d) /\ d[c].kind = "begin"
    BY DEF Kind
<1> HIDE DEF skipping
<1>3. \A t \in Tag(q) : t.kind = "begin" => t.expression \in SUBSET Literal(q)
    BY DEF Tag, StructureTag, EndTag, BeginTag
<1>4. \A e \in SUBSET Literal(q) : WithoutNot(e) \in SUBSET Literal(q)
    <2>1. \A l \in Literal(q) : Plain(l.condition) \in Literal(q)
        BY DEF Literal, Plain
    <2> QED
        BY <2>1 DEF WithoutNot
<1>5. \A c \in skipping : WithoutNot(d[c].expression) \in SUBSET Literal(q)
    BY <1>2, <1>3, <1>4
<1>6. added \in SUBSET Literal(q)
    BY <1>5
<1> HIDE DEF added
<1>7. d[b].expression \cup added \in SUBSET Literal(q)
    BY <1>6 DEF BeginTag
<1>8. PICK x : x = d[b].expression \cup added
    OBVIOUS
<1>9. PICK t \in BeginTag(q) : t = d[b]
    OBVIOUS
<1>10. /\ [t EXCEPT !.expression = x] \in BeginTag(q)
       /\ [t EXCEPT !.expression = x].id = t.id /\ [t EXCEPT !.expression = x].IfTrue = t.IfTrue
    <2>1. x \in SUBSET Literal(q)
        BY <1>7, <1>8
    <2> QED
        BY <2>1 DEF BeginTag
<1>11. Reopened(d, i, b) = [t EXCEPT !.expression = x]
    BY <1>1, <1>8, <1>9
<1> QED
    BY <1>9, <1>10, <1>11

\* The ends and begins that stylesheet 2 puts before an element.
LEMMA EndsAndReopeningsAre ==
    ASSUME NEW q, NEW d \in Seq(Tag(q)), NEW i
    PROVE  EndsAndReopenings(d, i) \in Seq(BeginTag(q) \cup EndTag(q))
<1>1. \A b \in OpenAt(d, i) : d[b].kind = "begin"
    BY DEF OpenAt, Kind
<1>2. PICK o : o = InOrder(d, OpenAt(d, i))
    OBVIOUS
<1>3. o \in Seq(Nat) /\ \A k \in 1 .. Len(o) : o[k] \in 1 .. Len(d) /\ d[o[k]] \in BeginTag(q)
    BY <1>1, <1>2, BeginsInOrder
<1>4. PICK a : a = InOrder(d, OpenAt(d, i) \ PointingAt(d, i))
    OBVIOUS
<1>5. a \in Seq(Nat) /\ \A k \in 1 .. Len(a) : a[k] \in 1 .. Len(d) /\ d[a[k]] \in BeginTag(q)
    <2>1. \A b \in OpenAt(d, i) \ PointingAt(d, i) : d[b].kind = "begin"
        BY <1>1
    <2> QED
        BY <1>4, <2>1, BeginsInOrder
<1>6. PICK r : r = Reverse(o)
    OBVIOUS
<1>7. r \in Seq(Nat) /\ DOMAIN r = 1 .. Len(r) /\ \A k \in 1 .. Len(r) : d[r[k]] \in BeginTag(q)
    <2>1. r \in Seq(Nat) /\ Len(r) = Len(o) /\ DOMAIN r = 1 .. Len(o)
          /\ \A k \in 1 .. Len(o) : r[k] = o[Len(o) - k + 1]
        BY <1>3, <1>6, Reversed
    <2>2. \A k \in 1 .. Len(o) : Len(o) - k + 1 \in 1 .. Len(o)
        BY <1>3
    <2> QED
        BY <1>3, <2>1, <2>2
<1>8. PICK ends : ends = [n \in 1 .. Len(r) |-> End(d[r[n]].id)]
    OBVIOUS
<1>9. ends \in Seq(EndTag(q))
    <2>1. \A t \in BeginTag(q) : End(t.id) \in EndTag(q)
        BY DEF BeginTag, End, EndTag
    <2>2. Len(r) \in Nat /\ \A n \in 1 .. Len(r) : End(d[r[n]].id) \in EndTag(q)
        BY <1>7, <2>1
    <2> QED
        BY <1>8, <2>2
<1>10. PICK begins : begins = [n \in 1 .. Len(a) |-> Reopened(d, i, a[n])]
    OBVIOUS
<1>11. begins \in Seq(BeginTag(q))
    <2>1. Len(a) \in Nat /\ \A n \in 1 .. Len(a) : Reopened(d, i, a[n]) \in BeginTag(q)
        BY <1>5, ReopenedType
    <2> QED
        BY <1>10, <2>1
<1>12. EndsAndReopenings(d, i) = ends \o begins
    <2>1. DOMAIN a = 1 .. Len(a)
        BY <1>5
    <2> QED
        BY <1>2, <1>4, <1>6, <1>7, <1>8, <1>10, <2>1 DEF EndsAndReopenings
<1>13. ends \in Seq(BeginTag(q) \cup EndTag(q)) /\ begins \in Seq(BeginTag(q) \cup EndTag(q))
    BY <1>9, <1>11
<1> QED
    BY <1>12, <1>13

\* Stylesheet 2 copies questions and chapters.
LEMMA GoGo2ToToCopies ==
    ASSUME NEW q, NEW d \in Seq(Tag(q))
    PROVE  LET result == GoGo2ToTo(d) IN result \in Seq(Tag(q)) /\ Kept(result) = Kept(d)
<1> DEFINE Template(i) == IF d[i].kind \in Children /\ PointingAt(d, i) # {}
                          THEN EndsAndReopenings(d, i) \o <<d[i]>>
                          ELSE <<d[i]>>
           templates == [i \in DOMAIN d |-> Template(i)]
<1>1. GoGo2ToTo(d) = FlattenSeq(templates)
    BY DEF GoGo2ToTo, Rewrite
<1>2. DOMAIN d = 1 .. Len(d)
    OBVIOUS
<1>3. ASSUME NEW i \in 1 .. Len(d)
      PROVE  Template(i) \in Seq(Tag(q)) /\ Kept(Template(i)) = Kept(<<d[i]>>)
    <2>1. <<d[i]>> \in Seq(Tag(q))
        OBVIOUS
    <2>2. EndsAndReopenings(d, i) \in Seq(BeginTag(q) \cup EndTag(q))
        BY EndsAndReopeningsAre
    <2>3. /\ EndsAndReopenings(d, i) \o <<d[i]>> \in Seq(Tag(q))
          /\ Kept(EndsAndReopenings(d, i) \o <<d[i]>>) = Kept(<<d[i]>>)
        BY <2>1, <2>2, KeptBeside
    <2> QED
        BY <2>1, <2>3
<1> HIDE DEF Template
<1>4. \A i \in 1 .. Len(d) : templates[i] = Template(i)
    BY <1>2
<1>5. templates \in [1 .. Len(d) -> Seq(Tag(q))]
    BY <1>2, <1>3
<1> HIDE DEF templates
<1>6. \A i \in 1 .. Len(d) : Kept(templates[i]) = Kept(<<d[i]>>)
    BY <1>3, <1>4
<1>7. FlattenSeq(templates) \in Seq(Tag(q)) /\ Kept(FlattenSeq(templates)) = Kept(d)
    BY <1>5, <1>6, RewriteCopies
<1> QED
    BY <1>1, <1>7

\* Max and Min of numbers that have one.
LEMMA GreatestNumber ==
    ASSUME NEW n \in Nat, NEW S, S \subseteq 1 .. n, S # {}
    PROVE  Max(S) \in S /\ \A k \in S : k <= Max(S)
<1> DEFINE R == {n - k : k \in S}
<1>1. R \subseteq Nat /\ R # {}
    <2>1. \A k \in S : k \in 1 .. n /\ n - k \in Nat
        OBVIOUS
    <2> QED
        BY <2>1
<1>2. PICK r \in R : \A l \in R : r <= l
    <2> HIDE DEF R
    <2> QED
        BY <1>1, LeastNumber
<1>3. PICK k \in S : r = n - k
    OBVIOUS
<1>4. \A l \in S : l <= k
    <2>1. \A l \in S : n - k <= n - l
        BY <1>2, <1>3
    <2> QED
        BY <2>1
<1>5. \E x \in S : \A y \in S : x >= y
    BY <1>4
<1>6. Max(S) \in S /\ \A y \in S : Max(S) >= y
    BY <1>5 DEF Max
<1> QED
    BY <1>6

LEMMA SmallestNumber ==
    ASSUME NEW S, S \subseteq Nat, S # {}
    PROVE  Min(S) \in S /\ \A k \in S : Min(S) <= k
<1>1. \E k \in S : \A l \in S : k <= l
    BY LeastNumber
<1>2. Min(S) \in S /\ \A y \in S : Min(S) <= y
    BY <1>1 DEF Min
<1> QED
    BY <1>2

\* Where the questions and chapters s are in a document d that keeps them.
Places(o, s, d) ==
    /\ o \in Seq(Nat) /\ Len(o) = Len(s) /\ Len(o) \in Nat
    /\ \A k \in 1 .. Len(o) : o[k] \in 1 .. Len(d) /\ s[k] = d[o[k]]
    /\ \A i \in 1 .. Len(d) : IsKept(d[i]) => \E k \in 1 .. Len(o) : o[k] = i
    /\ \A k, l \in 1 .. Len(o) : k < l => o[k] < o[l]

\* There are such places.
LEMMA KeptPlaces ==
    ASSUME NEW T, NEW d \in Seq(T)
    PROVE  \E o : Places(o, Kept(d), d)
<1>1. PICK o : /\ Lists(o, KeptAt(d), Len(d))
               /\ Kept(d) = [k \in 1 .. Len(o) |-> d[o[k]]]
               /\ Kept(d) \in Seq(T) /\ Len(Kept(d)) = Len(o)
    BY KeptOrder
<1>2. /\ o \in Seq(Nat) /\ Len(o) \in Nat
      /\ \A k \in 1 .. Len(o) : o[k] \in 1 .. Len(d)
      /\ \A k, l \in 1 .. Len(o) : k < l => o[k] < o[l]
    BY <1>1 DEF Lists
<1>3. \A i \in 1 .. Len(d) : IsKept(d[i]) => \E k \in 1 .. Len(o) : o[k] = i
    <2>1. \A i \in 1 .. Len(d) : IsKept(d[i]) => i \in KeptAt(d)
        BY DEF IsKept, KeptAt
    <2> QED
        BY <1>1, <2>1 DEF Lists
<1>4. Len(o) = Len(Kept(d)) /\ \A k \in 1 .. Len(o) : Kept(d)[k] = d[o[k]]
    BY <1>1
<1>5. Places(o, Kept(d), d)
    BY <1>2, <1>3, <1>4 DEF Places
<1> QED
    BY <1>5

\* In a document that keeps the questionnaire, chapters open before they close.
LEMMA OpenedBefore ==
    ASSUME NEW q \in Questionnaires, NEW d \in Seq(Tag(q)), Kept(d) = q.document,
           NEW j \in 1 .. Len(d), d[j].kind = "/sequence"
    PROVE  \E i \in 1 .. j : d[i].kind = "sequence" /\ d[i].id = d[j].id
<1> DEFINE s == q.document
<1>1. PICK o : Places(o, s, d)
    BY KeptPlaces, Zenon
<1>2. /\ o \in Seq(Nat) /\ Len(o) = Len(s) /\ Len(o) \in Nat
      /\ \A k \in 1 .. Len(o) : o[k] \in 1 .. Len(d) /\ s[k] = d[o[k]]
      /\ \A i \in 1 .. Len(d) : IsKept(d[i]) => \E k \in 1 .. Len(o) : o[k] = i
      /\ \A k, l \in 1 .. Len(o) : k < l => o[k] < o[l]
    BY <1>1 DEF Places
<1>3. PICK k \in 1 .. Len(o) : o[k] = j
    <2>1. IsKept(d[j])
        BY DEF IsKept
    <2> QED
        BY <1>2, <2>1
<1>4. k \in DOMAIN s /\ s[k].kind = "/sequence" /\ s[k].id = d[j].id
    BY <1>2, <1>3, QuestionnaireTypes
<1>5. PICK l \in 1 .. k : s[l].kind = "sequence" /\ s[l].id = s[k].id
    <2>1. \A m \in DOMAIN s : s[m].kind = "/sequence" =>
              \E l \in 1 .. m : s[l].kind = "sequence" /\ s[l].id = s[m].id
        BY QuestionnaireShape
    <2> HIDE DEF s
    <2> QED
        BY <1>4, <2>1
<1>6. l \in 1 .. Len(o) /\ o[l] \in 1 .. Len(d) /\ d[o[l]] = s[l]
    BY <1>2
<1>7. o[l] <= o[k]
    BY <1>2, <1>6
<1>8. o[l] \in 1 .. j
    BY <1>3, <1>6, <1>7
<1> QED
    BY <1>4, <1>5, <1>6, <1>8

\* FirstOfEach leaves some of the elements there are.
LEMMA FirstOfEachAre ==
    ASSUME NEW T, NEW s \in Seq(T)
    PROVE  /\ FirstOfEach(s) \in Seq(T)
           /\ \A k \in 1 .. Len(FirstOfEach(s)) : \E i \in 1 .. Len(s) : FirstOfEach(s)[k] = s[i]
<1> DEFINE firsts == {k \in DOMAIN s : \A j \in 1 .. k - 1 : s[j].id # s[k].id}
<1>1. FirstOfEach(s) = Tags(s, firsts)
    BY DEF FirstOfEach
<1> HIDE DEF firsts
<1>2. /\ Tags(s, firsts) \in Seq(T)
      /\ \A k \in 1 .. Len(Tags(s, firsts)) : \E i \in 1 .. Len(s) : i \in firsts /\ Tags(s, firsts)[k] = s[i]
    BY TagsAre
<1> QED
    BY <1>1, <1>2

\* The ends in front of a chapter and the begins in it, and those behind.
LEMMA LonelyEndsAre ==
    ASSUME NEW q, NEW d \in Seq(Tag(q)), NEW i \in 1 .. Len(d)
    PROVE  LET ends == FirstOfEach(LonelyEnds(d, i)) IN
              /\ ends \in Seq(EndTag(q))
              /\ \A k \in 1 .. Len(ends) : \E b \in 1 .. i : d[b].kind = "begin" /\ d[b].id = ends[k].id
<1> DEFINE P == {j \in Kind(d, "end", i, Close(d, i)) : d[j].id \in IdsOf(d, Kind(d, "begin", 1, i))}
<1>1. LonelyEnds(d, i) = Tags(d, P)
    BY DEF LonelyEnds
<1>2. \A j \in P : d[j].kind = "end" /\ \E b \in 1 .. i : d[b].kind = "begin" /\ d[b].id = d[j].id
    BY DEF Kind, IdsOf
<1> HIDE DEF P
<1>3. PICK s : s = Tags(d, P)
    OBVIOUS
<1>4. s \in Seq(Tag(q)) /\ \A k \in 1 .. Len(s) : \E j \in 1 .. Len(d) : j \in P /\ s[k] = d[j]
    <2>1. /\ Tags(d, P) \in Seq(Tag(q))
          /\ \A k \in 1 .. Len(Tags(d, P)) : \E j \in 1 .. Len(d) : j \in P /\ Tags(d, P)[k] = d[j]
        BY TagsAre
    <2> QED
        BY <1>3, <2>1
<1>5. ASSUME NEW k \in 1 .. Len(s)
      PROVE  s[k].kind = "end" /\ \E b \in 1 .. i : d[b].kind = "begin" /\ d[b].id = s[k].id
    <2>1. PICK j \in P : s[k] = d[j]
        BY <1>4
    <2> QED
        BY <1>2, <2>1
<1>6. PICK ends : ends = FirstOfEach(s)
    OBVIOUS
<1>7. ends \in Seq(Tag(q)) /\ \A k \in 1 .. Len(ends) : \E l \in 1 .. Len(s) : ends[k] = s[l]
    <2>1. /\ FirstOfEach(s) \in Seq(Tag(q))
          /\ \A k \in 1 .. Len(FirstOfEach(s)) : \E l \in 1 .. Len(s) : FirstOfEach(s)[k] = s[l]
        BY <1>4, FirstOfEachAre
    <2> QED
        BY <1>6, <2>1
<1>8. \A k \in 1 .. Len(ends) : ends[k].kind = "end" /\ \E b \in 1 .. i : d[b].kind = "begin" /\ d[b].id = ends[k].id
    BY <1>5, <1>7
<1>9. \A t \in Tag(q) : t.kind = "end" => t \in EndTag(q)
    BY DEF Tag, StructureTag, BeginTag
<1>10. ends \in Seq(EndTag(q))
    BY <1>7, <1>8, <1>9
<1> QED
    BY <1>1, <1>3, <1>6, <1>8, <1>10

\* The begins that are ended in a chapter and begun again behind it.
LEMMA LonelyBeginsAre ==
    ASSUME NEW q, NEW d \in Seq(Tag(q)), NEW i
    PROVE  FirstOfEach(LonelyBegins(d, i)) \in Seq(BeginTag(q))
<1> DEFINE P == {j \in Kind(d, "begin", i, Close(d, i)) : d[j].id \in IdsOf(d, Kind(d, "end", Close(d, i), Len(d)))}
<1>1. LonelyBegins(d, i) = Tags(d, P)
    BY DEF LonelyBegins
<1>2. \A j \in P : d[j].kind = "begin"
    BY DEF Kind
<1> HIDE DEF P
<1>3. PICK s : s = Tags(d, P)
    OBVIOUS
<1>4. s \in Seq(Tag(q)) /\ \A k \in 1 .. Len(s) : \E j \in 1 .. Len(d) : j \in P /\ s[k] = d[j]
    <2>1. /\ Tags(d, P) \in Seq(Tag(q))
          /\ \A k \in 1 .. Len(Tags(d, P)) : \E j \in 1 .. Len(d) : j \in P /\ Tags(d, P)[k] = d[j]
        BY TagsAre
    <2> QED
        BY <1>3, <2>1
<1>5. \A t \in Tag(q) : t.kind = "begin" => t \in BeginTag(q)
    BY DEF Tag, StructureTag, EndTag
<1>6. s \in Seq(BeginTag(q))
    BY <1>2, <1>4, <1>5
<1>7. FirstOfEach(s) \in Seq(BeginTag(q))
    BY <1>6, FirstOfEachAre
<1> QED
    BY <1>1, <1>3, <1>7

\* What is begun again in a chapter has begun before it.
LEMMA LastBeginType ==
    ASSUME NEW q, NEW d \in Seq(Tag(q)), NEW i \in 1 .. Len(d), NEW e,
           \E b \in 1 .. i : d[b].kind = "begin" /\ d[b].id = e.id
    PROVE  LastBegin(d, i, e) \in BeginTag(q)
<1> DEFINE S == {j \in Kind(d, "begin", 1, i) : d[j].id = e.id}
<1>1. S \subseteq 1 .. i /\ S # {} /\ \A j \in S : j \in 1 .. i /\ d[j].kind = "begin"
    BY DEF Kind
<1>2. LastBegin(d, i, e) = d[Max(S)]
    BY DEF LastBegin
<1> HIDE DEF S
<1>3. i \in Nat /\ Len(d) \in Nat
    OBVIOUS
<1>4. Max(S) \in S
    <2>1. S \subseteq 1 .. i /\ S # {}
        BY <1>1
    <2> QED
        BY <1>3, <2>1, GreatestNumber
<1>5. Max(S) \in 1 .. Len(d) /\ d[Max(S)].kind = "begin"
    <2>1. \A j \in S : j \in 1 .. i /\ d[j].kind = "begin"
        BY <1>1
    <2>2. \A j \in 1 .. i : j \in 1 .. Len(d)
        BY <1>3
    <2> QED
        BY <1>4, <2>1, <2>2
<1>6. \A t \in Tag(q) : t.kind = "begin" => t \in BeginTag(q)
    BY DEF Tag, StructureTag, EndTag
<1> QED
    BY <1>2, <1>5, <1>6

\* The ends of begins.
LEMMA EndsOfBegins ==
    ASSUME NEW q, NEW s \in Seq(BeginTag(q))
    PROVE  [n \in DOMAIN s |-> End(Reverse(s)[n].id)] \in Seq(EndTag(q))
<1>1. PICK r : r = Reverse(s)
    OBVIOUS
<1>2. r \in Seq(BeginTag(q)) /\ Len(r) = Len(s)
    BY <1>1, Reversed
<1>3. \A t \in BeginTag(q) : End(t.id) \in EndTag(q)
    BY DEF BeginTag, End, EndTag
<1>4. Len(s) \in Nat /\ DOMAIN s = 1 .. Len(s) /\ \A n \in 1 .. Len(s) : End(r[n].id) \in EndTag(q)
    BY <1>2, <1>3
<1>5. [n \in 1 .. Len(s) |-> End(r[n].id)] \in Seq(EndTag(q))
    BY <1>4
<1> QED
    BY <1>1, <1>4, <1>5

\* What stylesheet 3 puts around the start of a chapter leaves the chapter,
LEMMA EnteringCopies ==
    ASSUME NEW q, NEW d \in Seq(Tag(q)), NEW i \in 1 .. Len(d)
    PROVE  Entering(d, i) \in Seq(Tag(q)) /\ Kept(Entering(d, i)) = Kept(<<d[i]>>)
<1> DEFINE X == BeginTag(q) \cup EndTag(q)
<1>1. PICK ends : ends = FirstOfEach(LonelyEnds(d, i))
    OBVIOUS
<1>2. /\ ends \in Seq(EndTag(q))
      /\ \A k \in 1 .. Len(ends) : \E b \in 1 .. i : d[b].kind = "begin" /\ d[b].id = ends[k].id
    BY <1>1, LonelyEndsAre
<1>3. PICK r : r = Reverse(ends)
    OBVIOUS
<1>4. /\ r \in Seq(EndTag(q)) /\ Len(r) = Len(ends)
      /\ \A k \in 1 .. Len(ends) : r[k] = ends[Len(ends) - k + 1]
    BY <1>2, <1>3, Reversed
<1>5. Len(ends) \in Nat /\ DOMAIN ends = 1 .. Len(ends)
    BY <1>2
<1>6. \A n \in 1 .. Len(ends) : LastBegin(d, i, r[n]) \in BeginTag(q)
    <2>1. \A n \in 1 .. Len(ends) : Len(ends) - n + 1 \in 1 .. Len(ends)
        BY <1>5
    <2>2. ASSUME NEW n \in 1 .. Len(ends) PROVE \E b \in 1 .. i : d[b].kind = "begin" /\ d[b].id = r[n].id
        <3>1. PICK m \in 1 .. Len(ends) : r[n] = ends[m]
            BY <1>4, <2>1
        <3> QED
            BY <1>2, <3>1
    <2> QED
        BY <2>2, LastBeginType
<1>7. PICK begins : begins = [n \in 1 .. Len(ends) |-> LastBegin(d, i, r[n])]
    OBVIOUS
<1>8. begins \in Seq(BeginTag(q))
    BY <1>5, <1>6, <1>7
<1>9. Entering(d, i) = (ends \o <<d[i]>>) \o begins
    BY <1>1, <1>3, <1>5, <1>7 DEF Entering
<1>10. ends \in Seq(X) /\ begins \in Seq(X)
    BY <1>2, <1>8
<1>11. <<d[i]>> \in Seq(Tag(q))
    OBVIOUS
<1>12. ends \o <<d[i]>> \in Seq(Tag(q)) /\ Kept(ends \o <<d[i]>>) = Kept(<<d[i]>>)
    BY <1>10, <1>11, KeptBeside
<1>13. /\ (ends \o <<d[i]>>) \o begins \in Seq(Tag(q))
       /\ Kept((ends \o <<d[i]>>) \o begins) = Kept(ends \o <<d[i]>>)
    BY <1>10, <1>12, KeptBeside
<1> QED
    BY <1>9, <1>12, <1>13

\* and so does what it puts around its end.
LEMMA LeavingCopies ==
    ASSUME NEW q, NEW d \in Seq(Tag(q)), NEW i, d[Close(d, i)] \in Tag(q)
    PROVE  Leaving(d, i) \in Seq(Tag(q)) /\ Kept(Leaving(d, i)) = Kept(<<d[Close(d, i)]>>)
<1> DEFINE X == BeginTag(q) \cup EndTag(q)
           last == <<d[Close(d, i)]>>
<1>1. PICK begins : begins = FirstOfEach(LonelyBegins(d, i))
    OBVIOUS
<1>2. begins \in Seq(BeginTag(q))
    BY <1>1, LonelyBeginsAre
<1>3. PICK ends : ends = [n \in DOMAIN begins |-> End(Reverse(begins)[n].id)]
    OBVIOUS
<1>4. ends \in Seq(EndTag(q))
    BY <1>2, <1>3, EndsOfBegins
<1>5. Leaving(d, i) = (ends \o last) \o begins
    BY <1>1, <1>3 DEF Leaving
<1>6. ends \in Seq(X) /\ begins \in Seq(X)
    BY <1>2, <1>4
<1>7. last \in Seq(Tag(q))
    OBVIOUS
<1> HIDE DEF last
<1>8. ends \o last \in Seq(Tag(q)) /\ Kept(ends \o last) = Kept(last)
    BY <1>6, <1>7, KeptBeside
<1>9. (ends \o last) \o begins \in Seq(Tag(q)) /\ Kept((ends \o last) \o begins) = Kept(ends \o last)
    BY <1>6, <1>8, KeptBeside
<1> QED
    BY <1>5, <1>8, <1>9 DEF last

\* Stylesheet 3 copies questions and chapters.
LEMMA GoTo2SequenceCopies ==
    ASSUME NEW q \in Questionnaires, NEW d \in Seq(Tag(q)), Kept(d) = q.document
    PROVE  LET result == GoTo2Sequence(d) IN result \in Seq(Tag(q)) /\ Kept(result) = Kept(d)
<1> DEFINE Opening(i) == CHOOSE j \in 1 .. i : d[j].kind = "sequence" /\ d[j].id = d[i].id
           Template(i) == CASE d[i].kind = "sequence" -> Entering(d, i)
                            [] d[i].kind = "/sequence" -> Leaving(d, Opening(i))
                            [] OTHER -> <<d[i]>>
           templates == [i \in DOMAIN d |-> Template(i)]
<1>1. GoTo2Sequence(d) = FlattenSeq(templates)
    BY DEF GoTo2Sequence, Rewrite
<1>2. DOMAIN d = 1 .. Len(d) /\ \A i \in 1 .. Len(d) : d[i] \in Tag(q)
    OBVIOUS
<1>3. ASSUME NEW i \in 1 .. Len(d), d[i].kind = "/sequence"
      PROVE  /\ Leaving(d, Opening(i)) \in Seq(Tag(q))
             /\ Kept(Leaving(d, Opening(i))) = Kept(<<d[i]>>)
    <2>1. \E j \in 1 .. i : d[j].kind = "sequence" /\ d[j].id = d[i].id
        BY <1>3, OpenedBefore
    <2>2. d[Opening(i)].kind = "sequence" /\ d[Opening(i)].id = d[i].id
        BY <2>1
    <2>3. PICK p : p = Opening(i)
        OBVIOUS
    <2>4. d[p].kind = "sequence" /\ d[p].id = d[i].id
        BY <2>2, <2>3
    <2> HIDE DEF Opening
    <2>5. Close(d, p) = CHOOSE j \in DOMAIN d : d[j].kind = "/sequence" /\ d[j].id = d[p].id
        BY <2>4 DEF Close
    <2>6. \E j \in DOMAIN d : d[j].kind = "/sequence" /\ d[j].id = d[p].id
        BY <1>2, <1>3, <2>4
    <2>7. Close(d, p) \in DOMAIN d /\ d[Close(d, p)].kind = "/sequence" /\ d[Close(d, p)].id = d[p].id
        BY <2>5, <2>6
    <2>8. \A s, t \in Tag(q) : s.kind = "/sequence" /\ t.kind = "/sequence" /\ s.id = t.id => s = t
        BY DEF Tag, StructureTag, BeginTag, EndTag
    <2>9. d[Close(d, p)] = d[i] /\ d[Close(d, p)] \in Tag(q)
        BY <1>2, <1>3, <2>4, <2>7, <2>8
    <2>10. Leaving(d, p) \in Seq(Tag(q)) /\ Kept(Leaving(d, p)) = Kept(<<d[Close(d, p)]>>)
        BY <2>9, LeavingCopies
    <2> QED
        BY <2>3, <2>9, <2>10
<1>4. ASSUME NEW i \in 1 .. Len(d)
      PROVE  Template(i) \in Seq(Tag(q)) /\ Kept(Template(i)) = Kept(<<d[i]>>)
    <2>1. CASE d[i].kind = "sequence"
        <3>1. Template(i) = Entering(d, i)
            BY <2>1
        <3> QED
            BY <3>1, EnteringCopies
    <2>2. CASE d[i].kind = "/sequence"
        <3>1. Template(i) = Leaving(d, Opening(i))
            BY <2>2
        <3> HIDE DEF Template, Opening
        <3> QED
            BY <1>3, <2>2, <3>1
    <2>3. CASE d[i].kind # "sequence" /\ d[i].kind # "/sequence"
        <3>1. Template(i) = <<d[i]>>
            BY <2>3
        <3>2. <<d[i]>> \in Seq(Tag(q))
            BY <1>2
        <3> QED
            BY <3>1, <3>2
    <2> QED
        BY <2>1, <2>2, <2>3
<1> HIDE DEF Template
<1>5. \A i \in 1 .. Len(d) : templates[i] = Template(i)
    BY <1>2
<1>6. templates \in [1 .. Len(d) -> Seq(Tag(q))]
    BY <1>2, <1>4
<1> HIDE DEF templates
<1>7. \A i \in 1 .. Len(d) : Kept(templates[i]) = Kept(<<d[i]>>)
    BY <1>4, <1>5
<1>8. FlattenSeq(templates) \in Seq(Tag(q)) /\ Kept(FlattenSeq(templates)) = Kept(d)
    BY <1>6, <1>7, RewriteCopies
<1> QED
    BY <1>1, <1>8

(***************************************************************************)
(* Before stylesheet 4 the document is one of tags, and what is kept of it *)
(* is the questionnaire's.                                                 *)
(***************************************************************************)
CopiedSoFar ==
    /\ questionnaire \in Questionnaires
    /\ pass \in 1 .. 5
    /\ pass = 1 => document = questionnaire.document
    /\ pass <= 4 => document \in Seq(Tag(questionnaire)) /\ Kept(document) = questionnaire.document

\* It is so at first.
LEMMA InitCopied == Init => CopiedSoFar
<1> SUFFICES ASSUME Init PROVE CopiedSoFar
    OBVIOUS
<1> DEFINE q == questionnaire
<1>1. q \in Questionnaires /\ document = q.document /\ pass = 1
    BY DEF Init
<1>2. q.document \in Seq(StructureTag(q))
    BY <1>1, QuestionnaireTypes
<1>3. \A t \in StructureTag(q) : t \in Tag(q) /\ IsKept(t)
    BY DEF StructureTag, Tag, IsKept, Children
<1>4. q.document \in Seq(Tag(q)) /\ \A k \in 1 .. Len(q.document) : IsKept(q.document[k])
    BY <1>2, <1>3
<1>5. Kept(q.document) = q.document
    BY <1>4, KeptAll
<1> QED
    BY <1>1, <1>4, <1>5 DEF CopiedSoFar

\* It stays so with every pass.
LEMMA NextCopies == CopiedSoFar /\ [Next]_vars => CopiedSoFar'
<1> SUFFICES ASSUME CopiedSoFar, [Next]_vars PROVE CopiedSoFar'
    OBVIOUS
<1> USE DEF CopiedSoFar
<1>1. CASE Pass(1, GoTo2IfThen(document, questionnaire.goTos))
    <2>1. document = questionnaire.document /\ questionnaire \in Questionnaires
        BY <1>1 DEF Pass
    <2>2. /\ document' = GoTo2IfThen(questionnaire.document, questionnaire.goTos)
          /\ pass' = 2 /\ questionnaire' = questionnaire
        BY <1>1, <2>1 DEF Pass
    <2>3. Kept(questionnaire.document) = questionnaire.document
        BY <1>1, <2>1 DEF Pass
    <2>4. document' \in Seq(Tag(questionnaire)) /\ Kept(document') = questionnaire.document
        BY <2>1, <2>2, <2>3, GoTo2IfThenCopies
    <2> QED
        BY <2>1, <2>2, <2>4
<1>2. CASE Pass(2, GoGo2ToTo(document))
    <2>1. document' = GoGo2ToTo(document) /\ pass' = 3 /\ questionnaire' = questionnaire
        BY <1>2 DEF Pass
    <2>2. document \in Seq(Tag(questionnaire)) /\ Kept(document) = questionnaire.document
        BY <1>2 DEF Pass
    <2>3. document' \in Seq(Tag(questionnaire)) /\ Kept(document') = questionnaire.document
        BY <2>1, <2>2, GoGo2ToToCopies
    <2> QED
        BY <2>1, <2>3
<1>3. CASE Pass(3, GoTo2Sequence(document))
    <2>1. document' = GoTo2Sequence(document) /\ pass' = 4 /\ questionnaire' = questionnaire
        BY <1>3 DEF Pass
    <2>2. document \in Seq(Tag(questionnaire)) /\ Kept(document) = questionnaire.document
        BY <1>3 DEF Pass
    <2>3. document' \in Seq(Tag(questionnaire)) /\ Kept(document') = questionnaire.document
        BY <2>1, <2>2, GoTo2SequenceCopies
    <2> QED
        BY <2>1, <2>3
<1>4. CASE Pass(4, BeginEnd2Filter(document))
    <2>1. pass' = 5 /\ questionnaire' = questionnaire
        BY <1>4 DEF Pass
    <2> QED
        BY <2>1
<1>5. CASE UNCHANGED vars
    BY <1>5 DEF vars
<1> QED
    BY <1>1, <1>2, <1>3, <1>4, <1>5 DEF Next

\* Whatever the GoTos are, stylesheets 1 to 3 (1-Goto2IfThen.xsl, 2-GoGo2ToTo.xsl
\* and 3-GoTo2Sequence.xsl) lose, double and move no question and no chapter.
THEOREM StructureSurvives == Spec => []StructureIsCopied
<1>1. Spec => []CopiedSoFar
    BY InitCopied, NextCopies, PTL DEF Spec
<1>2. CopiedSoFar => StructureIsCopied
    BY DEF CopiedSoFar, StructureIsCopied
<1> QED
    BY <1>1, <1>2, PTL

(***************************************************************************)
(* How Nested reads begins and ends: the stack that it has after a part    *)
(* of a document, from the one before.                                     *)
(***************************************************************************)
ReadTag(open, tag) ==
    IF tag.kind \in {"begin"} THEN Append(open, tag.id)
    ELSE IF tag.kind \notin {"end"} THEN open
    ELSE IF open # <<>> /\ Last(open) = tag.id THEN Front(open) ELSE Append(open, "crossed")

Stacks(f, a, s, b) ==
    /\ f = [i \in 0 .. Len(s) |-> f[i]]
    /\ f[0] = a /\ f[Len(s)] = b
    /\ \A i \in 1 .. Len(s) : f[i] = ReadTag(f[i - 1], s[i])

Reads(a, s, b) == \E f : Stacks(f, a, s, b)

\* Reading nothing, one tag, and one part behind another.
LEMMA ReadsNothing ==
    ASSUME NEW a
    PROVE  Reads(a, <<>>, a)
<1>1. Stacks([i \in 0 .. 0 |-> a], a, <<>>, a)
    BY DEF Stacks
<1> QED
    BY <1>1 DEF Reads

LEMMA ReadsOne ==
    ASSUME NEW a, NEW tag
    PROVE  Reads(a, <<tag>>, ReadTag(a, tag))
<1> DEFINE b == ReadTag(a, tag)
           f == [i \in 0 .. 1 |-> IF i = 0 THEN a ELSE b]
<1> HIDE DEF b
<1>1. f[0] = a /\ f[1] = b /\ f = [i \in 0 .. 1 |-> f[i]]
    OBVIOUS
<1> HIDE DEF f
<1>2. Len(<<tag>>) = 1 /\ <<tag>>[1] = tag
    OBVIOUS
<1>3. \A i \in 1 .. 1 : f[i] = ReadTag(f[i - 1], <<tag>>[i])
    <2>1. f[1] = ReadTag(f[1 - 1], <<tag>>[1])
        BY <1>1, <1>2 DEF b
    <2> QED
        BY <2>1
<1>4. Stacks(f, a, <<tag>>, b)
    BY <1>1, <1>2, <1>3 DEF Stacks
<1> QED
    BY <1>4 DEF Reads, b

LEMMA ReadsJoined ==
    \A T : \A s, t \in Seq(T) : \A a, b, c :
        Reads(a, s, b) /\ Reads(b, t, c) => Reads(a, s \o t, c)
<1> SUFFICES ASSUME NEW T, NEW s \in Seq(T), NEW t \in Seq(T), NEW a, NEW b, NEW c,
                    Reads(a, s, b), Reads(b, t, c)
             PROVE  Reads(a, s \o t, c)
    OBVIOUS
<1>1. PICK f : Stacks(f, a, s, b)
    BY DEF Reads
<1>2. PICK g : Stacks(g, b, t, c)
    BY DEF Reads
<1>3. PICK u : u = s \o t
    OBVIOUS
<1>4. PICK m \in Nat : m = Len(s)
    OBVIOUS
<1>5. PICK n \in Nat : n = Len(t)
    OBVIOUS
<1>6. Len(u) = m + n
    BY <1>3, <1>4, <1>5
<1>7. \A i \in 1 .. m : u[i] = s[i]
    BY <1>3, <1>4
<1>8. \A i \in m + 1 .. m + n : u[i] = t[i - m]
    BY <1>3, <1>4, <1>5
<1> DEFINE h == [i \in 0 .. m + n |-> IF i <= m THEN f[i] ELSE g[i - m]]
<1>9. /\ f[0] = a /\ f[m] = b /\ \A i \in 1 .. m : f[i] = ReadTag(f[i - 1], s[i])
      /\ g[0] = b /\ g[n] = c /\ \A i \in 1 .. n : g[i] = ReadTag(g[i - 1], t[i])
    BY <1>1, <1>2, <1>4, <1>5 DEF Stacks
<1>10. h = [i \in 0 .. m + n |-> h[i]]
    OBVIOUS
<1>11. /\ \A i \in 0 .. m : h[i] = f[i]
       /\ \A i \in m + 1 .. m + n : h[i] = g[i - m]
    OBVIOUS
<1> HIDE DEF h
<1>12. h[0] = a /\ h[m + n] = c
    <2>1. CASE n = 0
        BY <1>9, <1>11, <2>1
    <2>2. CASE n # 0
        BY <1>9, <1>11, <2>2
    <2> QED
        BY <2>1, <2>2
<1>13. ASSUME NEW i \in 1 .. m + n PROVE h[i] = ReadTag(h[i - 1], u[i])
    <2>1. CASE i <= m
        <3>1. i \in 1 .. m /\ i \in 0 .. m /\ i - 1 \in 0 .. m
            BY <2>1
        <3> QED
            BY <1>7, <1>9, <1>11, <3>1
    <2>2. CASE i = m + 1
        <3>1. h[i] = g[1] /\ h[i - 1] = g[0] /\ u[i] = t[1]
            BY <1>8, <1>9, <1>11, <2>2
        <3> QED
            BY <1>9, <2>2, <3>1
    <2>3. CASE i > m + 1
        <3>1. i \in m + 1 .. m + n /\ i - 1 \in m + 1 .. m + n /\ i - m \in 1 .. n /\ (i - 1) - m = (i - m) - 1
            BY <2>3
        <3>2. h[i] = g[i - m] /\ h[i - 1] = g[(i - m) - 1] /\ u[i] = t[i - m]
            BY <1>8, <1>11, <3>1
        <3> QED
            BY <1>9, <3>1, <3>2
    <2> QED
        BY <2>1, <2>2, <2>3
<1>14. Stacks(h, a, u, c)
    BY <1>6, <1>10, <1>12, <1>13 DEF Stacks
<1> QED
    BY <1>3, <1>14 DEF Reads

\* A document nests when reading it leaves nothing on the stack.
LEMMA NestedIfRead ==
    ASSUME NEW T, NEW d \in Seq(T), Reads(<<>>, d, <<>>)
    PROVE  Nested(d, {"begin"}, {"end"})
<1> DEFINE base == <<>>
           Read(open, tag) ==
                IF tag.kind \in {"begin"} THEN Append(open, tag.id)
                ELSE IF tag.kind \notin {"end"} THEN open
                ELSE IF open # <<>> /\ Last(open) = tag.id THEN Front(open) ELSE Append(open, "crossed")
           Equation(f) == f = [i \in 0 .. Len(d) |-> IF i = 0 THEN base ELSE Read(f[i - 1], d[i])]
           g == CHOOSE g : Equation(g)
<1>1. Nested(d, {"begin"}, {"end"}) <=> g[Len(d)] = base
    BY DEF Nested
<1>2. PICK f : Stacks(f, base, d, base)
    BY DEF Reads
<1>3. \A open, tag : ReadTag(open, tag) = Read(open, tag)
    BY DEF ReadTag
<1> HIDE DEF base, Read
<1>4. PICK n \in Nat : n = Len(d)
    OBVIOUS
<1>5. /\ f = [i \in 0 .. n |-> f[i]] /\ f[0] = base /\ f[n] = base
      /\ \A i \in 1 .. n : f[i] = Read(f[i - 1], d[i])
    BY <1>2, <1>3, <1>4 DEF Stacks
<1>6. Equation(f)
    <2>1. \A i \in 0 .. n : f[i] = IF i = 0 THEN base ELSE Read(f[i - 1], d[i])
        BY <1>5
    <2>2. f = [i \in 0 .. n |-> f[i]]
        BY <1>5
    <2>3. f = [i \in 0 .. n |-> IF i = 0 THEN base ELSE Read(f[i - 1], d[i])]
        BY <2>1, <2>2, Zenon
    <2> QED
        BY <1>4, <2>3
<1>7. Equation(g)
    BY <1>6, Zenon
<1> HIDE DEF g
<1>8. g[0] = base /\ \A i \in 1 .. n : g[i] = Read(g[i - 1], d[i])
    BY <1>4, <1>7
<1>9. f[n] = g[n]
    <2>1. n \in Nat
        OBVIOUS
    <2>2. SameSteps(f, g, n)
        BY <1>5, <1>8 DEF SameSteps
    <2>3. \A i \in 0 .. n : f[i] = g[i]
        BY <2>1, <2>2, SameRecursion, Zenon
    <2> QED
        BY <2>1, <2>3
<1> QED
    BY <1>1, <1>4, <1>5, <1>9 DEF base, g

\* What SubSeq leaves of a stack.
LEMMA Shortened ==
    ASSUME NEW U, NEW w \in Seq(U), NEW j \in 1 .. Len(w)
    PROVE  LET top == SubSeq(w, 1, j) IN
              /\ top # <<>> /\ Last(top) = w[j] /\ Front(top) = SubSeq(w, 1, j - 1)
              /\ Append(SubSeq(w, 1, j - 1), w[j]) = top
<1>1. PICK v : v = SubSeq(w, 1, j)
    OBVIOUS
<1>2. v \in Seq(U) /\ Len(v) = j /\ \A i \in 1 .. j : v[i] = w[i]
    BY <1>1
<1>3. v # <<>> /\ Last(v) = w[j]
    BY <1>2 DEF Last
<1>4. PICK u : u = SubSeq(w, 1, j - 1)
    OBVIOUS
<1>5. u \in Seq(U) /\ Len(u) = j - 1 /\ \A i \in 1 .. j - 1 : u[i] = w[i]
    BY <1>4
<1>6. Front(v) = u
    <2>1. PICK x : x = SubSeq(v, 1, j - 1)
        OBVIOUS
    <2>2. x \in Seq(U) /\ Len(x) = j - 1 /\ \A i \in 1 .. j - 1 : x[i] = v[i]
        BY <1>2, <2>1
    <2>3. x = u
        BY <1>2, <1>5, <2>2
    <2> QED
        BY <1>2, <2>1, <2>3 DEF Front
<1>7. Append(u, w[j]) = v
    <2>1. PICK x : x = Append(u, w[j])
        OBVIOUS
    <2>2. x \in Seq(U) /\ Len(x) = j /\ x[j] = w[j] /\ \A i \in 1 .. j - 1 : x[i] = u[i]
        BY <1>5, <2>1
    <2>3. \A i \in 1 .. j : x[i] = v[i]
        BY <1>2, <1>5, <2>2
    <2>4. x = v
        BY <1>2, <2>2, <2>3
    <2> QED
        BY <2>1, <2>4
<1> QED
    BY <1>1, <1>3, <1>4, <1>6, <1>7

\* Begins are pushed in their order, and ends in the reverse order pop them.
LEMMA ReadsBegins ==
    ASSUME NEW U, NEW w \in Seq(U), NEW m \in Nat, NEW s, Len(s) \in Nat, Len(w) = m + Len(s),
           \A k \in 1 .. Len(s) : s[k].kind = "begin" /\ s[k].id = w[m + k]
    PROVE  Reads(SubSeq(w, 1, m), s, w)
<1>1. PICK n \in Nat : n = Len(s)
    OBVIOUS
<1> DEFINE f == [i \in 0 .. n |-> SubSeq(w, 1, m + i)]
<1>2. \A i \in 0 .. n : f[i] = SubSeq(w, 1, m + i)
    OBVIOUS
<1>3. f = [i \in 0 .. n |-> f[i]]
    OBVIOUS
<1> HIDE DEF f
<1>4. f[0] = SubSeq(w, 1, m) /\ f[n] = w
    <2>1. m + 0 = m /\ m + n = Len(w) /\ 0 \in 0 .. n /\ n \in 0 .. n
        BY <1>1
    <2>2. SubSeq(w, 1, Len(w)) = w
        BY Beginnings
    <2> QED
        BY <1>2, <2>1, <2>2
<1>5. ASSUME NEW i \in 1 .. n PROVE f[i] = ReadTag(f[i - 1], s[i])
    <2>1. m + i \in 1 .. Len(w) /\ m + (i - 1) = (m + i) - 1 /\ i - 1 \in 0 .. n /\ i \in 0 .. n
        BY <1>1
    <2>2. Append(SubSeq(w, 1, (m + i) - 1), w[m + i]) = SubSeq(w, 1, m + i)
        BY <2>1, Shortened
    <2>3. f[i - 1] = SubSeq(w, 1, (m + i) - 1) /\ f[i] = SubSeq(w, 1, m + i)
        BY <1>2, <2>1
    <2>4. s[i].kind = "begin" /\ s[i].id = w[m + i]
        BY <1>1
    <2>5. ReadTag(f[i - 1], s[i]) = Append(f[i - 1], w[m + i])
        BY <2>4 DEF ReadTag
    <2> QED
        BY <2>2, <2>3, <2>5
<1>6. Stacks(f, SubSeq(w, 1, m), s, w)
    BY <1>1, <1>3, <1>4, <1>5 DEF Stacks
<1> QED
    BY <1>6 DEF Reads

\* Ends in the reverse order of the begins take these off the stack.
LEMMA ReadsEnds ==
    ASSUME NEW U, NEW w \in Seq(U), NEW m \in Nat, NEW s, Len(s) \in Nat, Len(w) = m + Len(s),
           \A k \in 1 .. Len(s) : s[k].kind = "end" /\ s[k].id = w[Len(w) - k + 1]
    PROVE  Reads(w, s, SubSeq(w, 1, m))
<1>1. PICK n \in Nat : n = Len(s)
    OBVIOUS
<1> DEFINE f == [i \in 0 .. n |-> SubSeq(w, 1, Len(w) - i)]
<1>2. \A i \in 0 .. n : f[i] = SubSeq(w, 1, Len(w) - i)
    OBVIOUS
<1>3. f = [i \in 0 .. n |-> f[i]]
    OBVIOUS
<1> HIDE DEF f
<1>4. f[0] = w /\ f[n] = SubSeq(w, 1, m)
    <2>1. Len(w) - 0 = Len(w) /\ Len(w) - n = m /\ 0 \in 0 .. n /\ n \in 0 .. n
        BY <1>1
    <2>2. SubSeq(w, 1, Len(w)) = w
        BY Beginnings
    <2> QED
        BY <1>2, <2>1, <2>2
<1>5. ASSUME NEW i \in 1 .. n PROVE f[i] = ReadTag(f[i - 1], s[i])
    <2> DEFINE j == Len(w) - (i - 1)
    <2>1. j \in 1 .. Len(w) /\ Len(w) - i = j - 1 /\ Len(w) - i + 1 = j /\ i - 1 \in 0 .. n /\ i \in 0 .. n
        BY <1>1
    <2>2. f[i - 1] = SubSeq(w, 1, j) /\ f[i] = SubSeq(w, 1, Len(w) - i)
        BY <1>2, <2>1
    <2> HIDE DEF j
    <2>3. /\ SubSeq(w, 1, j) # <<>> /\ Last(SubSeq(w, 1, j)) = w[j]
          /\ Front(SubSeq(w, 1, j)) = SubSeq(w, 1, j - 1)
        BY <2>1, Shortened
    <2>4. s[i].kind = "end" /\ s[i].id = w[j]
        BY <1>1, <2>1
    <2>5. ReadTag(f[i - 1], s[i]) = Front(f[i - 1])
        BY <2>2, <2>3, <2>4 DEF ReadTag
    <2> QED
        BY <2>1, <2>2, <2>3, <2>5
<1>6. Stacks(f, w, s, SubSeq(w, 1, m))
    BY <1>1, <1>3, <1>4, <1>5 DEF Stacks
<1> QED
    BY <1>6 DEF Reads

\* A pass reads as its templates do.
LEMMA RewriteReads ==
    ASSUME NEW n \in Nat, NEW T, NEW templates \in [1 .. n -> Seq(T)], NEW stack,
           \A i \in 1 .. n : Reads(stack[i - 1], templates[i], stack[i])
    PROVE  Reads(stack[0], FlattenSeq(templates), stack[n])
<1>1. PICK f : Flattens(f, templates, n, T)
    BY FlattenRecursion, Zenon
<1> DEFINE Good == {i \in 0 .. n : Reads(stack[0], f[i], stack[i])}
<1>2. 0 \in Good
    <2>1. f[0] = <<>>
        BY <1>1 DEF Flattens
    <2>2. Reads(stack[0], <<>>, stack[0])
        BY ReadsNothing
    <2>3. Reads(stack[0], f[0], stack[0])
        BY <2>1, <2>2, Zenon
    <2> QED
        BY <2>3
<1>3. ASSUME NEW i \in 1 .. n, i - 1 \in Good PROVE i \in Good
    <2>1. f[i - 1] \in Seq(T) /\ templates[i] \in Seq(T) /\ f[i] = f[i - 1] \o templates[i]
        <3>1. i - 1 \in 0 .. n
            OBVIOUS
        <3>2. f \in [0 .. n -> Seq(T)] /\ f[i] = f[i - 1] \o templates[i]
            BY <1>1 DEF Flattens
        <3> QED
            BY <3>1, <3>2
    <2>2. Reads(stack[0], f[i - 1], stack[i - 1]) /\ Reads(stack[i - 1], templates[i], stack[i])
        BY <1>3
    <2>3. PICK s \in Seq(T) : s = f[i - 1]
        BY <2>1
    <2>4. PICK t \in Seq(T) : t = templates[i]
        BY <2>1
    <2>5. Reads(stack[0], s, stack[i - 1]) /\ Reads(stack[i - 1], t, stack[i])
        BY <2>2, <2>3, <2>4, Zenon
    <2>6. Reads(stack[0], s \o t, stack[i])
        BY <2>5, ReadsJoined, Zenon
    <2>7. f[i] = s \o t
        BY <2>1, <2>3, <2>4
    <2>8. Reads(stack[0], f[i], stack[i])
        BY <2>6, <2>7, Zenon
    <2> QED
        BY <2>8
<1> HIDE DEF Good
<1>4. n \in Good
    <2>1. Inductive(Good, n)
        BY <1>2, <1>3 DEF Inductive
    <2> QED
        BY <2>1, UpTo
<1>5. FlattenSeq(templates) = f[n]
    BY <1>1 DEF Flattens
<1> QED
    BY <1>4, <1>5 DEF Good

(***************************************************************************)
(* Stylesheet 1 leaves no ends, and each of its begins points at a         *)
(* question or chapter behind it.                                          *)
(***************************************************************************)
MarkedTag(q) == StructureTag(q) \cup BeginTag(q)

\* The begins of s point at children behind them or at one of rest.
Aimed(s, rest) ==
    \A b \in 1 .. Len(s) : s[b].kind = "begin" =>
        \/ s[b].IfTrue \in rest
        \/ \E j \in b + 1 .. Len(s) : s[j].kind \in Children /\ s[j].id = s[b].IfTrue

\* Where the begins of both parts aim, those of the whole do.
LEMMA AimedJoined ==
    ASSUME NEW T, NEW s \in Seq(T), NEW t \in Seq(T), NEW before, NEW behind,
           Aimed(s, before), Aimed(t, behind),
           \A x \in before : x \in behind \/ \E j \in 1 .. Len(t) : t[j].kind \in Children /\ t[j].id = x
    PROVE  Aimed(s \o t, behind)
<1>1. PICK m \in Nat : m = Len(s)
    OBVIOUS
<1>2. PICK n \in Nat : n = Len(t)
    OBVIOUS
<1>3. PICK u : u = s \o t
    OBVIOUS
<1>4. Len(u) = m + n
    BY <1>1, <1>2, <1>3
<1>5. \A i \in 1 .. m : u[i] = s[i]
    BY <1>1, <1>3
<1>6. \A i \in 1 .. n : u[m + i] = t[i]
    BY <1>1, <1>2, <1>3
<1>7. ASSUME NEW b \in 1 .. m + n, u[b].kind = "begin"
      PROVE  u[b].IfTrue \in behind \/ \E j \in b + 1 .. m + n : u[j].kind \in Children /\ u[j].id = u[b].IfTrue
    <2>1. CASE b <= m
        <3>1. b \in 1 .. m /\ u[b] = s[b]
            BY <1>5, <2>1
        <3>2. CASE s[b].IfTrue \in before
            <4>1. CASE s[b].IfTrue \in behind
                BY <3>1, <4>1
            <4>2. CASE s[b].IfTrue \notin behind
                <5>1. PICK j \in 1 .. n : t[j].kind \in Children /\ t[j].id = s[b].IfTrue
                    BY <1>2, <3>2, <4>2
                <5>2. m + j \in b + 1 .. m + n /\ u[m + j] = t[j]
                    BY <1>6, <2>1
                <5> QED
                    BY <3>1, <5>1, <5>2
            <4> QED
                BY <4>1, <4>2
        <3>3. CASE s[b].IfTrue \notin before
            <4>1. PICK j \in b + 1 .. m : s[j].kind \in Children /\ s[j].id = s[b].IfTrue
                BY <1>1, <1>7, <3>1, <3>3 DEF Aimed
            <4>2. j \in b + 1 .. m + n /\ u[j] = s[j]
                BY <1>5
            <4> QED
                BY <3>1, <4>1, <4>2
        <3> QED
            BY <3>2, <3>3
    <2>2. CASE b > m
        <3>1. b - m \in 1 .. n /\ u[b] = t[b - m]
            <4>1. b - m \in 1 .. n /\ m + (b - m) = b
                BY <2>2
            <4> QED
                BY <1>6, <4>1
        <3>2. CASE t[b - m].IfTrue \in behind
            BY <3>1, <3>2
        <3>3. CASE t[b - m].IfTrue \notin behind
            <4>1. PICK j \in (b - m) + 1 .. n : t[j].kind \in Children /\ t[j].id = t[b - m].IfTrue
                BY <1>2, <1>7, <3>1, <3>3 DEF Aimed
            <4>2. m + j \in b + 1 .. m + n /\ u[m + j] = t[j]
                BY <1>6, <2>2
            <4> QED
                BY <3>1, <4>1, <4>2
        <3> QED
            BY <3>2, <3>3
    <2> QED
        BY <2>1, <2>2
<1>8. Aimed(u, behind)
    BY <1>4, <1>7 DEF Aimed
<1> QED
    BY <1>3, <1>8

\* What is behind position i of the questionnaire.
Behind(d, i) == {d[j].id : j \in {m \in i + 1 .. Len(d) : d[m].kind \in Children}}

\* The begins behind a question point at what is behind it.
LEMMA BeginsBehindAim ==
    ASSUME NEW q \in Questionnaires, NEW i \in 1 .. Len(q.document), q.document[i].kind = "question",
           NEW begins, begins = BeginsBehind(q.document, q.goTos, i)
    PROVE  \A n \in 1 .. Len(begins) : begins[n].IfTrue \in Behind(q.document, i)
<1> DEFINE d == q.document
<1>1. ASSUME NEW n \in 1 .. Len(begins) PROVE begins[n].IfTrue \in Behind(d, i)
    <2>1. DOMAIN d = 1 .. Len(d) /\ Len(d) \in Nat
        BY QuestionnaireTypes
    <2>2. PICK k \in DOMAIN q.goTos : q.goTos[k].from = d[i].id /\ q.goTos[k].target = begins[n].IfTrue
        BY BeginsBehindAre
    <2>3. \E h, j \in DOMAIN d : /\ d[h].id = q.goTos[k].from /\ d[h].kind = "question"
                                 /\ d[j].id = q.goTos[k].target /\ d[j].kind \in Children /\ h < j
        BY QuestionnaireShape
    <2>4. \A h, j \in DOMAIN d :
              d[h].kind \in Children /\ d[j].kind \in Children /\ d[h].id = d[j].id => h = j
        BY QuestionnaireShape
    <2> HIDE DEF d
    <2>5. PICK h \in DOMAIN d, j \in DOMAIN d :
              /\ d[h].id = q.goTos[k].from /\ d[h].kind = "question"
              /\ d[j].id = q.goTos[k].target /\ d[j].kind \in Children /\ h < j
        BY <2>3
    <2>6. h = i
        <3>1. i \in DOMAIN d /\ d[i].kind = "question"
            BY <2>1 DEF d
        <3> QED
            BY <2>2, <2>4, <2>5, <3>1 DEF Children
    <2>7. j \in i + 1 .. Len(d) /\ d[j].kind \in Children /\ d[j].id = begins[n].IfTrue
        <3>1. i \in Nat
            BY <2>1 DEF d
        <3> QED
            BY <2>1, <2>2, <2>5, <2>6, <3>1
    <2> QED
        BY <2>7 DEF Behind
<1> QED
    BY <1>1

\* What is behind a position is the next tag or behind that.
LEMMA BehindNext ==
    ASSUME NEW d, Len(d) \in Nat, NEW i \in 1 .. Len(d)
    PROVE  \A x \in Behind(d, i - 1) : x \in Behind(d, i) \/ (d[i].kind \in Children /\ d[i].id = x)
<1>1. ASSUME NEW x \in Behind(d, i - 1) PROVE x \in Behind(d, i) \/ (d[i].kind \in Children /\ d[i].id = x)
    <2>1. PICK j \in (i - 1) + 1 .. Len(d) : d[j].kind \in Children /\ d[j].id = x
        BY DEF Behind
    <2>2. j = i \/ j \in i + 1 .. Len(d)
        OBVIOUS
    <2> QED
        BY <2>1, <2>2 DEF Behind
<1> QED
    BY <1>1

\* So do all the begins that stylesheet 1 leaves.
LEMMA GoTo2IfThenAims ==
    ASSUME NEW q \in Questionnaires
    PROVE  LET result == GoTo2IfThen(q.document, q.goTos) IN
              result \in Seq(MarkedTag(q)) /\ Aimed(result, {})
<1> DEFINE d == q.document
           Template(i) == IF d[i].kind = "question"
                          THEN <<d[i]>> \o BeginsBehind(d, q.goTos, i)
                          ELSE <<d[i]>>
           templates == [i \in DOMAIN d |-> Template(i)]
           T == MarkedTag(q)
<1>1. GoTo2IfThen(d, q.goTos) = FlattenSeq(templates)
    BY DEF GoTo2IfThen, Rewrite
<1>2. d \in Seq(StructureTag(q)) /\ DOMAIN d = 1 .. Len(d)
    BY QuestionnaireTypes
<1>3. PICK n \in Nat : n = Len(d)
    BY <1>2
<1>4. StructureTag(q) \subseteq T /\ BeginTag(q) \subseteq T
    BY DEF MarkedTag
<1>5. \A t \in StructureTag(q) : t.kind # "begin"
    BY DEF StructureTag
<1> HIDE DEF T
<1>6. ASSUME NEW i \in 1 .. n
      PROVE  \E t \in Seq(T) : /\ t = Template(i) /\ Len(t) >= 1 /\ t[1] = d[i]
                               /\ \A k \in 2 .. Len(t) : t[k].IfTrue \in Behind(d, i)
    <2>1. PICK tag \in StructureTag(q) : tag = d[i]
        BY <1>2, <1>3
    <2>2. CASE d[i].kind = "question"
        <3>1. PICK begins : begins = BeginsBehind(d, q.goTos, i)
            OBVIOUS
        <3>2. begins \in Seq(BeginTag(q))
            BY <3>1, BeginsBehindAre
        <3>3. \A k \in 1 .. Len(begins) : begins[k].IfTrue \in Behind(d, i)
            BY <1>3, <2>2, <3>1, BeginsBehindAim
        <3>4. PICK t : t = <<tag>> \o begins
            OBVIOUS
        <3>5. t = Template(i)
            BY <2>1, <2>2, <3>1, <3>4
        <3> HIDE DEF Template, d
        <3>6. t \in Seq(T) /\ Len(t) = 1 + Len(begins) /\ t[1] = tag /\ \A k \in 2 .. Len(t) : t[k] = begins[k - 1]
            <4>1. tag \in T /\ begins \in Seq(T)
                BY <1>4, <3>2
            <4> QED
                BY <3>4, <4>1
        <3>7. \A k \in 2 .. Len(t) : t[k].IfTrue \in Behind(d, i)
            <4>1. \A k \in 2 .. Len(t) : k - 1 \in 1 .. Len(begins)
                BY <3>2, <3>6
            <4> QED
                BY <3>3, <3>6, <4>1
        <3>8. Len(t) >= 1 /\ t[1] = d[i]
            BY <2>1, <3>2, <3>6
        <3> QED
            BY <3>5, <3>6, <3>7, <3>8
    <2>3. CASE d[i].kind # "question"
        <3>1. PICK t : t = <<tag>>
            OBVIOUS
        <3>2. t = Template(i)
            BY <2>1, <2>3, <3>1
        <3> HIDE DEF Template, d
        <3>3. t \in Seq(T) /\ Len(t) = 1 /\ t[1] = d[i]
            BY <1>4, <2>1, <3>1
        <3> QED
            BY <3>2, <3>3
    <2> QED
        BY <2>2, <2>3
<1> HIDE DEF Template
<1>7. \A i \in 1 .. n : templates[i] = Template(i)
    BY <1>2, <1>3
<1>8. templates \in [1 .. n -> Seq(T)]
    BY <1>2, <1>3, <1>6
<1> HIDE DEF templates
<1>9. ASSUME NEW i \in 1 .. n
      PROVE  /\ Aimed(templates[i], Behind(d, i))
             /\ \A x \in Behind(d, i - 1) : x \in Behind(d, i)
                    \/ \E j \in 1 .. Len(templates[i]) : templates[i][j].kind \in Children /\ templates[i][j].id = x
    <2>1. PICK t \in Seq(T) : /\ t = templates[i] /\ Len(t) >= 1 /\ t[1] = d[i]
                              /\ \A k \in 2 .. Len(t) : t[k].IfTrue \in Behind(d, i)
        BY <1>6, <1>7
    <2>2. d[i].kind # "begin"
        BY <1>2, <1>3, <1>5
    <2> HIDE DEF d
    <2>3. Aimed(t, Behind(d, i))
        <3>1. \A k \in 1 .. Len(t) : k = 1 \/ k \in 2 .. Len(t)
            OBVIOUS
        <3> QED
            BY <2>1, <2>2, <3>1 DEF Aimed
    <2>4. \A x \in Behind(d, i - 1) : x \in Behind(d, i) \/ (d[i].kind \in Children /\ d[i].id = x)
        BY <1>3, BehindNext
    <2>5. 1 \in 1 .. Len(t)
        BY <2>1
    <2> QED
        BY <2>1, <2>3, <2>4, <2>5
<1> HIDE DEF d
<1>10. PICK f : Flattens(f, templates, n, T)
    BY <1>8, FlattenRecursion, Zenon
<1> DEFINE Good == {i \in 0 .. n : Aimed(f[i], Behind(d, i))}
<1>11. 0 \in Good
    <2>1. f[0] = <<>>
        BY <1>10 DEF Flattens
    <2>2. Aimed(<<>>, Behind(d, 0))
        BY DEF Aimed
    <2>3. Aimed(f[0], Behind(d, 0))
        BY <2>1, <2>2, Zenon
    <2> QED
        BY <2>3
<1>12. ASSUME NEW i \in 1 .. n, i - 1 \in Good PROVE i \in Good
    <2>1. f[i] = f[i - 1] \o templates[i]
        BY <1>10 DEF Flattens
    <2>2. PICK s \in Seq(T) : s = f[i - 1]
        <3>1. i - 1 \in 0 .. n
            OBVIOUS
        <3>2. f \in [0 .. n -> Seq(T)]
            BY <1>10 DEF Flattens
        <3> QED
            BY <3>1, <3>2
    <2>3. PICK t \in Seq(T) : t = templates[i]
        BY <1>8
    <2>4. Aimed(s, Behind(d, i - 1))
        BY <1>12, <2>2
    <2>5. /\ Aimed(t, Behind(d, i))
          /\ \A x \in Behind(d, i - 1) : x \in Behind(d, i)
                    \/ \E j \in 1 .. Len(t) : t[j].kind \in Children /\ t[j].id = x
        BY <1>9, <2>3
    <2>6. Aimed(s \o t, Behind(d, i))
        BY <2>4, <2>5, AimedJoined
    <2>7. Aimed(f[i], Behind(d, i))
        BY <2>1, <2>2, <2>3, <2>6
    <2> QED
        BY <2>7
<1>13. Aimed(f[n], Behind(d, n))
    <2> HIDE DEF Good
    <2>1. Inductive(Good, n)
        BY <1>11, <1>12 DEF Inductive
    <2>2. n \in Good
        BY <2>1, UpTo
    <2> QED
        BY <2>2 DEF Good
<1>14. Behind(d, n) = {}
    BY <1>3 DEF Behind
<1>15. FlattenSeq(templates) = f[n]
    BY <1>10 DEF Flattens
<1>16. FlattenSeq(templates) \in Seq(T)
    BY <1>8, FlattenedType
<1>17. FlattenSeq(templates) \in Seq(T) /\ Aimed(FlattenSeq(templates), {})
    BY <1>13, <1>14, <1>15, <1>16
<1> QED
    BY <1>1, <1>17 DEF d, T

(***************************************************************************)
(* The begins that are open between stylesheets 1 and 2: those behind      *)
(* whose target the document has not come.                                 *)
(***************************************************************************)
IsTarget(d, b, j) ==
    /\ j \in b + 1 .. Len(d)
    /\ d[j].kind \in Children
    /\ d[j].id = d[b].IfTrue
    /\ \A i \in 1 .. Len(d) : d[i].id = d[b].IfTrue /\ (d[i].kind \in Children \/ i < j) => i = j

Targets(target, d) == \A b \in 1 .. Len(d) : d[b].kind = "begin" => IsTarget(d, b, target[b])

Pending(d, target, i) == {b \in 1 .. i : d[b].kind = "begin" /\ target[b] > i}

\* A begin has one target, and nothing before it has the identifier of that.
LEMMA BeginsHaveTargets ==
    ASSUME NEW q \in Questionnaires, NEW d \in Seq(MarkedTag(q)), Kept(d) = q.document, Aimed(d, {})
    PROVE  \E target : Targets(target, d)
<1>1. d \in Seq(Tag(q)) /\ Len(d) \in Nat
    <2>1. MarkedTag(q) \subseteq Tag(q)
        BY DEF MarkedTag, Tag
    <2> QED
        BY <2>1
<1>2. \A i \in 1 .. Len(d) :
          \/ d[i].kind = "begin" /\ d[i].id \in GoToIds(q) /\ d[i].IfTrue \in Names(q)
          \/ d[i].kind \in Children \cup {"/sequence"} /\ d[i].id \in Names(q)
    <2>1. \A t \in MarkedTag(q) :
              \/ t.kind = "begin" /\ t.id \in GoToIds(q) /\ t.IfTrue \in Names(q)
              \/ t.kind \in Children \cup {"/sequence"} /\ t.id \in Names(q)
        BY DEF MarkedTag, StructureTag, BeginTag, Children
    <2> QED
        BY <2>1
<1>3. \A g \in GoToIds(q) : g \notin Names(q)
    BY QuestionnaireShape DEF GoToIds
<1>4. ASSUME NEW i \in 1 .. Len(d), NEW j \in 1 .. Len(d),
             d[i].kind \in Children, d[j].kind \in Children, d[i].id = d[j].id
      PROVE  i = j
    <2>1. PICK s : s = q.document
        OBVIOUS
    <2>2. PICK o : Places(o, s, d)
        BY <2>1, KeptPlaces, Zenon
    <2>3. IsKept(d[i]) /\ IsKept(d[j])
        BY <1>4 DEF IsKept
    <2>4. PICK k, l \in 1 .. Len(o) : o[k] = i /\ o[l] = j
        BY <2>2, <2>3 DEF Places
    <2>5. s[k] = d[i] /\ s[l] = d[j] /\ k \in 1 .. Len(s) /\ l \in 1 .. Len(s)
        BY <2>2, <2>4 DEF Places
    <2>6. DOMAIN s = 1 .. Len(s)
        BY <2>1, QuestionnaireTypes
    <2>7. \A x, y \in DOMAIN s :
              s[x].kind \in Children /\ s[y].kind \in Children /\ s[x].id = s[y].id => x = y
        BY <2>1, QuestionnaireShape
    <2>8. k = l
        BY <1>4, <2>5, <2>6, <2>7
    <2> QED
        BY <2>4, <2>8
<1>5. ASSUME NEW b \in 1 .. Len(d), d[b].kind = "begin" PROVE \E j : IsTarget(d, b, j)
    <2>1. PICK j \in b + 1 .. Len(d) : d[j].kind \in Children /\ d[j].id = d[b].IfTrue
        BY <1>5 DEF Aimed
    <2>2. j \in 1 .. Len(d)
        BY <1>1
    <2>3. ASSUME NEW i \in 1 .. Len(d), d[i].id = d[b].IfTrue, d[i].kind \in Children \/ i < j PROVE i = j
        <3>1. d[i].kind \in Children \cup {"/sequence"}
            BY <1>2, <1>3, <1>5, <2>3
        <3>2. CASE d[i].kind \in Children
            BY <1>4, <2>1, <2>2, <2>3, <3>2
        <3>3. CASE d[i].kind = "/sequence"
            <4>1. i < j
                BY <2>3, <3>3 DEF Children
            <4>2. PICK h \in 1 .. i : d[h].kind = "sequence" /\ d[h].id = d[i].id
                BY <1>1, <3>3, OpenedBefore
            <4>3. h \in 1 .. Len(d) /\ d[h].kind \in Children
                BY <1>1, <4>2 DEF Children
            <4>4. h = j
                BY <1>4, <2>1, <2>2, <2>3, <4>2, <4>3
            <4> QED
                BY <1>1, <4>1, <4>2, <4>4
        <3> QED
            BY <3>1, <3>2, <3>3
    <2>4. IsTarget(d, b, j)
        BY <2>1, <2>3 DEF IsTarget
    <2> QED
        BY <2>4
<1> DEFINE target == [b \in 1 .. Len(d) |-> CHOOSE j : IsTarget(d, b, j)]
<1>6. \A b \in 1 .. Len(d) : d[b].kind = "begin" => IsTarget(d, b, target[b])
    BY <1>5
<1>7. Targets(target, d)
    BY <1>6 DEF Targets
<1> QED
    BY <1>7

\* How the open begins change from one tag to the next.
LEMMA PendingNext ==
    ASSUME NEW d, Len(d) \in Nat, NEW target, Targets(target, d), NEW i \in 1 .. Len(d)
    PROVE  /\ d[i].kind = "begin" =>
                 \A b \in 1 .. Len(d) :
                    b \in Pending(d, target, i) <=> b \in Pending(d, target, i - 1) \/ b = i
           /\ d[i].kind # "begin" /\ ~ (d[i].kind \in Children /\ PointingAt(d, i) # {}) =>
                 Pending(d, target, i) = Pending(d, target, i - 1)
<1>1. \A b \in 1 .. Len(d) : d[b].kind = "begin" =>
          /\ target[b] \in b + 1 .. Len(d) /\ d[target[b]].kind \in Children
          /\ d[target[b]].id = d[b].IfTrue
    BY DEF Targets, IsTarget
<1>2. CASE d[i].kind = "begin"
    <2>1. ASSUME NEW b \in 1 .. Len(d)
          PROVE  b \in Pending(d, target, i) <=> b \in Pending(d, target, i - 1) \/ b = i
        <3>1. d[b].kind = "begin" => target[b] \in b + 1 .. Len(d) /\ target[b] # i
            BY <1>1, <1>2 DEF Children
        <3> QED
            BY <1>2, <3>1 DEF Pending
    <2> QED
        BY <1>2, <2>1
<1>3. CASE d[i].kind # "begin" /\ ~ (d[i].kind \in Children /\ PointingAt(d, i) # {})
    <2>1. ASSUME NEW b \in 1 .. i, d[b].kind = "begin" PROVE b \in 1 .. i - 1 /\ target[b] # i
        <3>1. b # i /\ b \in 1 .. Len(d) /\ b \in 1 .. i - 1
            BY <1>3, <2>1
        <3>2. CASE target[b] = i
            <4>1. d[i].kind \in Children /\ d[b].IfTrue = d[i].id
                BY <1>1, <2>1, <3>1, <3>2
            <4>2. b \in PointingAt(d, i)
                BY <2>1, <3>1, <4>1 DEF PointingAt, Kind
            <4> QED
                BY <1>3, <4>1, <4>2
        <3> QED
            BY <3>1, <3>2
    <2>2. \A b \in 1 .. i : d[b].kind = "begin" => target[b] \in Nat
        <3>1. \A b \in 1 .. i : b \in 1 .. Len(d)
            OBVIOUS
        <3>2. \A b \in 1 .. i : \A x \in b + 1 .. Len(d) : x \in Nat
            OBVIOUS
        <3> QED
            BY <1>1, <3>1, <3>2
    <2>3. \A b \in 1 .. i - 1 : b \in 1 .. i
        OBVIOUS
    <2>4. \A b \in 1 .. i : d[b].kind = "begin" => (target[b] > i <=> target[b] > i - 1)
        BY <2>1, <2>2
    <2> QED
        BY <1>3, <2>1, <2>3, <2>4 DEF Pending
<1> QED
    BY <1>2, <1>3

\* At a target, the first of what points there and what is open behind it end,
\* and those that point farther begin again.
LEMMA PendingAtTarget ==
    ASSUME NEW d, Len(d) \in Nat, NEW target, Targets(target, d), NEW i \in 1 .. Len(d),
           d[i].kind \in Children, PointingAt(d, i) # {}
    PROVE  LET first == Min(PointingAt(d, i))
               low == {b \in Pending(d, target, i - 1) : b < first} IN
           /\ \A b \in 1 .. Len(d) : b \in Pending(d, target, i - 1) <=> b \in low \/ b \in OpenAt(d, i)
           /\ \A b \in 1 .. Len(d) : b \in Pending(d, target, i) <=>
                                        b \in low \/ b \in OpenAt(d, i) \ PointingAt(d, i)
           /\ \A b, c \in 1 .. Len(d) : b \in low /\ c \in OpenAt(d, i) => b < c
<1> DEFINE P == PointingAt(d, i)
           first == Min(P)
           low == {b \in Pending(d, target, i - 1) : b < first}
<1>1. \A b \in 1 .. Len(d) : d[b].kind = "begin" =>
          /\ target[b] \in b + 1 .. Len(d) /\ target[b] \in Nat
          /\ d[target[b]].id = d[b].IfTrue
          /\ \A j \in 1 .. Len(d) : d[j].id = d[b].IfTrue /\ (d[j].kind \in Children \/ j < target[b]) => j = target[b]
    <2>1. \A b \in 1 .. Len(d) : \A x \in b + 1 .. Len(d) : x \in Nat
        OBVIOUS
    <2> QED
        BY <2>1 DEF Targets, IsTarget
<1>2. \A b \in 1 .. Len(d) : b \in P <=> b \in 1 .. i - 1 /\ d[b].kind = "begin" /\ target[b] = i
    <2>1. \A b \in 1 .. Len(d) :
              b \in P <=> b \in 1 .. i - 1 /\ d[b].kind = "begin" /\ d[b].IfTrue = d[i].id
        BY DEF PointingAt, Kind
    <2>2. \A b \in 1 .. Len(d) : d[b].kind = "begin" => (d[b].IfTrue = d[i].id <=> target[b] = i)
        BY <1>1
    <2> HIDE DEF P
    <2> QED
        BY <2>1, <2>2
<1>3. P \subseteq Nat /\ P # {} /\ \A b \in P : b \in 1 .. i - 1
    BY DEF PointingAt, Kind
<1> HIDE DEF P
<1>4. first \in P /\ \A b \in P : first <= b
    BY <1>3, SmallestNumber
<1>5. first \in 1 .. i - 1
    BY <1>3, <1>4
<1>6. OpenAt(d, i) = {b \in Kind(d, "begin", first, i - 1) : d[b].IfTrue \notin {d[j].id : j \in first + 1 .. i - 1}}
    BY DEF OpenAt, P
<1> HIDE DEF first
<1>7. \A b \in 1 .. Len(d) : b \in OpenAt(d, i) <=>
          b \in first .. i - 1 /\ d[b].kind = "begin" /\ \A j \in first + 1 .. i - 1 : d[j].id # d[b].IfTrue
    BY <1>6 DEF Kind
<1>8. ASSUME NEW b \in 1 .. Len(d), d[b].kind = "begin", b \in first .. i - 1
      PROVE  (\A j \in first + 1 .. i - 1 : d[j].id # d[b].IfTrue) <=> target[b] >= i
    <2>1. CASE target[b] >= i
        <3>1. target[b] \in Nat
            BY <1>1, <1>8
        <3>2. \A j \in first + 1 .. i - 1 : j \in 1 .. Len(d) /\ j < i
            BY <1>5
        <3>3. \A j \in first + 1 .. i - 1 : j < target[b] /\ j # target[b]
            BY <2>1, <3>1, <3>2
        <3> QED
            BY <1>1, <1>8, <2>1, <3>2, <3>3
    <2>2. CASE ~ (target[b] >= i)
        <3>1. target[b] \in first + 1 .. i - 1
            BY <1>1, <1>5, <1>8, <2>2
        <3> QED
            BY <1>1, <1>8, <2>2, <3>1
    <2> QED
        BY <2>1, <2>2
<1>9. \A b \in 1 .. Len(d) : b \in OpenAt(d, i) <=>
          b \in first .. i - 1 /\ d[b].kind = "begin" /\ target[b] >= i
    BY <1>7, <1>8
<1>10. \A b \in 1 .. Len(d) : b \in low <=>
           b \in 1 .. i - 1 /\ d[b].kind = "begin" /\ target[b] > i - 1 /\ b < first
    BY DEF Pending
<1>11. \A b \in 1 .. Len(d) : b \in Pending(d, target, i - 1) <=>
           b \in 1 .. i - 1 /\ d[b].kind = "begin" /\ target[b] > i - 1
    BY DEF Pending
<1>12. \A b \in 1 .. Len(d) : b \in Pending(d, target, i) <=>
           b \in 1 .. i - 1 /\ d[b].kind = "begin" /\ target[b] > i
    <2>1. d[i].kind # "begin"
        BY DEF Children
    <2>2. \A b \in 1 .. Len(d) : b \in 1 .. i /\ d[b].kind = "begin" <=> b \in 1 .. i - 1 /\ d[b].kind = "begin"
        BY <2>1
    <2> QED
        BY <2>2 DEF Pending
<1> HIDE DEF low
<1>13. ASSUME NEW b \in 1 .. Len(d)
       PROVE  b \in Pending(d, target, i - 1) <=> b \in low \/ b \in OpenAt(d, i)
    <2>1. d[b].kind = "begin" => target[b] \in Nat
        BY <1>1
    <2>2. b \in 1 .. i - 1 => (b < first \/ b \in first .. i - 1)
        BY <1>5
    <2> QED
        BY <1>5, <1>9, <1>10, <1>11, <2>1, <2>2
<1>14. ASSUME NEW b \in 1 .. Len(d)
       PROVE  b \in Pending(d, target, i) <=> b \in low \/ b \in OpenAt(d, i) \ P
    <2>1. b \in P => first <= b
        BY <1>4
    <2>2. d[b].kind = "begin" => target[b] \in Nat
        BY <1>1
    <2> QED
        BY <1>2, <1>5, <1>9, <1>10, <1>12, <2>1, <2>2
<1>15. \A b, c \in 1 .. Len(d) : b \in low /\ c \in OpenAt(d, i) => b < c
    BY <1>5, <1>9, <1>10
<1> QED
    BY <1>13, <1>14, <1>15 DEF P, first, low

\* The front of two sequences that are joined.
LEMMA FrontOfJoined ==
    ASSUME NEW U, NEW v \in Seq(U), NEW y \in Seq(U)
    PROVE  /\ Len(v \o y) = Len(v) + Len(y)
           /\ \A k \in 1 .. Len(y) : (v \o y)[Len(v) + k] = y[k]
           /\ SubSeq(v \o y, 1, Len(v)) = v
<1>1. PICK w : w = v \o y
    OBVIOUS
<1>2. /\ w \in Seq(U) /\ Len(w) = Len(v) + Len(y) /\ Len(v) \in Nat /\ Len(y) \in Nat
      /\ \A k \in 1 .. Len(v) : w[k] = v[k]
      /\ \A k \in 1 .. Len(y) : w[Len(v) + k] = y[k]
    <2>1. Parts(w, U, v, y)
        BY <1>1, JoinedParts
    <2> QED
        BY <2>1 DEF Parts
<1>3. PICK x : x = SubSeq(w, 1, Len(v))
    OBVIOUS
<1>4. x \in Seq(U) /\ Len(x) = Len(v) /\ \A k \in 1 .. Len(v) : x[k] = w[k]
    <2>1. Len(v) \in 0 .. Len(w) /\ \A k \in 1 .. Len(v) : k \in 1 .. Len(w)
        BY <1>2
    <2> QED
        BY <1>2, <1>3, <2>1
<1>5. \A k \in 1 .. Len(v) : x[k] = v[k]
    BY <1>2, <1>4
<1>6. x = v
    BY <1>4, <1>5
<1> QED
    BY <1>1, <1>2, <1>3, <1>6

\* The stack that the tags at the positions of o make.
Ids(d, o) == [k \in 1 .. Len(o) |-> d[o[k]].id]

Within(d, o, U) == o \in Seq(Nat) /\ \A k \in 1 .. Len(o) : d[o[k]].id \in U

Join(d, s, t, U) ==
    /\ Ids(d, s) \in Seq(U) /\ Len(Ids(d, s)) = Len(s)
    /\ Ids(d, t) \in Seq(U) /\ Len(Ids(d, t)) = Len(t)
    /\ Ids(d, s \o t) \in Seq(U) /\ Ids(d, s \o t) = Ids(d, s) \o Ids(d, t)

\* The stack of two lists of positions is one upon the other.
LEMMA IdsJoined ==
    ASSUME NEW d, NEW U, NEW s, NEW t, Within(d, s, U), Within(d, t, U)
    PROVE  Join(d, s, t, U)
<1> USE DEF Within
<1>1. PICK a : a = Ids(d, s)
    OBVIOUS
<1>2. PICK b : b = Ids(d, t)
    OBVIOUS
<1>3. a \in Seq(U) /\ Len(a) = Len(s) /\ \A k \in 1 .. Len(s) : a[k] = d[s[k]].id
    BY <1>1 DEF Ids
<1>4. b \in Seq(U) /\ Len(b) = Len(t) /\ \A k \in 1 .. Len(t) : b[k] = d[t[k]].id
    BY <1>2 DEF Ids
<1>5. PICK u : u = s \o t
    OBVIOUS
<1>6. PICK m \in Nat : m = Len(s)
    OBVIOUS
<1>7. PICK n \in Nat : n = Len(t)
    OBVIOUS
<1>8. /\ u \in Seq(Nat) /\ Len(u) = m + n
      /\ \A k \in 1 .. m : u[k] = s[k]
      /\ \A k \in 1 .. n : u[m + k] = t[k]
    BY <1>5, <1>6, <1>7
<1>9. PICK w : w = Ids(d, u)
    OBVIOUS
<1>10. Len(w) = m + n /\ \A k \in 1 .. m + n : w[k] = d[u[k]].id
    BY <1>8, <1>9 DEF Ids
<1>11. ASSUME NEW k \in 1 .. m PROVE w[k] = a[k]
    <2>1. k \in 1 .. m + n
        OBVIOUS
    <2>2. w[k] = d[u[k]].id /\ u[k] = s[k] /\ a[k] = d[s[k]].id
        BY <1>3, <1>6, <1>8, <1>10, <2>1
    <2> QED
        BY <2>2
<1>12. ASSUME NEW k \in 1 .. n PROVE w[m + k] = b[k]
    <2>1. m + k \in 1 .. m + n
        OBVIOUS
    <2>2. w[m + k] = d[u[m + k]].id /\ u[m + k] = t[k] /\ b[k] = d[t[k]].id
        BY <1>4, <1>7, <1>8, <1>10, <2>1
    <2> QED
        BY <2>2
<1>13. ASSUME NEW k \in 1 .. m + n PROVE d[u[k]].id \in U
    <2>1. CASE k \in 1 .. m
        BY <1>6, <1>8, <2>1
    <2>2. CASE k \notin 1 .. m
        <3>1. k - m \in 1 .. n /\ m + (k - m) = k
            BY <2>2
        <3>2. u[k] = t[k - m]
            BY <1>8, <3>1
        <3> QED
            BY <1>7, <3>1, <3>2
    <2> QED
        BY <2>1, <2>2
<1>14. w \in Seq(U)
    <2>1. w = [k \in 1 .. m + n |-> d[u[k]].id]
        BY <1>8, <1>9 DEF Ids
    <2>2. PICK l \in Nat : l = m + n
        OBVIOUS
    <2>3. w \in [1 .. l -> U]
        BY <1>13, <2>1, <2>2
    <2>4. \A g \in [1 .. l -> U] : g \in Seq(U)
        OBVIOUS
    <2> QED
        BY <2>3, <2>4
<1>15. Len(w) = Len(a) + Len(b)
    BY <1>3, <1>4, <1>6, <1>7, <1>10
<1>16. w = a \o b
    <2>1. \A k \in 1 .. Len(a) : w[k] = a[k]
        BY <1>3, <1>6, <1>11
    <2>2. \A k \in 1 .. Len(b) : w[Len(a) + k] = b[k]
        BY <1>3, <1>4, <1>6, <1>7, <1>12
    <2> QED
        BY <1>3, <1>4, <1>14, <1>15, <2>1, <2>2, JoinedIs
<1> QED
    BY <1>1, <1>2, <1>3, <1>4, <1>5, <1>9, <1>14, <1>16 DEF Join

\* The ends and begins before a target take what is open behind the first that
\* points there off the stack, and put back what points farther.
LEMMA ReadsEndings ==
    ASSUME NEW q, NEW d \in Seq(Tag(q)), NEW i,
           NEW low, Within(d, low, GoToIds(q))
    PROVE  LET ended == InOrder(d, OpenAt(d, i))
               again == InOrder(d, OpenAt(d, i) \ PointingAt(d, i)) IN
           Reads(Ids(d, low \o ended), EndsAndReopenings(d, i), Ids(d, low \o again))
<1> DEFINE U == GoToIds(q)
<1>1. \A b \in OpenAt(d, i) : d[b].kind = "begin"
    BY DEF OpenAt, Kind
<1>2. PICK o : o = InOrder(d, OpenAt(d, i))
    OBVIOUS
<1>3. o \in Seq(Nat) /\ \A k \in 1 .. Len(o) : o[k] \in 1 .. Len(d) /\ d[o[k]] \in BeginTag(q)
    BY <1>1, <1>2, BeginsInOrder
<1>4. PICK a : a = InOrder(d, OpenAt(d, i) \ PointingAt(d, i))
    OBVIOUS
<1>5. a \in Seq(Nat) /\ \A k \in 1 .. Len(a) : a[k] \in 1 .. Len(d) /\ d[a[k]] \in BeginTag(q)
    <2>1. \A b \in OpenAt(d, i) \ PointingAt(d, i) : d[b].kind = "begin"
        BY <1>1
    <2> QED
        BY <1>4, <2>1, BeginsInOrder
<1>6. PICK r : r = Reverse(o)
    OBVIOUS
<1>7. r \in Seq(Nat) /\ Len(r) = Len(o) /\ DOMAIN r = 1 .. Len(o)
      /\ \A k \in 1 .. Len(o) : r[k] = o[Len(o) - k + 1]
    BY <1>3, <1>6, Reversed
<1>8. PICK ends : ends = [n \in 1 .. Len(o) |-> End(d[r[n]].id)]
    OBVIOUS
<1>9. PICK begins : begins = [n \in 1 .. Len(a) |-> Reopened(d, i, a[n])]
    OBVIOUS
<1>10. EndsAndReopenings(d, i) = ends \o begins
    <2>1. DOMAIN a = 1 .. Len(a)
        BY <1>5
    <2> QED
        BY <1>2, <1>4, <1>6, <1>7, <1>8, <1>9, <2>1 DEF EndsAndReopenings
<1>11. \A t \in BeginTag(q) : t.id \in U
    BY DEF BeginTag
<1>12. (\A k \in 1 .. Len(o) : d[o[k]].id \in U) /\ (\A k \in 1 .. Len(a) : d[a[k]].id \in U)
    BY <1>3, <1>5, <1>11
<1>13. Len(o) \in Nat /\ Len(a) \in Nat /\ Len(low) \in Nat
    BY <1>3, <1>5 DEF Within
<1>14. ends \in Seq(Tag(q)) /\ Len(ends) = Len(o)
       /\ \A k \in 1 .. Len(o) : ends[k].kind = "end" /\ ends[k].id = d[o[Len(o) - k + 1]].id
    <2>1. \A n \in 1 .. Len(o) : r[n] = o[Len(o) - n + 1] /\ d[r[n]].id \in U
        <3>1. \A n \in 1 .. Len(o) : Len(o) - n + 1 \in 1 .. Len(o)
            BY <1>13
        <3> QED
            BY <1>7, <1>12, <3>1
    <2>2. \A x \in U : End(x) \in Tag(q)
        BY DEF End, Tag, EndTag
    <2>3. \A n \in 1 .. Len(o) : End(d[r[n]].id) \in Tag(q)
        BY <2>1, <2>2
    <2>4. ends \in Seq(Tag(q)) /\ Len(ends) = Len(o)
        BY <1>8, <1>13, <2>3
    <2>5. \A k \in 1 .. Len(o) : ends[k].kind = "end" /\ ends[k].id = d[r[k]].id
        BY <1>8 DEF End
    <2> QED
        BY <2>1, <2>4, <2>5
<1>15. begins \in Seq(Tag(q)) /\ Len(begins) = Len(a)
       /\ \A k \in 1 .. Len(a) : begins[k].kind = "begin" /\ begins[k].id = d[a[k]].id
    <2>1. \A n \in 1 .. Len(a) : Reopened(d, i, a[n]) \in BeginTag(q) /\ Reopened(d, i, a[n]).id = d[a[n]].id
        BY <1>5, ReopenedType
    <2>2. \A t \in BeginTag(q) : t \in Tag(q) /\ t.kind = "begin"
        BY DEF Tag, BeginTag
    <2>3. begins \in Seq(Tag(q)) /\ Len(begins) = Len(a)
        BY <1>9, <1>13, <2>1, <2>2
    <2> QED
        BY <1>9, <2>1, <2>2, <2>3
<1> HIDE DEF U
<1>16. PICK v : v = Ids(d, low)
    OBVIOUS
<1>17. PICK w : w = Ids(d, low \o o)
    OBVIOUS
<1>18. PICK x : x = Ids(d, low \o a)
    OBVIOUS
<1>19. PICK y : y = Ids(d, o)
    OBVIOUS
<1>20. PICK z : z = Ids(d, a)
    OBVIOUS
<1>21. Within(d, low, U)
    BY DEF U
<1>22. /\ v \in Seq(U) /\ Len(v) = Len(low) /\ w \in Seq(U) /\ w = v \o y
       /\ y \in Seq(U) /\ Len(y) = Len(o)
    <2>1. Join(d, low, o, U)
        <3>1. Within(d, o, U)
            BY <1>3, <1>12 DEF Within
        <3> QED
            BY <1>21, <3>1, IdsJoined
    <2> QED
        BY <1>16, <1>17, <1>19, <2>1 DEF Join
<1>23. /\ x \in Seq(U) /\ x = v \o z
       /\ z \in Seq(U) /\ Len(z) = Len(a)
    <2>1. Join(d, low, a, U)
        <3>1. Within(d, a, U)
            BY <1>5, <1>12 DEF Within
        <3> QED
            BY <1>21, <3>1, IdsJoined
    <2> QED
        BY <1>16, <1>18, <1>20, <2>1 DEF Join
<1>24. /\ \A k \in 1 .. Len(o) : y[k] = d[o[k]].id
       /\ \A k \in 1 .. Len(a) : z[k] = d[a[k]].id
    BY <1>19, <1>20 DEF Ids
<1>25. SubSeq(w, 1, Len(low)) = v /\ Len(w) = Len(low) + Len(o)
       /\ \A k \in 1 .. Len(o) : w[Len(low) + k] = d[o[k]].id
    <2>1. /\ SubSeq(v \o y, 1, Len(v)) = v /\ Len(v \o y) = Len(v) + Len(y)
          /\ \A k \in 1 .. Len(y) : (v \o y)[Len(v) + k] = y[k]
        <3>1. v \in Seq(U) /\ y \in Seq(U)
            BY <1>22
        <3> QED
            BY <3>1, FrontOfJoined, Zenon
    <2>2. /\ SubSeq(w, 1, Len(v)) = v /\ Len(w) = Len(v) + Len(y)
          /\ \A k \in 1 .. Len(y) : w[Len(v) + k] = y[k]
        BY <1>22, <2>1, Zenon
    <2> QED
        BY <1>22, <1>24, <2>2
<1>26. SubSeq(x, 1, Len(low)) = v /\ Len(x) = Len(low) + Len(a)
       /\ \A k \in 1 .. Len(a) : x[Len(low) + k] = d[a[k]].id
    <2>1. /\ SubSeq(v \o z, 1, Len(v)) = v /\ Len(v \o z) = Len(v) + Len(z)
          /\ \A k \in 1 .. Len(z) : (v \o z)[Len(v) + k] = z[k]
        <3>1. v \in Seq(U) /\ z \in Seq(U)
            BY <1>22, <1>23
        <3> QED
            BY <3>1, FrontOfJoined, Zenon
    <2>2. /\ SubSeq(x, 1, Len(v)) = v /\ Len(x) = Len(v) + Len(z)
          /\ \A k \in 1 .. Len(z) : x[Len(v) + k] = z[k]
        BY <1>23, <2>1, Zenon
    <2> QED
        BY <1>22, <1>23, <1>24, <2>2
<1>27. Reads(w, ends, v)
    <2>1. \A k \in 1 .. Len(ends) : ends[k].kind = "end" /\ ends[k].id = w[Len(w) - k + 1]
        <3>1. \A k \in 1 .. Len(o) : Len(o) - k + 1 \in 1 .. Len(o) /\ Len(low) + (Len(o) - k + 1) = Len(w) - k + 1
            BY <1>13, <1>25
        <3>2. \A k \in 1 .. Len(o) : w[Len(w) - k + 1] = d[o[Len(o) - k + 1]].id
            BY <1>25, <3>1
        <3> QED
            BY <1>14, <3>2
    <2>2. Len(ends) \in Nat /\ Len(w) = Len(low) + Len(ends)
        BY <1>13, <1>14, <1>25
    <2>3. Reads(w, ends, SubSeq(w, 1, Len(low)))
        BY <1>13, <1>22, <2>1, <2>2, ReadsEnds
    <2> QED
        BY <1>25, <2>3
<1>28. Reads(v, begins, x)
    <2>1. \A k \in 1 .. Len(begins) : begins[k].kind = "begin" /\ begins[k].id = x[Len(low) + k]
        BY <1>15, <1>26
    <2>2. Len(begins) \in Nat /\ Len(x) = Len(low) + Len(begins)
        BY <1>13, <1>15, <1>26
    <2>3. Reads(SubSeq(x, 1, Len(low)), begins, x)
        BY <1>13, <1>23, <2>1, <2>2, ReadsBegins
    <2> QED
        BY <1>26, <2>3
<1>29. Reads(w, ends \o begins, x)
    <2>1. ends \in Seq(Tag(q)) /\ begins \in Seq(Tag(q))
        BY <1>14, <1>15
    <2> QED
        BY <1>27, <1>28, <2>1, ReadsJoined, Zenon
<1>30. Reads(Ids(d, low \o o), EndsAndReopenings(d, i), Ids(d, low \o a))
    BY <1>10, <1>17, <1>18, <1>29, Zenon
<1> QED
    BY <1>2, <1>4, <1>30, Zenon

\* What has begun and not ended in the result, in front of the tag behind i.
Stack(d, target, i) == Ids(d, InOrder(d, Pending(d, target, i)))

\* The positions of begins, in their order, make a stack of GoTos.
LEMMA PositionsInOrder ==
    ASSUME NEW q, NEW d \in Seq(Tag(q)), NEW P, \A b \in P : d[b].kind = "begin"
    PROVE  Within(d, InOrder(d, P), GoToIds(q)) /\ Lists(InOrder(d, P), P, Len(d))
<1>1. PICK o : o = InOrder(d, P)
    OBVIOUS
<1>2. o \in Seq(Nat) /\ \A k \in 1 .. Len(o) : d[o[k]] \in BeginTag(q)
    BY <1>1, BeginsInOrder
<1>3. \A t \in BeginTag(q) : t.id \in GoToIds(q)
    BY DEF BeginTag
<1>4. Within(d, o, GoToIds(q))
    BY <1>2, <1>3 DEF Within
<1>5. Lists(InOrder(d, P), P, Len(d))
    BY InOrderLists
<1> QED
    BY <1>1, <1>4, <1>5

\* What is open are begins.
LEMMA OpenBegins ==
    \A d, target, i : \A b \in Pending(d, target, i) : d[b].kind = "begin" /\ b \in 1 .. i
BY DEF Pending

\* A tag that is copied alone: a begin opens, others leave the stack.
LEMMA ReadsCopied ==
    ASSUME NEW q, NEW d \in Seq(Tag(q)), NEW target, Targets(target, d), NEW i \in 1 .. Len(d),
           d[i].kind # "end", ~ (d[i].kind \in Children /\ PointingAt(d, i) # {})
    PROVE  Reads(Stack(d, target, i - 1), <<d[i]>>, Stack(d, target, i))
<1>1. PICK P : P = Pending(d, target, i - 1)
    OBVIOUS
<1>2. PICK R : R = Pending(d, target, i)
    OBVIOUS
<1>3. PICK s : s = InOrder(d, P)
    OBVIOUS
<1>4. Stack(d, target, i - 1) = Ids(d, s) /\ Stack(d, target, i) = Ids(d, InOrder(d, R))
    BY <1>1, <1>2, <1>3 DEF Stack
<1>5. Len(d) \in Nat
    OBVIOUS
<1>6. ReadTag(Ids(d, s), d[i]) = Ids(d, InOrder(d, R))
    <2>1. CASE d[i].kind = "begin"
        <3>1. Within(d, s, GoToIds(q)) /\ Lists(s, P, Len(d))
            <4>1. \A b \in P : d[b].kind = "begin"
                BY <1>1, OpenBegins, Zenon
            <4> QED
                BY <1>3, <4>1, PositionsInOrder
        <3>2. PICK t : t = <<i>>
            OBVIOUS
        <3>3. t \in Seq(Nat) /\ Len(t) = 1 /\ t[1] = i
            BY <3>2
        <3>4. Within(d, t, GoToIds(q)) /\ Lists(t, {i}, Len(d))
            <4>1. \A x \in Tag(q) : x.kind = "begin" => x.id \in GoToIds(q)
                BY DEF Tag, StructureTag, BeginTag, EndTag
            <4>2. d[i].id \in GoToIds(q)
                BY <2>1, <4>1
            <4> QED
                BY <3>3, <4>2 DEF Within, Lists
        <3>5. Lists(s \o t, R, Len(d))
            <4>1. \A b, c \in 1 .. Len(d) : b \in P /\ c \in {i} => b < c
                <5>1. \A b \in P : b \in 1 .. i - 1
                    BY <1>1, OpenBegins, Zenon
                <5> QED
                    BY <5>1
            <4>2. \A b \in 1 .. Len(d) : b \in R <=> b \in P \/ b \in {i}
                BY <1>1, <1>2, <2>1, PendingNext
            <4> QED
                BY <1>5, <3>1, <3>4, <4>1, <4>2, ListsJoined
        <3>6. InOrder(d, R) = s \o t
            BY <1>5, <3>5, InOrderIs
        <3>7. Join(d, s, t, GoToIds(q))
            BY <3>1, <3>4, IdsJoined
        <3>8. Ids(d, t) = <<d[i].id>>
            BY <3>3 DEF Ids
        <3>9. Ids(d, s \o t) = Append(Ids(d, s), d[i].id)
            <4>1. PICK v : v = Ids(d, s)
                OBVIOUS
            <4>2. v \in Seq(GoToIds(q)) /\ Ids(d, s \o t) = v \o <<d[i].id>>
                BY <3>7, <3>8, <4>1 DEF Join
            <4>3. v \o <<d[i].id>> = Append(v, d[i].id)
                BY <4>2
            <4> QED
                BY <4>1, <4>2, <4>3
        <3> QED
            BY <2>1, <3>6, <3>9 DEF ReadTag
    <2>2. CASE d[i].kind # "begin"
        <3>1. P = R
            BY <1>1, <1>2, <2>2, PendingNext
        <3> QED
            BY <1>3, <2>2, <3>1 DEF ReadTag
    <2> QED
        BY <2>1, <2>2
<1>7. Reads(Ids(d, s), <<d[i]>>, ReadTag(Ids(d, s), d[i]))
    BY ReadsOne
<1> QED
    BY <1>4, <1>6, <1>7, Zenon

\* One that begins point at, with what ends and begins again in front of it.
LEMMA ReadsTarget ==
    ASSUME NEW q, NEW d \in Seq(Tag(q)), NEW target, Targets(target, d), NEW i \in 1 .. Len(d),
           d[i].kind \in Children, PointingAt(d, i) # {}
    PROVE  Reads(Stack(d, target, i - 1), EndsAndReopenings(d, i) \o <<d[i]>>, Stack(d, target, i))
<1>1. PICK P : P = Pending(d, target, i - 1)
    OBVIOUS
<1>2. PICK R : R = Pending(d, target, i)
    OBVIOUS
<1>3. PICK O : O = OpenAt(d, i)
    OBVIOUS
<1>4. PICK A : A = OpenAt(d, i) \ PointingAt(d, i)
    OBVIOUS
<1>5. PICK L : L = {b \in P : b < Min(PointingAt(d, i))}
    OBVIOUS
<1>6. /\ \A b \in 1 .. Len(d) : b \in P <=> b \in L \/ b \in O
      /\ \A b \in 1 .. Len(d) : b \in R <=> b \in L \/ b \in A
      /\ \A b, c \in 1 .. Len(d) : b \in L /\ c \in O => b < c
    BY <1>1, <1>2, <1>3, <1>4, <1>5, PendingAtTarget
<1>7. \A b, c \in 1 .. Len(d) : b \in L /\ c \in A => b < c
    BY <1>3, <1>4, <1>6
<1>8. PICK low : low = InOrder(d, L)
    OBVIOUS
<1>9. Within(d, low, GoToIds(q)) /\ Lists(low, L, Len(d))
    <2>1. \A b \in L : d[b].kind = "begin"
        BY <1>1, <1>5, OpenBegins, Zenon
    <2> QED
        BY <1>8, <2>1, PositionsInOrder
<1>10. Lists(InOrder(d, O), O, Len(d)) /\ Lists(InOrder(d, A), A, Len(d)) /\ Len(d) \in Nat
    BY InOrderLists
<1>11. InOrder(d, P) = low \o InOrder(d, O)
    <2>1. Lists(low \o InOrder(d, O), P, Len(d))
        BY <1>6, <1>9, <1>10, ListsJoined
    <2> QED
        BY <1>10, <2>1, InOrderIs
<1>12. InOrder(d, R) = low \o InOrder(d, A)
    <2>1. Lists(low \o InOrder(d, A), R, Len(d))
        BY <1>6, <1>7, <1>9, <1>10, ListsJoined
    <2> QED
        BY <1>10, <2>1, InOrderIs
<1>13. PICK v : v = Stack(d, target, i - 1)
    OBVIOUS
<1>14. PICK w : w = Stack(d, target, i)
    OBVIOUS
<1>15. v = Ids(d, low \o InOrder(d, O)) /\ w = Ids(d, low \o InOrder(d, A))
    BY <1>1, <1>2, <1>11, <1>12, <1>13, <1>14 DEF Stack
<1>16. PICK s \in Seq(Tag(q)) : s = EndsAndReopenings(d, i)
    <2>1. BeginTag(q) \cup EndTag(q) \subseteq Tag(q)
        BY DEF Tag
    <2>2. EndsAndReopenings(d, i) \in Seq(BeginTag(q) \cup EndTag(q))
        BY EndsAndReopeningsAre
    <2>3. EndsAndReopenings(d, i) \in Seq(Tag(q))
        BY <2>1, <2>2
    <2> QED
        BY <2>3
<1>17. Reads(v, s, w)
    <2>1. Reads(Ids(d, low \o InOrder(d, OpenAt(d, i))), EndsAndReopenings(d, i),
                Ids(d, low \o InOrder(d, OpenAt(d, i) \ PointingAt(d, i))))
        BY <1>9, ReadsEndings
    <2> QED
        BY <1>3, <1>4, <1>15, <1>16, <2>1, Zenon
<1>18. ReadTag(w, d[i]) = w
    BY DEF ReadTag, Children
<1>19. Reads(w, <<d[i]>>, w)
    <2>1. Reads(w, <<d[i]>>, ReadTag(w, d[i]))
        BY ReadsOne
    <2> QED
        BY <1>18, <2>1, Zenon
<1>20. Reads(v, s \o <<d[i]>>, w)
    <2>1. d[i] \in Tag(q)
        OBVIOUS
    <2>2. <<d[i]>> \in Seq(Tag(q))
        BY <2>1
    <2> QED
        BY <1>17, <1>19, <2>2, ReadsJoined, Zenon
<1> QED
    BY <1>13, <1>14, <1>16, <1>20, Zenon

\* Stylesheet 2 leaves begins and ends that nest.
LEMMA GoGo2ToToNests ==
    ASSUME NEW q \in Questionnaires, NEW d \in Seq(MarkedTag(q)), Kept(d) = q.document, Aimed(d, {})
    PROVE  Nested(GoGo2ToTo(d), {"begin"}, {"end"})
<1> DEFINE Template(i) == IF d[i].kind \in Children /\ PointingAt(d, i) # {}
                          THEN EndsAndReopenings(d, i) \o <<d[i]>>
                          ELSE <<d[i]>>
           templates == [i \in DOMAIN d |-> Template(i)]
<1>1. GoGo2ToTo(d) = FlattenSeq(templates)
    BY DEF GoGo2ToTo, Rewrite
<1>2. PICK target : Targets(target, d)
    BY BeginsHaveTargets
<1>3. d \in Seq(Tag(q)) /\ DOMAIN d = 1 .. Len(d) /\ Len(d) \in Nat
    <2>1. MarkedTag(q) \subseteq Tag(q)
        BY DEF MarkedTag, Tag
    <2> QED
        BY <2>1
<1>4. \A i \in 1 .. Len(d) : d[i].kind # "end"
    <2>1. \A t \in MarkedTag(q) : t.kind # "end"
        BY DEF MarkedTag, StructureTag, BeginTag
    <2> QED
        BY <2>1
<1>5. ASSUME NEW i \in 1 .. Len(d)
      PROVE  /\ Template(i) \in Seq(Tag(q))
             /\ Reads(Stack(d, target, i - 1), Template(i), Stack(d, target, i))
    <2>1. <<d[i]>> \in Seq(Tag(q))
        BY <1>3
    <2>2. CASE d[i].kind \in Children /\ PointingAt(d, i) # {}
        <3>1. Template(i) = EndsAndReopenings(d, i) \o <<d[i]>>
            BY <2>2
        <3>2. EndsAndReopenings(d, i) \in Seq(BeginTag(q) \cup EndTag(q))
            BY <1>3, EndsAndReopeningsAre
        <3>3. EndsAndReopenings(d, i) \o <<d[i]>> \in Seq(Tag(q))
            BY <2>1, <3>2, KeptBeside, Zenon
        <3>4. Reads(Stack(d, target, i - 1), EndsAndReopenings(d, i) \o <<d[i]>>, Stack(d, target, i))
            BY <1>2, <1>3, <2>2, ReadsTarget
        <3> HIDE DEF Template
        <3> QED
            BY <3>1, <3>3, <3>4
    <2>3. CASE ~ (d[i].kind \in Children /\ PointingAt(d, i) # {})
        <3>1. Template(i) = <<d[i]>>
            BY <2>3
        <3>2. Reads(Stack(d, target, i - 1), <<d[i]>>, Stack(d, target, i))
            BY <1>2, <1>3, <1>4, <2>3, ReadsCopied, Zenon
        <3> HIDE DEF Template
        <3> QED
            BY <2>1, <3>1, <3>2
    <2> QED
        BY <2>2, <2>3
<1> HIDE DEF Template
<1>6. PICK n \in Nat : n = Len(d)
    BY <1>3, Zenon
<1>7. (\A i \in 1 .. n : templates[i] = Template(i)) /\ templates \in [1 .. n -> Seq(Tag(q))]
    BY <1>3, <1>5, <1>6
<1> HIDE DEF templates
<1> DEFINE stack == [i \in 0 .. n |-> Stack(d, target, i)]
<1>8. \A i \in 1 .. n : Reads(stack[i - 1], templates[i], stack[i])
    <2>1. \A i \in 1 .. n : stack[i - 1] = Stack(d, target, i - 1) /\ stack[i] = Stack(d, target, i)
        OBVIOUS
    <2> HIDE DEF stack
    <2>2. \A i \in 1 .. n : templates[i] = Template(i)
             /\ Reads(Stack(d, target, i - 1), Template(i), Stack(d, target, i))
        BY <1>5, <1>6, <1>7
    <2> QED
        BY <2>1, <2>2, Zenon
<1>9. Pending(d, target, 0) = {} /\ Pending(d, target, n) = {}
    <2>1. \A b \in 1 .. n : d[b].kind = "begin" => ~ (target[b] > n)
        BY <1>2, <1>6 DEF Targets, IsTarget
    <2> QED
        BY <2>1 DEF Pending
<1>10. Ids(d, InOrder(d, {})) = <<>>
    <2>1. Lists(<<>>, {}, n)
        BY DEF Lists
    <2>2. InOrder(d, {}) = <<>>
        BY <1>6, <2>1, InOrderIs
    <2> QED
        BY <2>2 DEF Ids
<1>11. stack[0] = <<>> /\ stack[n] = <<>>
    <2>1. Stack(d, target, 0) = <<>> /\ Stack(d, target, n) = <<>>
        BY <1>9, <1>10 DEF Stack
    <2> QED
        BY <2>1
<1> HIDE DEF stack
<1>12. Reads(stack[0], FlattenSeq(templates), stack[n])
    BY <1>7, <1>8, RewriteReads
<1>13. Reads(<<>>, FlattenSeq(templates), <<>>)
    BY <1>11, <1>12, Zenon
<1>14. FlattenSeq(templates) \in Seq(Tag(q))
    BY <1>7, FlattenedType
<1>15. Nested(FlattenSeq(templates), {"begin"}, {"end"})
    BY <1>13, <1>14, NestedIfRead
<1> QED
    BY <1>1, <1>15

(***************************************************************************)
(* Between stylesheets 1 and 2 the begins point at what is behind them;    *)
(* between 2 and 3 they nest with the ends.                                *)
(***************************************************************************)
NestedSoFar ==
    /\ CopiedSoFar
    /\ pass = 2 => document \in Seq(MarkedTag(questionnaire)) /\ Aimed(document, {})
    /\ pass = 3 => Nested(document, {"begin"}, {"end"})

\* It is so at first.
LEMMA InitNested == Init => NestedSoFar
BY InitCopied DEF Init, NestedSoFar

\* It stays so with every pass.
LEMMA NextNests == NestedSoFar /\ [Next]_vars => NestedSoFar'
<1> SUFFICES ASSUME NestedSoFar, [Next]_vars PROVE NestedSoFar'
    OBVIOUS
<1>1. CopiedSoFar /\ CopiedSoFar'
    BY NextCopies DEF NestedSoFar
<1>2. CASE Pass(1, GoTo2IfThen(document, questionnaire.goTos))
    <2>1. document = questionnaire.document /\ questionnaire \in Questionnaires
        BY <1>1, <1>2 DEF Pass, CopiedSoFar
    <2>2. /\ document' = GoTo2IfThen(questionnaire.document, questionnaire.goTos)
          /\ pass' = 2 /\ questionnaire' = questionnaire
        BY <1>2, <2>1 DEF Pass
    <2>3. document' \in Seq(MarkedTag(questionnaire)) /\ Aimed(document', {})
        BY <2>1, <2>2, GoTo2IfThenAims
    <2> QED
        BY <1>1, <2>2, <2>3 DEF NestedSoFar
<1>3. CASE Pass(2, GoGo2ToTo(document))
    <2>1. document' = GoGo2ToTo(document) /\ pass' = 3 /\ pass = 2
        BY <1>3 DEF Pass
    <2>2. /\ questionnaire \in Questionnaires /\ document \in Seq(MarkedTag(questionnaire))
          /\ Kept(document) = questionnaire.document /\ Aimed(document, {})
        BY <1>1, <2>1 DEF NestedSoFar, CopiedSoFar
    <2>3. Nested(document', {"begin"}, {"end"})
        BY <2>1, <2>2, GoGo2ToToNests
    <2> QED
        BY <1>1, <2>1, <2>3 DEF NestedSoFar
<1>4. CASE Pass(3, GoTo2Sequence(document)) \/ Pass(4, BeginEnd2Filter(document))
    <2>1. pass' # 2 /\ pass' # 3
        BY <1>4 DEF Pass
    <2> QED
        BY <1>1, <2>1 DEF NestedSoFar
<1>5. CASE UNCHANGED vars
    BY <1>1, <1>5 DEF NestedSoFar, vars
<1> QED
    BY <1>2, <1>3, <1>4, <1>5 DEF Next

\* However the GoTos of a questionnaire overlap, the begins and ends that
\* stylesheet 2 (2-GoGo2ToTo.xsl) leaves nest.
THEOREM BeginsAreNested == Spec => []BeginsNest
<1>1. Spec => []NestedSoFar
    BY InitNested, NextNests, PTL DEF Spec
<1>2. NestedSoFar => BeginsNest
    BY DEF NestedSoFar, BeginsNest
<1> QED
    BY <1>1, <1>2, PTL
=============================================================================
