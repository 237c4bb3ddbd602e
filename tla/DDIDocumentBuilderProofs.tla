---------------------- MODULE DDIDocumentBuilderProofs ----------------------
(***************************************************************************)
(* Theorems about DDIDocumentBuilder, for any identifiers and fragments of *)
(* any length.  The invariant says how the children of a node lie at every *)
(* turn of the loop (Laid): what was not replaced first, the items behind, *)
(* both in the order of the fragment; and what the loop that has got to    *)
(* index i has done to them (Walked): what comes from i on is as it was in *)
(* the fragment and comes after all that was replaced, and a reference it  *)
(* has missed on the way is the neighbour of one that was replaced.        *)
(***************************************************************************)
EXTENDS DDIDocumentBuilder, TLAPS

ChildNodes == [kind : {"reference", "other", "item"}, id : Ids \cup {Null}, place : Nat, node : Nat]

\* A child is what the fragment f has at its place, or an item in place of a reference.
Stands(c, f) ==
    /\ c.place \in 1 .. Len(f)
    /\ c.kind # "item" => [kind |-> c.kind, id |-> c.id] = f[c.place]

Ordered(c, d) ==
    \/ c.place < d.place /\ (c.kind = "item" => d.kind = "item")
    \/ c.kind # "item" /\ d.kind = "item"

Laid(ch, f) ==
    /\ ch \in Seq(ChildNodes)
    /\ Len(ch) = Len(f)
    /\ \A k \in 1 .. Len(ch) : Stands(ch[k], f)
    /\ \A k, l \in 1 .. Len(ch) : k < l => Ordered(ch[k], ch[l])

\* A reference the loop would replace.
Open(map, c) == c.kind = "reference" /\ Known(map, c.id)

Walked(map, ch, i) ==
    /\ i \in 1 .. Len(ch) + 1
    /\ \A k, l \in 1 .. Len(ch) :
          i <= k /\ ch[k].kind # "item" /\ ch[l].kind = "item" => ch[l].place < ch[k].place
    /\ \A k \in 1 .. Len(ch) - 1 :
          i <= k /\ ch[k].kind # "item" /\ ch[k + 1].kind # "item" =>
              ch[k + 1].place = ch[k].place + 1
    /\ \A k \in 1 .. Len(ch) : k < i /\ Open(map, ch[k]) =>
          \E l \in 1 .. Len(ch) : ch[l].kind = "item" /\ ch[l].place = ch[k].place - 1

\* The items of node n are nodes made after it, each of the identifier referred to.
Pointing(n) ==
    \A k \in 1 .. Len(nodes[n].children) :
        LET c == nodes[n].children[k] IN
        c.kind = "item" =>
            /\ c.node \in n + 1 .. Len(nodes)
            /\ nodes[c.node].id = references[nodes[n].id][c.place].id

Nodes == [id : Ids, children : Seq(ChildNodes)]
Calls == [node : Nat, i : Nat]

\* No call of walk is for the node n.
Left(n) == \A k \in 1 .. Len(calls) : calls[k].node # n

Types ==
    /\ references \in [Ids -> Seq(Entries) \cup {Null, Malformed}]
    /\ nodes \in Seq(Nodes)
    /\ calls \in Seq(Calls)
    /\ outcome \in {"building", "built", "failed"}

\* What holds of a node, and of a node whose loop has ended.
NodeIsLaid(n) ==
    /\ Known(references, nodes[n].id)
    /\ Laid(nodes[n].children, references[nodes[n].id])
    /\ Pointing(n)
    /\ Left(n) => Walked(references, nodes[n].children, Len(nodes[n].children) + 1)

\* What holds of a call of walk: it is the only one for its node.
CallIsWalking(k) ==
    /\ calls[k].node \in 1 .. Len(nodes)
    /\ Walked(references, nodes[calls[k].node].children, calls[k].i)
    /\ \A l \in 1 .. Len(calls) : k # l => calls[k].node # calls[l].node

Inv ==
    /\ Types
    /\ outcome = "built" => calls = <<>>
    /\ \A n \in 1 .. Len(nodes) : NodeIsLaid(n)
    /\ \A k \in 1 .. Len(calls) : CallIsWalking(k)
-----------------------------------------------------------------------------
(***************************************************************************)
(* What happens to the children of one node.                               *)
(***************************************************************************)

\* The children of a node after the one at index i was replaced.
Replace(ch, i, item) == Append(RemoveAt(ch, i), item)

LEMMA ReplaceShape ==
    ASSUME NEW ch \in Seq(ChildNodes), NEW i \in 1 .. Len(ch), NEW item \in ChildNodes
    PROVE  /\ Replace(ch, i, item) \in Seq(ChildNodes)
           /\ Len(Replace(ch, i, item)) = Len(ch)
           /\ \A k \in 1 .. Len(ch) :
                Replace(ch, i, item)[k] = IF k < i THEN ch[k] ELSE IF k < Len(ch) THEN ch[k + 1] ELSE item
<1> DEFINE before == SubSeq(ch, 1, i - 1)
           after == SubSeq(ch, i + 1, Len(ch))
<1>1. /\ before \in Seq(ChildNodes) /\ Len(before) = i - 1
      /\ \A k \in 1 .. i - 1 : before[k] = ch[k]
    OBVIOUS
<1>2. /\ after \in Seq(ChildNodes) /\ Len(after) = Len(ch) - i
      /\ \A k \in 1 .. Len(ch) - i : after[k] = ch[k + i]
    OBVIOUS
<1>3. RemoveAt(ch, i) = before \o after
    BY DEF RemoveAt
<1> HIDE DEF before, after
<1> DEFINE rest == before \o after
<1>4. /\ rest \in Seq(ChildNodes) /\ Len(rest) = Len(ch) - 1
      /\ \A k \in 1 .. Len(ch) - 1 : rest[k] = IF k < i THEN ch[k] ELSE ch[k + 1]
    <2>1. rest \in Seq(ChildNodes) /\ Len(rest) = Len(ch) - 1
        <3>1. before \in Seq(ChildNodes) /\ after \in Seq(ChildNodes)
            BY <1>1, <1>2
        <3>4. rest \in Seq(ChildNodes)
            BY <3>1
        <3>5. Len(rest) = Len(before) + Len(after)
            BY <3>1
        <3>2. Len(ch) \in Nat /\ i \in Int
            OBVIOUS
        <3>3. (i - 1) + (Len(ch) - i) = Len(ch) - 1
            BY <3>2
        <3> QED
            BY <1>1, <1>2, <3>3, <3>4, <3>5
    <2>2. ASSUME NEW k \in 1 .. Len(ch) - 1
          PROVE  rest[k] = IF k < i THEN ch[k] ELSE ch[k + 1]
        <3>1. CASE k < i
            BY <1>1, <1>2, <3>1
        <3>2. CASE ~ (k < i)
            <4>1. rest[k] = after[k - (i - 1)] /\ k - (i - 1) \in 1 .. Len(ch) - i
                BY <1>1, <1>2, <3>2
            <4> QED
                BY <1>2, <3>2, <4>1
        <3> QED
            BY <3>1, <3>2
    <2> QED
        BY <2>1, <2>2
<1>5. Replace(ch, i, item) = Append(rest, item)
    BY <1>3 DEF Replace
<1>6. Len(ch) \in Nat
    OBVIOUS
<1> HIDE DEF rest
<1>7. /\ Append(rest, item) \in Seq(ChildNodes)
      /\ Len(Append(rest, item)) = Len(rest) + 1
      /\ \A k \in 1 .. Len(rest) : Append(rest, item)[k] = rest[k]
      /\ Append(rest, item)[Len(rest) + 1] = item
    BY <1>4
<1>8. Len(rest) + 1 = Len(ch)
    BY <1>4, <1>6
<1>9. ASSUME NEW k \in 1 .. Len(ch)
      PROVE  Replace(ch, i, item)[k] = IF k < i THEN ch[k] ELSE IF k < Len(ch) THEN ch[k + 1] ELSE item
    <2>1. CASE k < Len(ch)
        <3>1. k \in 1 .. Len(ch) - 1
            BY <1>6, <2>1
        <3>2. Append(rest, item)[k] = rest[k]
            BY <1>4, <1>7, <3>1
        <3> QED
            BY <1>4, <1>5, <2>1, <3>1, <3>2
    <2>2. CASE ~ (k < Len(ch))
        <3>1. k = Len(ch) /\ ~ (k < i)
            BY <1>6, <2>2
        <3> QED
            BY <1>5, <1>7, <1>8, <2>2, <3>1
    <2> QED
        BY <2>1, <2>2
<1> QED
    BY <1>5, <1>7, <1>8, <1>9

\* After that, a child is the item or one of those that were there.
LEMMA ReplaceFrom ==
    ASSUME NEW ch \in Seq(ChildNodes), NEW i \in 1 .. Len(ch), NEW item \in ChildNodes,
           NEW k \in 1 .. Len(ch)
    PROVE  \/ Replace(ch, i, item)[k] = item
           \/ \E l \in 1 .. Len(ch) : Replace(ch, i, item)[k] = ch[l]
<1>1. Replace(ch, i, item)[k] = IF k < i THEN ch[k] ELSE IF k < Len(ch) THEN ch[k + 1] ELSE item
    BY ReplaceShape
<1>2. k < Len(ch) => k + 1 \in 1 .. Len(ch)
    OBVIOUS
<1> QED
    BY <1>1, <1>2

\* Replacing the open reference at the index of the loop leaves the children laid
\* out as before, and what the loop may have missed is the child that moved to i.
LEMMA ReplaceKeeps ==
    ASSUME NEW map, NEW f, NEW ch, NEW n \in Nat, NEW i \in 1 .. Len(ch),
           Laid(ch, f), Walked(map, ch, i), Open(map, ch[i])
    PROVE  /\ Laid(Replace(ch, i, Item(ch[i], n)), f)
           /\ Walked(map, Replace(ch, i, Item(ch[i], n)), i + 1)
<1> DEFINE item == Item(ch[i], n)
           new == Replace(ch, i, item)
<1>1. /\ ch \in Seq(ChildNodes)
      /\ Len(ch) = Len(f)
      /\ Len(ch) \in Nat
    BY DEF Laid
<1>2. \A k \in 1 .. Len(ch) : ch[k] \in ChildNodes
    BY <1>1
<1>3. /\ ch[i] \in ChildNodes
      /\ ch[i].kind = "reference"
      /\ ch[i].id \in Ids \cup {Null}
      /\ ch[i].place \in Nat
    BY <1>2 DEF Open, ChildNodes
<1>4. /\ item \in ChildNodes
      /\ item.kind = "item"
      /\ item.place = ch[i].place
    BY <1>3 DEF Item, ChildNodes
<1> HIDE DEF item
<1>5. /\ new \in Seq(ChildNodes)
      /\ Len(new) = Len(ch)
      /\ \A k \in 1 .. Len(ch) :
            new[k] = IF k < i THEN ch[k] ELSE IF k < Len(ch) THEN ch[k + 1] ELSE item
    <2>1. ch \in Seq(ChildNodes) /\ item \in ChildNodes
        BY <1>1, <1>4
    <2>2. Replace(ch, i, item) \in Seq(ChildNodes)
        BY <2>1, ReplaceShape
    <2>3. Len(Replace(ch, i, item)) = Len(ch)
        BY <2>1, ReplaceShape
    <2>4. ASSUME NEW k \in 1 .. Len(ch)
          PROVE  Replace(ch, i, item)[k] = IF k < i THEN ch[k] ELSE IF k < Len(ch) THEN ch[k + 1] ELSE item
        BY <2>1, ReplaceShape
    <2> QED
        BY <2>2, <2>3, <2>4
<1> HIDE DEF new
\* Each new child is the item or an old child other than the one replaced.
<1> DEFINE old(k) == IF k < i THEN k ELSE k + 1
<1>6. ASSUME NEW k \in 1 .. Len(ch), k < Len(ch)
      PROVE  /\ old(k) \in 1 .. Len(ch)
             /\ old(k) # i
             /\ new[k] = ch[old(k)]
    BY <1>1, <1>5, <1>6
<1>7. new[Len(ch)] = item
    BY <1>1, <1>5
<1>8. \A k \in 1 .. Len(ch) : ch[k].place \in Nat /\ Stands(ch[k], f)
    BY <1>2 DEF Laid, ChildNodes
<1>9. \A k, l \in 1 .. Len(ch) : k < l => Ordered(ch[k], ch[l])
    BY DEF Laid
<1>10. \A k, l \in 1 .. Len(ch) :
          i <= k /\ ch[k].kind # "item" /\ ch[l].kind = "item" => ch[l].place < ch[k].place
    BY DEF Walked
<1>11. Laid(new, f)
    <2>1. ASSUME NEW k \in 1 .. Len(ch)
          PROVE  Stands(new[k], f)
        <3>1. CASE k < Len(ch)
            BY <1>6, <1>8, <3>1
        <3>2. CASE ~ (k < Len(ch))
            <4>1. k = Len(ch)
                BY <1>1, <3>2
            <4>2. ch[i].place \in 1 .. Len(f)
                BY <1>8 DEF Stands
            <4> QED
                BY <1>4, <1>7, <4>1, <4>2 DEF Stands
        <3> QED
            BY <3>1, <3>2
    <2>2. ASSUME NEW k \in 1 .. Len(ch), NEW l \in 1 .. Len(ch), k < l
          PROVE  Ordered(new[k], new[l])
        <3>1. k < Len(ch) /\ k \in Int /\ l \in Int
            BY <1>1, <2>2
        <3>2. old(k) \in 1 .. Len(ch) /\ old(k) # i /\ new[k] = ch[old(k)]
            BY <1>6, <3>1
        <3>3. CASE l < Len(ch)
            <4>1. old(l) \in 1 .. Len(ch) /\ new[l] = ch[old(l)]
                BY <1>6, <3>3
            <4>2. old(k) < old(l)
                BY <2>2, <3>1
            <4> HIDE DEF old
            <4> QED
                BY <1>9, <3>2, <4>1, <4>2
        <3>4. CASE ~ (l < Len(ch))
            <4>1. new[l] = item
                BY <1>1, <1>7, <3>4
            <4> HIDE DEF old
            <4>2. ch[old(k)].kind = "item" => ch[old(k)].place < ch[i].place
                BY <1>1, <1>3, <1>10, <3>2
            <4> QED
                BY <1>4, <3>2, <4>1, <4>2 DEF Ordered
        <3> QED
            BY <3>3, <3>4
    <2> QED
        BY <1>1, <1>5, <2>1, <2>2 DEF Laid
<1>12. Walked(map, new, i + 1)
    <2>1. i + 1 \in 1 .. Len(ch) + 1
        BY <1>1
    <2>2. ASSUME NEW k \in 1 .. Len(ch), NEW l \in 1 .. Len(ch),
                 i + 1 <= k, new[k].kind # "item", new[l].kind = "item"
          PROVE  new[l].place < new[k].place
        <3>1. k < Len(ch)
            BY <1>1, <1>4, <1>7, <2>2
        <3>2. new[k] = ch[k + 1] /\ k + 1 \in 1 .. Len(ch) /\ i < k + 1 /\ i <= k + 1
            BY <1>1, <1>5, <2>2, <3>1
        <3>3. CASE l < Len(ch)
            <4>1. old(l) \in 1 .. Len(ch) /\ new[l] = ch[old(l)]
                BY <1>6, <3>3
            <4> HIDE DEF old
            <4> QED
                BY <1>10, <2>2, <3>2, <4>1
        <3>4. CASE ~ (l < Len(ch))
            <4>1. new[l] = item
                BY <1>1, <1>7, <3>4
            <4>2. Ordered(ch[i], ch[k + 1])
                BY <1>9, <3>2
            <4> QED
                BY <1>3, <1>4, <2>2, <3>2, <4>1, <4>2 DEF Ordered
        <3> QED
            BY <3>3, <3>4
    <2>3. ASSUME NEW k \in 1 .. Len(ch) - 1,
                 i + 1 <= k, new[k].kind # "item", new[k + 1].kind # "item"
          PROVE  new[k + 1].place = new[k].place + 1
        <3>1. k + 1 < Len(ch)
            BY <1>1, <1>4, <1>7, <2>3
        <3>2. /\ k \in 1 .. Len(ch) /\ ~ (k < i) /\ k < Len(ch)
              /\ k + 1 \in 1 .. Len(ch) - 1 /\ i <= k + 1
            BY <1>1, <2>3, <3>1
        <3>3. k + 1 \in 1 .. Len(ch) /\ ~ (k + 1 < i)
            BY <1>1, <3>2
        <3>4. new[k] = ch[k + 1] /\ new[k + 1] = ch[(k + 1) + 1]
            BY <1>5, <3>1, <3>2, <3>3
        <3> QED
            BY <2>3, <3>2, <3>4 DEF Walked
    <2>4. ASSUME NEW k \in 1 .. Len(ch), k < i + 1, Open(map, new[k])
          PROVE  \E l \in 1 .. Len(ch) : new[l].kind = "item" /\ new[l].place = new[k].place - 1
        <3>1. CASE k < i
            <4>1. new[k] = ch[k]
                BY <1>5, <3>1
            <4>2. PICK l \in 1 .. Len(ch) : ch[l].kind = "item" /\ ch[l].place = ch[k].place - 1
                BY <2>4, <3>1, <4>1 DEF Walked
            <4>3. l # i
                BY <1>3, <4>2
            <4>4. PICK m \in 1 .. Len(ch) : new[m] = ch[l]
                <5>1. CASE l < i
                    BY <1>5, <5>1
                <5>2. CASE l > i
                    <6>1. l - 1 \in 1 .. Len(ch) /\ ~ (l - 1 < i) /\ l - 1 < Len(ch) /\ (l - 1) + 1 = l
                        BY <1>1, <5>2
                    <6>2. new[l - 1] = ch[l]
                        BY <1>5, <6>1
                    <6> QED
                        BY <6>1, <6>2
                <5> QED
                    BY <4>3, <5>1, <5>2
            <4> QED
                BY <4>1, <4>2, <4>4
        <3>2. CASE ~ (k < i)
            <4>1. k = i
                BY <2>4, <3>2
            <4>2. i < Len(ch)
                BY <1>1, <1>4, <1>7, <2>4, <4>1 DEF Open
            <4>3. new[k] = ch[i + 1] /\ i \in 1 .. Len(ch) - 1
                BY <1>1, <1>5, <4>1, <4>2
            <4>4. ch[i + 1].place = ch[i].place + 1
                BY <1>3, <2>4, <4>3 DEF Walked, Open
            <4>5. Len(ch) \in 1 .. Len(ch)
                BY <1>1
            <4>6. item.place = new[k].place - 1
                BY <1>3, <1>4, <4>3, <4>4
            <4> QED
                BY <1>4, <1>7, <4>5, <4>6
        <3> QED
            BY <3>1, <3>2
    <2> QED
        BY <1>5, <2>1, <2>2, <2>3, <2>4 DEF Walked
<1> QED
    BY <1>11, <1>12 DEF new, item

\* Going past a child that is no open reference misses nothing.
LEMMA PassByKeeps ==
    ASSUME NEW map, NEW ch, NEW i \in 1 .. Len(ch), Len(ch) \in Nat,
           Walked(map, ch, i), ~ Open(map, ch[i])
    PROVE  Walked(map, ch, i + 1)
<1>1. i + 1 \in 1 .. Len(ch) + 1
    OBVIOUS
<1>2. ASSUME NEW k \in 1 .. Len(ch), k < i + 1, Open(map, ch[k])
      PROVE  \E l \in 1 .. Len(ch) : ch[l].kind = "item" /\ ch[l].place = ch[k].place - 1
    <2>1. k # i
        BY <1>2
    <2>2. k < i
        BY <1>2, <2>1
    <2> QED
        BY <1>2, <2>2 DEF Walked
<1>3. \A k \in 1 .. Len(ch) : i + 1 <= k => i <= k
    OBVIOUS
<1>4. \A k \in 1 .. Len(ch) - 1 : i + 1 <= k => i <= k
    OBVIOUS
<1> QED
    BY <1>1, <1>2, <1>3, <1>4 DEF Walked

\* A fragment that was just parsed lies as it was written.
LEMMA PlacedIsLaid ==
    ASSUME NEW map, NEW f \in Seq(Entries)
    PROVE  /\ Laid(Placed(f), f)
           /\ Walked(map, Placed(f), 1)
           /\ \A k \in 1 .. Len(Placed(f)) : Placed(f)[k].kind # "item"
<1> DEFINE ch == Placed(f)
<1>1. Len(f) \in Nat /\ DOMAIN f = 1 .. Len(f)
    OBVIOUS
<1>2. ASSUME NEW k \in 1 .. Len(f)
      PROVE  /\ f[k].kind \in {"reference", "other"}
             /\ f[k].id \in Ids \cup {Null}
             /\ f[k] = [kind |-> f[k].kind, id |-> f[k].id]
    <2>1. f[k] \in Entries
        OBVIOUS
    <2>2. f[k] \in [kind : {"reference", "other"}, id : Ids \cup {Null}]
        BY <2>1 DEF Entries, Reference, Other
    <2> QED
        BY <2>2
<1>3. \A k \in 1 .. Len(f) :
          /\ ch[k] \in ChildNodes
          /\ ch[k].kind # "item"
          /\ ch[k].place = k
          /\ [kind |-> ch[k].kind, id |-> ch[k].id] = f[k]
    BY <1>1, <1>2 DEF Placed, ChildNodes
<1>4. ch \in Seq(ChildNodes) /\ Len(ch) = Len(f)
    <2>1. ch = [k \in 1 .. Len(f) |-> ch[k]]
        BY <1>1 DEF Placed
    <2> HIDE DEF ch
    <2>2. [k \in 1 .. Len(f) |-> ch[k]] \in Seq(ChildNodes)
        BY <1>1, <1>3
    <2>3. Len([k \in 1 .. Len(f) |-> ch[k]]) = Len(f)
        BY <1>1
    <2> QED
        BY <2>1, <2>2, <2>3
<1> HIDE DEF ch
<1>5. Laid(ch, f)
    <2>1. \A k \in 1 .. Len(ch) : Stands(ch[k], f)
        BY <1>3, <1>4 DEF Stands
    <2>2. ASSUME NEW k \in 1 .. Len(ch), NEW l \in 1 .. Len(ch), k < l
          PROVE  Ordered(ch[k], ch[l])
        <3>1. ch[k].place = k /\ ch[l].place = l /\ ch[k].kind # "item"
            BY <1>3, <1>4
        <3> QED
            BY <2>2, <3>1 DEF Ordered
    <2> QED
        BY <1>4, <2>1, <2>2 DEF Laid
<1>6. Walked(map, ch, 1)
    <2>1. 1 \in 1 .. Len(ch) + 1
        BY <1>1, <1>4
    <2>2. \A k \in 1 .. Len(ch) - 1 : ch[k + 1].place = ch[k].place + 1
        BY <1>1, <1>3, <1>4
    <2>3. \A k \in 1 .. Len(ch) : ~ (k < 1) /\ ch[k].kind # "item"
        BY <1>1, <1>3, <1>4
    <2> QED
        BY <2>1, <2>2, <2>3 DEF Walked
<1> QED
    BY <1>3, <1>4, <1>5, <1>6 DEF ch
-----------------------------------------------------------------------------
(***************************************************************************)
(* The invariant: every action keeps it.                                   *)
(***************************************************************************)

LEMMA InitInv == Init => Inv
<1> SUFFICES ASSUME Init PROVE Inv
    OBVIOUS
<1>1. Types
    BY FragmentsAssumption DEF Init, Types
<1>2. Len(nodes) = 0 /\ Len(calls) = 0
    BY DEF Init
<1> QED
    BY <1>1, <1>2 DEF Inv, Init

\* A fragment that is known is one.
LEMMA KnownIsFragment ==
    ASSUME Types, NEW id \in Ids \cup {Null}, Known(references, id)
    PROVE  id \in Ids /\ references[id] \in Seq(Entries)
BY DEF Types, Known

\* The node made of a fragment.
LEMMA GetNodeShape ==
    ASSUME Types, NEW id \in Ids, Known(references, id)
    PROVE  /\ GetNode(id) \in Nodes
           /\ GetNode(id).id = id
           /\ GetNode(id).children = Placed(references[id])
           /\ Laid(Placed(references[id]), references[id])
           /\ Walked(references, Placed(references[id]), 1)
           /\ \A k \in 1 .. Len(Placed(references[id])) : Placed(references[id])[k].kind # "item"
<1>1. references[id] \in Seq(Entries)
    BY KnownIsFragment
<1>2. /\ Laid(Placed(references[id]), references[id])
      /\ Walked(references, Placed(references[id]), 1)
      /\ \A k \in 1 .. Len(Placed(references[id])) : Placed(references[id])[k].kind # "item"
    BY <1>1, PlacedIsLaid
<1>3. Placed(references[id]) \in Seq(ChildNodes)
    BY <1>2 DEF Laid
<1> QED
    BY <1>2, <1>3 DEF GetNode, Nodes

\* A step that touches neither nodes nor calls keeps the invariant.
LEMMA StandingKeeps ==
    ASSUME Inv, nodes' = nodes, calls' = calls, references' = references,
           outcome' = outcome \/ outcome' = "failed"
    PROVE  Inv'
<1>1. Types'
    BY DEF Inv, Types
<1>2. outcome' = "built" => calls' = <<>>
    <2>1. outcome = "built" => calls = <<>>
        BY DEF Inv
    <2> QED
        BY <2>1
<1>3. ASSUME NEW n \in 1 .. Len(nodes)
      PROVE  NodeIsLaid(n)'
    <2>1. NodeIsLaid(n)
        BY DEF Inv
    <2> QED
        BY <2>1 DEF NodeIsLaid, Pointing, Left
<1>4. ASSUME NEW k \in 1 .. Len(calls)
      PROVE  CallIsWalking(k)'
    <2>1. CallIsWalking(k)
        BY DEF Inv
    <2> QED
        BY <2>1 DEF CallIsWalking
<1> QED
    BY <1>1, <1>2, <1>3, <1>4 DEF Inv

LEMMA BuildNodeInv == Inv /\ BuildNode => Inv'
<1> SUFFICES ASSUME Inv, BuildNode PROVE Inv'
    OBVIOUS
<1>1. Types /\ outcome = "building" /\ nodes = <<>> /\ references' = references
    BY DEF Inv, BuildNode
<1>2. CASE Known(references, Root)
    <2>1. Root \in Ids
        BY FragmentsAssumption
    <2>2. /\ GetNode(Root) \in Nodes
          /\ GetNode(Root).id = Root
          /\ GetNode(Root).children = Placed(references[Root])
          /\ Laid(Placed(references[Root]), references[Root])
          /\ Walked(references, Placed(references[Root]), 1)
          /\ \A k \in 1 .. Len(Placed(references[Root])) : Placed(references[Root])[k].kind # "item"
        BY <1>1, <1>2, <2>1, GetNodeShape
    <2> DEFINE root == GetNode(Root)
               call == [node |-> 1, i |-> 1]
    <2>3. nodes' = <<root>> /\ calls' = <<call>> /\ outcome' = outcome
        BY <1>2 DEF BuildNode
    <2>4. call \in Calls /\ call.node = 1 /\ call.i = 1
        BY DEF Calls
    <2> HIDE DEF root, call
    <2>5. /\ nodes' \in Seq(Nodes) /\ Len(nodes') = 1 /\ nodes'[1] = root
          /\ calls' \in Seq(Calls) /\ Len(calls') = 1 /\ calls'[1] = call
        BY <2>2, <2>3, <2>4 DEF root
    <2>6. Types'
        BY <1>1, <2>3, <2>5 DEF Types
    <2>7. NodeIsLaid(1)'
        <3>1. ~ Left(1)'
            BY <2>4, <2>5 DEF Left
        <3>2. Pointing(1)'
            BY <2>2, <2>5 DEF Pointing, root
        <3> QED
            BY <1>1, <1>2, <2>2, <2>5, <3>1, <3>2 DEF NodeIsLaid, root
    <2>8. CallIsWalking(1)'
        BY <1>1, <2>2, <2>4, <2>5 DEF CallIsWalking, root
    <2>9. \A k \in 1 .. 1 : k = 1
        OBVIOUS
    <2> QED
        BY <1>1, <2>3, <2>5, <2>6, <2>7, <2>8, <2>9 DEF Inv
<1>3. CASE ~ Known(references, Root)
    <2>1. outcome' = "failed" /\ nodes' = nodes /\ calls' = calls
        BY <1>3 DEF BuildNode
    <2> QED
        BY <1>1, <2>1, StandingKeeps
<1> QED
    BY <1>2, <1>3

LEMMA FailingInv == Inv /\ (NoReferenceFound \/ NoNodeMade) => Inv'
<1> SUFFICES ASSUME Inv, NoReferenceFound \/ NoNodeMade PROVE Inv'
    OBVIOUS
<1>1. outcome' = "failed" /\ nodes' = nodes /\ calls' = calls /\ references' = references
    BY DEF NoReferenceFound, NoNodeMade, AtChild
<1> QED
    BY <1>1, StandingKeeps

\* The call that is running, and its node.
LEMMA RunningShape ==
    ASSUME Inv, calls # <<>>
    PROVE  /\ Len(calls) \in 1 .. Len(calls)
           /\ Running = calls[Len(calls)]
           /\ Running \in Calls
           /\ Running.node \in 1 .. Len(nodes)
           /\ Running.i \in 1 .. Len(Children) + 1
           /\ NodeIsLaid(Running.node)
           /\ Children \in Seq(ChildNodes)
           /\ Laid(Children, references[nodes[Running.node].id])
           /\ Walked(references, Children, Running.i)
           /\ \A k \in 1 .. Len(calls) : k # Len(calls) => calls[k].node # Running.node
<1>1. Types
    BY DEF Inv
<1>2. Len(calls) \in 1 .. Len(calls)
    BY <1>1 DEF Types
<1>3. Running = calls[Len(calls)]
    BY DEF Running, Last
<1>4. Running \in Calls
    BY <1>1, <1>2, <1>3 DEF Types
<1>5. /\ Running.node \in 1 .. Len(nodes)
      /\ Walked(references, Children, Running.i)
      /\ \A k \in 1 .. Len(calls) : k # Len(calls) => calls[k].node # Running.node
    BY <1>2, <1>3 DEF Inv, CallIsWalking, Children
<1>6. NodeIsLaid(Running.node)
    BY <1>5 DEF Inv
<1>7. Laid(Children, references[nodes[Running.node].id])
    BY <1>6 DEF NodeIsLaid, Children
<1>8. Running.i \in 1 .. Len(Children) + 1
    BY <1>5 DEF Walked
<1>9. Children \in Seq(ChildNodes)
    BY <1>7 DEF Laid
<1> QED
    BY <1>2, <1>3, <1>4, <1>5, <1>6, <1>7, <1>8, <1>9

\* The calls when the running one has gone on.
LEMMA AdvancedShape ==
    ASSUME Inv, calls # <<>>
    PROVE  /\ Advanced \in Seq(Calls)
           /\ Len(Advanced) = Len(calls)
           /\ \A k \in 1 .. Len(calls) : k # Len(calls) => Advanced[k] = calls[k]
           /\ \A k \in 1 .. Len(calls) : Advanced[k].node = calls[k].node
           /\ Advanced[Len(calls)].i = Running.i + 1
<1>1. calls \in Seq(Calls)
    BY DEF Inv, Types
<1>2. Len(calls) \in 1 .. Len(calls) /\ Running = calls[Len(calls)] /\ Running \in Calls
    BY RunningShape
<1> DEFINE last == [Running EXCEPT !.i = @ + 1]
<1>3. last \in Calls /\ last.node = Running.node /\ last.i = Running.i + 1
    BY <1>2 DEF Calls
<1>4. Advanced = [calls EXCEPT ![Len(calls)] = last]
    BY <1>2 DEF Advanced
<1> HIDE DEF last
<1>5. Advanced \in Seq(Calls) /\ Len(Advanced) = Len(calls)
    BY <1>1, <1>3, <1>4
<1>6. \A k \in 1 .. Len(calls) : Advanced[k] = IF k = Len(calls) THEN last ELSE calls[k]
    BY <1>1, <1>4
<1> QED
    BY <1>2, <1>3, <1>5, <1>6

LEMMA PassByInv == Inv /\ PassBy => Inv'
<1> SUFFICES ASSUME Inv, PassBy PROVE Inv'
    OBVIOUS
<1>1. /\ calls # <<>>
      /\ Running.i <= Len(Children)
      /\ Child.kind = "reference" => ~ Known(references, Child.id)
      /\ calls' = Advanced
      /\ nodes' = nodes /\ outcome' = outcome /\ references' = references /\ outcome = "building"
    BY DEF PassBy, AtChild, Known
<1>2. /\ Len(calls) \in 1 .. Len(calls)
      /\ Running = calls[Len(calls)]
      /\ Running.i \in 1 .. Len(Children) + 1
      /\ Children \in Seq(ChildNodes)
      /\ Walked(references, Children, Running.i)
    BY <1>1, RunningShape
<1>3. /\ calls' \in Seq(Calls)
      /\ Len(calls') = Len(calls)
      /\ \A k \in 1 .. Len(calls) : k # Len(calls) => calls'[k] = calls[k]
      /\ \A k \in 1 .. Len(calls) : calls'[k].node = calls[k].node
      /\ calls'[Len(calls)].i = Running.i + 1
    BY <1>1, AdvancedShape
<1>4. ~ Open(references, Children[Running.i])
    BY <1>1 DEF Open, Child
<1>5. Running.i \in 1 .. Len(Children) /\ Len(Children) \in Nat
    BY <1>1, <1>2
<1>6. Walked(references, Children, Running.i + 1)
    BY <1>2, <1>4, <1>5, PassByKeeps
<1>7. Types'
    BY <1>1, <1>3 DEF Inv, Types
<1>8. ASSUME NEW n \in 1 .. Len(nodes)
      PROVE  NodeIsLaid(n)'
    <2>1. NodeIsLaid(n)
        BY DEF Inv
    <2>2. Left(n)' => Left(n)
        BY <1>3 DEF Left
    <2>3. Pointing(n) => Pointing(n)'
        BY <1>1 DEF Pointing
    <2> QED
        BY <1>1, <2>1, <2>2, <2>3 DEF NodeIsLaid
<1>9. ASSUME NEW k \in 1 .. Len(calls)
      PROVE  CallIsWalking(k)'
    <2>1. CallIsWalking(k)
        BY DEF Inv
    <2>2. Walked(references', nodes'[calls'[k].node].children, calls'[k].i)
        <3>1. CASE k = Len(calls)
            BY <1>1, <1>2, <1>3, <1>6, <3>1 DEF Children
        <3>2. CASE k # Len(calls)
            BY <1>1, <1>3, <2>1, <3>2 DEF CallIsWalking
        <3> QED
            BY <3>1, <3>2
    <2> QED
        BY <1>1, <1>3, <2>1, <2>2 DEF CallIsWalking
<1> QED
    BY <1>1, <1>3, <1>7, <1>8, <1>9 DEF Inv

LEMMA FrontShape ==
    ASSUME NEW S, NEW s \in Seq(S), NEW n \in 1 .. Len(s), n = Len(s)
    PROVE  /\ Front(s) \in Seq(S)
           /\ Len(Front(s)) = n - 1
           /\ \A k \in 1 .. n - 1 : Front(s)[k] = s[k]
<1>1. Front(s) = SubSeq(s, 1, n - 1)
    BY DEF Front
<1>2. /\ SubSeq(s, 1, n - 1) \in Seq(S)
      /\ Len(SubSeq(s, 1, n - 1)) = n - 1
      /\ \A k \in 1 .. n - 1 : SubSeq(s, 1, n - 1)[k] = s[k]
    OBVIOUS
<1> QED
    BY <1>1, <1>2

LEMMA ReturnInv == Inv /\ Return => Inv'
<1> SUFFICES ASSUME Inv, Return PROVE Inv'
    OBVIOUS
<1>1. /\ calls # <<>>
      /\ Running.i > Len(Children)
      /\ calls' = Front(calls)
      /\ outcome' = IF Len(calls) = 1 THEN "built" ELSE outcome
      /\ nodes' = nodes /\ references' = references /\ outcome = "building"
    BY DEF Return
<1>2. /\ Len(calls) \in 1 .. Len(calls)
      /\ Running = calls[Len(calls)]
      /\ Running.i \in 1 .. Len(Children) + 1
      /\ Children \in Seq(ChildNodes)
      /\ Walked(references, Children, Running.i)
    BY <1>1, RunningShape
<1>3. calls \in Seq(Calls) /\ Types
    BY DEF Inv, Types
<1>4. /\ calls' \in Seq(Calls)
      /\ Len(calls') = Len(calls) - 1
      /\ \A k \in 1 .. Len(calls) - 1 : calls'[k] = calls[k]
    BY <1>1, <1>2, <1>3, FrontShape
<1>5. Running.i = Len(Children) + 1
    BY <1>1, <1>2
<1>6. Types'
    BY <1>1, <1>3, <1>4 DEF Types
<1>7. outcome' = "built" => calls' = <<>>
    BY <1>1, <1>4
<1>8. ASSUME NEW n \in 1 .. Len(nodes)
      PROVE  NodeIsLaid(n)'
    <2>1. NodeIsLaid(n)
        BY DEF Inv
    <2>2. Pointing(n) => Pointing(n)'
        BY <1>1 DEF Pointing
    <2>3. CASE n = Running.node
        <3>1. Walked(references, nodes[n].children, Len(nodes[n].children) + 1)
            BY <1>2, <1>5, <2>3 DEF Children
        <3> QED
            BY <1>1, <2>1, <2>2, <3>1 DEF NodeIsLaid
    <2>4. CASE n # Running.node
        <3>1. ASSUME Left(n)'
              PROVE  Left(n)
            <4>1. ASSUME NEW k \in 1 .. Len(calls)
                  PROVE  calls[k].node # n
                <5>1. CASE k = Len(calls)
                    BY <1>2, <2>4, <5>1
                <5>2. CASE k # Len(calls)
                    <6>1. k \in 1 .. Len(calls) - 1
                        BY <1>2, <5>2
                    <6>2. k \in 1 .. Len(calls') /\ calls'[k] = calls[k]
                        BY <1>4, <6>1
                    <6> QED
                        BY <3>1, <6>2 DEF Left
                <5> QED
                    BY <5>1, <5>2
            <4> QED
                BY <4>1 DEF Left
        <3> QED
            BY <1>1, <2>1, <2>2, <3>1 DEF NodeIsLaid
    <2> QED
        BY <2>3, <2>4
<1>9. ASSUME NEW k \in 1 .. Len(calls')
      PROVE  CallIsWalking(k)'
    <2>1. k \in 1 .. Len(calls) /\ calls'[k] = calls[k]
        BY <1>2, <1>4
    <2>2. CallIsWalking(k)
        BY <2>1 DEF Inv
    <2>3. \A l \in 1 .. Len(calls') : l \in 1 .. Len(calls) /\ calls'[l] = calls[l]
        BY <1>2, <1>4
    <2> QED
        BY <1>1, <2>1, <2>2, <2>3 DEF CallIsWalking
<1> QED
    BY <1>1, <1>6, <1>7, <1>8, <1>9 DEF Inv

\* What Resolve does: the child at the index is replaced by an item for a new
\* node, and walk is called for that node.
LEMMA ResolveShape ==
    ASSUME Inv, Resolve
    PROVE  /\ Open(references, Child) /\ Child.id \in Ids
           /\ Running.i \in 1 .. Len(Children)
           /\ nodes' \in Seq(Nodes) /\ Len(nodes') = Len(nodes) + 1
           /\ \A n \in 1 .. Len(nodes) :
                 /\ nodes'[n].id = nodes[n].id
                 /\ n # Running.node => nodes'[n] = nodes[n]
           /\ nodes'[Running.node].children =
                 Replace(Children, Running.i, Item(Child, Len(nodes) + 1))
           /\ nodes'[Len(nodes) + 1] = GetNode(Child.id)
           /\ calls' \in Seq(Calls) /\ Len(calls') = Len(calls) + 1
           /\ \A k \in 1 .. Len(calls) :
                 /\ calls'[k].node = calls[k].node
                 /\ k # Len(calls) => calls'[k] = calls[k]
           /\ calls'[Len(calls)].i = Running.i + 1
           /\ calls'[Len(calls) + 1] = [node |-> Len(nodes) + 1, i |-> 1]
<1> DEFINE item == Item(Child, Len(nodes) + 1)
           replaced == Replace(Children, Running.i, item)
           changed == [nodes EXCEPT ![Running.node].children = replaced]
           call == [node |-> Len(nodes) + 1, i |-> 1]
<1>1. /\ calls # <<>>
      /\ Running.i <= Len(Children)
      /\ Child.kind = "reference" /\ Known(references, Child.id)
      /\ calls' = Append(Advanced, call)
      /\ nodes' = Append(changed, GetNode(Child.id))
    BY DEF Resolve, AtChild, Replace, Children
<1>2. Types /\ nodes \in Seq(Nodes) /\ Len(nodes) \in Nat
    BY DEF Inv, Types
<1>3. /\ Len(calls) \in 1 .. Len(calls)
      /\ Running \in Calls
      /\ Running.node \in 1 .. Len(nodes)
      /\ Running.i \in 1 .. Len(Children) + 1
      /\ Children \in Seq(ChildNodes)
    BY <1>1, RunningShape
<1>4. Running.i \in 1 .. Len(Children)
    BY <1>1, <1>3
<1>5. Child \in ChildNodes
    BY <1>3, <1>4 DEF Child
<1>6. Child.id \in Ids
    BY <1>1, <1>2, <1>5, KnownIsFragment DEF ChildNodes
<1>7. GetNode(Child.id) \in Nodes
    BY <1>1, <1>2, <1>6, GetNodeShape
<1>8. item \in ChildNodes
    BY <1>2, <1>5 DEF Item, ChildNodes
<1> HIDE DEF item
<1>9. replaced \in Seq(ChildNodes)
    BY <1>3, <1>4, <1>8, ReplaceShape
<1> HIDE DEF replaced
<1> DEFINE node == [nodes[Running.node] EXCEPT !.children = replaced]
<1>10. node \in Nodes /\ node.id = nodes[Running.node].id /\ node.children = replaced
    <2>1. nodes[Running.node] \in Nodes
        BY <1>2, <1>3
    <2>2. nodes[Running.node] = [id |-> nodes[Running.node].id, children |-> nodes[Running.node].children]
        BY <2>1 DEF Nodes
    <2>3. nodes[Running.node].id \in Ids
        BY <2>1 DEF Nodes
    <2>4. node = [id |-> nodes[Running.node].id, children |-> replaced]
        BY <2>2
    <2> QED
        BY <1>9, <2>3, <2>4 DEF Nodes
<1>11. changed = [nodes EXCEPT ![Running.node] = node]
    OBVIOUS
<1> HIDE DEF node, changed
<1>12. /\ changed \in Seq(Nodes) /\ Len(changed) = Len(nodes)
       /\ \A n \in 1 .. Len(nodes) : changed[n] = IF n = Running.node THEN node ELSE nodes[n]
    BY <1>2, <1>3, <1>10, <1>11
<1>13. /\ nodes' \in Seq(Nodes) /\ Len(nodes') = Len(nodes) + 1
       /\ \A n \in 1 .. Len(nodes) : nodes'[n] = changed[n]
       /\ nodes'[Len(nodes) + 1] = GetNode(Child.id)
    BY <1>1, <1>7, <1>12
<1>14. /\ Advanced \in Seq(Calls)
       /\ Len(Advanced) = Len(calls)
       /\ \A k \in 1 .. Len(calls) : k # Len(calls) => Advanced[k] = calls[k]
       /\ \A k \in 1 .. Len(calls) : Advanced[k].node = calls[k].node
       /\ Advanced[Len(calls)].i = Running.i + 1
    BY <1>1, AdvancedShape
<1>15. call \in Calls
    BY <1>2 DEF Calls
<1> HIDE DEF call
<1>16. /\ calls' \in Seq(Calls) /\ Len(calls') = Len(calls) + 1
       /\ \A k \in 1 .. Len(calls) : calls'[k] = Advanced[k]
       /\ calls'[Len(calls) + 1] = call
    BY <1>1, <1>14, <1>15
<1>17. \A n \in 1 .. Len(nodes) :
          /\ nodes'[n].id = nodes[n].id
          /\ n # Running.node => nodes'[n] = nodes[n]
    BY <1>10, <1>12, <1>13
<1>18. nodes'[Running.node].children = replaced
    BY <1>3, <1>10, <1>12, <1>13
<1>19. \A k \in 1 .. Len(calls) :
          /\ calls'[k].node = calls[k].node
          /\ k # Len(calls) => calls'[k] = calls[k]
    BY <1>14, <1>16
<1>20. calls'[Len(calls)].i = Running.i + 1
    BY <1>3, <1>14, <1>16
<1>21. Open(references, Child)
    BY <1>1 DEF Open
<1> QED
    BY <1>4, <1>6, <1>13, <1>16, <1>17, <1>18, <1>19, <1>20, <1>21 DEF replaced, item, call

LEMMA ResolveInv == Inv /\ Resolve => Inv'
<1> SUFFICES ASSUME Inv, Resolve PROVE Inv'
    OBVIOUS
<1>22. PICK made : made = Len(nodes) + 1
    OBVIOUS
<1>23. PICK top : top = Len(calls) + 1
    OBVIOUS
<1> DEFINE item == Item(Child, made)
           replaced == Replace(Children, Running.i, item)
<1>1. /\ calls # <<>>
      /\ outcome = "building" /\ outcome' = outcome /\ references' = references
    BY DEF Resolve, AtChild
<1>2. Types /\ Len(nodes) \in Nat /\ made = Len(nodes) + 1 /\ top = Len(calls) + 1
    BY <1>22, <1>23 DEF Inv, Types
<1>3. /\ Len(calls) \in 1 .. Len(calls)
      /\ Running = calls[Len(calls)]
      /\ Running.node \in 1 .. Len(nodes)
      /\ Running.i \in 1 .. Len(Children) + 1
      /\ NodeIsLaid(Running.node)
      /\ Laid(Children, references[nodes[Running.node].id])
      /\ Walked(references, Children, Running.i)
      /\ \A k \in 1 .. Len(calls) : k # Len(calls) => calls[k].node # Running.node
    BY <1>1, RunningShape
<1>4. /\ Open(references, Child) /\ Child.id \in Ids
      /\ Running.i \in 1 .. Len(Children)
      /\ nodes' \in Seq(Nodes) /\ Len(nodes') = Len(nodes) + 1
      /\ \A n \in 1 .. Len(nodes) :
            /\ nodes'[n].id = nodes[n].id
            /\ n # Running.node => nodes'[n] = nodes[n]
      /\ nodes'[Running.node].children = replaced
      /\ nodes'[made] = GetNode(Child.id)
      /\ calls' \in Seq(Calls) /\ Len(calls') = Len(calls) + 1
      /\ \A k \in 1 .. Len(calls) :
            /\ calls'[k].node = calls[k].node
            /\ k # Len(calls) => calls'[k] = calls[k]
      /\ calls'[Len(calls)].i = Running.i + 1
      /\ calls'[top] = [node |-> made, i |-> 1]
    BY <1>22, <1>23, ResolveShape
<1>16. Open(references, Child) /\ Child.id \in Ids /\ Running.i \in 1 .. Len(Children)
    BY <1>4
<1>17. Running.node \in 1 .. Len(nodes)
    BY <1>3
<1>18. /\ Len(nodes') = made
       /\ made \in 1 .. Len(nodes') /\ made \notin 1 .. Len(nodes)
       /\ \A n \in 1 .. Len(nodes) : n \in 1 .. Len(nodes')
       /\ \A n \in 1 .. Len(nodes') : n \in 1 .. Len(nodes) \/ n = made
    <2>1. Len(nodes') = Len(nodes) + 1
        BY <1>4
    <2> QED
        BY <1>2, <2>1
<1>19. /\ nodes'[Running.node].children = replaced
       /\ \A n \in 1 .. Len(nodes) : nodes'[n].id = nodes[n].id
    BY <1>4
<1>20. \A n \in 1 .. Len(nodes) : n # Running.node => nodes'[n] = nodes[n]
    BY <1>4
<1>24. nodes'[made] = GetNode(Child.id)
    BY <1>4
<1>25. Len(calls) \in 1 .. Len(calls) /\ calls[Len(calls)].node = Running.node
    BY <1>3
<1>26. /\ top \in 1 .. Len(calls')
       /\ \A k \in 1 .. Len(calls) : k \in 1 .. Len(calls')
       /\ \A k \in 1 .. Len(calls') : k \in 1 .. Len(calls) \/ k = top
    <2>1. Len(calls') = Len(calls) + 1
        BY <1>4
    <2> QED
        BY <1>2, <1>25, <2>1
<1>27. \A k \in 1 .. Len(calls) :
          /\ calls'[k].node = calls[k].node
          /\ k # Len(calls) => calls'[k] = calls[k]
    BY <1>4
<1>28. calls'[Len(calls)].i = Running.i + 1
    BY <1>4
<1>29. calls'[top].node = made /\ calls'[top].i = 1
    BY <1>4
\* A node that comes after n still does.
<1>30. ASSUME NEW n \in 1 .. Len(nodes), NEW m \in n + 1 .. Len(nodes)
       PROVE  m \in 1 .. Len(nodes) /\ m \in n + 1 .. Len(nodes')
    BY <1>2, <1>18
<1>31. \A n \in 1 .. Len(nodes) : made \in n + 1 .. Len(nodes')
    BY <1>2, <1>18
<1>5. Known(references, Child.id)
    BY <1>16 DEF Open
<1>6. /\ GetNode(Child.id).id = Child.id
      /\ GetNode(Child.id).children = Placed(references[Child.id])
      /\ Laid(Placed(references[Child.id]), references[Child.id])
      /\ Walked(references, Placed(references[Child.id]), 1)
      /\ \A k \in 1 .. Len(Placed(references[Child.id])) :
            Placed(references[Child.id])[k].kind # "item"
    BY <1>2, <1>5, <1>16, GetNodeShape
<1>7. /\ Laid(replaced, references[nodes[Running.node].id])
      /\ Walked(references, replaced, Running.i + 1)
    <2>1. made \in Nat /\ Open(references, Children[Running.i])
        BY <1>2, <1>16 DEF Child
    <2>2. /\ Laid(Replace(Children, Running.i, Item(Children[Running.i], made)),
                   references[nodes[Running.node].id])
          /\ Walked(references, Replace(Children, Running.i, Item(Children[Running.i], made)),
                     Running.i + 1)
        <3>1. /\ Running.i \in 1 .. Len(Children)
              /\ Laid(Children, references[nodes[Running.node].id])
              /\ Walked(references, Children, Running.i)
            BY <1>3, <1>16
        <3> QED
            BY <2>1, <3>1, ReplaceKeeps
    <2> QED
        BY <2>2 DEF Child
<1> HIDE DEF item, replaced
<1>8. Types'
    BY <1>1, <1>2, <1>4 DEF Types
\* The item stands for a reference to the node that was made, every other for what it did.
<1>9. ASSUME NEW k \in 1 .. Len(replaced), replaced[k].kind = "item"
      PROVE  /\ replaced[k].node \in Running.node + 1 .. Len(nodes')
             /\ nodes'[replaced[k].node].id = references[nodes[Running.node].id][replaced[k].place].id
    <2>1. Pointing(Running.node)
        BY <1>3 DEF NodeIsLaid
    <2>2. /\ Len(replaced) = Len(Children) /\ Len(Children) \in Nat
          /\ replaced[k] = item \/ \E l \in 1 .. Len(Children) : replaced[k] = Children[l]
        <3>1. Children \in Seq(ChildNodes)
            BY <1>3 DEF Laid
        <3>2. Children[Running.i] \in ChildNodes
            BY <1>16, <3>1
        <3>3. item \in ChildNodes
            BY <1>2, <3>2 DEF item, Item, ChildNodes, Child
        <3>7. Running.i \in 1 .. Len(Children)
            BY <1>16
        <3>4. Len(replaced) = Len(Children)
            BY <3>1, <3>3, <3>7, ReplaceShape DEF replaced
        <3>5. k \in 1 .. Len(Children)
            BY <3>4
        <3>6. replaced[k] = item \/ \E l \in 1 .. Len(Children) : replaced[k] = Children[l]
            <4>1. \/ Replace(Children, Running.i, item)[k] = item
                  \/ \E l \in 1 .. Len(Children) : Replace(Children, Running.i, item)[k] = Children[l]
                BY <3>1, <3>3, <3>5, <3>7, ReplaceFrom
            <4> QED
                BY <4>1 DEF replaced
        <3> QED
            BY <3>1, <3>4, <3>6
    <2>3. CASE replaced[k] = item
        <3>1. item.node = made /\ item.place = Child.place
            BY Zenon DEF item, Item
        <3>2. Stands(Child, references[nodes[Running.node].id])
            BY <1>3, <1>16 DEF Laid, Child
        <3>3. references[nodes[Running.node].id][Child.place].id = Child.id
            BY <1>16, <3>2 DEF Stands, Open
        <3>4. replaced[k].node = made /\ replaced[k].place = Child.place
            BY <2>3, <3>1
        <3>5. nodes'[made].id = Child.id
            BY <1>6, <1>24
        <3>6. replaced[k].node \in Running.node + 1 .. Len(nodes')
            BY <1>17, <1>31, <3>4
        <3>7. nodes'[replaced[k].node].id = Child.id
            BY <3>4, <3>5
        <3>8. references[nodes[Running.node].id][replaced[k].place].id = Child.id
            BY <3>3, <3>4
        <3> QED
            BY <3>6, <3>7, <3>8
    <2>4. CASE \E l \in 1 .. Len(Children) : replaced[k] = Children[l]
        <3>1. PICK l \in 1 .. Len(Children) : replaced[k] = Children[l]
            BY <2>4, Zenon
        <3>2. /\ Children[l].node \in Running.node + 1 .. Len(nodes)
              /\ nodes[Children[l].node].id = references[nodes[Running.node].id][Children[l].place].id
            BY <1>9, <2>1, <3>1, Zenon DEF Pointing, Children
        <3>3. /\ Children[l].node \in 1 .. Len(nodes)
              /\ Children[l].node \in Running.node + 1 .. Len(nodes')
            BY <1>17, <1>30, <3>2
        <3>4. nodes'[Children[l].node].id = nodes[Children[l].node].id
            BY <1>19, <3>3
        <3> QED
            BY <3>1, <3>2, <3>3, <3>4
    <2> QED
        BY <2>2, <2>3, <2>4
<1>10. ASSUME NEW n \in 1 .. Len(nodes)
       PROVE  NodeIsLaid(n)'
    <2>1. NodeIsLaid(n)
        BY DEF Inv
    <2>2. CASE n = Running.node
        <3>1. ~ Left(n)'
            <4>1. calls'[Len(calls)].node = n
                BY <1>25, <1>27, <2>2
            <4> QED
                BY <1>25, <1>26, <4>1 DEF Left
        <3>2. Pointing(n)'
            <4>1. /\ nodes'[n].children = replaced
                  /\ references'[nodes'[n].id] = references[nodes[Running.node].id]
                BY <1>1, <1>19, <2>2
            <4> QED
                BY <1>9, <2>2, <4>1 DEF Pointing
        <3> QED
            BY <1>1, <1>7, <1>19, <2>1, <2>2, <3>1, <3>2 DEF NodeIsLaid
    <2>3. CASE n # Running.node
        <3>1. nodes'[n] = nodes[n]
            BY <1>20, <2>3
        <3>2. ASSUME NEW k \in 1 .. Len(nodes[n].children), nodes[n].children[k].kind = "item"
              PROVE  /\ nodes[n].children[k].node \in n + 1 .. Len(nodes')
                     /\ nodes'[nodes[n].children[k].node].id =
                            references[nodes[n].id][nodes[n].children[k].place].id
            <4>1. /\ nodes[n].children[k].node \in n + 1 .. Len(nodes)
                  /\ nodes[nodes[n].children[k].node].id =
                            references[nodes[n].id][nodes[n].children[k].place].id
                BY <2>1, <3>2 DEF NodeIsLaid, Pointing
            <4>2. /\ nodes[n].children[k].node \in 1 .. Len(nodes)
                  /\ nodes[n].children[k].node \in n + 1 .. Len(nodes')
                BY <1>30, <4>1
            <4> QED
                BY <1>19, <4>1, <4>2
        <3>3. Pointing(n)'
            BY <1>1, <3>1, <3>2 DEF Pointing
        <3>4. ASSUME Left(n)'
              PROVE  Left(n)
            BY <1>26, <1>27, <3>4 DEF Left
        <3> QED
            BY <1>1, <2>1, <3>1, <3>3, <3>4 DEF NodeIsLaid
    <2> QED
        BY <2>2, <2>3
<1>11. NodeIsLaid(made)'
    <2>1. nodes'[made].id = Child.id /\ nodes'[made].children = Placed(references[Child.id])
        BY <1>6, <1>24
    <2>2. ~ Left(made)'
        BY <1>26, <1>29 DEF Left
    <2>3. Pointing(made)'
        BY <1>6, <2>1 DEF Pointing
    <2> QED
        BY <1>1, <1>5, <1>6, <2>1, <2>2, <2>3 DEF NodeIsLaid
<1>12. ASSUME NEW k \in 1 .. Len(calls)
       PROVE  CallIsWalking(k)'
    <2>1. CallIsWalking(k)
        BY DEF Inv
    <2>2. calls'[k].node \in 1 .. Len(nodes) /\ calls'[k].node = calls[k].node
        BY <1>27, <2>1 DEF CallIsWalking
    <2>3. Walked(references', nodes'[calls'[k].node].children, calls'[k].i)
        <3>1. CASE k = Len(calls)
            <4>1. calls'[k].node = Running.node /\ calls'[k].i = Running.i + 1
                BY <1>25, <1>28, <2>2, <3>1
            <4> QED
                BY <1>1, <1>7, <1>19, <4>1
        <3>2. CASE k # Len(calls)
            <4>1. calls'[k] = calls[k]
                BY <1>27, <3>2
            <4>2. calls[k].node # Running.node
                BY <1>3, <3>2
            <4>3. nodes'[calls[k].node] = nodes[calls[k].node]
                BY <1>20, <2>2, <4>2
            <4>4. Walked(references, nodes[calls[k].node].children, calls[k].i)
                BY <2>1 DEF CallIsWalking
            <4> QED
                BY <1>1, <4>1, <4>3, <4>4
        <3> QED
            BY <3>1, <3>2
    <2>4. ASSUME NEW l \in 1 .. Len(calls'), k # l
          PROVE  calls'[k].node # calls'[l].node
        <3>1. CASE l = top
            BY <1>18, <1>29, <2>2, <3>1
        <3>2. CASE l # top
            <4>1. l \in 1 .. Len(calls)
                BY <1>26, <3>2
            <4>2. calls[k].node # calls[l].node
                BY <2>1, <2>4, <4>1 DEF CallIsWalking
            <4> QED
                BY <1>27, <2>2, <4>1, <4>2
        <3> QED
            BY <3>1, <3>2
    <2> QED
        BY <1>18, <2>2, <2>3, <2>4 DEF CallIsWalking
<1>13. CallIsWalking(top)'
    <2>1. Walked(references', nodes'[made].children, 1)
        BY <1>1, <1>6, <1>24
    <2>2. ASSUME NEW l \in 1 .. Len(calls'), top # l
          PROVE  made # calls'[l].node
        <3>1. l \in 1 .. Len(calls)
            BY <1>26, <2>2
        <3>2. calls[l].node \in 1 .. Len(nodes)
            BY <3>1 DEF Inv, CallIsWalking
        <3> QED
            BY <1>18, <1>27, <3>1, <3>2
    <2> QED
        BY <1>18, <1>29, <2>1, <2>2 DEF CallIsWalking
<1>14. \A n \in 1 .. Len(nodes') : NodeIsLaid(n)'
    BY <1>10, <1>11, <1>18
<1>15. \A k \in 1 .. Len(calls') : CallIsWalking(k)'
    BY <1>12, <1>13, <1>26
<1> QED
    BY <1>1, <1>8, <1>14, <1>15 DEF Inv
-----------------------------------------------------------------------------
(***************************************************************************)
(* What follows of the invariant.                                          *)
(***************************************************************************)

LEMMA Invariance == Spec => []Inv
<1>1. Inv /\ [Next]_vars => Inv'
    <2> SUFFICES ASSUME Inv, [Next]_vars PROVE Inv'
        OBVIOUS
    <2>1. CASE BuildNode
        BY <2>1, BuildNodeInv
    <2>2. CASE PassBy
        BY <2>2, PassByInv
    <2>3. CASE NoReferenceFound \/ NoNodeMade
        BY <2>3, FailingInv
    <2>4. CASE Resolve
        BY <2>4, ResolveInv
    <2>5. CASE Return
        BY <2>5, ReturnInv
    <2>6. CASE UNCHANGED vars
        BY <2>6, StandingKeeps DEF vars
    <2> QED
        BY <2>1, <2>2, <2>3, <2>4, <2>5, <2>6 DEF Next
<1> QED
    BY <1>1, InitInv, PTL DEF Spec

\* A child of a node, as the invariant knows it.
LEMMA ChildFacts ==
    ASSUME Inv, NEW n \in DOMAIN nodes
    PROVE  /\ n \in 1 .. Len(nodes)
           /\ DOMAIN nodes[n].children = 1 .. Len(nodes[n].children)
           /\ Laid(nodes[n].children, references[nodes[n].id])
           /\ Pointing(n)
           /\ outcome = "built" =>
                Walked(references, nodes[n].children, Len(nodes[n].children) + 1)
<1>1. n \in 1 .. Len(nodes)
    BY DEF Inv, Types
<1>2. NodeIsLaid(n)
    BY <1>1 DEF Inv
<1>3. nodes[n].children \in Seq(ChildNodes)
    BY <1>2 DEF NodeIsLaid, Laid
<1>4. outcome = "built" => Left(n)
    BY DEF Inv, Left
<1> QED
    BY <1>1, <1>2, <1>3, <1>4 DEF NodeIsLaid

\* The nodes are fragments being filled in, and the calls of walk are inside them.
THEOREM TypeCorrect == Spec => []TypeOK
<1>1. Inv => TypeOK
    <2> SUFFICES ASSUME Inv PROVE TypeOK
        OBVIOUS
    <2>1. ASSUME NEW n \in DOMAIN nodes, NEW k \in DOMAIN nodes[n].children
          PROVE  LET c == nodes[n].children[k] IN
                 IF c.kind = "item"
                 THEN c.node \in n + 1 .. Len(nodes)
                 ELSE [kind |-> c.kind, id |-> c.id] = references[nodes[n].id][c.place]
        <3>1. /\ k \in 1 .. Len(nodes[n].children)
              /\ Laid(nodes[n].children, references[nodes[n].id])
              /\ Pointing(n)
            BY <2>1, ChildFacts
        <3> QED
            BY <3>1 DEF Laid, Stands, Pointing
    <2>2. ASSUME NEW k \in DOMAIN calls
          PROVE  /\ calls[k].node \in DOMAIN nodes
                 /\ calls[k].i \in 1 .. Len(nodes[calls[k].node].children) + 1
        <3>1. CallIsWalking(k)
            BY <2>2 DEF Inv, Types
        <3>2. DOMAIN nodes = 1 .. Len(nodes)
            BY DEF Inv, Types
        <3> QED
            BY <3>1, <3>2 DEF CallIsWalking, Walked
    <2> QED
        BY <2>1, <2>2 DEF TypeOK, Inv, Types
<1> QED
    BY <1>1, Invariance, PTL

\* In a built document every child of a fragment is there once, under the node of
\* its fragment, and where the live list of walk has put it.
THEOREM NoChildIsLost == Spec => []NothingIsLost
<1>1. Inv => NothingIsLost
    <2> SUFFICES ASSUME Inv, outcome = "built", NEW n \in DOMAIN nodes
                 PROVE  LET fragment == references[nodes[n].id]
                            children == nodes[n].children
                        IN  /\ Len(children) = Len(fragment)
                            /\ \A k \in DOMAIN children : children[k].kind = "item" =>
                                nodes[children[k].node].id = fragment[children[k].place].id
                            /\ \A k, l \in DOMAIN children : k < l =>
                                \/ children[k].place < children[l].place /\
                                   (children[k].kind = "item" => children[l].kind = "item")
                                \/ children[k].kind # "item" /\ children[l].kind = "item"
        BY DEF NothingIsLost
    <2>1. /\ DOMAIN nodes[n].children = 1 .. Len(nodes[n].children)
          /\ Laid(nodes[n].children, references[nodes[n].id])
          /\ Pointing(n)
        BY ChildFacts
    <2> QED
        BY <2>1 DEF Laid, Ordered, Pointing
<1> QED
    BY <1>1, Invariance, PTL

\* The only references walk leaves behind are the right neighbours of references it
\* has replaced: those that moved to an index it had passed.
THEOREM NeighboursAlone == Spec => []OnlyNeighboursAreMissed
<1>1. Inv => OnlyNeighboursAreMissed
    <2> SUFFICES ASSUME Inv, outcome = "built", NEW n \in DOMAIN nodes, NEW p \in Unresolved(n)
                 PROVE  p - 1 \in Replaced(n)
        BY DEF OnlyNeighboursAreMissed
    <2> DEFINE children == nodes[n].children
    <2>1. /\ DOMAIN children = 1 .. Len(children)
          /\ Laid(children, references[nodes[n].id])
          /\ Walked(references, children, Len(children) + 1)
        BY ChildFacts
    <2>2. Len(children) \in Nat
        BY <2>1 DEF Laid
    <2>3. PICK k \in 1 .. Len(children) :
                children[k].place = p /\ Open(references, children[k])
        BY <2>1 DEF Unresolved, Range, Open
    <2>4. k < Len(children) + 1
        BY <2>2
    <2>5. PICK l \in 1 .. Len(children) :
                children[l].kind = "item" /\ children[l].place = children[k].place - 1
        BY <2>1, <2>3, <2>4 DEF Walked
    <2> QED
        BY <2>1, <2>3, <2>5 DEF Replaced, Range
<1> QED
    BY <1>1, Invariance, PTL

\* No fragment has two references with fragments as neighbours.
KeptApart(map) ==
    \A id \in Ids : Known(map, id) =>
        \A p \in 1 .. Len(map[id]) - 1 :
            ~ (Known(map, map[id][p].id) /\ Known(map, map[id][p + 1].id))

\* What a reader of walk expects holds where references are kept apart, as by the
\* white space of a fragment that is written on several lines.
THEOREM ResolvedWhenApart == Spec /\ KeptApart(references) => []AllAreResolved
<1>1. Inv /\ KeptApart(references) => AllAreResolved
    <2> SUFFICES ASSUME Inv, KeptApart(references), outcome = "built", NEW n \in DOMAIN nodes,
                        NEW p \in Unresolved(n)
                 PROVE  FALSE
        BY DEF AllAreResolved
    <2> DEFINE children == nodes[n].children
               fragment == references[nodes[n].id]
    <2>1. /\ n \in 1 .. Len(nodes)
          /\ DOMAIN children = 1 .. Len(children)
          /\ Laid(children, fragment)
          /\ Pointing(n)
          /\ Walked(references, children, Len(children) + 1)
        BY ChildFacts
    <2>2. NodeIsLaid(n) /\ nodes \in Seq(Nodes)
        BY <2>1 DEF Inv, Types
    <2>3. nodes[n] \in Nodes
        BY <2>1, <2>2
    <2>4. nodes[n].id \in Ids /\ Known(references, nodes[n].id)
        BY <2>2, <2>3 DEF NodeIsLaid, Nodes
    <2>5. Len(children) \in Nat /\ Len(fragment) = Len(children)
        BY <2>1 DEF Laid
    <2>6. PICK k \in 1 .. Len(children) :
                children[k].place = p /\ Open(references, children[k])
        BY <2>1 DEF Unresolved, Range, Open
    <2>7. k < Len(children) + 1
        BY <2>5
    <2>8. PICK l \in 1 .. Len(children) :
                children[l].kind = "item" /\ children[l].place = children[k].place - 1
        BY <2>1, <2>6, <2>7 DEF Walked
    <2>9. Stands(children[k], fragment) /\ Stands(children[l], fragment)
        BY <2>1 DEF Laid
    <2>10. p \in 1 .. Len(fragment) /\ p - 1 \in 1 .. Len(fragment)
        BY <2>6, <2>8, <2>9 DEF Stands
    <2>11. Known(references, fragment[p].id)
        BY <2>6, <2>9 DEF Stands, Open
    <2>12. Known(references, fragment[p - 1].id)
        <3>1. /\ children[l].node \in n + 1 .. Len(nodes)
              /\ nodes[children[l].node].id = fragment[p - 1].id
            BY <2>1, <2>6, <2>8 DEF Pointing
        <3>2. children[l].node \in 1 .. Len(nodes)
            BY <2>1, <3>1
        <3>3. Known(references, nodes[children[l].node].id)
            BY <3>2 DEF Inv, NodeIsLaid
        <3> QED
            BY <3>1, <3>3
    <2>13. p - 1 \in 1 .. Len(fragment) - 1 /\ (p - 1) + 1 = p
        BY <2>5, <2>10
    <2> QED
        BY <2>4, <2>11, <2>12, <2>13 DEF KeptApart
<1>2. KeptApart(references) /\ [Next]_vars => KeptApart(references)'
    <2> SUFFICES ASSUME KeptApart(references), [Next]_vars PROVE KeptApart(references)'
        OBVIOUS
    <2>1. references' = references
        BY DEF Next, BuildNode, PassBy, NoReferenceFound, NoNodeMade, Resolve, Return, AtChild, vars
    <2> QED
        BY <2>1
<1> QED
    BY <1>1, <1>2, Invariance, PTL DEF Spec
=============================================================================
