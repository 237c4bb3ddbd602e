------------------------- MODULE DDIDocumentBuilder -------------------------
(***************************************************************************)
(* DDIDocumentBuilder.buildNode: the fragment of a DDI item is parsed, and *)
(* the references among its children are replaced by the fragments of the  *)
(* items they point at, and so on in those.                                *)
(*                                                                         *)
(* The loop of walk goes over getChildNodes(), a live list: appending the  *)
(* fragment and removing the reference happens to the very list the index  *)
(* runs over, while walk is entered again for the fragment.  One action is *)
(* what one turn of the loop does; the calls of walk that have not         *)
(* returned are a stack.                                                   *)
(*                                                                         *)
(* The conversion of a fragment to nodes keeps of it what walk looks at:   *)
(* which children are references, to what, and which are not (elements of  *)
(* other names, or the white space a fragment is written with).            *)
(***************************************************************************)
EXTENDS Naturals, Sequences, FiniteSets, SequencesExt

CONSTANTS
    Ids,        \* identifiers of items
    Root,       \* the item a document is built of
    Fragments,  \* the maps a builder may be called with: id -> children of its fragment
    Malformed,  \* a fragment that is no XML document: one that is cut off, or empty
    Null        \* Java's null: no fragment, or a reference without an r:ID

\* A child of a fragment, at its place in it.
Reference(id) == [kind |-> "reference", id |-> id]
Other == [kind |-> "other", id |-> Null]
Entries == {Reference(id) : id \in Ids \cup {Null}} \cup {Other}

\* The identifiers a fragment refers to that have a fragment of their own.
Known(map, id) == id # Null /\ map[id] \notin {Null, Malformed}
PointsAt(map, id) == {e.id : e \in {f \in Range(map[id]) : f.kind = "reference" /\ Known(map, f.id)}}

\* Items do not contain themselves: walk would enter itself again for ever.
ASSUME FragmentsAssumption ==
    /\ Root \in Ids
    /\ Null \notin Ids
    /\ Fragments \subseteq [Ids -> Seq(Entries) \cup {Null, Malformed}]
    /\ \A map \in Fragments : \E depth \in [Ids -> 0 .. Cardinality(Ids)] :
        \A id \in Ids : Known(map, id) => \A i \in PointsAt(map, id) : depth[i] < depth[id]

VARIABLES
    references, \* the map from identifiers to fragments
    nodes,      \* the nodes made of fragments: [id, children], in the order they were made
    calls,      \* the calls of walk: [node, i], the last one is running
    outcome     \* "building", "built", or "failed" when an exception left buildNode

vars == <<references, nodes, calls, outcome>>
-----------------------------------------------------------------------------
(***************************************************************************)
(* The children of a node are entries with the place they have in its      *)
(* fragment, and items: the nodes that were put in for a reference.  No    *)
(* node has the number 0.                                                  *)
(***************************************************************************)
Item(reference, node) ==
    [kind |-> "item", id |-> reference.id, place |-> reference.place, node |-> node]

Placed(entries) ==
    [k \in DOMAIN entries |->
        [kind |-> entries[k].kind, id |-> entries[k].id, place |-> k, node |-> 0]]

\* getNode: a fragment is parsed anew each time it is asked for.
GetNode(id) == [id |-> id, children |-> Placed(references[id])]

Running == Last(calls)
Children == nodes[Running.node].children
Child == Children[Running.i]

\* The call of walk goes on to the next index.
Advanced == [calls EXCEPT ![Len(calls)].i = @ + 1]

Init ==
    /\ references \in Fragments
    /\ nodes = <<>>
    /\ calls = <<>>
    /\ outcome = "building"

\* buildNode, up to the call of walk.  Without a fragment of the root, or with an
\* empty one, there is an empty document, whose missing element cannot be cloned.
BuildNode ==
    /\ outcome = "building"
    /\ nodes = <<>>
    /\ IF Known(references, Root)
       THEN /\ nodes' = <<GetNode(Root)>>
            /\ calls' = <<[node |-> 1, i |-> 1]>>
            /\ UNCHANGED outcome
       ELSE /\ outcome' = "failed"
            /\ UNCHANGED <<nodes, calls>>
    /\ UNCHANGED references

\* The loop is at a child.
AtChild(kinds) ==
    /\ outcome = "building"
    /\ calls # <<>>
    /\ Running.i <= Len(Children)
    /\ Child.kind \in kinds
    /\ UNCHANGED references

\* Mutant of PassBy: the index stands still at a reference nobody has.
PassByOthers ==
    /\ AtChild({"other", "item", "reference"})
    /\ Child.kind = "reference" => Child.id # Null /\ references[Child.id] = Null
    /\ calls' = IF Child.kind = "reference" THEN calls ELSE Advanced
    /\ UNCHANGED <<nodes, outcome>>

\* Nothing is to be done: it is not a reference, or one nobody has a fragment for.
\* An item that was put in is not looked into again, its name being no reference.
PassBy ==
    /\ AtChild({"other", "item", "reference"})
    /\ Child.kind = "reference" => Child.id # Null /\ references[Child.id] = Null
    /\ calls' = Advanced
    /\ UNCHANGED <<nodes, outcome>>

\* getId finds no r:ID and throws.
NoReferenceFound ==
    /\ AtChild({"reference"})
    /\ Child.id = Null
    /\ outcome' = "failed"
    /\ UNCHANGED <<nodes, calls>>

\* getNode cannot parse the fragment or clone its element, and throws before the
\* children have changed.
NoNodeMade ==
    /\ AtChild({"reference"})
    /\ Child.id # Null
    /\ references[Child.id] = Malformed
    /\ outcome' = "failed"
    /\ UNCHANGED <<nodes, calls>>

\* Mutant of Resolve: the fragment is put in front, as insertBefore would.
ResolveInFront ==
    /\ AtChild({"reference"})
    /\ Known(references, Child.id)
    /\ LET child == Len(nodes) + 1 IN
       /\ nodes' = Append([nodes EXCEPT ![Running.node].children =
                               <<Item(Child, child)>> \o RemoveAt(@, Running.i)],
                          GetNode(Child.id))
       /\ calls' = Append(Advanced, [node |-> child, i |-> 1])
    /\ UNCHANGED outcome

\* Mutant of Resolve: walk is not called for what was put in.
ResolveNotInside ==
    /\ AtChild({"reference"})
    /\ Known(references, Child.id)
    /\ nodes' = Append([nodes EXCEPT ![Running.node].children =
                            Append(RemoveAt(@, Running.i), Item(Child, Len(nodes) + 1))],
                       GetNode(Child.id))
    /\ calls' = Advanced
    /\ UNCHANGED outcome

\* The fragment is appended to the children, the reference is removed from them,
\* and walk is called for the fragment; i is one further when that returns.
Resolve ==
    /\ AtChild({"reference"})
    /\ Known(references, Child.id)
    /\ LET child == Len(nodes) + 1 IN
       /\ nodes' = Append([nodes EXCEPT ![Running.node].children =
                               Append(RemoveAt(@, Running.i), Item(Child, child))],
                          GetNode(Child.id))
       /\ calls' = Append(Advanced, [node |-> child, i |-> 1])
    /\ UNCHANGED outcome

\* Mutant of Return: the node is taken for built when any call has returned.
ReturnFromAny ==
    /\ outcome = "building"
    /\ calls # <<>>
    /\ Running.i > Len(Children)
    /\ calls' = Front(calls)
    /\ outcome' = "built"
    /\ UNCHANGED <<references, nodes>>

\* The loop of a call of walk has ended; with the first call the node is built.
Return ==
    /\ outcome = "building"
    /\ calls # <<>>
    /\ Running.i > Len(Children)
    /\ calls' = Front(calls)
    /\ outcome' = IF Len(calls) = 1 THEN "built" ELSE outcome
    /\ UNCHANGED <<references, nodes>>

Next ==
    \/ BuildNode
    \/ PassBy
    \/ NoReferenceFound
    \/ NoNodeMade
    \/ Resolve
    \/ Return

\* One thread runs the loop, and nothing in it waits.
Spec == Init /\ [][Next]_vars /\ WF_vars(Next)
-----------------------------------------------------------------------------
(***************************************************************************)
(* Properties.                                                             *)
(***************************************************************************)

TypeOK ==
    /\ outcome \in {"building", "built", "failed"}
    /\ \A n \in DOMAIN nodes : \A k \in DOMAIN nodes[n].children :
        LET c == nodes[n].children[k] IN
        IF c.kind = "item"
        THEN c.node \in n + 1 .. Len(nodes)
        ELSE [kind |-> c.kind, id |-> c.id] = references[nodes[n].id][c.place]
    /\ \A k \in DOMAIN calls : /\ calls[k].node \in DOMAIN nodes
                               /\ calls[k].i \in 1 .. Len(nodes[calls[k].node].children) + 1
    /\ outcome = "built" => calls = <<>>

\* The places of the references of node n that items were put in for.
Replaced(n) == {c.place : c \in {d \in Range(nodes[n].children) : d.kind = "item"}}

\* The references of node n that are still there and could be resolved.
Unresolved(n) ==
    {c.place : c \in {d \in Range(nodes[n].children) :
                        d.kind = "reference" /\ Known(references, d.id)}}

\* A reference with a fragment is left in a built document only where walk cannot
\* see it: right behind a reference that was replaced, which moved it to an index
\* the loop had passed.  In a fragment whose references are kept apart by white
\* space or by references nobody has, all of them are resolved.
OnlyNeighboursAreMissed ==
    outcome = "built" =>
        \A n \in DOMAIN nodes : \A p \in Unresolved(n) : p - 1 \in Replaced(n)

\* Every child of a fragment is in the built document once, under the node of its
\* own fragment: itself or the item of the identifier it refers to.  What was not
\* replaced comes first, both parts in the order of the fragment.
NothingIsLost ==
    outcome = "built" =>
        \A n \in DOMAIN nodes :
            LET fragment == references[nodes[n].id]
                children == nodes[n].children
            IN  /\ Len(children) = Len(fragment)
                /\ \A k \in DOMAIN children : children[k].kind = "item" =>
                    nodes[children[k].node].id = fragment[children[k].place].id
                /\ \A k, l \in DOMAIN children : k < l =>
                    \/ children[k].place < children[l].place /\
                       (children[k].kind = "item" => children[l].kind = "item")
                    \/ children[k].kind # "item" /\ children[l].kind = "item"

\* buildNode comes to an end although it appends to the list it walks over: the
\* items at the end are passed by, and items do not contain themselves.
BuildingEnds == <>(outcome # "building")

(***************************************************************************)
(* What a reader of walk takes it to do.                                   *)
(***************************************************************************)

\* No reference that has a fragment is left.
AllAreResolved == outcome = "built" => \A n \in DOMAIN nodes : Unresolved(n) = {}
=============================================================================
