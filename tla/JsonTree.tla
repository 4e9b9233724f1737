------------------------------ MODULE JsonTree ------------------------------
(* What cJSON's list operations promise: a forest whose nodes have their     *)
(* children in sequences.  The caller holds the roots; adding an item takes  *)
(* it out of the caller's hands, detaching gives it back, deleting a root or *)
(* replacing a child destroys a whole subtree.  A reference to an item is a  *)
(* leaf of its own here: what it shows belongs to the item.                  *)
EXTENDS Integers, Sequences, SequencesExt, FiniteSets, Reach

CONSTANT Nodes

VARIABLES
  live,     \* allocated nodes
  kids,     \* the children of each node, in order
  held      \* roots in the caller's hands

vars == <<live, kids, held>>

Init == live = {} /\ kids = [n \in Nodes |-> << >>] /\ held = {}

Subtree(n) == Met(Nodes, n, [m \in Nodes |-> ToSet(kids[m])])

Create(n) ==
  /\ n \notin live
  /\ live' = live \cup {n} /\ held' = held \cup {n}
  /\ UNCHANGED kids

\* A new tree: a list of leaves, or a copy of the subtree of item.
Build(n) ==
  LET new == live' \ live IN
  /\ n \in new /\ live \subseteq live' /\ held' = held \cup {n}
  /\ \/ /\ ToSet(kids'[n]) = new \ {n} /\ IsInjective(kids'[n])
        /\ \A m \in Nodes \ {n} : kids'[m] = kids[m]
     \/ \E item \in live : \E f \in [Subtree(item) -> new] :
          /\ f[item] = n /\ IsInjective(f) /\ Range(f) = new
          /\ kids' = [m \in Nodes |-> IF m \in new THEN kids'[m] ELSE kids[m]]
          /\ \A m \in DOMAIN f : kids'[f[m]] = [i \in DOMAIN kids[m] |-> f[kids[m][i]]]

\* item becomes the i-th child of a.
Insert(a, i, item) ==
  /\ a \in live /\ item \in held
  /\ held' = held \ {item} /\ live' = live
  /\ i \in 1 .. Len(kids[a]) + 1 /\ a \notin Subtree(item)
  /\ kids' = [kids EXCEPT ![a] = InsertAt(@, i, item)]

\* A new reference becomes the last child of a, or is lost to everybody.
InsertReference(a, n) ==
  /\ a \in live /\ n \notin live
  /\ held' = held /\ live' = live \cup {n}
  /\ \/ kids' = [kids EXCEPT ![a] = Append(@, n)]
     \/ UNCHANGED kids

Detach(a, i) ==
  /\ a \in live /\ live' = live
  /\ i \in DOMAIN kids[a] /\ held' = held \cup {kids[a][i]}
  /\ kids' = [kids EXCEPT ![a] = RemoveAt(@, i)]

\* What is left of the children when the subtrees below S are destroyed.
Without(S) == [n \in Nodes |-> IF n \in S THEN << >> ELSE kids[n]]

\* The i-th child of a is destroyed.
Discard(a, i) ==
  /\ a \in live /\ held' = held
  /\ i \in DOMAIN kids[a]
  /\ LET dead == Subtree(kids[a][i]) IN
     /\ live' = live \ dead
     /\ kids' = [Without(dead) EXCEPT ![a] = RemoveAt(@, i)]

\* The i-th child of a is destroyed, with item in its place.
Replace(a, i, item) ==
  /\ a \in live /\ item \in held
  /\ held' = held \ {item}
  /\ i \in DOMAIN kids[a] /\ a \notin Subtree(item)
  /\ LET dead == Subtree(kids[a][i]) IN
     /\ live' = live \ dead
     /\ kids' = [Without(dead) EXCEPT ![a] = ReplaceAt(@, i, item)]

Delete(n) ==
  /\ n \in held /\ held' = held \ {n}
  /\ LET dead == Subtree(n) IN
     /\ live' = live \ dead
     /\ kids' = Without(dead)

Next ==
  \/ \E n \in Nodes : Create(n) \/ Build(n) \/ Delete(n)
  \/ \E a, n \in Nodes : InsertReference(a, n)
  \/ \E a \in Nodes, i \in 1 .. Cardinality(Nodes) :
       \/ Detach(a, i)
       \/ Discard(a, i)
       \/ \E item \in Nodes : Insert(a, i, item) \/ Replace(a, i, item)

Spec == Init /\ [][Next]_vars
=============================================================================
