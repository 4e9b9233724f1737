----------------------------- MODULE CjsonTree ------------------------------
(* cJSON.c: the tree of items as the C code keeps it, an intrusive list of   *)
(* children whose first element's prev points to the last, items that only   *)
(* refer to the children of another, and names that are either copies on the *)
(* heap or constants.  Operators named as the C functions map a heap to the  *)
(* heap they leave; the actions are the public calls of a caller that obeys  *)
(* the API: it passes roots it holds, and never puts an item below itself.   *)
EXTENDS Integers, Sequences, SequencesExt, FiniteSets, FiniteSetsExt, Reach

CONSTANTS
  Nodes,    \* items malloc can return
  Keys,     \* names to look for
  Lower,    \* the names in lower case
  Given,    \* bound: the names items are given
  MaxRefs,  \* bound: references alive at a time
  NULL      \* the null pointer, for items and names

ASSUME TreeAssumption ==
  /\ IsFiniteSet(Nodes) /\ MaxRefs \in Nat
  /\ NULL \notin Nodes /\ NULL \notin Keys
  /\ Lower \in [Keys -> Keys] /\ Given \subseteq Keys

VARIABLES
  heap,     \* the items' fields, see Heaps
  held      \* roots in the caller's hands

vars == <<heap, held>>

Ptr == Nodes \cup {NULL}

\* child, next, prev, string: the fields of each item; isRef, isConst: items
\* with cJSON_IsReference, cJSON_StringIsConst; copied: items whose name is heap
\* memory; alive: allocated items; wild: memory was freed that was not allocated.
Heaps == [child : [Nodes -> Ptr], next : [Nodes -> Ptr], prev : [Nodes -> Ptr],
          string : [Nodes -> Keys \cup {NULL}],
          isRef : SUBSET Nodes, isConst : SUBSET Nodes, copied : SUBSET Nodes,
          alive : SUBSET Nodes, wild : BOOLEAN]

Blank == [n \in Nodes |-> NULL]

Init ==
  /\ heap = [child |-> Blank, next |-> Blank, prev |-> Blank, string |-> Blank,
             isRef |-> {}, isConst |-> {}, copied |-> {}, alive |-> {}, wild |-> FALSE]
  /\ held = {}

-----------------------------------------------------------------------------
\* Reading the lists.

\* The items from m on along next.
From(h, m) ==
  LET at[i \in 0 .. Cardinality(Nodes)] ==
        LET p == at[i - 1] IN IF i = 0 THEN m ELSE IF p = NULL THEN NULL ELSE h.next[p]
  IN  IF m = NULL THEN << >>
      ELSE [i \in {j \in 1 .. Cardinality(Nodes) : at[j - 1] # NULL} |-> at[i - 1]]

Kids(h, a) == From(h, h.child[a])

get_array_item(h, a, index) ==
  IF index \in DOMAIN Kids(h, a) THEN Kids(h, a)[index] ELSE NULL

\* The first child with that name, in any case unless case_sensitive, and then
\* the search stops at a child without a name.
get_object_item(h, o, name, case_sensitive) ==
  LET kids == Kids(h, o)
      Named(i) == h.string[kids[i]] # NULL
      hits == {i \in DOMAIN kids :
                 IF case_sensitive
                 THEN h.string[kids[i]] = name /\ \A j \in 1 .. i - 1 : Named(j)
                 ELSE Named(i) /\ Lower[h.string[kids[i]]] = Lower[name]}
  IN  IF hits = {} THEN NULL ELSE kids[CHOOSE i \in hits : \A j \in hits : i <= j]

-----------------------------------------------------------------------------
\* Writing them.

cJSON_New_Item(h, n) == [h EXCEPT !.alive = @ \cup {n}]

suffix_object(h, prev, item) == [h EXCEPT !.next[prev] = item, !.prev[item] = prev]

\* Appends item; leaves the heap alone, and still answers true, when the first
\* child has no prev.
add_item_to_array(h, array, item) ==
  LET child == h.child[array] IN
  IF item = NULL \/ array = item THEN h
  ELSE IF child = NULL
       THEN [h EXCEPT !.child[array] = item, !.prev[item] = item, !.next[item] = NULL]
  ELSE IF h.prev[child] = NULL THEN h
  ELSE [suffix_object(h, h.prev[child], item) EXCEPT !.prev[child] = item]

\* A bug: an item moved to another object under a constant name still has the
\* copy it was given before.
FreeName_Skipped(h, item) == h

\* Frees the name of item unless it is a constant.
FreeName(h, item) ==
  IF item \in h.isConst \/ h.string[item] = NULL THEN h
  ELSE [h EXCEPT !.copied = @ \ {item}, !.wild = @ \/ item \notin h.copied]

\* A copy on the heap, or NULL.
cJSON_strdup(name) == {name, NULL}

\* Gives item a new name, a copy or the caller's constant; a copy may be NULL.
NameItem(h, item, name, constant) ==
  LET f == FreeName(h, item) IN
  [f EXCEPT !.string[item] = name,
            !.isConst = IF constant THEN @ \cup {item} ELSE @ \ {item},
            !.copied  = IF constant \/ name = NULL THEN @ ELSE @ \cup {item}]

\* Names item and appends it; object = item is refused before anything changes.
add_item_to_object(h, object, name, item, constant) ==
  IF object = item \/ item = NULL THEN h
  ELSE add_item_to_array(NameItem(h, item, name, constant), object, item)

\* A copy of item's fields that owns neither the children nor a name.
create_reference(h, n, item) ==
  [cJSON_New_Item(h, n) EXCEPT
     !.child[n] = h.child[item],
     !.isRef = @ \cup {n},
     !.isConst = IF item \in @ THEN @ \cup {n} ELSE @]

\* A bug: the first child is detached without telling its successor.
DetachItem_KeepsWrap(h, parent, item) ==
  IF item = h.child[parent]
  THEN [h EXCEPT !.child[parent] = h.next[item], !.prev[item] = NULL, !.next[item] = NULL]
  ELSE [h EXCEPT !.next[h.prev[item]] = h.next[item], !.prev[item] = NULL, !.next[item] = NULL]

cJSON_DetachItemViaPointer(h, parent, item) ==
  LET first == item = h.child[parent]
      h1 == IF first THEN h ELSE [h EXCEPT !.next[h.prev[item]] = h.next[item]]
      h2 == IF h1.next[item] = NULL THEN h1
            ELSE [h1 EXCEPT !.prev[h1.next[item]] = h1.prev[item]]
      h3 == IF first THEN [h2 EXCEPT !.child[parent] = h2.next[item]]
            ELSE IF h2.next[item] = NULL
                 THEN [h2 EXCEPT !.prev[h2.child[parent]] = h2.prev[item]]
            ELSE h2
  IN  [h3 EXCEPT !.prev[item] = NULL, !.next[item] = NULL]

\* A bug: in the middle of a list the predecessor is not told of the item.
InsertItem_NotLinked(h, array, which, item) ==
  LET after == get_array_item(h, array, which)
      h1 == [h EXCEPT !.next[item] = after, !.prev[item] = h.prev[after],
                      !.prev[after] = item]
  IN  IF after = NULL THEN add_item_to_array(h, array, item)
      ELSE IF after = h.child[array] THEN [h1 EXCEPT !.child[array] = item]
      ELSE h1

cJSON_InsertItemInArray(h, array, which, item) ==
  LET after == get_array_item(h, array, which)
      h1 == [h EXCEPT !.next[item] = after, !.prev[item] = h.prev[after],
                      !.prev[after] = item]
  IN  IF after = NULL THEN add_item_to_array(h, array, item)
      ELSE IF after = h.child[array] THEN [h1 EXCEPT !.child[array] = item]
      ELSE [h1 EXCEPT !.next[h1.prev[item]] = item]

\* The items cJSON_Delete(item) frees: along next, and along child except below
\* a reference.
Freed(h, item) ==
  Met(Nodes, item, [n \in Nodes |-> {h.next[n], IF n \in h.isRef THEN NULL ELSE h.child[n]} \ {NULL}])

cJSON_Delete(h, item) ==
  LET dead  == Freed(h, item)
      names == {n \in dead : n \notin h.isConst /\ h.string[n] # NULL}
      Clear(f) == [n \in Nodes |-> IF n \in dead THEN NULL ELSE f[n]]
  IN  [child |-> Clear(h.child), next |-> Clear(h.next), prev |-> Clear(h.prev),
       string |-> Clear(h.string), isRef |-> h.isRef \ dead,
       isConst |-> h.isConst \ dead, copied |-> h.copied \ names,
       alive |-> h.alive \ dead,
       wild |-> h.wild \/ ~(dead \subseteq h.alive) \/ ~(names \subseteq h.copied)]

cJSON_ReplaceItemViaPointer(h, parent, item, replacement) ==
  LET h1 == [h EXCEPT !.next[replacement] = h.next[item],
                      !.prev[replacement] = h.prev[item]]
      h2 == IF h1.next[replacement] = NULL THEN h1
            ELSE [h1 EXCEPT !.prev[h1.next[replacement]] = replacement]
      first == h2.child[parent] = item
      alone == h2.prev[item] = item
      h3 == IF first
            THEN [h2 EXCEPT !.prev[replacement] = IF alone THEN replacement ELSE @,
                            !.child[parent] = replacement]
            ELSE [h2 EXCEPT !.next[h2.prev[replacement]] = replacement,
                            !.prev[h2.child[parent]] =
                               IF h2.next[replacement] = NULL THEN replacement ELSE @]
  IN  cJSON_Delete([h3 EXCEPT !.next[item] = NULL, !.prev[item] = NULL], item)

\* The items of a new list, as the loops that build one leave them: the first
\* is told of the last only when all are there.
Chained(h, parent, items, whole) ==
  [h EXCEPT !.child[parent] = IF items = << >> THEN NULL ELSE items[1],
            !.next = [n \in Nodes |-> LET i == SelectInSeq(items, LAMBDA m : m = n) IN
                        IF i \in 1 .. Len(items) - 1 THEN items[i + 1] ELSE @[n]],
            !.prev = [n \in Nodes |-> LET i == SelectInSeq(items, LAMBDA m : m = n) IN
                        IF i > 1 THEN items[i - 1]
                        ELSE IF i = 1 /\ whole THEN Last(items) ELSE @[n]]]

\* A new array a of count items, for which malloc gives the nodes of fresh and
\* then NULL.
cJSON_CreateArrayOf(h, a, fresh, count) ==
  LET made  == SubSeq(fresh, 1, Min({count, Len(fresh)}))
      items == [h EXCEPT !.alive = @ \cup {a} \cup ToSet(made)]
  IN  IF Len(fresh) >= count THEN Chained(items, a, made, TRUE)
      ELSE cJSON_Delete(Chained(items, a, made, FALSE), a)

\* A copy of item alone: a name on the heap is copied, a constant shared.
CopyOf(h, n, item) ==
  [cJSON_New_Item(h, n) EXCEPT
     !.string[n] = h.string[item],
     !.isConst   = IF item \in @ THEN @ \cup {n} ELSE @,
     !.copied    = IF item \in h.isConst \/ h.string[item] = NULL THEN @ ELSE @ \cup {n}]

\* The copies of the items of kids one after the other, until one fails; copy
\* gives that of an item, and fresh what malloc gives.
CopyKids(fresh, kids, start, copy) ==
  LET all[j \in 0 .. Len(kids)] ==
        LET r == all[j - 1]
            s == copy[kids[j]][r.used][r.heap]
        IN  IF j = 0 THEN start ELSE IF ~r.ok THEN r
            ELSE [ok |-> s.ok, heap |-> s.heap, used |-> s.used,
                  kids |-> IF s.ok THEN Append(r.kids, fresh[r.used + 1]) ELSE r.kids]
  IN  all[Len(kids)]

\* The copy of n and its children in the node after the used ones.
CopyTree(fresh, n, g, used, copy) ==
  LET new   == fresh[used + 1]
      start == [ok |-> TRUE, heap |-> CopyOf(g, new, n), used |-> used + 1, kids |-> << >>]
      all   == CopyKids(fresh, Kids(g, n), start, copy)
      whole == Chained(all.heap, new, all.kids, all.ok)
  IN  [ok |-> all.ok, used |-> all.used,
       heap |-> IF all.ok THEN whole ELSE cJSON_Delete(whole, new)]

\* The recursive copy, for which malloc gives the nodes of fresh and then NULL:
\* the heap, the nodes used up and whether all is copied.  A level of children
\* uses up a node at least, so k runs out no sooner than they do.
cJSON_Duplicate(h, item, fresh) ==
  LET M == Len(fresh)
      copy[k \in 0 .. M] ==
        [n \in Nodes |-> [used \in 0 .. M |-> [g \in Heaps |->
           IF k = 0 \/ used = M THEN [ok |-> FALSE, heap |-> g, used |-> used]
           ELSE CopyTree(fresh, n, g, used, copy[k - 1])]]]
  IN  copy[M][item][0][h]

-----------------------------------------------------------------------------
\* The calls of an obedient caller.

Below(n) ==
  Met(Nodes, n, [m \in Nodes |-> IF m \in heap.isRef THEN {} ELSE ToSet(Kids(heap, m))])

\* Items the caller can reach and add to.
Containers == (UNION {Below(n) : n \in held}) \ heap.isRef

\* Where the caller may put an item it holds; item itself is refused by the code.
MayTake(a, item) == item \in held /\ (a = item \/ a \notin Below(item))

Took(a, item) == held' = IF a = item THEN held ELSE held \ {item}

\* malloc gives n; at most MaxRefs references are kept at a time.
MayRefer(n) == n \notin heap.alive /\ Cardinality(heap.isRef) < MaxRefs

Create(n) ==
  /\ n \notin heap.alive
  /\ heap' = cJSON_New_Item(heap, n)
  /\ held' = held \cup {n}

\* cJSON_CreateIntArray and its like; without memory for all there is none.
CreateArrayOf(a, fresh, count) ==
  /\ ToSet(fresh) \cup {a} \subseteq Nodes \ heap.alive /\ a \notin ToSet(fresh)
  /\ heap' = cJSON_CreateArrayOf(heap, a, fresh, count)
  /\ held' = IF Len(fresh) >= count THEN held \cup {a} ELSE held

\* cJSON_CreateObjectReference, cJSON_CreateArrayReference: a root that shows
\* the children of item.
CreateReference(n, item) ==
  /\ MayRefer(n)
  /\ heap' = [cJSON_New_Item(heap, n) EXCEPT !.child[n] = heap.child[item],
                                            !.isRef = @ \cup {n}]
  /\ held' = held \cup {n}

\* A tree with a reference below it may be one the walk never leaves.
Duplicate(item, fresh) ==
  LET copy == cJSON_Duplicate(heap, item, fresh) IN
  /\ Below(item) \cap heap.isRef = {}
  /\ heap' = copy.heap
  /\ held' = IF copy.ok THEN held \cup {fresh[1]} ELSE held

DuplicateAlone(item, n) ==
  /\ n \notin heap.alive
  /\ heap' = CopyOf(heap, n, item)
  /\ held' = held \cup {n}

AddItemToArray(a, item) ==
  /\ MayTake(a, item)
  /\ heap' = add_item_to_array(heap, a, item)
  /\ Took(a, item)

\* Without memory for the copy of the name, nothing happens.
AddItemToObject(o, name, item, constant) ==
  /\ MayTake(o, item)
  /\ \/ heap' = add_item_to_object(heap, o, name, item, constant) /\ Took(o, item)
     \/ ~constant /\ NULL \in cJSON_strdup(name) /\ UNCHANGED vars

\* A bug: the item nobody could name is not deleted.
AddNewToObject_Keeps(o, name, n) ==
  /\ n \notin heap.alive
  /\ heap' \in {add_item_to_object(cJSON_New_Item(heap, n), o, name, n, FALSE),
                cJSON_New_Item(heap, n)}
  /\ UNCHANGED held

\* cJSON_AddNullToObject and its like delete the item they cannot name.
AddNewToObject(o, name, n) ==
  /\ n \notin heap.alive
  /\ heap' \in {add_item_to_object(cJSON_New_Item(heap, n), o, name, n, FALSE),
                cJSON_Delete(cJSON_New_Item(heap, n), n)}
  /\ UNCHANGED held

InsertItemInArray(a, which, item) ==
  /\ MayTake(a, item) /\ a # item
  /\ heap' = cJSON_InsertItemInArray(heap, a, which, item)
  /\ Took(a, item)

AddItemReferenceToArray(a, item, n) ==
  /\ MayRefer(n)
  /\ heap' = add_item_to_array(create_reference(heap, n, item), a, n)
  /\ UNCHANGED held

\* When the name cannot be copied the reference just made is forgotten.
AddItemReferenceToObject(o, name, item, n) ==
  /\ MayRefer(n)
  /\ \/ heap' = add_item_to_object(create_reference(heap, n, item), o, name, n, FALSE)
     \/ heap' = create_reference(heap, n, item)
  /\ UNCHANGED held

\* A bug: the NULL of a child that was not found is handed on as an item.
Detach_OfNothing(a, item) ==
  /\ heap' = IF item = NULL THEN heap ELSE cJSON_DetachItemViaPointer(heap, a, item)
  /\ held' = held \cup {item}

Detach(a, item) ==
  /\ item # NULL
  /\ heap' = cJSON_DetachItemViaPointer(heap, a, item)
  /\ held' = held \cup {item}

DetachItemFromArray(a, which) == Detach(a, get_array_item(heap, a, which))

DetachItemFromObject(o, name, cs) == Detach(o, get_object_item(heap, o, name, cs))

DeleteChild(a, item) ==
  /\ item # NULL
  /\ heap' = cJSON_Delete(cJSON_DetachItemViaPointer(heap, a, item), item)
  /\ UNCHANGED held

DeleteItemFromArray(a, which) == DeleteChild(a, get_array_item(heap, a, which))

DeleteItemFromObject(o, name, cs) == DeleteChild(o, get_object_item(heap, o, name, cs))

ReplaceItemInArray(a, which, item) ==
  LET old == get_array_item(heap, a, which) IN
  /\ MayTake(a, item) /\ a # item /\ old # NULL
  /\ heap' = cJSON_ReplaceItemViaPointer(heap, a, old, item)
  /\ Took(a, item)

\* The replacement is renamed before the child is looked up: without one, the
\* caller keeps it under its new name.  When the name cannot be copied, the
\* replacement goes in without one.
ReplaceItemInObject(o, name, copy, item, cs) ==
  LET h   == NameItem(heap, item, copy, FALSE)
      old == get_object_item(h, o, name, cs)
  IN  /\ MayTake(o, item) /\ o # item /\ copy \in cJSON_strdup(name)
      /\ heap' = IF old = NULL THEN h ELSE cJSON_ReplaceItemViaPointer(h, o, old, item)
      /\ IF old = NULL THEN UNCHANGED held ELSE Took(o, item)

Delete(item) ==
  /\ item \in held
  /\ heap' = cJSON_Delete(heap, item)
  /\ held' = held \ {item}

Indices == 1 .. Cardinality(Nodes) - 1

AddTo(a) ==
  \/ \E item \in held : AddItemToArray(a, item)
  \/ \E item \in held, name \in Given, c \in BOOLEAN :
       AddItemToObject(a, name, item, c)
  \/ \E item \in held, i \in Indices : InsertItemInArray(a, i, item)
  \/ \E item \in Containers, n \in Nodes : AddItemReferenceToArray(a, item, n)
  \/ \E item \in Containers, n \in Nodes, name \in Given :
       AddItemReferenceToObject(a, name, item, n)
  \/ \E n \in Nodes, name \in Given : AddNewToObject(a, name, n)

TakeFrom(a) ==
  \/ \E i \in Indices : DetachItemFromArray(a, i)
  \/ \E name \in Keys, cs \in BOOLEAN : DetachItemFromObject(a, name, cs)
  \/ \E i \in Indices : DeleteItemFromArray(a, i)
  \/ \E name \in Keys, cs \in BOOLEAN : DeleteItemFromObject(a, name, cs)
  \/ \E item \in held, i \in Indices : ReplaceItemInArray(a, i, item)
  \/ \E item \in held, name \in Given, copy \in Given \cup {NULL}, cs \in BOOLEAN :
       ReplaceItemInObject(a, name, copy, item, cs)

\* The items malloc may give, one after the other, before it fails.
Fresh == LET free == Nodes \ heap.alive IN
         {f \in UNION {[1 .. k -> free] : k \in 0 .. Cardinality(free)} : IsInjective(f)}

Copy(a) ==
  \/ \E n \in Nodes : CreateReference(n, a) \/ DuplicateAlone(a, n)
  \/ \E fresh \in Fresh : Duplicate(a, fresh)

Next ==
  \/ \E n \in Nodes : Create(n)
  \/ \E a \in Nodes, fresh \in Fresh, count \in Indices : CreateArrayOf(a, fresh, count)
  \/ \E a \in Containers : AddTo(a) \/ TakeFrom(a) \/ Copy(a)
  \/ \E n \in held : Delete(n)

Spec == Init /\ [][Next]_vars

-----------------------------------------------------------------------------
\* The values of the state.
TypeOK == heap \in Heaps /\ held \subseteq Nodes

Owners == heap.alive \ heap.isRef

\* The children of every item that owns some form a list whose prev pointers
\* run backwards and wrap around once, from the first child to the last, and
\* nothing else points into it; roots stand alone.
ListsWellFormed ==
  /\ \A a \in Owners :
       LET s == Kids(heap, a) IN
       /\ IsInjective(s) /\ ToSet(s) \subseteq heap.alive
       /\ s # << >> => heap.next[Last(s)] = NULL /\ heap.prev[s[1]] = Last(s)
       /\ \A i \in 2 .. Len(s) : heap.prev[s[i]] = s[i - 1]
  /\ \A a, b \in Owners :
       a # b => ToSet(Kids(heap, a)) \cap ToSet(Kids(heap, b)) = {}
  /\ \A n \in held : heap.next[n] = NULL /\ \A a \in Owners : n \notin ToSet(Kids(heap, a))

\* No call sequence frees memory twice or frees a constant name, and an item's
\* name is heap memory exactly when its flag does not say it is a constant.
NamesOwned ==
  /\ ~heap.wild
  /\ heap.copied \subseteq heap.alive
  /\ \A n \in heap.alive : heap.string[n] # NULL => (n \in heap.copied <=> n \notin heap.isConst)

\* Every item is reachable from a root the caller holds; the one exception is a
\* reference whose name could not be copied, which nobody can free.
OnlyReferencesLeak ==
  heap.alive \ UNION {Below(n) : n \in held} \subseteq
    {n \in heap.isRef : heap.string[n] = NULL}

\* The list operations are those on sequences of children, and ownership passes
\* between caller and tree as JsonTree says.
Shown(h) == [n \in Nodes |-> IF n \in h.isRef THEN << >> ELSE Kids(h, n)]

Tree == INSTANCE JsonTree WITH live <- heap.alive, kids <- Shown(heap)

ImplementsTree == Tree!Spec
=============================================================================
