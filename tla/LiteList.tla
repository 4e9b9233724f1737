------------------------------ MODULE LiteList ------------------------------
(* lite-list.h: circular doubly linked lists threaded through their entries, *)
(* and the loops over them.  The callers are outside the source; they obey   *)
(* the header's comments: an entry is added while it is on no list, a head   *)
(* is initialised first, and the body of a loop leaves the cell alone that   *)
(* the loop will step from.  An entry and its list_head member are one cell. *)
EXTENDS Integers, Sequences, SequencesExt, FiniteSets

CONSTANTS
  Heads, Entries,  \* the cells: struct list_head of their own, or of an entry
  NULL             \* no cell

Cells == Heads \cup Entries

ASSUME CellsAssumption ==
  /\ Heads \cap Entries = {} /\ NULL \notin Cells
  /\ IsFiniteSet(Cells) /\ Heads # {}

VARIABLES
  l,       \* the members next and prev of every cell
  ringed,  \* cells whose members were set and not abandoned since
  listed,  \* entries the callers have put on a list
  loop     \* the iteration in progress

vars == <<l, ringed, listed, loop>>

Links == [next : [Cells -> Cells \cup {NULL}], prev : [Cells -> Cells \cup {NULL}]]

\* dir and safe say which macro it is, n is the temporary storage of the safe
\* ones; due are the entries the loop found and has not come to, as long as
\* they are left in place.
NoLoop == [on |-> FALSE, head |-> NULL, dir |-> "next", safe |-> FALSE,
           pos |-> NULL, n |-> NULL, due |-> << >>]

Init ==
  /\ l = [next |-> [c \in Cells |-> NULL], prev |-> [c \in Cells |-> NULL]]
  /\ ringed = {} /\ listed = {}
  /\ loop = NoLoop

-----------------------------------------------------------------------------
\* The operations on the links, writes in the order of the code: where cells
\* coincide a later read sees an earlier write.

INIT_LIST_HEAD(k, list) == [k EXCEPT !.next[list] = list, !.prev[list] = list]

__list_add(k, new, prev, next) ==
  [k EXCEPT !.prev[next] = new, !.next[new] = next, !.prev[new] = prev, !.next[prev] = new]

list_add(k, new, head) == __list_add(k, new, head, k.next[head])

list_add_tail(k, new, head) == __list_add(k, new, k.prev[head], head)

__list_del(k, prev, next) == [k EXCEPT !.prev[next] = prev, !.next[prev] = next]

list_del(k, entry) == __list_del(k, k.prev[entry], k.next[entry])

\* A bug: the old cell's neighbours are read once, so that an empty head hands
\* its own address on.
list_replace_NoAlias(k, old, new) ==
  [k EXCEPT !.next[new] = k.next[old], !.prev[new] = k.prev[old],
            !.prev[k.next[old]] = new, !.next[k.prev[old]] = new]

list_replace(k, old, new) ==
  LET k1 == [k EXCEPT !.next[new] = k.next[old], !.prev[k.next[old]] = new]
  IN  [k1 EXCEPT !.prev[new] = k1.prev[old], !.next[k1.prev[old]] = new]

list_replace_init(k, old, new) == INIT_LIST_HEAD(list_replace(k, old, new), old)

list_del_init(k, entry) == INIT_LIST_HEAD(list_del(k, entry), entry)

\* A bug: the entry is not taken off its old list.
list_move_Adds(k, list, head) == list_add(k, list, head)

list_move(k, list, head) == list_add(list_del(k, list), list, head)

list_move_tail(k, list, head) == list_add_tail(list_del(k, list), list, head)

list_is_last(list, head) == l.next[list] = head

list_empty(head) == l.next[head] = head

list_empty_careful(head) == l.next[head] = head /\ l.next[head] = l.prev[head]

\* A bug: an empty list counts.
list_is_singular_OrEmpty(head) == l.next[head] = l.prev[head]

list_is_singular(head) == ~list_empty(head) /\ l.next[head] = l.prev[head]

list_first_entry(head) == l.next[head]

list_last_entry(head) == l.prev[head]

list_first_entry_or_null(head) == IF list_empty(head) THEN NULL ELSE list_first_entry(head)

-----------------------------------------------------------------------------
\* The ring from a cell on, one way, up to the cell stop: at[i] is the cell
\* after i steps.

Walk(k, dir, from, stop) ==
  LET at[i \in 0 .. Cardinality(Cells)] ==
        IF i = 0 THEN from
        ELSE IF at[i - 1] \in {stop, NULL} THEN at[i - 1] ELSE k[dir][at[i - 1]]
  IN  [i \in {j \in 1 .. Cardinality(Cells) : at[j - 1] \notin {stop, NULL}} |-> at[i - 1]]

Content(h) == IF h \in ringed THEN Walk(l, "next", l.next[h], h) ELSE << >>

On(h) == ToSet(Content(h))
Alone == Entries \ listed
InUse == listed \cup (Heads \cap ringed)

-----------------------------------------------------------------------------
\* The calls of an obedient caller, from outside and inside a loop.

\* The cell whose link the loop will follow next stays where it is.
MayUnlink(c) == loop.on => c # loop.head /\ c # (IF loop.safe THEN loop.n ELSE loop.pos)

Forget(c) ==
  LET at == {i \in DOMAIN loop.due : loop.due[i] = c}
  IN  [loop EXCEPT !.due = IF at = {} THEN @ ELSE RemoveAt(@, CHOOSE i \in at : TRUE)]

Prepare(c) ==
  /\ c \in Alone \/ (c \in Heads /\ c \notin ringed)
  /\ l' = INIT_LIST_HEAD(l, c)
  /\ ringed' = ringed \cup {c}
  /\ UNCHANGED <<listed, loop>>

Insert(e, at) ==
  /\ e \in Alone /\ at \in InUse
  /\ l' \in {list_add(l, e, at), list_add_tail(l, e, at)}
  /\ ringed' = ringed \cup {e} /\ listed' = listed \cup {e}
  /\ UNCHANGED loop

Unlink(e) ==
  /\ e \in listed /\ MayUnlink(e)
  /\ \/ l' = list_del(l, e) /\ ringed' = ringed \ {e}
     \/ l' = list_del_init(l, e) /\ UNCHANGED ringed
  /\ listed' = listed \ {e}
  /\ loop' = Forget(e)

\* A queue's user takes the first entry, if there is one.
TakeFirst(h) ==
  LET e == list_first_entry_or_null(h) IN
  /\ h \in ringed /\ e # NULL
  /\ Unlink(e)

Move(e, h) ==
  /\ e \in listed /\ h \in Heads \cap ringed /\ MayUnlink(e)
  /\ l' \in {list_move(l, e, h), list_move_tail(l, e, h)}
  /\ loop' = Forget(e)
  /\ UNCHANGED <<ringed, listed>>

list_rotate_left(h) ==
  LET first == list_first_entry(h) IN
  /\ h \in ringed /\ ~list_empty(h)
  /\ first \in listed /\ MayUnlink(first)
  /\ l' = list_move_tail(l, first, h)
  /\ loop' = Forget(first)
  /\ UNCHANGED <<ringed, listed>>

\* new takes the place of old: an entry's, or a head's with all its entries.
Replace(old, new) ==
  /\ \/ old \in listed /\ new \in Alone /\ listed' = (listed \ {old}) \cup {new}
     \/ /\ old \in Heads \cap ringed /\ new \in Heads
        /\ new \in ringed => list_empty(new)
        /\ UNCHANGED listed
  /\ old # new
  /\ MayUnlink(old) /\ MayUnlink(new)
  /\ \/ l' = list_replace(l, old, new) /\ ringed' = (ringed \ {old}) \cup {new}
     \/ l' = list_replace_init(l, old, new) /\ ringed' = ringed \cup {new}
  /\ loop' = Forget(old)

-----------------------------------------------------------------------------
\* The loops.

\* A bug: the temporary storage is first set when the loop steps.
Start_NoTemp(head, first, dir, safe) ==
  /\ ~loop.on /\ head \in Heads \cap ringed
  /\ first # head
  /\ loop' = [on |-> TRUE, head |-> head, dir |-> dir, safe |-> safe, pos |-> first,
              n |-> NULL, due |-> Walk(l, dir, l[dir][first], head)]
  /\ UNCHANGED <<l, ringed, listed>>

\* The loop over head begins its body at first, or is over at once.
Start(head, first, dir, safe) ==
  /\ ~loop.on /\ head \in Heads \cap ringed
  /\ first # head
  /\ loop' = [on |-> TRUE, head |-> head, dir |-> dir, safe |-> safe, pos |-> first,
              n |-> IF safe THEN l[dir][first] ELSE NULL,
              due |-> Walk(l, dir, l[dir][first], head)]
  /\ UNCHANGED <<l, ringed, listed>>

list_for_each(head, dir) == Start(head, l[dir][head], dir, FALSE)

list_for_each_safe(head, dir) == Start(head, l[dir][head], dir, TRUE)

list_prepare_entry(pos, head) == IF pos = NULL THEN head ELSE pos

list_for_each_entry_continue(pos, head, dir) ==
  Start(head, l[dir][list_prepare_entry(pos, head)], dir, FALSE)

list_for_each_entry_from(pos, head) == Start(head, pos, "next", FALSE)

list_for_each_entry_safe_continue(pos, head) == Start(head, l.next[pos], "next", TRUE)

list_for_each_entry_safe_from(pos, head) == Start(head, pos, "next", TRUE)

\* A bug: the safe loop reads the link of the cell its body was given.
Upcoming_OfPos == l[loop.dir][loop.pos]

\* The cell the loop comes to next.
Upcoming == IF loop.safe THEN loop.n ELSE l[loop.dir][loop.pos]

\* The body is done: the loop goes on, or is over at its head.
Advance ==
  /\ loop.on
  /\ loop' = IF Upcoming = loop.head THEN NoLoop
             ELSE [loop EXCEPT
                     !.pos = Upcoming,
                     !.n = IF loop.safe THEN l[loop.dir][Upcoming] ELSE NULL,
                     !.due = IF @ # << >> /\ Head(@) = Upcoming THEN Tail(@) ELSE @]
  /\ UNCHANGED <<l, ringed, listed>>

\* The body removes the entry after the cursor, then resets the temporary.
list_safe_reset_next ==
  LET k == list_del_init(l, loop.n) IN
  /\ loop.on /\ loop.safe /\ loop.dir = "next"
  /\ loop.pos \in listed /\ loop.n \in listed /\ loop.n = l.next[loop.pos]
  /\ l' = k
  /\ loop' = [Forget(loop.n) EXCEPT !.n = k.next[loop.pos]]
  /\ listed' = listed \ {loop.n}
  /\ UNCHANGED ringed

Loops(h) ==
  \/ \E dir \in {"next", "prev"} : list_for_each(h, dir) \/ list_for_each_safe(h, dir)
  \/ \E pos \in (listed \cap On(h)) \cup {NULL}, dir \in {"next", "prev"} :
       list_for_each_entry_continue(pos, h, dir)
  \/ \E pos \in listed \cap On(h) :
       \/ list_for_each_entry_from(pos, h)
       \/ list_for_each_entry_safe_continue(pos, h)
       \/ list_for_each_entry_safe_from(pos, h)

Next ==
  \/ \E c \in Cells : Prepare(c)
  \/ \E e \in Entries, at \in Cells : Insert(e, at)
  \/ \E e \in Entries : Unlink(e) \/ \E h \in Heads : Move(e, h)
  \/ \E old, new \in Cells : Replace(old, new)
  \/ \E h \in Heads : TakeFirst(h) \/ list_rotate_left(h) \/ Loops(h)
  \/ Advance \/ list_safe_reset_next

Spec == Init /\ [][Next]_vars

-----------------------------------------------------------------------------
\* The values of the state.
TypeOK ==
  /\ l \in Links /\ ringed \subseteq Cells /\ listed \subseteq Entries
  /\ DOMAIN loop = DOMAIN NoLoop
  /\ loop.on \in BOOLEAN /\ loop.safe \in BOOLEAN /\ loop.dir \in {"next", "prev"}
  /\ loop.on => loop.head \in Heads /\ loop.pos \in Cells
  /\ loop.on /\ loop.safe => loop.n \in Cells

Rings(k, R) ==
  \A c \in R : /\ k.next[c] \in R /\ k.prev[k.next[c]] = c
               /\ k.prev[c] \in R /\ k.next[k.prev[c]] = c

\* next and prev are each other's inverse on the cells in use, whatever cells
\* coincide in an operation: an empty list, a list of one, an empty head
\* replaced.
Mirrored == Rings(l, ringed)

\* No ring holds two heads, no entry is on two, and the constant-time tests and
\* accessors say of each list what walking it says.
TestsAgreeWithWalk ==
  /\ listed = UNION {On(h) : h \in Heads}
  /\ \A h \in Heads \cap ringed :
      LET s == Content(h) IN
      /\ IsInjective(s) /\ ToSet(s) \subseteq Entries
      /\ \A g \in Heads \ {h} : On(g) \cap On(h) = {}
      /\ Walk(l, "prev", l.prev[h], h) = Reverse(s)
      /\ list_empty(h) = (s = << >>) /\ list_empty_careful(h) = list_empty(h)
      /\ list_is_singular(h) = (Len(s) = 1)
      /\ s # << >> => list_first_entry(h) = s[1] /\ list_last_entry(h) = Last(s)
      /\ \A e \in ToSet(s) : list_is_last(e, h) = (e = Last(s))

Before(s, x, y) == \E i, j \in DOMAIN s : i < j /\ s[i] = x /\ s[j] = y

\* Whatever the body removes, moves, replaces or adds within the rules, a loop
\* comes to every entry it found that was left in place, in order: those it has
\* not come to lie ahead of it, and it steps from a cell of the list.
LoopMissesNothing ==
  loop.on =>
    LET ahead == Walk(l, loop.dir, Upcoming, loop.head) IN
    /\ Upcoming \in On(loop.head) \cup {loop.head}
    /\ ToSet(loop.due) \subseteq ToSet(ahead)
    /\ \A i, j \in DOMAIN loop.due : i < j => Before(ahead, loop.due[i], loop.due[j])

\* The pointer operations are insertions into, removals from and moves between
\* sequences.
Abstract == INSTANCE Lists WITH content <- [h \in Heads |-> Content(h)]

ImplementsLists == Abstract!Spec
=============================================================================
