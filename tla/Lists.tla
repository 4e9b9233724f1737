------------------------------- MODULE Lists --------------------------------
(* What lite-list.h promises: every head stands for a sequence of entries,   *)
(* no entry is in two places, and an operation changes one place.            *)
EXTENDS Integers, Sequences, SequencesExt

CONSTANTS Heads, Entries

VARIABLE content   \* the entries of each head, in order

Init == content = [h \in Heads |-> << >>]

On(h) == ToSet(content[h])
Free  == Entries \ UNION {On(h) : h \in Heads}

\* Without the entry at the place i of h.
Without(h, i) == [content EXCEPT ![h] = RemoveAt(@, i)]

Insert(c, h, i, e) == content' = [c EXCEPT ![h] = InsertAt(@, i, e)]

Add(e, h)        == \E i \in 1 .. Len(content[h]) + 1 : Insert(content, h, i, e)
Unlink(h, i)     == content' = Without(h, i)
Move(h, i, g)    == \E j \in {1, Len(Without(h, i)[g]) + 1} :
                      Insert(Without(h, i), g, j, content[h][i])
Replace(h, i, f) == content' = [content EXCEPT ![h] = ReplaceAt(@, i, f)]
TakeOver(h, g) ==
  /\ content[g] = << >>
  /\ content' = [content EXCEPT ![g] = content[h], ![h] = << >>]

Next ==
  \/ \E e \in Free, h \in Heads : Add(e, h)
  \/ \E h \in Heads : \E i \in DOMAIN content[h] :
       Unlink(h, i) \/ (\E g \in Heads : Move(h, i, g)) \/ \E f \in Free : Replace(h, i, f)
  \/ \E h, g \in Heads : h # g /\ TakeOver(h, g)

Spec == Init /\ [][Next]_content
=============================================================================
