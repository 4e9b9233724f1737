--------------------------- MODULE LiteListProofs ---------------------------
(* LiteList for every set of heads and entries.  First, next and prev stay   *)
(* each other's inverse: one lemma per pointer operation says that it maps   *)
(* rings to rings.  Then the lists: Contents, what walking next finds, is a  *)
(* family of sequences without a common entry (Standing), and each operation *)
(* does to it what Lists says: the refinement.  Last, the loops: what a loop *)
(* has found and not come to lies ahead of its cursor (DueInv).              *)
EXTENDS LiteList, FiniteSetTheorems, SequenceTheorems, WellFoundedInduction, TLAPS

\* Entries on no list whose members are set point to themselves.
SelfAlone == \A e \in (ringed \cap Entries) \ listed : l.next[e] = e

CursorRinged ==
  loop.on => loop.head \in ringed /\ (IF loop.safe THEN loop.n ELSE loop.pos) \in ringed

IInv == TypeOK /\ Mirrored /\ SelfAlone /\ listed \subseteq ringed /\ CursorRinged

-----------------------------------------------------------------------------

\* INIT_LIST_HEAD makes a ring of one and leaves the others alone.
LEMMA InitRings ==
  ASSUME NEW k \in Links, NEW R \in SUBSET Cells, NEW c \in Cells, Rings(k, R),
         c \in R => k.next[c] = c
  PROVE  /\ INIT_LIST_HEAD(k, c) \in Links
         /\ Rings(INIT_LIST_HEAD(k, c), R \cup {c})
         /\ \A d \in Cells : INIT_LIST_HEAD(k, c).next[d] = IF d = c THEN c ELSE k.next[d]
<1> DEFINE j == INIT_LIST_HEAD(k, c)
<1>1. j \in Links
  BY DEF INIT_LIST_HEAD, Links
<1>2. \A d \in Cells : /\ j.next[d] = IF d = c THEN c ELSE k.next[d]
                       /\ j.prev[d] = IF d = c THEN c ELSE k.prev[d]
  BY DEF INIT_LIST_HEAD, Links
<1>3. \A d \in R : d # c => k.next[d] # c /\ k.prev[d] # c
  BY DEF Rings
<1> HIDE DEF j
<1>4. Rings(j, R \cup {c})
  BY <1>2, <1>3 DEF Rings
<1> QED
  BY <1>1, <1>2, <1>4 DEF j

\* Adding a cell between two neighbours keeps the ring; only the cell before
\* it gets another next.
LEMMA AddRings ==
  ASSUME NEW k \in Links, NEW R \in SUBSET Cells, Rings(k, R),
         NEW new \in Cells, NEW p \in R, new # p, new \in R => k.next[new] = new
  PROVE  LET j == __list_add(k, new, p, k.next[p]) IN
         /\ j \in Links
         /\ Rings(j, R \cup {new})
         /\ \A d \in Cells \ {p, new} : j.next[d] = k.next[d]
<1> DEFINE n == k.next[p]
           j == __list_add(k, new, p, n)
<1>0. n \in R /\ k.prev[n] = p /\ n # new
  BY DEF Rings
<1>1. j \in Links
  BY <1>0 DEF __list_add, Links
<1>2. \A d \in Cells :
        /\ j.next[d] = IF d = p THEN new ELSE IF d = new THEN n ELSE k.next[d]
        /\ j.prev[d] = IF d = new THEN p ELSE IF d = n THEN new ELSE k.prev[d]
  BY <1>0 DEF __list_add, Links
<1>3. \A d \in R : /\ d # p => k.next[d] # n
                   /\ d # n => k.prev[d] # p
                   /\ d # new => k.next[d] # new /\ k.prev[d] # new
  BY DEF Rings
<1> HIDE DEF j
<1>4. Rings(j, R \cup {new})
  <2> SUFFICES ASSUME NEW d \in R \cup {new}
               PROVE  /\ j.next[d] \in R \cup {new} /\ j.prev[j.next[d]] = d
                      /\ j.prev[d] \in R \cup {new} /\ j.next[j.prev[d]] = d
    BY DEF Rings
  <2>1. CASE d = new
    BY <1>0, <1>2, <2>1
  <2>2. CASE d # new
    BY <1>0, <1>2, <1>3, <2>2 DEF Rings
  <2> QED
    BY <2>1, <2>2
<1> QED
  BY <1>1, <1>2, <1>4 DEF j

\* Taking a cell out closes the ring behind it.
LEMMA DelRings ==
  ASSUME NEW k \in Links, NEW R \in SUBSET Cells, Rings(k, R), NEW e \in R
  PROVE  /\ list_del(k, e) \in Links
         /\ Rings(list_del(k, e), R \ {e})
         /\ \A d \in Cells : d # k.prev[e] => list_del(k, e).next[d] = k.next[d]
<1> DEFINE p == k.prev[e]
           n == k.next[e]
           j == list_del(k, e)
<1>0. p \in R /\ n \in R /\ k.next[p] = e /\ k.prev[n] = e
  BY DEF Rings
<1>1. j \in Links
  BY <1>0 DEF list_del, __list_del, Links
<1>2. \A d \in Cells : /\ j.next[d] = IF d = p THEN n ELSE k.next[d]
                       /\ j.prev[d] = IF d = n THEN p ELSE k.prev[d]
  BY <1>0 DEF list_del, __list_del, Links
<1>3. \A d \in R : /\ d # p => k.next[d] # e
                   /\ d # n => k.prev[d] # e
                   /\ d # e => k.next[d] # n /\ k.prev[d] # p
  BY <1>0 DEF Rings
<1> HIDE DEF j
<1>4. Rings(j, R \ {e})
  <2> SUFFICES ASSUME NEW d \in R \ {e}
               PROVE  /\ j.next[d] \in R \ {e} /\ j.prev[j.next[d]] = d
                      /\ j.prev[d] \in R \ {e} /\ j.next[j.prev[d]] = d
    BY DEF Rings
  <2>1. e # p => n # e
    BY <1>0
  <2>2. j.next[d] \in R \ {e} /\ j.prev[j.next[d]] = d
    BY <1>0, <1>2, <1>3 DEF Rings
  <2>3. j.prev[d] \in R \ {e} /\ j.next[j.prev[d]] = d
    BY <1>0, <1>2, <1>3 DEF Rings
  <2> QED
    BY <2>2, <2>3
<1> QED
  BY <1>1, <1>2, <1>4 DEF j

\* The new cell takes the place of the old one, also in a ring of one.
LEMMA ReplaceRings ==
  ASSUME NEW k \in Links, NEW R \in SUBSET Cells, Rings(k, R),
         NEW old \in R, NEW new \in Cells, old # new, new \in R => k.next[new] = new
  PROVE  LET j == list_replace(k, old, new) IN
         /\ j \in Links
         /\ Rings(j, (R \ {old}) \cup {new})
         /\ \A d \in Cells \ {old, new} : d # k.prev[old] => j.next[d] = k.next[d]
<1> DEFINE p == k.prev[old]
           n == k.next[old]
           j == list_replace(k, old, new)
<1>0. p \in R /\ n \in R /\ k.next[p] = old /\ k.prev[n] = old /\ p # new /\ n # new
  BY DEF Rings
<1>a. n = old <=> p = old
  BY <1>0 DEF Rings
<1>1. j \in Links
  BY <1>0, <1>a DEF list_replace, Links
<1>2. CASE n = old
  <2>1. \A d \in Cells \ {old} :
          /\ j.next[d] = IF d = new THEN new ELSE k.next[d]
          /\ j.prev[d] = IF d = new THEN new ELSE k.prev[d]
    BY <1>0, <1>a, <1>2 DEF list_replace, Links
  <2>2. \A d \in R \ {old, new} : /\ k.next[d] \notin {old, new}
                                  /\ k.prev[d] \notin {old, new}
    BY <1>0, <1>2, <1>a DEF Rings
  <2> HIDE DEF j
  <2>3. Rings(j, (R \ {old}) \cup {new})
    BY <2>1, <2>2 DEF Rings
  <2> QED
    BY <1>1, <2>1, <2>3 DEF j
<1>3. CASE n # old
  <2>1. \A d \in Cells :
          /\ j.next[d] = IF d = p THEN new ELSE IF d = new THEN n ELSE k.next[d]
          /\ j.prev[d] = IF d = new THEN p ELSE IF d = n THEN new ELSE k.prev[d]
    BY <1>0, <1>a, <1>3 DEF list_replace, Links
  <2>2. \A d \in R : /\ d # p => k.next[d] # old
                     /\ d # n => k.prev[d] # old
                     /\ d # new => k.next[d] # new /\ k.prev[d] # new
                     /\ d # old => k.next[d] # n /\ k.prev[d] # p
    BY <1>0 DEF Rings
  <2> HIDE DEF j
  <2>3. Rings(j, (R \ {old}) \cup {new})
    <3> SUFFICES ASSUME NEW d \in (R \ {old}) \cup {new}
                 PROVE  /\ j.next[d] \in (R \ {old}) \cup {new} /\ j.prev[j.next[d]] = d
                        /\ j.prev[d] \in (R \ {old}) \cup {new} /\ j.next[j.prev[d]] = d
      BY DEF Rings
    <3>1. CASE d = new
      BY <1>0, <1>a, <1>3, <2>1, <3>1
    <3>2. CASE d # new
      <4>1. j.next[d] \in (R \ {old}) \cup {new} /\ j.prev[j.next[d]] = d
        BY <1>0, <1>a, <1>3, <2>1, <2>2, <3>2 DEF Rings
      <4>2. j.prev[d] \in (R \ {old}) \cup {new} /\ j.next[j.prev[d]] = d
        BY <1>0, <1>a, <1>3, <2>1, <2>2, <3>2 DEF Rings
      <4> QED
        BY <4>1, <4>2
    <3> QED
      BY <3>1, <3>2
  <2> QED
    BY <1>1, <2>1, <2>3 DEF j
<1> QED
  BY <1>2, <1>3

-----------------------------------------------------------------------------

\* The calls in terms of the lemmas: what each does to the rings, and that no
\* entry on no list is relinked.
Keeps(j, R, L) ==
  /\ j \in Links /\ Rings(j, R)
  /\ \A e \in (R \cap Entries) \ L : j.next[e] = e

LEMMA InsertKeeps ==
  ASSUME IInv, NEW e \in Alone, NEW at \in InUse,
         NEW j \in {list_add(l, e, at), list_add_tail(l, e, at)}
  PROVE  Keeps(j, ringed \cup {e}, listed \cup {e})
<1> DEFINE p == IF j = list_add(l, e, at) THEN at ELSE l.prev[at]
<1>1. at \in ringed /\ e # at /\ e \in Cells /\ e \notin listed
  BY CellsAssumption DEF IInv, TypeOK, InUse, Alone, Cells
<1>2. p \in ringed /\ p # e /\ j = __list_add(l, e, p, l.next[p])
  <2>1. l.next[l.prev[at]] = at /\ l.prev[at] \in ringed
    BY <1>1 DEF IInv, Mirrored, Rings
  <2>2. l.prev[at] # e
    BY <1>1, <2>1 DEF IInv, SelfAlone, Alone
  <2> QED
    BY <1>1, <2>1, <2>2 DEF list_add, list_add_tail
<1>3. e \in ringed => l.next[e] = e
  BY <1>1 DEF IInv, SelfAlone, Alone
<1>4. /\ j \in Links
      /\ Rings(j, ringed \cup {e})
      /\ \A d \in Cells \ {p, e} : j.next[d] = l.next[d]
  BY <1>1, <1>2, <1>3, AddRings DEF IInv, TypeOK, Mirrored
<1>5. p \notin (ringed \cap Entries) \ listed
  <2>1. CASE p = at
    BY <2>1, CellsAssumption DEF InUse
  <2>2. CASE p # at
    BY <1>1, <2>2 DEF IInv, SelfAlone, Mirrored, Rings
  <2> QED
    BY <2>1, <2>2
<1> QED
  BY <1>4, <1>5 DEF Keeps, IInv, SelfAlone, TypeOK, Cells

\* After list_del the entry is out of the rings.
LEMMA UnlinkKeeps ==
  ASSUME IInv, NEW e \in listed
  PROVE  /\ Keeps(list_del(l, e), ringed \ {e}, listed \ {e})
         /\ Keeps(list_del_init(l, e), ringed, listed \ {e})
<1> DEFINE j == list_del(l, e)
<1>1. e \in ringed /\ e \in Entries /\ e \in Cells /\ ringed \in SUBSET Cells
  BY DEF IInv, TypeOK, Cells
<1>2. /\ j \in Links
      /\ Rings(j, ringed \ {e})
      /\ \A d \in Cells : d # l.prev[e] => j.next[d] = l.next[d]
  BY <1>1, DelRings DEF IInv, TypeOK, Mirrored
<1>3. l.prev[e] \notin (ringed \cap Entries) \ listed
  BY <1>1 DEF IInv, SelfAlone, Mirrored, Rings
<1>4. Keeps(j, ringed \ {e}, listed \ {e})
  BY <1>1, <1>2, <1>3 DEF Keeps, IInv, SelfAlone
<1>5. /\ list_del_init(l, e) \in Links
      /\ Rings(list_del_init(l, e), (ringed \ {e}) \cup {e})
      /\ \A d \in Cells : list_del_init(l, e).next[d] = IF d = e THEN e ELSE j.next[d]
  BY <1>1, <1>2, InitRings DEF list_del_init
<1>6. (ringed \ {e}) \cup {e} = ringed
  BY <1>1
<1>7. Keeps(list_del_init(l, e), ringed, listed \ {e})
  BY <1>1, <1>4, <1>5, <1>6 DEF Keeps
<1> QED
  BY <1>4, <1>7

\* Moving is taking off and adding.
LEMMA MoveKeeps ==
  ASSUME IInv, NEW e \in listed, NEW h \in Heads \cap ringed,
         NEW j \in {list_move(l, e, h), list_move_tail(l, e, h)}
  PROVE  Keeps(j, ringed, listed)
<1> DEFINE k == list_del(l, e)
           p == IF j = list_move(l, e, h) THEN h ELSE k.prev[h]
<1>1. /\ e \in ringed /\ e \in Cells /\ h # e /\ h \in ringed \ {e}
      /\ (ringed \ {e}) \in SUBSET Cells
  BY CellsAssumption DEF IInv, TypeOK, Cells
<1>2. Keeps(k, ringed \ {e}, listed \ {e})
  BY UnlinkKeeps
<1>3. k.next[k.prev[h]] = h /\ k.prev[h] \in ringed \ {e}
  BY <1>1, <1>2 DEF Keeps, Rings
<1>4. p \in ringed \ {e} /\ p # e /\ j = __list_add(k, e, p, k.next[p])
  BY <1>1, <1>3 DEF list_move, list_move_tail, list_add, list_add_tail
<1>a. k \in Links /\ Rings(k, ringed \ {e})
  BY <1>2 DEF Keeps
<1> HIDE DEF k, p
<1>5. /\ j \in Links
      /\ Rings(j, (ringed \ {e}) \cup {e})
      /\ \A d \in Cells \ {p, e} : j.next[d] = k.next[d]
  <2> DEFINE R == ringed \ {e}
  <2>1. e \notin R /\ R \in SUBSET Cells /\ p \in R /\ p # e
    BY <1>1, <1>4
  <2> HIDE DEF R
  <2>2. /\ __list_add(k, e, p, k.next[p]) \in Links
        /\ Rings(__list_add(k, e, p, k.next[p]), R \cup {e})
        /\ \A d \in Cells \ {p, e} : __list_add(k, e, p, k.next[p]).next[d] = k.next[d]
    BY <1>1, <1>a, <2>1, AddRings DEF R
  <2> QED
    BY <1>4, <2>2 DEF R
<1>6. (ringed \ {e}) \cup {e} = ringed
  BY <1>1
<1>7. p \notin (ringed \cap Entries) \ listed
  <2>1. CASE p = h
    BY <2>1, CellsAssumption
  <2>2. CASE p # h
    <3>1. k.next[p] = h /\ p # e
      BY <1>3, <1>4, <2>2 DEF p
    <3> QED
      BY <1>1, <1>2, <1>4, <2>2, <3>1 DEF Keeps
  <2> QED
    BY <2>1, <2>2
<1> QED
  BY <1>1, <1>2, <1>5, <1>6, <1>7 DEF Keeps, Cells

\* Replacing an entry or a head.
LEMMA ReplaceKeeps ==
  ASSUME IInv, NEW old \in ringed, NEW new \in Cells, NEW L \in SUBSET Entries, old # new,
         new \in ringed => l.next[new] = new,
         \/ old \in listed /\ L = (listed \ {old}) \cup {new}
         \/ old \in Heads /\ L = listed /\ new \in Heads
  PROVE  /\ Keeps(list_replace(l, old, new), (ringed \ {old}) \cup {new}, L)
         /\ Keeps(list_replace_init(l, old, new), ringed \cup {new}, L)
<1> DEFINE j == list_replace(l, old, new)
           R == (ringed \ {old}) \cup {new}
<1>1. ringed \in SUBSET Cells /\ R \in SUBSET Cells /\ old \in Cells
  BY DEF IInv, TypeOK
<1>2. /\ j \in Links /\ Rings(j, R)
      /\ \A d \in Cells \ {old, new} : d # l.prev[old] => j.next[d] = l.next[d]
  BY <1>1, ReplaceRings DEF IInv, TypeOK, Mirrored
<1>3. l.prev[old] \notin ((ringed \cap Entries) \ listed) \ {old}
  BY DEF IInv, SelfAlone, Mirrored, Rings
<1>4. \A e \in (R \cap Entries) \ L : e \in ((ringed \cap Entries) \ listed) \ {old, new}
  BY CellsAssumption
<1>5. Keeps(j, R, L)
  BY <1>1, <1>2, <1>3, <1>4 DEF Keeps, IInv, SelfAlone
<1>6. /\ list_replace_init(l, old, new) \in Links
      /\ Rings(list_replace_init(l, old, new), R \cup {old})
      /\ \A d \in Cells :
           list_replace_init(l, old, new).next[d] = IF d = old THEN old ELSE j.next[d]
  BY <1>1, <1>2, InitRings DEF list_replace_init
<1>7. R \cup {old} = ringed \cup {new}
  OBVIOUS
<1>8. Keeps(list_replace_init(l, old, new), ringed \cup {new}, L)
  BY <1>1, <1>5, <1>6, <1>7 DEF Keeps
<1> QED
  BY <1>5, <1>8

-----------------------------------------------------------------------------

LEMMA InitIInv == Init => IInv
  BY DEF Init, IInv, TypeOK, Mirrored, Rings, SelfAlone, CursorRinged, NoLoop, Links

\* Forgetting an entry moves neither the loop's head nor its cursor.
LEMMA ForgetKeeps ==
  ASSUME IInv, NEW c \in Cells, MayUnlink(c), loop' = Forget(c),
         NEW R \in SUBSET Cells, ringed' = R, ringed \ {c} \subseteq R
  PROVE  /\ CursorRinged'
         /\ DOMAIN loop' = DOMAIN NoLoop
         /\ loop'.on \in BOOLEAN /\ loop'.safe \in BOOLEAN /\ loop'.dir \in {"next", "prev"}
         /\ loop'.on => loop'.head \in Heads /\ loop'.pos \in Cells
         /\ loop'.on /\ loop'.safe => loop'.n \in Cells
<1>0. PICK due : loop' = [loop EXCEPT !.due = due]
  BY DEF Forget
<1>1. /\ loop'.on = loop.on /\ loop'.safe = loop.safe /\ loop'.dir = loop.dir
      /\ loop'.head = loop.head /\ loop'.pos = loop.pos /\ loop'.n = loop.n
      /\ DOMAIN loop' = DOMAIN loop
  BY <1>0 DEF IInv, TypeOK, NoLoop
<1> QED
  BY <1>1 DEF IInv, CursorRinged, MayUnlink, TypeOK

\* A step that keeps the rings and forgets at most an unlinkable cell.
LEMMA ForgettingStep ==
  ASSUME IInv, NEW c \in Cells, MayUnlink(c), loop' = Forget(c),
         NEW R \in SUBSET Cells, ringed' = R, ringed \ {c} \subseteq R,
         listed' \subseteq Entries \cap R, Keeps(l', R, listed')
  PROVE  IInv'
<1>1. CursorRinged' /\ TypeOK'
  BY ForgetKeeps DEF Keeps, TypeOK
<1> QED
  BY <1>1 DEF IInv, Mirrored, SelfAlone, Keeps

LEMMA PrepareStep == ASSUME IInv, NEW c \in Cells, Prepare(c) PROVE IInv'
<1>1. /\ l' \in Links /\ Rings(l', ringed \cup {c})
      /\ \A d \in Cells : l'.next[d] = IF d = c THEN c ELSE l.next[d]
  BY InitRings DEF Prepare, IInv, TypeOK, Mirrored, SelfAlone, Alone
<1> QED
  BY <1>1 DEF Prepare, IInv, TypeOK, Mirrored, SelfAlone, CursorRinged, Cells

LEMMA InsertStep ==
  ASSUME IInv, NEW e \in Entries, NEW at \in Cells, Insert(e, at) PROVE IInv'
<1>1. Keeps(l', ringed \cup {e}, listed \cup {e})
  BY InsertKeeps DEF Insert
<1> QED
  BY <1>1 DEF Keeps, Insert, IInv, TypeOK, Mirrored, SelfAlone, CursorRinged, Cells

LEMMA UnlinkStep == ASSUME IInv, NEW e, Unlink(e) PROVE IInv'
<1>1. e \in listed /\ e \in Cells /\ MayUnlink(e) /\ loop' = Forget(e)
  BY DEF Unlink, IInv, TypeOK, Cells
<1>2. /\ Keeps(list_del(l, e), ringed \ {e}, listed \ {e})
      /\ Keeps(list_del_init(l, e), ringed, listed \ {e})
  BY <1>1, UnlinkKeeps
<1>3. ringed \in SUBSET Cells /\ listed \subseteq Entries \cap ringed
  BY DEF IInv, TypeOK
<1>4. CASE l' = list_del(l, e) /\ ringed' = ringed \ {e}
  BY <1>1, <1>2, <1>3, <1>4, ForgettingStep DEF Unlink
<1>5. CASE l' = list_del_init(l, e) /\ UNCHANGED ringed
  BY <1>1, <1>2, <1>3, <1>5, ForgettingStep DEF Unlink
<1> QED
  BY <1>4, <1>5 DEF Unlink

LEMMA MoveStep == ASSUME IInv, NEW e, NEW h, Move(e, h) PROVE IInv'
<1>1. Keeps(l', ringed, listed)
  BY MoveKeeps DEF Move
<1>2. e \in Cells /\ ringed \in SUBSET Cells /\ listed \subseteq Entries \cap ringed
  BY DEF Move, IInv, TypeOK, Cells
<1> QED
  BY <1>1, <1>2, ForgettingStep DEF Move

LEMMA RotateStep == ASSUME IInv, NEW h \in Heads, list_rotate_left(h) PROVE IInv'
<1>1. Move(list_first_entry(h), h)
  BY DEF list_rotate_left, Move
<1> QED
  BY <1>1, MoveStep

LEMMA ReplaceStep ==
  ASSUME IInv, NEW old \in Cells, NEW new \in Cells, Replace(old, new) PROVE IInv'
<1>1. /\ old \in ringed /\ old # new
      /\ new \in ringed => l.next[new] = new
      /\ \/ old \in listed /\ new \in Entries /\ listed' = (listed \ {old}) \cup {new}
         \/ old \in Heads /\ listed' = listed /\ new \in Heads
      /\ MayUnlink(old) /\ loop' = Forget(old)
  BY DEF Replace, IInv, SelfAlone, Alone, list_empty
<1>2. listed' \in SUBSET Entries /\ ringed \in SUBSET Cells
  BY <1>1 DEF IInv, TypeOK
<1>3. /\ Keeps(list_replace(l, old, new), (ringed \ {old}) \cup {new}, listed')
      /\ Keeps(list_replace_init(l, old, new), ringed \cup {new}, listed')
  <2>1. PICK L \in SUBSET Entries : L = listed'
    BY <1>2
  <2>2. \/ old \in listed /\ L = (listed \ {old}) \cup {new}
        \/ old \in Heads /\ L = listed /\ new \in Heads
    BY <1>1, <2>1
  <2>3. /\ Keeps(list_replace(l, old, new), (ringed \ {old}) \cup {new}, L)
        /\ Keeps(list_replace_init(l, old, new), ringed \cup {new}, L)
    BY <1>1, <2>2, ReplaceKeeps
  <2> QED
    BY <2>1, <2>3
<1>4. listed' \subseteq (ringed \ {old}) \cup {new}
  BY <1>1, CellsAssumption DEF IInv, TypeOK
<1>5. CASE l' = list_replace(l, old, new) /\ ringed' = (ringed \ {old}) \cup {new}
  BY <1>1, <1>2, <1>3, <1>4, <1>5, ForgettingStep
<1>6. CASE l' = list_replace_init(l, old, new) /\ ringed' = ringed \cup {new}
  BY <1>1, <1>2, <1>3, <1>4, <1>6, ForgettingStep
<1> QED
  BY <1>5, <1>6 DEF Replace

\* A ring's cells lead to ring cells in both directions.
LEMMA LinksStayInRing ==
  ASSUME IInv, NEW dir \in {"next", "prev"}, NEW c \in ringed
  PROVE  l[dir][c] \in ringed
  BY DEF IInv, Mirrored, Rings

LEMMA StartStep ==
  ASSUME IInv, NEW head, NEW first \in ringed, NEW dir \in {"next", "prev"},
         NEW safe \in BOOLEAN, Start(head, first, dir, safe)
  PROVE  IInv'
<1>1. l[dir][first] \in ringed /\ head \in Heads \cap ringed
  BY LinksStayInRing DEF Start
<1>2. /\ loop'.on /\ loop'.head = head /\ loop'.dir = dir /\ loop'.safe = safe
      /\ loop'.pos = first /\ (safe => loop'.n = l[dir][first])
      /\ UNCHANGED <<l, ringed, listed>>
  BY DEF Start
<1>3. DOMAIN loop' = DOMAIN NoLoop
  BY DEF Start, NoLoop
<1>4. TypeOK'
  BY <1>1, <1>2, <1>3 DEF IInv, TypeOK
<1>5. CursorRinged'
  BY <1>1, <1>2 DEF CursorRinged
<1> QED
  BY <1>2, <1>4, <1>5 DEF IInv, Mirrored, SelfAlone

LEMMA LoopsStep == ASSUME IInv, NEW h \in Heads, Loops(h) PROVE IInv'
<1>1. ASSUME NEW dir \in {"next", "prev"}, list_for_each(h, dir) \/ list_for_each_safe(h, dir)
      PROVE  IInv'
  <2>1. l[dir][h] \in ringed
    BY <1>1, LinksStayInRing DEF list_for_each, list_for_each_safe, Start
  <2> QED
    BY <1>1, <2>1, StartStep DEF list_for_each, list_for_each_safe
<1>2. ASSUME NEW pos \in (listed \cap On(h)) \cup {NULL}, NEW dir \in {"next", "prev"},
             list_for_each_entry_continue(pos, h, dir)
      PROVE  IInv'
  <2>1. list_prepare_entry(pos, h) \in ringed
    BY <1>2 DEF list_for_each_entry_continue, Start, list_prepare_entry, IInv
  <2>2. l[dir][list_prepare_entry(pos, h)] \in ringed
    BY <2>1, LinksStayInRing
  <2> QED
    BY <1>2, <2>2, StartStep DEF list_for_each_entry_continue
<1>3. ASSUME NEW pos \in listed \cap On(h),
             \/ list_for_each_entry_from(pos, h)
             \/ list_for_each_entry_safe_continue(pos, h)
             \/ list_for_each_entry_safe_from(pos, h)
      PROVE  IInv'
  <2>1. pos \in ringed /\ l["next"][pos] \in ringed
    BY LinksStayInRing DEF IInv
  <2> QED
    BY <1>3, <2>1, StartStep DEF list_for_each_entry_from,
       list_for_each_entry_safe_continue, list_for_each_entry_safe_from
<1> QED
  BY <1>1, <1>2, <1>3 DEF Loops

LEMMA AdvanceStep == ASSUME IInv, Advance PROVE IInv'
<1>1. Upcoming \in ringed
  BY LinksStayInRing DEF Advance, Upcoming, IInv, TypeOK, CursorRinged
<1>2. l[loop.dir][Upcoming] \in ringed
  BY <1>1, LinksStayInRing DEF IInv, TypeOK
<1>3. CASE loop' = NoLoop
  <2>1. loop'.on = FALSE /\ loop'.safe = FALSE /\ loop'.dir = "next"
    BY <1>3 DEF NoLoop
  <2> QED
    BY <1>3, <2>1 DEF Advance, NoLoop, IInv, TypeOK, Mirrored, SelfAlone, CursorRinged
<1>4. CASE loop' # NoLoop
  <2> DEFINE n == IF loop.safe THEN l[loop.dir][Upcoming] ELSE NULL
             due == IF loop.due # << >> /\ Head(loop.due) = Upcoming
                    THEN Tail(loop.due) ELSE loop.due
  <2>0. loop' = [loop EXCEPT !.pos = Upcoming, !.n = n, !.due = due]
    BY <1>4 DEF Advance
  <2> HIDE DEF n, due
  <2>1. /\ loop'.on = loop.on /\ loop'.head = loop.head /\ loop'.dir = loop.dir
        /\ loop'.safe = loop.safe /\ DOMAIN loop' = DOMAIN loop
        /\ loop'.pos = Upcoming /\ loop'.n = n
    BY <2>0 DEF IInv, TypeOK, NoLoop
  <2>2. loop.safe => loop'.n = l[loop.dir][Upcoming]
    BY <2>1 DEF n
  <2>3. UNCHANGED <<l, ringed, listed>> /\ loop.on
    BY DEF Advance
  <2>4. TypeOK'
    BY <1>1, <1>2, <2>1, <2>2, <2>3 DEF IInv, TypeOK
  <2>5. CursorRinged'
    BY <1>1, <1>2, <2>1, <2>2, <2>3 DEF IInv, CursorRinged
  <2> QED
    BY <2>3, <2>4, <2>5 DEF IInv, Mirrored, SelfAlone
<1> QED
  BY <1>3, <1>4

\* Resetting the temporary after the entry it named was removed.
LEMMA ResetStep == ASSUME IInv, list_safe_reset_next PROVE IInv'
<1> DEFINE k == list_del_init(l, loop.n)
<1>1. loop.n \in listed /\ loop.pos \in ringed /\ loop.on /\ loop.safe
  BY DEF list_safe_reset_next, IInv
<1>2. Keeps(k, ringed, listed \ {loop.n})
  BY <1>1, UnlinkKeeps
<1>3. k.next[loop.pos] \in ringed
  BY <1>1, <1>2 DEF Keeps, Rings
<1>4. l' = k /\ listed' = listed \ {loop.n} /\ ringed' = ringed
  BY DEF list_safe_reset_next
<1> HIDE DEF k
<1>5. /\ loop'.on = loop.on /\ loop'.head = loop.head /\ loop'.dir = loop.dir
      /\ loop'.safe = loop.safe /\ DOMAIN loop' = DOMAIN loop
      /\ loop'.pos = loop.pos /\ loop'.n = k.next[loop.pos]
  <2>1. PICK due : Forget(loop.n) = [loop EXCEPT !.due = due]
    BY DEF Forget
  <2>2. loop' = [[loop EXCEPT !.due = due] EXCEPT !.n = k.next[loop.pos]]
    BY <2>1 DEF list_safe_reset_next, k
  <2> QED
    BY <2>2 DEF IInv, TypeOK, NoLoop
<1> QED
  BY <1>1, <1>2, <1>3, <1>4, <1>5
     DEF Keeps, IInv, TypeOK, Mirrored, SelfAlone, CursorRinged

-----------------------------------------------------------------------------

LEMMA NextIInv == IInv /\ [Next]_vars => IInv'
<1> SUFFICES ASSUME IInv, [Next]_vars PROVE IInv'
  OBVIOUS
<1>1. ASSUME NEW c \in Cells, Prepare(c) PROVE IInv'
  BY <1>1, PrepareStep
<1>2. ASSUME NEW e \in Entries, NEW at \in Cells, Insert(e, at) PROVE IInv'
  BY <1>2, InsertStep
<1>3. ASSUME NEW e \in Entries, Unlink(e) PROVE IInv'
  BY <1>3, UnlinkStep
<1>4. ASSUME NEW e \in Entries, NEW h \in Heads, Move(e, h) PROVE IInv'
  BY <1>4, MoveStep
<1>5. ASSUME NEW old \in Cells, NEW new \in Cells, Replace(old, new) PROVE IInv'
  BY <1>5, ReplaceStep
<1>6. ASSUME NEW h \in Heads, TakeFirst(h) PROVE IInv'
  BY <1>6, UnlinkStep DEF TakeFirst
<1>7. ASSUME NEW h \in Heads, list_rotate_left(h) PROVE IInv'
  BY <1>7, RotateStep
<1>8. ASSUME NEW h \in Heads, Loops(h) PROVE IInv'
  BY <1>8, LoopsStep
<1>9. CASE Advance
  BY <1>9, AdvanceStep
<1>10. CASE list_safe_reset_next
  BY <1>10, ResetStep
<1>11. CASE UNCHANGED vars
  BY <1>11 DEF vars, IInv, TypeOK, Mirrored, SelfAlone, CursorRinged
<1> QED
  BY <1>1, <1>2, <1>3, <1>4, <1>5, <1>6, <1>7, <1>8, <1>9, <1>10, <1>11 DEF Next

LEMMA AlwaysIInv == Spec => []IInv
  BY InitIInv, NextIInv, PTL DEF Spec

\* The members of every cell, the callers' knowledge and the loop keep their
\* types whatever the caller calls, inside a loop or outside one.
THEOREM ListTypes == Spec => []TypeOK
<1>1. IInv => TypeOK
  BY DEF IInv
<1> QED
  BY <1>1, AlwaysIInv, PTL

\* The links of the cells in use mirror each other after every operation of
\* lite-list.h, for any number of lists and entries.
THEOREM ListsMirrored == Spec => []Mirrored
<1>1. IInv => Mirrored
  BY DEF IInv
<1> QED
  BY <1>1, AlwaysIInv, PTL

\* A loop never steps from a cell whose links are stale, whatever its body
\* removed, moved or replaced within the rules.
THEOREM LoopsStepInRings == Spec => []CursorRinged
<1>1. IInv => CursorRinged
  BY DEF IInv
<1> QED
  BY <1>1, AlwaysIInv, PTL

-----------------------------------------------------------------------------
\* Sequences of entries: what taking out and putting in do to the places.

\* RemoveAt moves the places behind down by one.
LEMMA Removed ==
  ASSUME NEW s \in Seq(Entries), NEW p \in 1 .. Len(s)
  PROVE  /\ RemoveAt(s, p) \in Seq(Entries) /\ Len(RemoveAt(s, p)) = Len(s) - 1
         /\ \A i \in 1 .. Len(s) - 1 : RemoveAt(s, p)[i] = IF i < p THEN s[i] ELSE s[i + 1]
<1> DEFINE a == SubSeq(s, 1, p - 1)
           b == SubSeq(s, p + 1, Len(s))
           m == Len(s)
<1>1. m \in Nat /\ p \in 1 .. m /\ \A i \in 1 .. m : s[i] \in Entries
  OBVIOUS
<1>2. /\ a \in Seq(Entries) /\ Len(a) = p - 1
      /\ \A i \in 1 .. p - 1 : a[i] = s[i]
  <2>1. \A i \in 1 .. p - 1 : s[i] \in Entries
    BY <1>1
  <2> HIDE DEF m
  <2>2. /\ SubSeq(s, 1, p - 1) \in Seq(Entries)
        /\ Len(SubSeq(s, 1, p - 1)) = IF 1 <= p - 1 THEN p - 1 - 1 + 1 ELSE 0
        /\ \A i \in 1 .. p - 1 - 1 + 1 : SubSeq(s, 1, p - 1)[i] = s[1 + i - 1]
    BY <1>1, <2>1, SubSeqProperties
  <2> QED
    BY <1>1, <2>2
<1>3. /\ b \in Seq(Entries) /\ Len(b) = m - p
      /\ \A i \in 1 .. m - p : b[i] = s[p + i]
  <2>1. \A i \in p + 1 .. m : s[i] \in Entries
    BY <1>1
  <2>2. b = SubSeq(s, p + 1, m)
    OBVIOUS
  <2> HIDE DEF m, b
  <2>3. /\ SubSeq(s, p + 1, m) \in Seq(Entries)
        /\ Len(SubSeq(s, p + 1, m)) = IF p + 1 <= m THEN m - (p + 1) + 1 ELSE 0
        /\ \A i \in 1 .. m - (p + 1) + 1 : SubSeq(s, p + 1, m)[i] = s[(p + 1) + i - 1]
    BY <1>1, <2>1, SubSeqProperties
  <2> QED
    BY <1>1, <2>3, <2>2
<1>4. RemoveAt(s, p) = a \o b
  BY DEF RemoveAt
<1> HIDE DEF a, b
<1>5. /\ a \o b \in Seq(Entries) /\ Len(a \o b) = Len(a) + Len(b)
      /\ \A i \in 1 .. Len(a) + Len(b) : (a \o b)[i] =
            IF i <= Len(a) THEN a[i] ELSE b[i - Len(a)]
  BY <1>2, <1>3, ConcatProperties
<1> HIDE DEF m
<1>6. ASSUME NEW i \in 1 .. m - 1
      PROVE  (a \o b)[i] = IF i < p THEN s[i] ELSE s[i + 1]
  <2>1. CASE i < p
    <3>1. i \in 1 .. p - 1 /\ i <= Len(a) /\ i \in 1 .. Len(a) + Len(b)
      BY <1>1, <1>2, <1>3, <2>1
    <3> QED
      BY <1>2, <1>5, <2>1, <3>1
  <2>2. CASE ~(i < p)
    <3>1. ~(i <= Len(a)) /\ i \in 1 .. Len(a) + Len(b)
      BY <1>1, <1>2, <1>3, <2>2
    <3>2. i - Len(a) \in 1 .. m - p /\ p + (i - Len(a)) = i + 1
      BY <1>1, <1>2, <2>2
    <3> QED
      BY <1>3, <1>5, <2>2, <3>1, <3>2
  <2> QED
    BY <2>1, <2>2
<1>7. Len(a \o b) = m - 1
  BY <1>1, <1>2, <1>3, <1>5
<1> QED
  BY <1>4, <1>5, <1>6, <1>7 DEF m

\* InsertAt moves the places from there on up by one.
LEMMA Inserted ==
  ASSUME NEW s \in Seq(Entries), NEW p \in 1 .. Len(s) + 1, NEW e \in Entries
  PROVE  /\ InsertAt(s, p, e) \in Seq(Entries) /\ Len(InsertAt(s, p, e)) = Len(s) + 1
         /\ \A i \in 1 .. Len(s) + 1 : InsertAt(s, p, e)[i] =
               IF i < p THEN s[i] ELSE IF i = p THEN e ELSE s[i - 1]
<1> DEFINE a == SubSeq(s, 1, p - 1)
           b == SubSeq(s, p, Len(s))
           c == <<e>>
           m == Len(s)
<1>1. m \in Nat /\ p \in 1 .. m + 1 /\ \A i \in 1 .. m : s[i] \in Entries
  OBVIOUS
<1>2. /\ a \in Seq(Entries) /\ Len(a) = p - 1
      /\ \A i \in 1 .. p - 1 : a[i] = s[i]
  <2>1. \A i \in 1 .. p - 1 : s[i] \in Entries
    BY <1>1
  <2> HIDE DEF m
  <2>2. /\ SubSeq(s, 1, p - 1) \in Seq(Entries)
        /\ Len(SubSeq(s, 1, p - 1)) = IF 1 <= p - 1 THEN p - 1 - 1 + 1 ELSE 0
        /\ \A i \in 1 .. p - 1 - 1 + 1 : SubSeq(s, 1, p - 1)[i] = s[1 + i - 1]
    BY <1>1, <2>1, SubSeqProperties
  <2> QED
    BY <1>1, <2>2
<1>3. /\ b \in Seq(Entries) /\ Len(b) = m + 1 - p
      /\ \A i \in 1 .. m + 1 - p : b[i] = s[p + i - 1]
  <2>1. \A i \in p .. m : s[i] \in Entries
    BY <1>1
  <2>2. b = SubSeq(s, p, m)
    OBVIOUS
  <2> HIDE DEF m, b
  <2>3. /\ SubSeq(s, p, m) \in Seq(Entries)
        /\ Len(SubSeq(s, p, m)) = IF p <= m THEN m - p + 1 ELSE 0
        /\ \A i \in 1 .. m - p + 1 : SubSeq(s, p, m)[i] = s[p + i - 1]
    BY <1>1, <2>1, SubSeqProperties
  <2> QED
    BY <1>1, <2>3, <2>2
<1>4. InsertAt(s, p, e) = (a \o c) \o b
  BY DEF InsertAt
<1>5. c \in Seq(Entries) /\ Len(c) = 1 /\ c[1] = e
  OBVIOUS
<1> HIDE DEF a, b, c
<1>6. /\ a \o c \in Seq(Entries) /\ Len(a \o c) = Len(a) + 1
      /\ \A i \in 1 .. Len(a) + 1 : (a \o c)[i] = IF i <= Len(a) THEN a[i] ELSE c[i - Len(a)]
  <2>1. /\ a \o c \in Seq(Entries) /\ Len(a \o c) = Len(a) + Len(c)
        /\ \A i \in 1 .. Len(a) + Len(c) :
             (a \o c)[i] = IF i <= Len(a) THEN a[i] ELSE c[i - Len(a)]
    BY <1>2, <1>5, ConcatProperties
  <2> QED
    BY <1>5, <2>1
<1> DEFINE d == a \o c
<1>7. d \in Seq(Entries) /\ Len(d) = p /\ \A i \in 1 .. p : d[i] = IF i < p THEN s[i] ELSE e
  <2>1. ASSUME NEW i \in 1 .. p PROVE d[i] = IF i < p THEN s[i] ELSE e
    <3>1. i \in 1 .. Len(a) + 1 /\ (i <= Len(a) <=> i < p)
      BY <1>1, <1>2
    <3>2. CASE i < p
      BY <1>1, <1>2, <1>6, <3>1, <3>2
    <3>3. CASE ~(i < p)
      <4>1. i - Len(a) = 1
        BY <1>1, <1>2, <3>3
      <4> QED
        BY <1>6, <1>5, <3>1, <3>3, <4>1
    <3> QED
      BY <3>2, <3>3
  <2> QED
    BY <1>1, <1>2, <1>6, <2>1
<1> HIDE DEF d
<1>8. /\ d \o b \in Seq(Entries) /\ Len(d \o b) = Len(d) + Len(b)
      /\ \A i \in 1 .. Len(d) + Len(b) : (d \o b)[i] =
            IF i <= Len(d) THEN d[i] ELSE b[i - Len(d)]
  BY <1>3, <1>7, ConcatProperties
<1> HIDE DEF m
<1>9. ASSUME NEW i \in 1 .. m + 1
      PROVE  (d \o b)[i] = IF i < p THEN s[i] ELSE IF i = p THEN e ELSE s[i - 1]
  <2>1. CASE i <= p
    BY <1>1, <1>3, <1>7, <1>8, <2>1
  <2>2. CASE ~(i <= p)
    <3>1. ~(i <= Len(d)) /\ i \in 1 .. Len(d) + Len(b)
      BY <1>1, <1>3, <1>7, <2>2
    <3>2. i - Len(d) \in 1 .. m + 1 - p /\ p + (i - Len(d)) - 1 = i - 1
      BY <1>1, <1>7, <2>2
    <3>3. b[i - Len(d)] = s[i - 1]
      BY <1>3, <3>2
    <3>4. (d \o b)[i] = b[i - Len(d)]
      BY <1>8, <3>1
    <3> QED
      BY <1>1, <2>2, <3>3, <3>4
  <2> QED
    BY <2>1, <2>2
<1>10. Len(d \o b) = m + 1
  BY <1>1, <1>3, <1>7, <1>8
<1> QED
  BY <1>4, <1>8, <1>9, <1>10 DEF m, d

\* Reverse counts the places from the other end.
LEMMA Reversed ==
  ASSUME NEW s \in Seq(Entries)
  PROVE  /\ Reverse(s) \in Seq(Entries) /\ Len(Reverse(s)) = Len(s)
         /\ \A i \in 1 .. Len(s) : Reverse(s)[i] = s[Len(s) - i + 1]
<1> DEFINE m == Len(s)
           t == [i \in 1 .. m |-> s[(m - i) + 1]]
<1>1. m \in Nat /\ \A i \in 1 .. m : s[i] \in Entries
  OBVIOUS
<1>2. Reverse(s) = t
  BY DEF Reverse
<1> HIDE DEF m
<1>3. \A i \in 1 .. m : s[(m - i) + 1] \in Entries /\ (m - i) + 1 = m - i + 1
  BY <1>1
<1>4. t \in Seq(Entries) /\ Len(t) = m
  BY <1>1, <1>3
<1> QED
  BY <1>2, <1>3, <1>4 DEF m

-----------------------------------------------------------------------------
\* Walking.

\* A set of naturals with an element has a least one.
LEMMA LeastNat ==
  ASSUME NEW T \in SUBSET Nat, T # {}
  PROVE  \E m \in T : \A k \in T : m <= k
<1>1. PICK m \in T : \A k \in T : ~(<<k, m>> \in OpToRel(<, Nat))
  BY NatLessThanWellFounded, WFMin
<1>2. \A k \in T : ~(k < m)
  BY <1>1 DEF OpToRel
<1> QED
  BY <1>2

\* Induction over the naturals, for a set in the place of a property.
LEMMA NatUpwards ==
  ASSUME NEW S, 0 \in S, \A n \in Nat : n \in S => n + 1 \in S
  PROVE  Nat \subseteq S
<1> DEFINE T == Nat \ S
<1>1. ASSUME T # {} PROVE FALSE
  <2>1. T \in SUBSET Nat
    OBVIOUS
  <2>2. PICK n \in T : \A k \in T : n <= k
    <3> HIDE DEF T
    <3> QED
      BY <1>1, <2>1, LeastNat
  <2>3. n \in Nat /\ n # 0
    OBVIOUS
  <2>4. n - 1 \in Nat /\ ~(n <= n - 1)
    BY <2>3
  <2>5. n - 1 \in S
    BY <2>2, <2>4
  <2>6. (n - 1) + 1 = n
    BY <2>3
  <2> QED
    BY <2>4, <2>5, <2>6
<1> QED
  BY <1>1

\* The place i of the ring of h with the entries s; the places outside are h.
Nth(s, h, i) == IF i \in 1 .. Len(s) THEN s[i] ELSE h

\* The links of the direction dir lead from each of s to the next and out to h.
Leads(k, dir, h, s) == \A i \in 1 .. Len(s) : k[dir][s[i]] = Nth(s, h, i + 1)

\* A list has no more entries than there are cells: Walk reaches its end.
LEMMA NoLongerThanCells ==
  ASSUME NEW s \in Seq(Entries), IsInjective(s)
  PROVE  Cardinality(Cells) \in Nat /\ Len(s) <= Cardinality(Cells)
<1>1. IsFiniteSet(Cells) /\ Cardinality(Cells) \in Nat
  BY FS_CardinalityType, CellsAssumption
<1>2. s \in Injection(1 .. Len(s), Cells)
  BY DEF Injection, Cells
<1>3. Cardinality(1 .. Len(s)) <= Cardinality(Cells)
  BY <1>1, <1>2, FS_Injection
<1>4. Cardinality(1 .. Len(s)) = Len(s)
  <2>1. Len(s) \in Nat
    OBVIOUS
  <2>2. Cardinality(1 .. Len(s)) = IF 1 > Len(s) THEN 0 ELSE Len(s) - 1 + 1
    BY <2>1, FS_Interval
  <2> QED
    BY <2>1, <2>2
<1> QED
  BY <1>1, <1>3, <1>4

\* Walk returns the entries in the order of the links.
LEMMA WalkIs ==
  ASSUME NEW k \in Links, NEW dir \in {"next", "prev"}, NEW h \in Heads,
         NEW s \in Seq(Entries), IsInjective(s), Leads(k, dir, h, s)
  PROVE  Walk(k, dir, Nth(s, h, 1), h) = s
<1> DEFINE N == Cardinality(Cells)
           m == Len(s)
           from == Nth(s, h, 1)
           Goes(f) == [i \in 0 .. N |->
                         IF i = 0 THEN from
                         ELSE IF f[i - 1] \in {h, NULL} THEN f[i - 1] ELSE k[dir][f[i - 1]]]
           at == CHOOSE f : f = Goes(f)
           W == [i \in 0 .. N |-> IF i < m THEN s[i + 1] ELSE h]
<1>1. N \in Nat /\ m \in Nat /\ m <= N
  BY NoLongerThanCells
<1>2. Walk(k, dir, from, h) = [i \in {j \in 1 .. N : at[j - 1] \notin {h, NULL}} |-> at[i - 1]]
  BY DEF Walk
<1>3. \A i \in 1 .. m : s[i] \notin {h, NULL}
  BY CellsAssumption DEF Cells
<1>4. from = IF 0 < m THEN s[1] ELSE h
  BY <1>1 DEF Nth
<1>5. \A i \in 1 .. m : k[dir][s[i]] = IF i < m THEN s[i + 1] ELSE h
  BY <1>1 DEF Leads, Nth
<1>6. s \in [1 .. m -> Entries]
  OBVIOUS
<1> HIDE DEF N, m, from
<1>7. W = Goes(W)
  <2>1. ASSUME NEW i \in 0 .. N
        PROVE  W[i] = IF i = 0 THEN from
                      ELSE IF W[i - 1] \in {h, NULL} THEN W[i - 1] ELSE k[dir][W[i - 1]]
    <3>1. CASE i = 0
      BY <1>1, <1>4, <3>1
    <3>2. CASE i # 0 /\ i <= m
      <4>1. i - 1 \in 0 .. N /\ i - 1 < m /\ i - 1 + 1 = i /\ i \in 1 .. m
        BY <1>1, <3>2
      <4>2. W[i - 1] = s[i]
        BY <4>1
      <4>3. W[i] = k[dir][s[i]]
        BY <1>5, <4>1
      <4> QED
        BY <1>3, <3>2, <4>1, <4>2, <4>3
    <3>3. CASE i # 0 /\ ~(i <= m)
      <4>1. i - 1 \in 0 .. N /\ ~(i - 1 < m)
        BY <1>1, <3>3
      <4> QED
        BY <1>1, <3>3, <4>1
    <3> QED
      BY <3>1, <3>2, <3>3
  <2> QED
    BY <2>1
<1>8. at = Goes(at)
  <2>1. \E f : f = Goes(f)
    <3> HIDE DEF Goes, W
    <3> QED
      BY <1>7
  <2> HIDE DEF Goes
  <2> QED
    BY <2>1
<1> HIDE DEF at
<1>9. \A i \in 0 .. N : at[i] = W[i]
  <2> DEFINE S == {n \in Nat : n \in 0 .. N => at[n] = W[n]}
  <2>1. 0 \in S
    <3>1. at[0] = from /\ W[0] = from
      <4>1. 0 \in 0 .. N
        BY <1>1
      <4>2. at[0] = from
        BY <1>8, <4>1
      <4>3. W[0] = from
        BY <1>4, <4>1
      <4> QED
        BY <4>2, <4>3
    <3> HIDE DEF W, Goes
    <3> QED
      BY <3>1
  <2>2. ASSUME NEW n \in Nat, n \in S PROVE n + 1 \in S
    <3>1. ASSUME n + 1 \in 0 .. N PROVE at[n + 1] = W[n + 1]
      <4>1. n \in 0 .. N /\ n + 1 # 0 /\ n + 1 - 1 = n
        BY <1>1, <3>1
      <4>2. at[n] = W[n]
        <5> HIDE DEF W
        <5> QED
          BY <2>2, <4>1
      <4>3. at[n + 1] = IF at[n] \in {h, NULL} THEN at[n] ELSE k[dir][at[n]]
        BY <1>8, <3>1, <4>1
      <4>4. W[n + 1] = IF W[n] \in {h, NULL} THEN W[n] ELSE k[dir][W[n]]
        <5> HIDE DEF W
        <5> QED
          BY <1>7, <3>1, <4>1
      <4> QED
        BY <4>2, <4>3, <4>4
    <3> QED
      BY <3>1
  <2>3. Nat \subseteq S
    <3> HIDE DEF S
    <3> QED
      BY <2>1, <2>2, NatUpwards
  <2> HIDE DEF W
  <2> QED
    BY <1>1, <2>3
<1>10. \A j \in 1 .. N : at[j - 1] = IF j <= m THEN s[j] ELSE h
  <2>1. \A j \in 1 .. N : j - 1 \in 0 .. N /\ (j - 1 < m <=> j <= m) /\ j - 1 + 1 = j
    BY <1>1
  <2> QED
    BY <1>9, <2>1
<1>11. {j \in 1 .. N : at[j - 1] \notin {h, NULL}} = 1 .. m
  BY <1>1, <1>3, <1>10
<1>12. [i \in 1 .. m |-> at[i - 1]] = s
  <2>1. \A i \in 1 .. m : at[i - 1] = s[i]
    BY <1>1, <1>10
  <2> QED
    BY <1>6, <2>1
<1> QED
  BY <1>2, <1>11, <1>12 DEF from

-----------------------------------------------------------------------------
\* The lists of all heads at once.

\* next leads every initialised head through its entries and back; the others
\* have none.
Rows(k, R, c) ==
  \A h \in Heads :
    IF h \in R THEN \A i \in 0 .. Len(c[h]) : k.next[Nth(c[h], h, i)] = Nth(c[h], h, i + 1)
    ELSE c[h] = << >>

\* No entry is in two places.
Apart(c) ==
  \A g, h \in Heads : \A i \in 1 .. Len(c[g]), j \in 1 .. Len(c[h]) :
    c[g][i] = c[h][j] => g = h /\ i = j

\* The lists together hold the entries L.
Hold(c, L) == \A e : e \in L <=> \E h \in Heads : \E i \in 1 .. Len(c[h]) : c[h][i] = e

Stand(k, R, c, L) ==
  c \in [Heads -> Seq(Entries)] /\ Rows(k, R, c) /\ Apart(c) /\ Hold(c, L)

\* Content with the links and the initialised cells for parameters.
ContentOf(k, R, h) == IF h \in R THEN Walk(k, "next", k.next[h], h) ELSE << >>

\* Of the places of all lists, with their heads, no two are one cell.
LEMMA Places ==
  ASSUME NEW c \in [Heads -> Seq(Entries)], Apart(c)
  PROVE  /\ \A h \in Heads : Len(c[h]) \in Nat /\ \A i \in 1 .. Len(c[h]) : c[h][i] \in Entries
         /\ \A h \in Heads : \A i \in Int : Nth(c[h], h, i) \in Cells
         /\ \A g, h \in Heads : \A i \in 0 .. Len(c[g]), j \in 0 .. Len(c[h]) :
              Nth(c[g], g, i) = Nth(c[h], h, j) => g = h /\ i = j
<1>1. \A h \in Heads : Len(c[h]) \in Nat /\ \A i \in 1 .. Len(c[h]) : c[h][i] \in Entries
  OBVIOUS
<1>2. \A h \in Heads : \A i \in Int : Nth(c[h], h, i) \in Cells
  BY <1>1 DEF Nth, Cells
<1>3. ASSUME NEW g \in Heads, NEW h \in Heads, NEW i \in 0 .. Len(c[g]), NEW j \in 0 .. Len(c[h]),
             Nth(c[g], g, i) = Nth(c[h], h, j)
      PROVE  g = h /\ i = j
  <2>1. i = 0 \/ i \in 1 .. Len(c[g])
    BY <1>1
  <2>2. j = 0 \/ j \in 1 .. Len(c[h])
    BY <1>1
  <2>3. i = 0 => Nth(c[g], g, i) = g
    BY DEF Nth
  <2>4. j = 0 => Nth(c[h], h, j) = h
    BY DEF Nth
  <2>5. i \in 1 .. Len(c[g]) => Nth(c[g], g, i) = c[g][i] /\ c[g][i] \in Entries
    BY <1>1 DEF Nth
  <2>6. j \in 1 .. Len(c[h]) => Nth(c[h], h, j) = c[h][j] /\ c[h][j] \in Entries
    BY <1>1 DEF Nth
  <2>7. CASE i = 0 /\ j = 0
    BY <1>3, <2>3, <2>4, <2>7
  <2>8. CASE i \in 1 .. Len(c[g]) /\ j \in 1 .. Len(c[h])
    BY <1>3, <2>5, <2>6, <2>8 DEF Apart
  <2> QED
    BY <1>3, <2>1, <2>2, <2>3, <2>4, <2>5, <2>6, <2>7, <2>8, CellsAssumption
<1> QED
  BY <1>1, <1>2, <1>3

\* Walking the links finds the lists that stand in them.
LEMMA ContentIs ==
  ASSUME NEW k \in Links, NEW R, NEW c, NEW L, Stand(k, R, c, L), NEW h \in Heads
  PROVE  ContentOf(k, R, h) = c[h]
<1>1. c \in [Heads -> Seq(Entries)] /\ Apart(c) /\ Rows(k, R, c)
  BY DEF Stand
<1>2. CASE h \notin R
  BY <1>1, <1>2 DEF Rows, ContentOf
<1>3. CASE h \in R
  <2> DEFINE s == c[h]
  <2>1. s \in Seq(Entries) /\ Len(s) \in Nat
    BY <1>1
  <2>2. IsInjective(s)
    BY <1>1, <2>1 DEF Apart, IsInjective
  <2>3. \A i \in 0 .. Len(s) : k.next[Nth(s, h, i)] = Nth(s, h, i + 1)
    BY <1>1, <1>3 DEF Rows
  <2> HIDE DEF s
  <2>4. k.next[h] = Nth(s, h, 1)
    <3>1. 0 \in 0 .. Len(s) /\ 0 + 1 = 1 /\ Nth(s, h, 0) = h
      BY <2>1 DEF Nth
    <3> QED
      BY <2>3, <3>1
  <2>5. Leads(k, "next", h, s)
    <3> SUFFICES ASSUME NEW i \in 1 .. Len(s) PROVE k.next[s[i]] = Nth(s, h, i + 1)
      BY DEF Leads
    <3>1. Nth(s, h, i) = s[i] /\ i \in 0 .. Len(s)
      BY <2>1 DEF Nth
    <3> QED
      BY <2>3, <3>1
  <2>6. Walk(k, "next", Nth(s, h, 1), h) = s
    BY <2>1, <2>2, <2>5, WalkIs
  <2> QED
    BY <1>3, <2>4, <2>6 DEF ContentOf, s
<1> QED
  BY <1>2, <1>3

-----------------------------------------------------------------------------
\* What the operations make of the lists, from the members next they leave.

\* Setting the members of a cell that is on no list.
LEMMA PrepareStands ==
  ASSUME NEW k \in Links, NEW j, NEW R \in SUBSET Cells, NEW c, NEW L, Stand(k, R, c, L),
         NEW x \in Cells, x \in Entries \ L \/ x \in Heads \ R,
         \A d \in Cells : j.next[d] = IF d = x THEN x ELSE k.next[d]
  PROVE  Stand(j, R \cup {x}, c, L)
<1>1. c \in [Heads -> Seq(Entries)] /\ Apart(c) /\ Rows(k, R, c) /\ Hold(c, L)
  BY DEF Stand
<1>2. ASSUME NEW h \in Heads, h \in R, NEW i \in 0 .. Len(c[h])
      PROVE  j.next[Nth(c[h], h, i)] = Nth(c[h], h, i + 1)
  <2>1. Nth(c[h], h, i) \in Cells
    BY <1>1, Places
  <2>2. Nth(c[h], h, i) # x
    <3>1. i \in 1 .. Len(c[h]) => Nth(c[h], h, i) \in L /\ Nth(c[h], h, i) \in Entries
      BY <1>1, Places DEF Nth, Hold
    <3>2. i \notin 1 .. Len(c[h]) => Nth(c[h], h, i) = h
      BY DEF Nth
    <3> QED
      BY <1>2, <3>1, <3>2, CellsAssumption
  <2> QED
    BY <1>1, <1>2, <2>1, <2>2 DEF Rows
<1>3. ASSUME NEW h \in Heads, h \notin R, h = x, NEW i \in 0 .. Len(c[h])
      PROVE  j.next[Nth(c[h], h, i)] = Nth(c[h], h, i + 1)
  <2>1. c[h] = << >>
    BY <1>1, <1>3 DEF Rows
  <2>2. Nth(c[h], h, i) = h /\ Nth(c[h], h, i + 1) = h
    BY <2>1 DEF Nth
  <2> QED
    BY <1>3, <2>2
<1>4. Rows(j, R \cup {x}, c)
  BY <1>1, <1>2, <1>3 DEF Rows
<1> QED
  BY <1>1, <1>4 DEF Stand

\* An entry put in after the place q of h.
LEMMA InsertStands ==
  ASSUME NEW k \in Links, NEW j, NEW R \in SUBSET Cells, NEW c, NEW L, Stand(k, R, c, L),
         NEW e \in Entries \ L, NEW h \in Heads \cap R, NEW q \in 0 .. Len(c[h]),
         NEW P, P \cap Heads = R \cap Heads,
         \A d \in Cells : j.next[d] = IF d = Nth(c[h], h, q) THEN e
                                      ELSE IF d = e THEN Nth(c[h], h, q + 1) ELSE k.next[d]
  PROVE  Stand(j, P, [c EXCEPT ![h] = InsertAt(@, q + 1, e)], L \cup {e})
<1> DEFINE s == c[h]
           t == InsertAt(s, q + 1, e)
           b == [c EXCEPT ![h] = t]
           m == Len(s)
<1>1. c \in [Heads -> Seq(Entries)] /\ Apart(c) /\ Rows(k, R, c) /\ Hold(c, L)
  BY DEF Stand
<1>2. s \in Seq(Entries) /\ m \in Nat /\ q \in 0 .. m /\ q + 1 \in 1 .. m + 1
  BY <1>1
<1>3. /\ t \in Seq(Entries) /\ Len(t) = m + 1
      /\ \A i \in 1 .. m + 1 : t[i] = IF i < q + 1 THEN s[i] ELSE IF i = q + 1 THEN e ELSE s[i - 1]
  <2>1. e \in Entries
    OBVIOUS
  <2> HIDE DEF s
  <2>2. \A p \in 1 .. Len(s) + 1 : \A x \in Entries :
          /\ InsertAt(s, p, x) \in Seq(Entries) /\ Len(InsertAt(s, p, x)) = Len(s) + 1
          /\ \A i \in 1 .. Len(s) + 1 : InsertAt(s, p, x)[i] =
               IF i < p THEN s[i] ELSE IF i = p THEN x ELSE s[i - 1]
    BY <1>2, Inserted
  <2> QED
    BY <1>2, <2>1, <2>2
<1> HIDE DEF t
<1>4. b \in [Heads -> Seq(Entries)] /\ b[h] = t /\ \A g \in Heads \ {h} : b[g] = c[g]
  BY <1>1, <1>3
<1>5. \A g \in Heads : \A i \in 1 .. Len(c[g]) : c[g][i] # e
  BY <1>1 DEF Hold
<1>6. \A g, f \in Heads : \A i \in 0 .. Len(c[g]), n \in 0 .. Len(c[f]) :
         Nth(c[g], g, i) = Nth(c[f], f, n) => g = f /\ i = n
  BY <1>1, Places
<1>7. \A g \in Heads : \A i \in 0 .. Len(c[g]) : Nth(c[g], g, i) \in Cells /\ Nth(c[g], g, i) # e
  BY <1>1, <1>5, Places, CellsAssumption DEF Nth
<1>8. \A g \in Heads \cap R : \A i \in 0 .. Len(c[g]) :
        k.next[Nth(c[g], g, i)] = Nth(c[g], g, i + 1)
  BY <1>1 DEF Rows
<1>9. e \in Cells
  BY DEF Cells
<1> HIDE DEF b
<1>10. Rows(j, P, b)
  <2>1. ASSUME NEW g \in Heads, g # h, g \in R, NEW i \in 0 .. Len(b[g])
        PROVE  j.next[Nth(b[g], g, i)] = Nth(b[g], g, i + 1)
    <3>1. b[g] = c[g]
      BY <1>4, <2>1
    <3>2. Nth(c[g], g, i) # Nth(c[h], h, q)
      BY <1>2, <1>6, <2>1, <3>1
    <3> QED
      BY <1>7, <1>8, <2>1, <3>1, <3>2
  <2>2. ASSUME NEW i \in 0 .. Len(t)
        PROVE  j.next[Nth(t, h, i)] = Nth(t, h, i + 1)
    <3>1. /\ \A n \in 0 .. m : Nth(s, h, n) \in Cells /\ Nth(s, h, n) # e
          /\ \A n \in 0 .. m : n # q => Nth(s, h, n) # Nth(s, h, q)
          /\ \A n \in 0 .. m : k.next[Nth(s, h, n)] = Nth(s, h, n + 1)
      BY <1>2, <1>6, <1>7, <1>8
    <3>2. \A n \in 0 .. m + 2 : Nth(t, h, n) = IF n < q + 1 THEN Nth(s, h, n)
                                   ELSE IF n = q + 1 THEN e ELSE Nth(s, h, n - 1)
      <4> HIDE DEF s, m
      <4>1. ASSUME NEW n \in 0 .. m + 2
            PROVE  Nth(t, h, n) = IF n < q + 1 THEN Nth(s, h, n)
                                  ELSE IF n = q + 1 THEN e ELSE Nth(s, h, n - 1)
        <5>1. CASE n \in 1 .. m + 1
          <6>1. Nth(t, h, n) = t[n]
            BY <1>3, <5>1 DEF Nth
          <6>2. n < q + 1 => Nth(s, h, n) = s[n]
            BY <1>2, <5>1 DEF Nth, m
          <6>3. n > q + 1 => Nth(s, h, n - 1) = s[n - 1]
            BY <1>2, <5>1 DEF Nth, m
          <6> QED
            BY <1>2, <1>3, <5>1, <6>1, <6>2, <6>3
        <5>2. CASE n \notin 1 .. m + 1
          <6>1. Nth(t, h, n) = h
            BY <1>3, <5>2 DEF Nth
          <6>2. n = 0 => Nth(s, h, n) = h
            BY DEF Nth
          <6>3. n = m + 2 => Nth(s, h, n - 1) = h
            BY <1>2 DEF Nth, m
          <6> QED
            BY <1>2, <5>2, <6>1, <6>2, <6>3
        <5> QED
          BY <5>1, <5>2
      <4> QED
        BY <4>1
    <3>3. \A d \in Cells : j.next[d] = IF d = Nth(s, h, q) THEN e
                                      ELSE IF d = e THEN Nth(s, h, q + 1) ELSE k.next[d]
      OBVIOUS
    <3> HIDE DEF s, m
    <3>4. CASE i < q
      BY <1>2, <1>3, <3>1, <3>2, <3>3, <3>4
    <3>5. CASE i = q
      BY <1>2, <1>3, <3>1, <3>2, <3>3, <3>5
    <3>6. CASE i = q + 1
      <4>1. Nth(t, h, i) = e /\ Nth(t, h, i + 1) = Nth(s, h, q + 1)
        BY <1>2, <1>3, <3>2, <3>6
      <4>2. Nth(s, h, q) # e
        BY <1>2, <3>1
      <4> QED
        BY <1>9, <3>3, <4>1, <4>2
    <3>7. CASE i > q + 1
      <4>1. /\ Nth(t, h, i) = Nth(s, h, i - 1) /\ Nth(t, h, i + 1) = Nth(s, h, i)
            /\ i - 1 \in 0 .. m /\ i - 1 # q /\ i - 1 + 1 = i
        BY <1>2, <1>3, <3>2, <3>7
      <4> QED
        BY <3>1, <3>3, <4>1
    <3> QED
      BY <1>2, <1>3, <3>4, <3>5, <3>6, <3>7
  <2>3. \A g \in Heads : g \notin P => g # h /\ g \notin R
    OBVIOUS
  <2>4. \A g \in Heads : g \notin R /\ g # h => b[g] = << >>
    BY <1>1, <1>4 DEF Rows
  <2> SUFFICES ASSUME NEW g \in Heads
               PROVE  IF g \in P
                      THEN \A i \in 0 .. Len(b[g]) : j.next[Nth(b[g], g, i)] = Nth(b[g], g, i + 1)
                      ELSE b[g] = << >>
    BY DEF Rows
  <2>5. CASE g = h
    BY <1>4, <2>2, <2>5
  <2>6. CASE g # h /\ g \in P
    BY <2>1, <2>6
  <2>7. CASE g \notin P
    BY <2>3, <2>4, <2>7
  <2> QED
    BY <2>5, <2>6, <2>7
\* The places of b in terms of the places of c.
<1>11. \A i \in 1 .. Len(b[h]) :
         \/ i = q + 1 /\ b[h][i] = e
         \/ \E n \in 1 .. Len(c[h]) :
              b[h][i] = c[h][n] /\ n = IF i < q + 1 THEN i ELSE i - 1
  <2> SUFFICES ASSUME NEW i \in 1 .. m + 1, i # q + 1
               PROVE  \E n \in 1 .. m : t[i] = s[n] /\ n = IF i < q + 1 THEN i ELSE i - 1
    BY <1>2, <1>3, <1>4
  <2> DEFINE n == IF i < q + 1 THEN i ELSE i - 1
  <2>1. n \in 1 .. m /\ t[i] = s[n]
    <3> HIDE DEF s, m
    <3> QED
      BY <1>2, <1>3
  <2> QED
    BY <2>1
<1>12. \A n \in 1 .. Len(c[h]) : \E i \in 1 .. Len(b[h]) : b[h][i] = c[h][n]
  <2> SUFFICES ASSUME NEW n \in 1 .. m PROVE \E i \in 1 .. m + 1 : t[i] = s[n]
    BY <1>3, <1>4
  <2> DEFINE i == IF n < q + 1 THEN n ELSE n + 1
  <2>1. i \in 1 .. m + 1 /\ t[i] = s[n]
    <3> HIDE DEF s, m
    <3> QED
      BY <1>2, <1>3
  <2> QED
    BY <2>1
<1>13. q + 1 \in 1 .. Len(b[h]) /\ b[h][q + 1] = e
  BY <1>2, <1>3, <1>4
<1>14. Apart(b)
  <2> SUFFICES ASSUME NEW g \in Heads, NEW f \in Heads, NEW i \in 1 .. Len(b[g]),
                      NEW n \in 1 .. Len(b[f]), b[g][i] = b[f][n]
               PROVE  g = f /\ i = n
    BY DEF Apart
  <2>1. Len(c[h]) \in Nat
    BY <1>2
  <2>2. CASE g = h /\ f = h
    <3>1. b[h][i] = b[h][n] /\ i \in 1 .. Len(b[h]) /\ n \in 1 .. Len(b[h]) /\ i \in Int /\ n \in Int
      BY <2>2
    <3>2. CASE i = q + 1 /\ b[h][i] = e
      BY <1>5, <1>11, <2>2, <3>1, <3>2
    <3>3. CASE n = q + 1 /\ b[h][n] = e
      BY <1>5, <1>11, <2>2, <3>1, <3>3
    <3>4. CASE i # q + 1 /\ n # q + 1
      <4>1. PICK i1 \in 1 .. Len(c[h]) :
              b[h][i] = c[h][i1] /\ i1 = IF i < q + 1 THEN i ELSE i - 1
        BY ONLY <1>11, <3>1, <3>4
      <4>2. PICK n1 \in 1 .. Len(c[h]) :
              b[h][n] = c[h][n1] /\ n1 = IF n < q + 1 THEN n ELSE n - 1
        BY ONLY <1>11, <3>1, <3>4
      <4>3. c[h][i1] = c[h][n1]
        BY <3>1, <4>1, <4>2
      <4>4. i1 = n1
        BY ONLY <1>1, <4>3, i1 \in 1 .. Len(c[h]), n1 \in 1 .. Len(c[h]), h \in Heads DEF Apart
      <4>5. i = n
        BY ONLY <4>1, <4>2, <4>4, <3>1, <3>4, <1>2
      <4> QED
        BY <2>2, <4>5
    <3>5. i = q + 1 => b[h][i] = e
      BY <1>13
    <3>6. n = q + 1 => b[h][n] = e
      BY <1>13
    <3>7. \/ i = q + 1 /\ b[h][i] = e
          \/ n = q + 1 /\ b[h][n] = e
          \/ i # q + 1 /\ n # q + 1
      BY ONLY <3>5, <3>6
    <3> QED
      BY ONLY <3>2, <3>3, <3>4, <3>7
  <2>3. CASE g = h /\ f # h
    BY <1>1, <1>4, <1>5, <1>11, <2>3 DEF Apart
  <2>4. CASE g # h /\ f = h
    BY <1>1, <1>4, <1>5, <1>11, <2>4 DEF Apart
  <2>5. CASE g # h /\ f # h
    BY <1>1, <1>4, <2>5 DEF Apart
  <2> QED
    BY <2>2, <2>3, <2>4, <2>5
<1>15. Hold(b, L \cup {e})
  <2> SUFFICES ASSUME NEW x
               PROVE  x \in L \cup {e} <=> \E g \in Heads : \E i \in 1 .. Len(b[g]) : b[g][i] = x
    BY DEF Hold
  <2>1. ASSUME x \in L PROVE \E g \in Heads : \E i \in 1 .. Len(b[g]) : b[g][i] = x
    <3>1. PICK g \in Heads : \E i \in 1 .. Len(c[g]) : c[g][i] = x
      BY <1>1, <2>1 DEF Hold
    <3> QED
      BY <1>4, <1>12, <3>1
  <2>2. ASSUME NEW g \in Heads, NEW i \in 1 .. Len(b[g]), b[g][i] = x PROVE x \in L \cup {e}
    BY <1>1, <1>4, <1>11, <2>2 DEF Hold
  <2> QED
    BY <1>13, <2>1, <2>2
<1> QED
  BY <1>4, <1>10, <1>14, <1>15 DEF Stand, b, t, s

\* The entry at the place q of h taken out.
LEMMA RemoveStands ==
  ASSUME NEW k \in Links, NEW j, NEW R \in SUBSET Cells, NEW c, NEW L, Stand(k, R, c, L),
         NEW h \in Heads \cap R, NEW q \in 1 .. Len(c[h]),
         NEW P, P \cap Heads = R \cap Heads,
         \A d \in Cells \ {c[h][q]} :
           j.next[d] = IF d = Nth(c[h], h, q - 1) THEN Nth(c[h], h, q + 1) ELSE k.next[d]
  PROVE  Stand(j, P, [c EXCEPT ![h] = RemoveAt(@, q)], L \ {c[h][q]})
<1> DEFINE s == c[h]
           e == s[q]
           t == RemoveAt(s, q)
           b == [c EXCEPT ![h] = t]
           m == Len(s)
<1>1. c \in [Heads -> Seq(Entries)] /\ Apart(c) /\ Rows(k, R, c) /\ Hold(c, L)
  BY DEF Stand
<1>2. s \in Seq(Entries) /\ m \in Nat /\ q \in 1 .. m
  BY <1>1
<1>3. /\ t \in Seq(Entries) /\ Len(t) = m - 1
      /\ \A i \in 1 .. m - 1 : t[i] = IF i < q THEN s[i] ELSE s[i + 1]
  <2> HIDE DEF s
  <2> QED
    BY <1>2, Removed
<1> HIDE DEF t
<1>4. b \in [Heads -> Seq(Entries)] /\ b[h] = t /\ \A g \in Heads \ {h} : b[g] = c[g]
  BY <1>1, <1>3
<1>5. \A g, f \in Heads : \A i \in 0 .. Len(c[g]), n \in 0 .. Len(c[f]) :
         Nth(c[g], g, i) = Nth(c[f], f, n) => g = f /\ i = n
  BY <1>1, Places
<1>6. \A g \in Heads : \A i \in 0 .. Len(c[g]) : Nth(c[g], g, i) \in Cells
  BY <1>1, Places
<1>7. \A g \in Heads \cap R : \A i \in 0 .. Len(c[g]) :
        k.next[Nth(c[g], g, i)] = Nth(c[g], g, i + 1)
  BY <1>1 DEF Rows
<1>8. e = Nth(s, h, q)
  BY <1>2 DEF Nth
<1> HIDE DEF b, e
<1>9. \A d \in Cells \ {e} :
           j.next[d] = IF d = Nth(s, h, q - 1) THEN Nth(s, h, q + 1) ELSE k.next[d]
  BY DEF e
<1>10. Rows(j, P, b)
  <2>1. ASSUME NEW g \in Heads, g # h, g \in R, NEW i \in 0 .. Len(b[g])
        PROVE  j.next[Nth(b[g], g, i)] = Nth(b[g], g, i + 1)
    <3>1. b[g] = c[g]
      BY <1>4, <2>1
    <3>2. q \in 0 .. Len(c[h]) /\ q - 1 \in 0 .. Len(c[h]) /\ i \in 0 .. Len(c[g])
      BY <1>2, <2>1, <3>1
    <3>3. Nth(c[g], g, i) # Nth(c[h], h, q - 1) /\ Nth(c[g], g, i) # Nth(c[h], h, q)
      BY <1>5, <2>1, <3>2
    <3>4. Nth(c[g], g, i) \in Cells \ {e}
      BY <1>6, <1>8, <3>2, <3>3
    <3> QED
      BY <1>7, <1>9, <2>1, <3>1, <3>2, <3>3, <3>4
  <2>2. ASSUME NEW i \in 0 .. Len(t)
        PROVE  j.next[Nth(t, h, i)] = Nth(t, h, i + 1)
    <3>1. /\ \A n \in 0 .. m : Nth(s, h, n) \in Cells
          /\ \A n, p \in 0 .. m : n # p => Nth(s, h, n) # Nth(s, h, p)
          /\ \A n \in 0 .. m : k.next[Nth(s, h, n)] = Nth(s, h, n + 1)
      BY <1>2, <1>5, <1>6, <1>7
    <3>2. \A n \in 0 .. m : Nth(t, h, n) = IF n < q THEN Nth(s, h, n) ELSE Nth(s, h, n + 1)
      <4> HIDE DEF s, m
      <4>1. ASSUME NEW n \in 0 .. m
            PROVE  Nth(t, h, n) = IF n < q THEN Nth(s, h, n) ELSE Nth(s, h, n + 1)
        <5>1. CASE n \in 1 .. m - 1
          <6>1. Nth(t, h, n) = t[n]
            BY <1>3, <5>1 DEF Nth
          <6>2. n < q => Nth(s, h, n) = s[n]
            BY <1>2, <5>1 DEF Nth, m
          <6>3. n >= q => Nth(s, h, n + 1) = s[n + 1]
            BY <1>2, <5>1 DEF Nth, m
          <6> QED
            BY <1>2, <1>3, <5>1, <6>1, <6>2, <6>3
        <5>2. CASE n \notin 1 .. m - 1
          <6>1. Nth(t, h, n) = h
            BY <1>3, <5>2 DEF Nth
          <6>2. n = 0 => Nth(s, h, n) = h
            BY DEF Nth
          <6>3. n = m => Nth(s, h, n + 1) = h
            BY <1>2 DEF Nth, m
          <6> QED
            BY <1>2, <5>2, <6>1, <6>2, <6>3
        <5> QED
          BY <5>1, <5>2
      <4> QED
        BY <4>1
    <3> HIDE DEF s, m
    <3>3. i \in 0 .. m - 1
      BY <1>3
    <3>4. CASE i < q - 1
      <4>1. /\ Nth(t, h, i) = Nth(s, h, i) /\ Nth(t, h, i + 1) = Nth(s, h, i + 1)
            /\ i \in 0 .. m /\ i # q - 1 /\ i # q /\ q - 1 \in 0 .. m /\ q \in 0 .. m
        BY <1>2, <3>2, <3>4, <3>3
      <4> QED
        BY <1>8, <1>9, <3>1, <4>1
    <3>5. CASE i = q - 1
      <4>1. /\ Nth(t, h, i) = Nth(s, h, q - 1) /\ Nth(t, h, i + 1) = Nth(s, h, q + 1)
            /\ q # q - 1 /\ q - 1 \in 0 .. m /\ q \in 0 .. m
        BY <1>2, <3>2, <3>5, <3>3
      <4> QED
        BY <1>8, <1>9, <3>1, <4>1
    <3>6. CASE i > q - 1
      <4>1. /\ Nth(t, h, i) = Nth(s, h, i + 1) /\ Nth(t, h, i + 1) = Nth(s, h, i + 1 + 1)
            /\ i + 1 \in 0 .. m /\ i + 1 # q - 1 /\ i + 1 # q /\ q - 1 \in 0 .. m /\ q \in 0 .. m
        BY <1>2, <3>2, <3>6, <3>3
      <4> QED
        BY <1>8, <1>9, <3>1, <4>1
    <3> QED
      BY <1>2, <3>4, <3>5, <3>6, <3>3
  <2>3. \A g \in Heads : g \notin P => g # h /\ g \notin R
    OBVIOUS
  <2>4. \A g \in Heads : g \notin R /\ g # h => b[g] = << >>
    BY <1>1, <1>4 DEF Rows
  <2> SUFFICES ASSUME NEW g \in Heads
               PROVE  IF g \in P
                      THEN \A i \in 0 .. Len(b[g]) : j.next[Nth(b[g], g, i)] = Nth(b[g], g, i + 1)
                      ELSE b[g] = << >>
    BY DEF Rows
  <2>5. CASE g = h
    BY <1>4, <2>2, <2>5
  <2>6. CASE g # h /\ g \in P
    BY <2>1, <2>6
  <2>7. CASE g \notin P
    BY <2>3, <2>4, <2>7
  <2> QED
    BY <2>5, <2>6, <2>7
\* The places of b in terms of the places of c.
<1>11. \A i \in 1 .. Len(b[h]) : \E n \in 1 .. Len(c[h]) :
         b[h][i] = c[h][n] /\ n = (IF i < q THEN i ELSE i + 1)
  <2> SUFFICES ASSUME NEW i \in 1 .. m - 1
               PROVE  \E n \in 1 .. m : t[i] = s[n] /\ n = IF i < q THEN i ELSE i + 1
    BY <1>2, <1>3, <1>4
  <2> DEFINE n == IF i < q THEN i ELSE i + 1
  <2>1. n \in 1 .. m /\ t[i] = s[n]
    <3> HIDE DEF s, m
    <3> QED
      BY <1>2, <1>3
  <2> QED
    BY <2>1
<1>12. \A n \in 1 .. Len(c[h]) : n # q => \E i \in 1 .. Len(b[h]) : b[h][i] = c[h][n]
  <2> SUFFICES ASSUME NEW n \in 1 .. m, n # q PROVE \E i \in 1 .. m - 1 : t[i] = s[n]
    BY <1>3, <1>4
  <2> DEFINE i == IF n < q THEN n ELSE n - 1
  <2>1. i \in 1 .. m - 1 /\ t[i] = s[n]
    <3> HIDE DEF s, m
    <3> QED
      BY <1>2, <1>3
  <2> QED
    BY <2>1
<1>13. Apart(b)
  <2> SUFFICES ASSUME NEW g \in Heads, NEW f \in Heads, NEW i \in 1 .. Len(b[g]),
                      NEW n \in 1 .. Len(b[f]), b[g][i] = b[f][n]
               PROVE  g = f /\ i = n
    BY DEF Apart
  <2>1. CASE g = h /\ f = h
    <3>1. b[h][i] = b[h][n] /\ i \in 1 .. Len(b[h]) /\ n \in 1 .. Len(b[h]) /\ i \in Int /\ n \in Int
      BY <2>1
    <3>2. PICK i1 \in 1 .. Len(c[h]) :
            b[h][i] = c[h][i1] /\ i1 = IF i < q THEN i ELSE i + 1
      BY ONLY <1>11, <3>1
    <3>3. PICK n1 \in 1 .. Len(c[h]) :
            b[h][n] = c[h][n1] /\ n1 = IF n < q THEN n ELSE n + 1
      BY ONLY <1>11, <3>1
    <3>4. c[h][i1] = c[h][n1]
      BY <3>1, <3>2, <3>3
    <3>5. i1 = n1
      BY ONLY <1>1, <3>4, i1 \in 1 .. Len(c[h]), n1 \in 1 .. Len(c[h]), h \in Heads DEF Apart
    <3>6. i = n
      BY ONLY <3>1, <3>2, <3>3, <3>5, <1>2
    <3> QED
      BY <2>1, <3>6
  <2>2. CASE g = h /\ f # h
    <3>1. PICK p \in 1 .. Len(c[h]) : b[h][i] = c[h][p]
      BY <1>11, <2>2
    <3>2. c[h][p] = c[f][n] /\ n \in 1 .. Len(c[f])
      BY <1>4, <2>2, <3>1
    <3> QED
      BY <1>1, <2>2, <3>2 DEF Apart
  <2>3. CASE g # h /\ f = h
    <3>1. PICK p \in 1 .. Len(c[h]) : b[h][n] = c[h][p]
      BY <1>11, <2>3
    <3>2. c[h][p] = c[g][i] /\ i \in 1 .. Len(c[g])
      BY <1>4, <2>3, <3>1
    <3> QED
      BY <1>1, <2>3, <3>2 DEF Apart
  <2>4. CASE g # h /\ f # h
    BY <1>1, <1>4, <2>4 DEF Apart
  <2> QED
    BY <2>1, <2>2, <2>3, <2>4
<1>14. Hold(b, L \ {e})
  <2> SUFFICES ASSUME NEW x
               PROVE  x \in L \ {e} <=> \E g \in Heads : \E i \in 1 .. Len(b[g]) : b[g][i] = x
    BY DEF Hold
  <2>1. ASSUME x \in L, x # e PROVE \E g \in Heads : \E i \in 1 .. Len(b[g]) : b[g][i] = x
    <3>1. PICK g \in Heads : \E i \in 1 .. Len(c[g]) : c[g][i] = x
      BY <1>1, <2>1 DEF Hold
    <3>2. PICK i \in 1 .. Len(c[g]) : c[g][i] = x
      BY <3>1
    <3>3. g = h => i # q
      BY <2>1, <3>2 DEF e
    <3> QED
      BY <1>4, <1>12, <3>2, <3>3
  <2>2. ASSUME NEW g \in Heads, NEW i \in 1 .. Len(b[g]), b[g][i] = x PROVE x \in L /\ x # e
    <3>1. CASE g # h
      <4>1. c[g][i] = x /\ i \in 1 .. Len(c[g])
        BY <1>4, <2>2, <3>1
      <4>2. x # e
        BY <1>1, <1>2, <3>1, <4>1 DEF Apart, e
      <4> QED
        BY <1>1, <4>1, <4>2 DEF Hold
    <3>2. CASE g = h
      <4>1. PICK n \in 1 .. Len(c[h]) : b[h][i] = c[h][n] /\ n = (IF i < q THEN i ELSE i + 1)
        BY <1>11, <2>2, <3>2
      <4>2. n # q
        BY <1>2, <4>1
      <4>3. x # e
        BY <1>1, <1>2, <2>2, <3>2, <4>1, <4>2 DEF Apart, e
      <4> QED
        BY <1>1, <2>2, <3>2, <4>1, <4>3 DEF Hold
    <3> QED
      BY <3>1, <3>2
  <2> QED
    BY <2>1, <2>2
<1> QED
  BY <1>4, <1>10, <1>13, <1>14 DEF Stand, b, t, e

\* A new entry in the place q of h.
LEMMA ReplaceStands ==
  ASSUME NEW k \in Links, NEW j, NEW R \in SUBSET Cells, NEW c, NEW L, Stand(k, R, c, L),
         NEW h \in Heads \cap R, NEW q \in 1 .. Len(c[h]), NEW e \in Entries \ L,
         NEW P, P \cap Heads = R \cap Heads,
         \A d \in Cells \ {c[h][q]} :
           j.next[d] = IF d = Nth(c[h], h, q - 1) THEN e
                       ELSE IF d = e THEN Nth(c[h], h, q + 1) ELSE k.next[d]
  PROVE  Stand(j, P, [c EXCEPT ![h] = ReplaceAt(@, q, e)], (L \ {c[h][q]}) \cup {e})
<1> DEFINE s == c[h]
           old == s[q]
           t == ReplaceAt(s, q, e)
           b == [c EXCEPT ![h] = t]
           m == Len(s)
<1>1. c \in [Heads -> Seq(Entries)] /\ Apart(c) /\ Rows(k, R, c) /\ Hold(c, L)
  BY DEF Stand
<1>2. s \in Seq(Entries) /\ m \in Nat /\ q \in 1 .. m
  BY <1>1
<1>3. /\ t \in Seq(Entries) /\ Len(t) = m
      /\ \A i \in 1 .. m : t[i] = IF i = q THEN e ELSE s[i]
  <2> HIDE DEF s
  <2> QED
    BY <1>2 DEF ReplaceAt
<1> HIDE DEF t
<1>4. b \in [Heads -> Seq(Entries)] /\ b[h] = t /\ \A g \in Heads \ {h} : b[g] = c[g]
  BY <1>1, <1>3
<1>5. \A g \in Heads : \A i \in 1 .. Len(c[g]) : c[g][i] # e
  BY <1>1 DEF Hold
<1>6. \A g, f \in Heads : \A i \in 0 .. Len(c[g]), n \in 0 .. Len(c[f]) :
         Nth(c[g], g, i) = Nth(c[f], f, n) => g = f /\ i = n
  BY <1>1, Places
<1>7. \A g \in Heads : \A i \in 0 .. Len(c[g]) : Nth(c[g], g, i) \in Cells /\ Nth(c[g], g, i) # e
  BY <1>1, <1>5, Places, CellsAssumption DEF Nth
<1>8. \A g \in Heads \cap R : \A i \in 0 .. Len(c[g]) :
        k.next[Nth(c[g], g, i)] = Nth(c[g], g, i + 1)
  BY <1>1 DEF Rows
<1>9. old = Nth(s, h, q) /\ old # e /\ e \in Cells
  BY <1>2, <1>5 DEF Nth, Cells
<1> HIDE DEF b, old
<1>10. \A d \in Cells \ {old} :
           j.next[d] = IF d = Nth(s, h, q - 1) THEN e
                       ELSE IF d = e THEN Nth(s, h, q + 1) ELSE k.next[d]
  BY DEF old
<1>11. Rows(j, P, b)
  <2>1. ASSUME NEW g \in Heads, g # h, g \in R, NEW i \in 0 .. Len(b[g])
        PROVE  j.next[Nth(b[g], g, i)] = Nth(b[g], g, i + 1)
    <3>1. b[g] = c[g]
      BY <1>4, <2>1
    <3>2. q \in 0 .. Len(c[h]) /\ q - 1 \in 0 .. Len(c[h]) /\ i \in 0 .. Len(c[g])
      BY <1>2, <2>1, <3>1
    <3>3. Nth(c[g], g, i) # Nth(c[h], h, q - 1) /\ Nth(c[g], g, i) # Nth(c[h], h, q)
      BY <1>6, <2>1, <3>2
    <3>4. Nth(c[g], g, i) \in Cells \ {old} /\ Nth(c[g], g, i) # e
      BY <1>7, <1>9, <3>2, <3>3
    <3> QED
      BY <1>8, <1>10, <2>1, <3>1, <3>2, <3>3, <3>4
  <2>2. ASSUME NEW i \in 0 .. Len(t)
        PROVE  j.next[Nth(t, h, i)] = Nth(t, h, i + 1)
    <3>1. /\ \A n \in 0 .. m : Nth(s, h, n) \in Cells /\ Nth(s, h, n) # e
          /\ \A n, p \in 0 .. m : n # p => Nth(s, h, n) # Nth(s, h, p)
          /\ \A n \in 0 .. m : k.next[Nth(s, h, n)] = Nth(s, h, n + 1)
      BY <1>2, <1>6, <1>7, <1>8
    <3>2. \A n \in 0 .. m + 1 : Nth(t, h, n) = IF n = q THEN e ELSE Nth(s, h, n)
      BY <1>2, <1>3 DEF Nth
    <3> HIDE DEF s, m
    <3>3. i \in 0 .. m
      BY <1>3
    <3>4. CASE i # q - 1 /\ i # q
      <4>1. /\ Nth(t, h, i) = Nth(s, h, i) /\ Nth(t, h, i + 1) = Nth(s, h, i + 1)
            /\ i # q - 1 /\ i # q /\ q - 1 \in 0 .. m /\ q \in 0 .. m
        BY <1>2, <3>2, <3>4, <3>3
      <4> QED
        BY <1>9, <1>10, <3>1, <3>3, <4>1
    <3>5. CASE i = q - 1
      <4>1. /\ Nth(t, h, i) = Nth(s, h, q - 1) /\ Nth(t, h, i + 1) = e
            /\ q # q - 1 /\ q - 1 \in 0 .. m /\ q \in 0 .. m
        BY <1>2, <3>2, <3>5, <3>3
      <4> QED
        BY <1>9, <1>10, <3>1, <4>1
    <3>6. CASE i = q
      <4>1. /\ Nth(t, h, i) = e /\ Nth(t, h, i + 1) = Nth(s, h, q + 1)
            /\ q - 1 \in 0 .. m
        BY <1>2, <3>2, <3>6, <3>3
      <4> QED
        BY <1>9, <1>10, <3>1, <4>1
    <3> QED
      BY <3>4, <3>5, <3>6
  <2>3. \A g \in Heads : g \notin P => g # h /\ g \notin R
    OBVIOUS
  <2>4. \A g \in Heads : g \notin R /\ g # h => b[g] = << >>
    BY <1>1, <1>4 DEF Rows
  <2> SUFFICES ASSUME NEW g \in Heads
               PROVE  IF g \in P
                      THEN \A i \in 0 .. Len(b[g]) : j.next[Nth(b[g], g, i)] = Nth(b[g], g, i + 1)
                      ELSE b[g] = << >>
    BY DEF Rows
  <2>5. CASE g = h
    BY <1>4, <2>2, <2>5
  <2>6. CASE g # h /\ g \in P
    BY <2>1, <2>6
  <2>7. CASE g \notin P
    BY <2>3, <2>4, <2>7
  <2> QED
    BY <2>5, <2>6, <2>7
<1>12. \A g \in Heads : Len(b[g]) = Len(c[g]) /\
         \A i \in 1 .. Len(b[g]) : b[g][i] = IF g = h /\ i = q THEN e ELSE c[g][i]
  BY <1>2, <1>3, <1>4
<1>13. Apart(b)
  BY <1>1, <1>5, <1>12 DEF Apart
<1>14. Hold(b, (L \ {old}) \cup {e})
  <2> SUFFICES ASSUME NEW x
               PROVE  x \in (L \ {old}) \cup {e} <=>
                        \E g \in Heads : \E i \in 1 .. Len(b[g]) : b[g][i] = x
    BY DEF Hold
  <2>1. q \in 1 .. Len(b[h]) /\ b[h][q] = e
    BY <1>2, <1>12
  <2>2. ASSUME x \in L, x # old PROVE \E g \in Heads : \E i \in 1 .. Len(b[g]) : b[g][i] = x
    <3>1. PICK g \in Heads : \E i \in 1 .. Len(c[g]) : c[g][i] = x
      BY <1>1, <2>2 DEF Hold
    <3>2. PICK i \in 1 .. Len(c[g]) : c[g][i] = x
      BY <3>1
    <3>3. g = h => i # q
      BY <2>2, <3>2 DEF old
    <3> QED
      BY <1>12, <3>2, <3>3
  <2>3. ASSUME NEW g \in Heads, NEW i \in 1 .. Len(b[g]), b[g][i] = x, x # e
        PROVE  x \in L /\ x # old
    <3>1. c[g][i] = x /\ i \in 1 .. Len(c[g]) /\ ~(g = h /\ i = q)
      BY <1>12, <2>3
    <3>2. x # old
      BY <1>1, <1>2, <3>1 DEF Apart, old
    <3> QED
      BY <1>1, <3>1, <3>2 DEF Hold
  <2> QED
    BY <2>1, <2>2, <2>3
<1> QED
  BY <1>4, <1>11, <1>13, <1>14 DEF Stand, b, t, old

\* The list of one head handed to another.
LEMMA TakeOverStands ==
  ASSUME NEW k \in Links, NEW j, NEW R \in SUBSET Cells, NEW c, NEW L, Stand(k, R, c, L),
         NEW old \in Heads \cap R, NEW new \in Heads \ {old}, c[new] = << >>,
         NEW P, P \ {old} = (R \cup {new}) \ {old}, old \in P => j.next[old] = old,
         \A d \in Cells \ {old} :
           j.next[d] = IF d = new THEN Nth(c[old], new, 1)
                       ELSE IF d = Nth(c[old], new, Len(c[old])) THEN new ELSE k.next[d]
  PROVE  Stand(j, P, [c EXCEPT ![new] = c[old], ![old] = << >>], L)
<1> DEFINE s == c[old]
           b == [c EXCEPT ![new] = s, ![old] = << >>]
           m == Len(s)
<1>1. c \in [Heads -> Seq(Entries)] /\ Apart(c) /\ Rows(k, R, c) /\ Hold(c, L)
  BY DEF Stand
<1>2. s \in Seq(Entries) /\ m \in Nat /\ old # new
  BY <1>1
<1>3. /\ b \in [Heads -> Seq(Entries)] /\ b[new] = s /\ b[old] = << >>
      /\ \A g \in Heads \ {new, old} : b[g] = c[g]
  <2> HIDE DEF s
  <2> QED
    BY <1>1, <1>2
<1>4. \A g, f \in Heads : \A i \in 0 .. Len(c[g]), n \in 0 .. Len(c[f]) :
         Nth(c[g], g, i) = Nth(c[f], f, n) => g = f /\ i = n
  BY <1>1, Places
<1>5. \A g \in Heads : \A i \in 0 .. Len(c[g]) : Nth(c[g], g, i) \in Cells
  BY <1>1, Places
<1>6. \A g \in Heads \cap R : \A i \in 0 .. Len(c[g]) :
        k.next[Nth(c[g], g, i)] = Nth(c[g], g, i + 1)
  BY <1>1 DEF Rows
<1>7. \A i \in 0 .. m : Nth(s, new, i) \in Cells \ {old}
                        /\ (i # 0 => Nth(s, new, i) = Nth(s, old, i) /\ Nth(s, new, i) # new)
  BY <1>1, <1>2, CellsAssumption, Places DEF Nth, Cells
<1> HIDE DEF b
<1>8. Rows(j, P, b)
  <2>1. ASSUME NEW g \in Heads, g # old, g # new, g \in R, NEW i \in 0 .. Len(b[g])
        PROVE  j.next[Nth(b[g], g, i)] = Nth(b[g], g, i + 1)
    <3>1. b[g] = c[g] /\ Len(c[new]) = 0
      BY <1>3, <2>1
    <3>2. 0 \in 0 .. Len(c[old]) /\ m \in 0 .. Len(c[old]) /\ i \in 0 .. Len(c[g]) /\ 0 \in 0 .. Len(c[new])
      BY <1>2, <2>1, <3>1
    <3>3. /\ Nth(c[g], g, i) # Nth(c[old], old, m) /\ Nth(c[g], g, i) # Nth(c[old], old, 0)
          /\ Nth(c[g], g, i) # Nth(c[new], new, 0)
      BY <1>4, <2>1, <3>2
    <3>4. Nth(c[old], old, 0) = old /\ Nth(c[new], new, 0) = new
      BY DEF Nth
    <3>5. Nth(c[g], g, i) # Nth(s, new, m)
      <4>1. m # 0 => Nth(s, new, m) = Nth(s, old, m)
        BY <1>2, <1>7
      <4>2. m = 0 => Nth(s, new, m) = new
        BY DEF Nth
      <4> QED
        BY <3>3, <3>4, <4>1, <4>2
    <3>6. Nth(c[g], g, i) \in Cells \ {old} /\ Nth(c[g], g, i) # new
      BY <1>5, <3>2, <3>3, <3>4
    <3> QED
      BY <1>6, <2>1, <3>1, <3>2, <3>5, <3>6
  <2>2. ASSUME NEW i \in 0 .. m
        PROVE  j.next[Nth(s, new, i)] = Nth(s, new, i + 1)
    <3>1. /\ \A n \in 0 .. m : k.next[Nth(s, old, n)] = Nth(s, old, n + 1)
          /\ \A n, p \in 0 .. m : n # p => Nth(s, old, n) # Nth(s, old, p)
      BY <1>2, <1>4, <1>6
    <3>2. CASE i = 0
      <4>1. Nth(s, new, i) = new
        BY <3>2 DEF Nth
      <4> QED
        BY <3>2, <4>1, <1>7
    <3>3. CASE i # 0 /\ i = m
      <4>1. Nth(s, new, i + 1) = new
        BY <1>2, <3>3 DEF Nth
      <4> QED
        BY <1>7, <3>3, <4>1
    <3>4. CASE i # 0 /\ i # m
      <4>1. i + 1 \in 0 .. m /\ i + 1 # 0 /\ m \in 0 .. m /\ m # 0 /\ i # m
        BY <1>2, <3>4
      <4>2. Nth(s, new, i) # Nth(s, new, m)
        BY <1>7, <3>1, <3>4, <4>1
      <4> QED
        BY <1>7, <3>1, <3>4, <4>1, <4>2
    <3> QED
      BY <3>2, <3>3, <3>4
  <2>3. \A i \in 0 .. 0 : old \in P => j.next[Nth(<< >>, old, i)] = Nth(<< >>, old, i + 1)
    BY DEF Nth
  <2>4. \A g \in Heads : g \notin R => c[g] = << >>
    BY <1>1 DEF Rows
  <2> SUFFICES ASSUME NEW g \in Heads
               PROVE  IF g \in P
                      THEN \A i \in 0 .. Len(b[g]) : j.next[Nth(b[g], g, i)] = Nth(b[g], g, i + 1)
                      ELSE b[g] = << >>
    BY DEF Rows
  <2>5. CASE g = old
    BY <1>3, <2>3, <2>5
  <2>6. CASE g = new
    BY <1>2, <1>3, <2>2, <2>6
  <2>7. CASE g # old /\ g # new /\ g \in R
    BY <1>2, <2>1, <2>7
  <2>8. CASE g # old /\ g # new /\ g \notin R
    BY <1>3, <2>4, <2>8
  <2> QED
    BY <2>5, <2>6, <2>7, <2>8
<1>9. \A g \in Heads : \E f \in Heads : b[g] = c[f] /\ (Len(c[f]) > 0 => f = IF g = new THEN old ELSE g)
  BY <1>3, <1>2
<1>10. \A f \in Heads : Len(c[f]) > 0 => \E g \in Heads : b[g] = c[f]
  BY <1>2, <1>3
<1>11. Apart(b)
  <2> SUFFICES ASSUME NEW g \in Heads, NEW f \in Heads, NEW i \in 1 .. Len(b[g]),
                      NEW n \in 1 .. Len(b[f]), b[g][i] = b[f][n]
               PROVE  g = f /\ i = n
    BY DEF Apart
  <2>1. PICK g1 \in Heads : b[g] = c[g1] /\ (Len(c[g1]) > 0 => g1 = IF g = new THEN old ELSE g)
    BY <1>9
  <2>2. PICK f1 \in Heads : b[f] = c[f1] /\ (Len(c[f1]) > 0 => f1 = IF f = new THEN old ELSE f)
    BY <1>9
  <2>3. g1 = f1 /\ i = n
    BY <1>1, <2>1, <2>2 DEF Apart
  <2>4. Len(c[g1]) > 0 /\ Len(c[f1]) > 0 /\ g # old /\ f # old
    <3>1. Len(c[g1]) \in Nat /\ Len(c[f1]) \in Nat /\ Len(b[old]) = 0
      BY <1>1, <1>3
    <3> QED
      BY <2>1, <2>2, <3>1
  <2> QED
    BY <2>1, <2>2, <2>3, <2>4
<1>12. Hold(b, L)
  <2> SUFFICES ASSUME NEW x
               PROVE  x \in L <=> \E g \in Heads : \E i \in 1 .. Len(b[g]) : b[g][i] = x
    BY DEF Hold
  <2>1. ASSUME x \in L PROVE \E g \in Heads : \E i \in 1 .. Len(b[g]) : b[g][i] = x
    <3>1. PICK f \in Heads : \E i \in 1 .. Len(c[f]) : c[f][i] = x
      BY <1>1, <2>1 DEF Hold
    <3>2. PICK i \in 1 .. Len(c[f]) : c[f][i] = x
      BY <3>1
    <3>3. Len(c[f]) > 0
      BY <1>1
    <3> QED
      BY <1>10, <3>2, <3>3
  <2>2. ASSUME NEW g \in Heads, NEW i \in 1 .. Len(b[g]), b[g][i] = x PROVE x \in L
    BY <1>1, <1>9, <2>2 DEF Hold
  <2> QED
    BY <2>1, <2>2
<1> QED
  BY <1>3, <1>8, <1>11, <1>12 DEF Stand, b, s

-----------------------------------------------------------------------------
\* The order of the entries an operation leaves in place.

\* What InsertAt leaves in order.
LEMMA InsertedOrder ==
  ASSUME NEW s \in Seq(Entries), NEW p \in 1 .. Len(s) + 1, NEW e \in Entries
  PROVE  /\ ToSet(InsertAt(s, p, e)) = ToSet(s) \cup {e}
         /\ \A x, y : Before(s, x, y) => Before(InsertAt(s, p, e), x, y)
<1> DEFINE t == InsertAt(s, p, e)
           m == Len(s)
<1>1. /\ m \in Nat /\ p \in 1 .. m + 1 /\ DOMAIN s = 1 .. m /\ DOMAIN t = 1 .. m + 1
      /\ \A i \in 1 .. m + 1 : t[i] = IF i < p THEN s[i] ELSE IF i = p THEN e ELSE s[i - 1]
  BY Inserted
<1> HIDE DEF t, m
<1>2. \A i \in DOMAIN s : \E n \in DOMAIN t : t[n] = s[i] /\ n = IF i < p THEN i ELSE i + 1
  <2> SUFFICES ASSUME NEW i \in 1 .. m
               PROVE  \E n \in 1 .. m + 1 : t[n] = s[i] /\ n = IF i < p THEN i ELSE i + 1
    BY <1>1
  <2>1. CASE i < p
    BY <1>1, <2>1
  <2>2. CASE ~(i < p)
    <3>1. i + 1 \in 1 .. m + 1 /\ ~(i + 1 < p) /\ i + 1 # p /\ i + 1 - 1 = i
      BY <1>1, <2>2
    <3> QED
      BY <1>1, <2>2, <3>1
  <2> QED
    BY <2>1, <2>2
<1>3. \A n \in DOMAIN t : t[n] = e \/ \E i \in DOMAIN s : t[n] = s[i]
  BY <1>1
<1>4. ToSet(t) = ToSet(s) \cup {e}
  <2>1. p \in DOMAIN t /\ t[p] = e
    BY <1>1
  <2> QED
    BY <1>2, <1>3, <2>1 DEF ToSet
<1>5. ASSUME NEW x, NEW y, Before(s, x, y) PROVE Before(t, x, y)
  <2>1. PICK i \in DOMAIN s, j \in DOMAIN s : i < j /\ s[i] = x /\ s[j] = y
    BY <1>5 DEF Before
  <2>2. PICK n \in DOMAIN t : t[n] = s[i] /\ n = IF i < p THEN i ELSE i + 1
    BY <1>2
  <2>3. PICK q \in DOMAIN t : t[q] = s[j] /\ q = IF j < p THEN j ELSE j + 1
    BY <1>2
  <2>4. n < q
    BY <1>1, <2>1, <2>2, <2>3
  <2> QED
    BY <2>1, <2>2, <2>3, <2>4 DEF Before
<1> QED
  BY <1>4, <1>5 DEF t

\* What RemoveAt leaves in order.
LEMMA RemovedOrder ==
  ASSUME NEW s \in Seq(Entries), NEW p \in 1 .. Len(s)
  PROVE  /\ ToSet(s) \ {s[p]} \subseteq ToSet(RemoveAt(s, p))
         /\ ToSet(RemoveAt(s, p)) \subseteq ToSet(s)
         /\ \A x, y : Before(s, x, y) /\ x # s[p] /\ y # s[p] => Before(RemoveAt(s, p), x, y)
         /\ \A i, j \in DOMAIN RemoveAt(s, p) :
              i < j => Before(s, RemoveAt(s, p)[i], RemoveAt(s, p)[j])
<1> DEFINE t == RemoveAt(s, p)
           m == Len(s)
<1>1. /\ m \in Nat /\ p \in 1 .. m /\ DOMAIN s = 1 .. m /\ DOMAIN t = 1 .. m - 1
      /\ \A i \in 1 .. m - 1 : t[i] = IF i < p THEN s[i] ELSE s[i + 1]
  <2>1. /\ t \in Seq(Entries) /\ Len(t) = m - 1
        /\ \A i \in 1 .. m - 1 : t[i] = IF i < p THEN s[i] ELSE s[i + 1]
    BY Removed
  <2>2. m \in Nat /\ p \in 1 .. m /\ DOMAIN s = 1 .. m
    OBVIOUS
  <2> HIDE DEF t, m
  <2>3. DOMAIN t = 1 .. Len(t)
    BY <2>1
  <2> QED
    BY <2>1, <2>2, <2>3
<1> HIDE DEF t, m
<1>2. \A i \in DOMAIN s : i # p => \E n \in DOMAIN t : t[n] = s[i] /\ n = IF i < p THEN i ELSE i - 1
  <2> SUFFICES ASSUME NEW i \in 1 .. m, i # p
               PROVE  \E n \in 1 .. m - 1 : t[n] = s[i] /\ n = IF i < p THEN i ELSE i - 1
    BY <1>1
  <2>1. CASE i < p
    BY <1>1, <2>1
  <2>2. CASE ~(i < p)
    <3>1. i - 1 \in 1 .. m - 1 /\ ~(i - 1 < p) /\ i - 1 + 1 = i
      BY <1>1, <2>2
    <3> QED
      BY <1>1, <2>2, <3>1
  <2> QED
    BY <2>1, <2>2
<1>3. \A n \in DOMAIN t : \E i \in DOMAIN s : t[n] = s[i] /\ i = IF n < p THEN n ELSE n + 1
  <2> SUFFICES ASSUME NEW n \in 1 .. m - 1
               PROVE  \E i \in 1 .. m : t[n] = s[i] /\ i = IF n < p THEN n ELSE n + 1
    BY <1>1
  <2>1. n \in 1 .. m /\ n + 1 \in 1 .. m
    BY <1>1
  <2> QED
    BY <1>1, <2>1
<1>4. ToSet(s) \ {s[p]} \subseteq ToSet(t) /\ ToSet(t) \subseteq ToSet(s)
  BY <1>2, <1>3 DEF ToSet
<1>5. ASSUME NEW x, NEW y, Before(s, x, y), x # s[p], y # s[p] PROVE Before(t, x, y)
  <2>1. PICK i \in DOMAIN s, j \in DOMAIN s : i < j /\ s[i] = x /\ s[j] = y
    BY <1>5 DEF Before
  <2>2. PICK n \in DOMAIN t : t[n] = s[i] /\ n = IF i < p THEN i ELSE i - 1
    BY <1>2, <1>5, <2>1
  <2>3. PICK q \in DOMAIN t : t[q] = s[j] /\ q = IF j < p THEN j ELSE j - 1
    BY <1>2, <1>5, <2>1
  <2>4. n < q
    <3>1. i # p /\ j # p
      BY <1>5, <2>1
    <3> QED
      BY <1>1, <2>1, <2>2, <2>3, <3>1
  <2> QED
    BY <2>1, <2>2, <2>3, <2>4 DEF Before
<1>6. ASSUME NEW i \in DOMAIN t, NEW j \in DOMAIN t, i < j PROVE Before(s, t[i], t[j])
  <2>1. PICK n \in DOMAIN s : t[i] = s[n] /\ n = IF i < p THEN i ELSE i + 1
    BY <1>3
  <2>2. PICK q \in DOMAIN s : t[j] = s[q] /\ q = IF j < p THEN j ELSE j + 1
    BY <1>3
  <2>3. n < q
    BY <1>1, <1>6, <2>1, <2>2
  <2> QED
    BY <2>1, <2>2, <2>3 DEF Before
<1> QED
  BY <1>4, <1>5, <1>6 DEF t

\* What ReplaceAt leaves in order.
LEMMA ReplacedOrder ==
  ASSUME NEW s \in Seq(Entries), NEW p \in 1 .. Len(s), NEW e
  PROVE  /\ ToSet(s) \ {s[p]} \subseteq ToSet(ReplaceAt(s, p, e))
         /\ \A x, y : Before(s, x, y) /\ x # s[p] /\ y # s[p] => Before(ReplaceAt(s, p, e), x, y)
<1> DEFINE t == ReplaceAt(s, p, e)
<1>1. DOMAIN t = DOMAIN s /\ \A i \in DOMAIN s : i # p => t[i] = s[i]
  BY DEF ReplaceAt
<1> HIDE DEF t
<1>2. ASSUME NEW x, NEW y, Before(s, x, y), x # s[p], y # s[p] PROVE Before(t, x, y)
  <2>1. PICK i \in DOMAIN s, j \in DOMAIN s : i < j /\ s[i] = x /\ s[j] = y
    BY <1>2 DEF Before
  <2> QED
    BY <1>1, <1>2, <2>1 DEF Before
<1> QED
  BY <1>1, <1>2 DEF ToSet, t

\* The list in the direction of a loop.
Along(dir, s) == IF dir = "next" THEN s ELSE Reverse(s)

\* Turning a list turns the order of its entries.
LEMMA AlongOrder ==
  ASSUME NEW s \in Seq(Entries), NEW dir \in {"next", "prev"}
  PROVE  /\ Along(dir, s) \in Seq(Entries) /\ Len(Along(dir, s)) = Len(s)
         /\ ToSet(Along(dir, s)) = ToSet(s)
         /\ IsInjective(s) => IsInjective(Along(dir, s))
         /\ \A x, y : Before(Along(dir, s), x, y) <=>
                        IF dir = "next" THEN Before(s, x, y) ELSE Before(s, y, x)
<1>1. CASE dir = "next"
  BY <1>1 DEF Along
<1>2. CASE dir = "prev"
  <2> DEFINE t == Reverse(s)
             m == Len(s)
  <2>1. Along(dir, s) = t
    BY <1>2 DEF Along
  <2>2. /\ m \in Nat /\ t \in Seq(Entries) /\ Len(t) = m
        /\ DOMAIN s = 1 .. m /\ DOMAIN t = 1 .. m
        /\ \A i \in 1 .. m : t[i] = s[m - i + 1]
    BY Reversed
  <2> HIDE DEF t, m
  <2>3. \A i \in 1 .. m : m - i + 1 \in 1 .. m /\ m - (m - i + 1) + 1 = i
    BY <2>2
  <2>4. \A i \in 1 .. m : s[i] = t[m - i + 1]
    BY <2>2, <2>3
  <2>5. ToSet(t) = ToSet(s)
    BY <2>2, <2>3, <2>4 DEF ToSet
  <2>6. IsInjective(s) => IsInjective(t)
    <3> SUFFICES ASSUME IsInjective(s), NEW i \in 1 .. m, NEW n \in 1 .. m, t[i] = t[n]
                 PROVE  i = n
      BY <2>2 DEF IsInjective
    <3>1. m - i + 1 = m - n + 1
      BY <2>2, <2>3 DEF IsInjective
    <3> QED
      BY <2>2, <3>1
  <2>7. ASSUME NEW x, NEW y, Before(t, x, y) PROVE Before(s, y, x)
    <3>1. PICK i \in 1 .. m, j \in 1 .. m : i < j /\ t[i] = x /\ t[j] = y
      BY <2>2, <2>7 DEF Before
    <3>2. m - j + 1 < m - i + 1 /\ s[m - i + 1] = x /\ s[m - j + 1] = y
      BY <2>2, <3>1
    <3> QED
      BY <2>2, <2>3, <3>2 DEF Before
  <2>8. ASSUME NEW x, NEW y, Before(s, y, x) PROVE Before(t, x, y)
    <3>1. PICK i \in 1 .. m, j \in 1 .. m : i < j /\ s[i] = y /\ s[j] = x
      BY <2>2, <2>8 DEF Before
    <3>2. m - j + 1 < m - i + 1 /\ t[m - i + 1] = y /\ t[m - j + 1] = x
      BY <2>2, <2>4, <3>1
    <3> QED
      BY <2>2, <2>3, <3>2 DEF Before
  <2> QED
    BY <1>2, <2>1, <2>2, <2>5, <2>6, <2>7, <2>8 DEF m
<1> QED
  BY <1>1, <1>2

-----------------------------------------------------------------------------
\* The members prev of a list, and the operations on it.

\* Along a list the links lead to the neighbours, both ways.
LEMMA Backlinks ==
  ASSUME NEW k \in Links, NEW R \in SUBSET Cells, NEW c, NEW L, Stand(k, R, c, L),
         Rings(k, R), L \subseteq R, NEW h \in Heads \cap R
  PROVE  \A i \in 0 .. Len(c[h]) :
           /\ Nth(c[h], h, i) \in R
           /\ k.next[Nth(c[h], h, i)] = Nth(c[h], h, i + 1)
           /\ k.prev[Nth(c[h], h, i + 1)] = Nth(c[h], h, i)
<1> SUFFICES ASSUME NEW i \in 0 .. Len(c[h])
             PROVE  /\ Nth(c[h], h, i) \in R
                    /\ k.next[Nth(c[h], h, i)] = Nth(c[h], h, i + 1)
                    /\ k.prev[Nth(c[h], h, i + 1)] = Nth(c[h], h, i)
  OBVIOUS
<1>1. k.next[Nth(c[h], h, i)] = Nth(c[h], h, i + 1)
  BY DEF Stand, Rows
<1>2. Nth(c[h], h, i) \in R
  <2>1. CASE i \in 1 .. Len(c[h])
    BY <2>1 DEF Nth, Stand, Hold
  <2>2. CASE i \notin 1 .. Len(c[h])
    BY <2>2 DEF Nth
  <2> QED
    BY <2>1, <2>2
<1> QED
  BY <1>1, <1>2 DEF Rings

\* list_add puts an entry after a cell, list_add_tail before one.
LEMMA AddStands ==
  ASSUME NEW k \in Links, NEW R \in SUBSET Cells, NEW c, NEW L, Stand(k, R, c, L),
         Rings(k, R), L \subseteq R, NEW h \in Heads \cap R, NEW q \in 0 .. Len(c[h]),
         NEW e \in Entries \ L, NEW P, P \cap Heads = R \cap Heads,
         NEW j, \/ j = list_add(k, e, Nth(c[h], h, q))
                \/ j = list_add_tail(k, e, Nth(c[h], h, q + 1))
  PROVE  Stand(j, P, [c EXCEPT ![h] = InsertAt(@, q + 1, e)], L \cup {e})
<1> DEFINE p == Nth(c[h], h, q)
           n == Nth(c[h], h, q + 1)
<1>1. p \in R /\ k.next[p] = n /\ k.prev[n] = p
  BY Backlinks
<1>2. j = __list_add(k, e, p, n)
  BY <1>1 DEF list_add, list_add_tail
<1>3. n \in Cells /\ e \in Cells /\ p # e
  <2>1. c \in [Heads -> Seq(Entries)] /\ Apart(c) /\ Hold(c, L)
    BY DEF Stand
  <2>2. q + 1 \in Int
    BY <2>1
  <2>3. n \in Cells
    BY <2>1, <2>2, Places
  <2>4. p # e
    BY <2>1, CellsAssumption DEF Nth, Hold
  <2> QED
    BY <2>3, <2>4 DEF Cells
<1> HIDE DEF p, n
<1>4. \A d \in Cells : j.next[d] = IF d = p THEN e ELSE IF d = e THEN n ELSE k.next[d]
  BY <1>1, <1>2, <1>3 DEF __list_add, Links
<1> QED
  BY <1>4, InsertStands DEF p, n

\* list_del and list_del_init take an entry out.
LEMMA DelLinks ==
  ASSUME NEW k \in Links, NEW R \in SUBSET Cells, NEW c, NEW L, Stand(k, R, c, L),
         Rings(k, R), L \subseteq R, NEW h \in Heads \cap R, NEW q \in 1 .. Len(c[h]),
         NEW j, j = list_del(k, c[h][q]) \/ j = list_del_init(k, c[h][q])
  PROVE  /\ \A d \in Cells \ {c[h][q]} : j.next[d] =
              IF d = Nth(c[h], h, q - 1) THEN Nth(c[h], h, q + 1) ELSE k.next[d]
         /\ c[h][q] \in L /\ c[h][q] \in Entries
         /\ k.prev[c[h][q]] = Nth(c[h], h, q - 1) /\ k.next[c[h][q]] = Nth(c[h], h, q + 1)
         /\ j.next[Nth(c[h], h, q - 1)] = Nth(c[h], h, q + 1)
<1> DEFINE e == c[h][q]
           p == Nth(c[h], h, q - 1)
           n == Nth(c[h], h, q + 1)
<1>1. c \in [Heads -> Seq(Entries)] /\ Apart(c) /\ Hold(c, L)
  BY DEF Stand
<1>2. q \in 0 .. Len(c[h]) /\ q - 1 \in 0 .. Len(c[h]) /\ q - 1 + 1 = q /\ q + 1 \in Int /\ q - 1 \in Int
  BY <1>1
<1>3. e = Nth(c[h], h, q)
  BY DEF Nth
<1>4. k.next[e] = n /\ k.prev[e] = p
  BY <1>2, <1>3, Backlinks
<1>5. e \in L /\ e \in Entries /\ e \in Cells /\ p \in Cells /\ n \in Cells
  BY <1>1, <1>2, Places DEF Hold, Cells
<1>6. e # p
  BY <1>1, <1>2, <1>3, Places
<1> HIDE DEF e, p, n
<1>7. \A d \in Cells \ {e} : j.next[d] = IF d = p THEN n ELSE k.next[d]
  <2>1. \A d \in Cells : list_del(k, e).next[d] = IF d = p THEN n ELSE k.next[d]
    BY <1>4, <1>5 DEF list_del, __list_del, Links
  <2>2. list_del(k, e) \in Links
    BY <1>4, <1>5 DEF list_del, __list_del, Links
  <2>3. \A d \in Cells \ {e} : list_del_init(k, e).next[d] = list_del(k, e).next[d]
    BY <1>5, <2>2 DEF list_del_init, INIT_LIST_HEAD, Links
  <2>4. j = list_del(k, e) \/ j = list_del_init(k, e)
    BY DEF e
  <2> QED
    BY <2>1, <2>3, <2>4
<1> QED
  BY <1>4, <1>5, <1>6, <1>7 DEF e, p, n

\* So taken out, the lists stand without it.
LEMMA DelStands ==
  ASSUME NEW k \in Links, NEW R \in SUBSET Cells, NEW c, NEW L, Stand(k, R, c, L),
         Rings(k, R), L \subseteq R, NEW h \in Heads \cap R, NEW q \in 1 .. Len(c[h]),
         NEW P, P \cap Heads = R \cap Heads,
         NEW j, j = list_del(k, c[h][q]) \/ j = list_del_init(k, c[h][q])
  PROVE  Stand(j, P, [c EXCEPT ![h] = RemoveAt(@, q)], L \ {c[h][q]})
<1>1. \A d \in Cells \ {c[h][q]} : j.next[d] =
        IF d = Nth(c[h], h, q - 1) THEN Nth(c[h], h, q + 1) ELSE k.next[d]
  BY DelLinks
<1> QED
  BY <1>1, RemoveStands

\* list_replace of an entry.
LEMMA ReplaceEntryStands ==
  ASSUME NEW k \in Links, NEW R \in SUBSET Cells, NEW c, NEW L, Stand(k, R, c, L),
         Rings(k, R), L \subseteq R, NEW h \in Heads \cap R, NEW q \in 1 .. Len(c[h]),
         NEW new \in Entries \ L, NEW P, P \cap Heads = R \cap Heads,
         NEW j, j = list_replace(k, c[h][q], new) \/ j = list_replace_init(k, c[h][q], new)
  PROVE  Stand(j, P, [c EXCEPT ![h] = ReplaceAt(@, q, new)], (L \ {c[h][q]}) \cup {new})
<1> DEFINE e == c[h][q]
           p == Nth(c[h], h, q - 1)
           n == Nth(c[h], h, q + 1)
<1>1. c \in [Heads -> Seq(Entries)] /\ Apart(c) /\ Hold(c, L)
  BY DEF Stand
<1>2. /\ q \in 0 .. Len(c[h]) /\ q - 1 \in 0 .. Len(c[h]) /\ q - 1 + 1 = q
      /\ q + 1 \in Int /\ q - 1 \in Int
  BY <1>1
<1>3. e = Nth(c[h], h, q)
  BY DEF Nth
<1>4. k.next[e] = n /\ k.prev[e] = p
  BY <1>2, <1>3, Backlinks
<1>5. e \in L /\ e \in Entries /\ e \in Cells /\ p \in Cells /\ n \in Cells /\ new \in Cells
  BY <1>1, <1>2, Places DEF Hold, Cells
<1>6. e # p /\ e # n /\ new # e /\ new # p /\ new # n
  <2>1. e # p
    BY <1>1, <1>2, <1>3, Places
  <2>2. CASE q = Len(c[h])
    <3>1. n = h
      BY <1>1, <2>2 DEF Nth
    <3> QED
      BY <1>1, <1>5, <2>1, <3>1, CellsAssumption DEF Nth, Hold
  <2>3. CASE q # Len(c[h])
    <3>1. q + 1 \in 0 .. Len(c[h]) /\ q + 1 # q /\ q + 1 \in 1 .. Len(c[h])
      BY <1>1, <2>3
    <3>2. e # n
      BY <1>1, <1>2, <1>3, <3>1, Places
    <3> QED
      BY <1>1, <1>5, <2>1, <3>1, <3>2, CellsAssumption DEF Nth, Hold
  <2> QED
    BY <2>2, <2>3
<1> HIDE DEF e, p, n
<1>7. \A d \in Cells \ {e} : j.next[d] = IF d = p THEN new ELSE IF d = new THEN n ELSE k.next[d]
  <2>1. \A d \in Cells : list_replace(k, e, new).next[d] =
                           IF d = p THEN new ELSE IF d = new THEN n ELSE k.next[d]
    BY <1>4, <1>5, <1>6 DEF list_replace, Links
  <2>2. list_replace(k, e, new) \in Links
    BY <1>4, <1>5, <1>6 DEF list_replace, Links
  <2>3. \A d \in Cells \ {e} : list_replace_init(k, e, new).next[d] = list_replace(k, e, new).next[d]
    BY <1>5, <2>2 DEF list_replace_init, INIT_LIST_HEAD, Links
  <2>4. j = list_replace(k, e, new) \/ j = list_replace_init(k, e, new)
    BY DEF e
  <2> QED
    BY <2>1, <2>3, <2>4
<1> QED
  BY <1>7, ReplaceStands DEF e, p, n

\* list_replace of a head hands its list over, an empty one as an empty one.
LEMMA ReplaceHeadStands ==
  ASSUME NEW k \in Links, NEW R \in SUBSET Cells, NEW c, NEW L, Stand(k, R, c, L),
         Rings(k, R), L \subseteq R, NEW old \in Heads \cap R, NEW new \in Heads \ {old},
         c[new] = << >>, NEW P, NEW j,
         \/ j = list_replace(k, old, new) /\ P = (R \ {old}) \cup {new}
         \/ j = list_replace_init(k, old, new) /\ P = R \cup {new}
  PROVE  Stand(j, P, [c EXCEPT ![new] = c[old], ![old] = << >>], L)
<1> DEFINE s == c[old]
           m == Len(s)
           p == Nth(s, old, m)
           n == Nth(s, old, 1)
<1>1. c \in [Heads -> Seq(Entries)] /\ Apart(c) /\ s \in Seq(Entries) /\ m \in Nat
  BY DEF Stand
<1>2. k.next[old] = n /\ k.prev[old] = p
  <2>1. 0 \in 0 .. m /\ m \in 0 .. m /\ 0 + 1 = 1
    BY <1>1
  <2>2. Nth(s, old, 0) = old /\ Nth(s, old, m + 1) = old
    BY <1>1 DEF Nth
  <2> QED
    BY <2>1, <2>2, Backlinks
<1>3. p \in Cells /\ n \in Cells /\ old \in Cells /\ new \in Cells
  BY <1>1, Places DEF Cells
<1>4. IF m = 0 THEN p = old /\ n = old ELSE p = s[m] /\ n = s[1] /\ p \in Entries /\ n \in Entries
  BY <1>1 DEF Nth
<1>5. \/ m = 0 /\ Nth(s, new, 1) = new /\ Nth(s, new, m) = new
      \/ m # 0 /\ Nth(s, new, 1) = n /\ Nth(s, new, m) = p
  BY <1>1, <1>4 DEF Nth
<1>6. m # 0 => p \notin {old, new} /\ n \notin {old, new}
  BY <1>4, CellsAssumption
<1> HIDE DEF p, n, s, m
<1>7. \A d \in Cells \ {old} : list_replace(k, old, new).next[d] =
        IF d = new THEN Nth(s, new, 1) ELSE IF d = Nth(s, new, m) THEN new ELSE k.next[d]
  <2>1. CASE m = 0
    <3>1. \A d \in Cells \ {old} : list_replace(k, old, new).next[d] =
            IF d = new THEN new ELSE k.next[d]
      BY <1>2, <1>3, <1>4, <2>1 DEF list_replace, Links
    <3> QED
      BY <1>5, <2>1, <3>1
  <2>2. CASE m # 0
    <3>1. \A d \in Cells \ {old} : list_replace(k, old, new).next[d] =
            IF d = new THEN n ELSE IF d = p THEN new ELSE k.next[d]
      BY <1>2, <1>3, <1>6, <2>2 DEF list_replace, Links
    <3> QED
      BY <1>5, <2>2, <3>1
  <2> QED
    BY <2>1, <2>2
<1>8. list_replace(k, old, new) \in Links
  <2>1. CASE m = 0
    BY <1>2, <1>3, <1>4, <2>1 DEF list_replace, Links
  <2>2. CASE m # 0
    BY <1>2, <1>3, <1>6, <2>2 DEF list_replace, Links
  <2> QED
    BY <2>1, <2>2
<1>9. /\ list_replace_init(k, old, new).next[old] = old
      /\ \A d \in Cells \ {old} :
           list_replace_init(k, old, new).next[d] = list_replace(k, old, new).next[d]
  BY <1>3, <1>8 DEF list_replace_init, INIT_LIST_HEAD, Links
<1>10. /\ P \ {old} = (R \cup {new}) \ {old} /\ (old \in P => j.next[old] = old)
      /\ \A d \in Cells \ {old} : j.next[d] =
           IF d = new THEN Nth(s, new, 1) ELSE IF d = Nth(s, new, m) THEN new ELSE k.next[d]
  <2>1. CASE j = list_replace(k, old, new) /\ P = (R \ {old}) \cup {new}
    BY <1>7, <2>1
  <2>2. CASE j = list_replace_init(k, old, new) /\ P = R \cup {new}
    BY <1>7, <1>9, <2>2
  <2> QED
    BY <2>1, <2>2
<1> QED
  BY <1>10, TakeOverStands DEF s, m

-----------------------------------------------------------------------------
\* What each call makes of the lists.

\* The sequences of the refinement.
Contents == [h \in Heads |-> Content(h)]

\* Their entries are those the callers have put there, each in one place, and
\* next leads through them.
Standing == Stand(l, ringed, Contents, listed)

\* The links after a step decide what the lists are.
LEMMA ContentsAfter ==
  ASSUME l' \in Links, NEW b, Stand(l', ringed', b, listed')
  PROVE  Contents' = b /\ Standing'
<1>1. \A h \in Heads : ContentOf(l', ringed', h) = b[h]
  BY ContentIs
<1>2. \A h \in Heads : Content(h)' = b[h]
  BY <1>1 DEF Content, ContentOf
<1>3. b = [h \in Heads |-> b[h]]
  BY DEF Stand
<1>4. Contents' = b
  BY <1>2, <1>3 DEF Contents
<1> QED
  BY <1>4 DEF Standing

\* Where an entry is.
LEMMA Located ==
  ASSUME Standing, NEW e \in listed
  PROVE  \E h \in Heads \cap ringed : \E i \in 1 .. Len(Contents[h]) : Contents[h][i] = e
<1>1. PICK h \in Heads : \E i \in 1 .. Len(Contents[h]) : Contents[h][i] = e
  BY DEF Standing, Stand, Hold
<1>2. Len(Contents[h]) # 0
  BY <1>1
<1>3. h \in ringed
  BY <1>2 DEF Standing, Stand, Rows
<1> QED
  BY <1>1, <1>3

\* What the invariant says of links and lists.
LEMMA InvFacts ==
  ASSUME IInv, Standing
  PROVE  /\ l \in Links /\ ringed \in SUBSET Cells /\ Rings(l, ringed) /\ listed \subseteq ringed
         /\ Stand(l, ringed, Contents, listed) /\ listed \in SUBSET Entries
         /\ Contents \in [Heads -> Seq(Entries)] /\ Apart(Contents) /\ Hold(Contents, listed)
         /\ Rows(l, ringed, Contents)
  BY DEF IInv, TypeOK, Mirrored, Standing, Stand

\* INIT_LIST_HEAD changes no list.
LEMMA PrepareContents ==
  ASSUME IInv, IInv', Standing, NEW x \in Cells, Prepare(x)
  PROVE  Contents' = Contents /\ Standing'
<1>1. x \in Entries \ listed \/ x \in Heads \ ringed
  BY DEF Prepare, Alone
<1>2. l' = INIT_LIST_HEAD(l, x) /\ ringed' = ringed \cup {x} /\ listed' = listed
  BY DEF Prepare
<1>3. \A d \in Cells : l'.next[d] = IF d = x THEN x ELSE l.next[d]
  BY <1>2, InvFacts DEF INIT_LIST_HEAD, Links
<1>4. Stand(l', ringed \cup {x}, Contents, listed)
  BY <1>1, <1>3, InvFacts, PrepareStands
<1> QED
  BY <1>2, <1>4, ContentsAfter DEF IInv, TypeOK

\* list_add and list_add_tail put one entry in.
LEMMA InsertContents ==
  ASSUME IInv, IInv', Standing, NEW e \in Entries, NEW at \in Cells, Insert(e, at)
  PROVE  /\ Standing' /\ e \notin listed
         /\ \E h \in Heads : \E p \in 1 .. Len(Contents[h]) + 1 :
              Contents' = [Contents EXCEPT ![h] = InsertAt(@, p, e)]
<1> DEFINE c == Contents
<1>1. /\ e \in Entries \ listed /\ l' \in {list_add(l, e, at), list_add_tail(l, e, at)}
      /\ ringed' = ringed \cup {e} /\ listed' = listed \cup {e}
      /\ at \in listed \/ at \in Heads \cap ringed
  BY DEF Insert, Alone, InUse
<1>2. (ringed \cup {e}) \cap Heads = ringed \cap Heads
  BY CellsAssumption
<1>3. PICK h \in Heads \cap ringed :
        \E q \in 0 .. Len(c[h]) :
          \/ l' = list_add(l, e, Nth(c[h], h, q))
          \/ l' = list_add_tail(l, e, Nth(c[h], h, q + 1))
  <2>1. CASE at \in listed
    <3>1. PICK h \in Heads \cap ringed : \E i \in 1 .. Len(c[h]) : c[h][i] = at
      BY <2>1, Located
    <3>2. PICK i \in 1 .. Len(c[h]) : c[h][i] = at
      BY <3>1
    <3>3. /\ Nth(c[h], h, i) = at /\ i \in 0 .. Len(c[h]) /\ i - 1 \in 0 .. Len(c[h])
          /\ i - 1 + 1 = i
      BY <3>2, InvFacts DEF Nth
    <3>4. CASE l' = list_add(l, e, at)
      BY <3>3, <3>4
    <3>5. CASE l' = list_add_tail(l, e, at)
      <4>1. l' = list_add_tail(l, e, Nth(c[h], h, i - 1 + 1))
        BY <3>3, <3>5
      <4> QED
        BY <3>3, <4>1
    <3> QED
      BY <1>1, <3>4, <3>5
  <2>2. CASE at \in Heads \cap ringed
    <3>1. Len(c[at]) \in Nat
      BY <2>2, InvFacts
    <3>2. Nth(c[at], at, 0) = at /\ Nth(c[at], at, Len(c[at]) + 1) = at
      BY <3>1 DEF Nth
    <3>3. 0 \in 0 .. Len(c[at]) /\ Len(c[at]) \in 0 .. Len(c[at])
      BY <3>1
    <3> QED
      BY <1>1, <2>2, <3>2, <3>3
  <2> QED
    BY <1>1, <2>1, <2>2
<1>4. PICK q \in 0 .. Len(c[h]) : \/ l' = list_add(l, e, Nth(c[h], h, q))
                                   \/ l' = list_add_tail(l, e, Nth(c[h], h, q + 1))
  BY <1>3
<1> HIDE DEF c
<1>5. Stand(l', ringed', [c EXCEPT ![h] = InsertAt(@, q + 1, e)], listed')
  BY <1>1, <1>2, <1>4, InvFacts, AddStands DEF c
<1>6. q + 1 \in 1 .. Len(c[h]) + 1
  BY InvFacts DEF c
<1>7. Contents' = [c EXCEPT ![h] = InsertAt(@, q + 1, e)] /\ Standing'
  BY <1>5, ContentsAfter DEF IInv, TypeOK
<1> QED
  BY <1>1, <1>6, <1>7 DEF c

\* list_del and list_del_init take one entry out.
LEMMA UnlinkContents ==
  ASSUME IInv, IInv', Standing, NEW e \in listed,
         \/ l' = list_del(l, e) /\ ringed' = ringed \ {e}
         \/ l' = list_del_init(l, e) /\ ringed' = ringed,
         listed' = listed \ {e}
  PROVE  /\ Standing'
         /\ \E h \in Heads : \E i \in 1 .. Len(Contents[h]) :
              Contents[h][i] = e /\ Contents' = [Contents EXCEPT ![h] = RemoveAt(@, i)]
<1>1. PICK h \in Heads \cap ringed : \E i \in 1 .. Len(Contents[h]) : Contents[h][i] = e
  BY Located
<1>2. PICK i \in 1 .. Len(Contents[h]) : Contents[h][i] = e
  BY <1>1
<1>3. ringed' \cap Heads = ringed \cap Heads
  BY InvFacts, CellsAssumption
<1>4. l' = list_del(l, Contents[h][i]) \/ l' = list_del_init(l, Contents[h][i])
  BY <1>2
<1>5. /\ l \in Links /\ ringed \in SUBSET Cells /\ Rings(l, ringed) /\ listed \subseteq ringed
      /\ Stand(l, ringed, Contents, listed)
  BY InvFacts
<1>6. Stand(l', ringed', [Contents EXCEPT ![h] = RemoveAt(@, i)], listed \ {Contents[h][i]})
  <2>1. PICK P : P = ringed'
    OBVIOUS
  <2>2. P \cap Heads = ringed \cap Heads
    BY <1>3, <2>1
  <2>3. ASSUME NEW j, j = list_del(l, Contents[h][i]) \/ j = list_del_init(l, Contents[h][i])
        PROVE  Stand(j, P, [Contents EXCEPT ![h] = RemoveAt(@, i)], listed \ {Contents[h][i]})
    BY ONLY <1>5, <2>2, <2>3, DelStands, h \in Heads \cap ringed, i \in 1 .. Len(Contents[h])
  <2> QED
    BY <1>4, <2>1, <2>3
<1>7. Stand(l', ringed', [Contents EXCEPT ![h] = RemoveAt(@, i)], listed')
  BY <1>2, <1>6
<1>8. Contents' = [Contents EXCEPT ![h] = RemoveAt(@, i)] /\ Standing'
  BY <1>7, ContentsAfter DEF IInv, TypeOK
<1> QED
  BY <1>2, <1>8

\* list_move and list_move_tail take an entry out and put it in at an end.
LEMMA MoveContents ==
  ASSUME IInv, IInv', Standing, NEW e, NEW g, Move(e, g)
  PROVE  /\ Standing' /\ e \in listed /\ g \in Heads
         /\ \E h \in Heads : \E i \in 1 .. Len(Contents[h]) : \E b :
              /\ Contents[h][i] = e /\ b = [Contents EXCEPT ![h] = RemoveAt(@, i)]
              /\ \E p \in {1, Len(b[g]) + 1} : Contents' = [b EXCEPT ![g] = InsertAt(@, p, e)]
<1> DEFINE k == list_del(l, e)
<1>1. /\ e \in listed /\ g \in Heads \cap ringed /\ l' \in {list_move(l, e, g), list_move_tail(l, e, g)}
      /\ ringed' = ringed /\ listed' = listed
  BY DEF Move
<1>2. PICK h \in Heads \cap ringed : \E i \in 1 .. Len(Contents[h]) : Contents[h][i] = e
  BY <1>1, Located
<1>3. PICK i \in 1 .. Len(Contents[h]) : Contents[h][i] = e
  BY <1>2
<1>4. (ringed \ {e}) \cap Heads = ringed \cap Heads /\ ringed \ {e} \in SUBSET Cells
      /\ e \in Entries /\ e \notin Heads
  BY <1>1, InvFacts, CellsAssumption
<1>5. PICK b : b = [Contents EXCEPT ![h] = RemoveAt(@, i)]
  OBVIOUS
<1>6. Stand(k, ringed \ {e}, b, listed \ {e})
  <2>1. k = list_del(l, Contents[h][i]) \/ k = list_del_init(l, Contents[h][i])
    BY <1>3
  <2> HIDE DEF k
  <2>2. /\ l \in Links /\ ringed \in SUBSET Cells /\ Rings(l, ringed) /\ listed \subseteq ringed
        /\ Stand(l, ringed, Contents, listed)
    BY InvFacts
  <2>3. Stand(k, ringed \ {e}, [Contents EXCEPT ![h] = RemoveAt(@, i)], listed \ {Contents[h][i]})
    BY ONLY <1>4, <2>1, <2>2, DelStands, h \in Heads \cap ringed, i \in 1 .. Len(Contents[h])
  <2> QED
    BY <1>3, <1>5, <2>3
<1>7. k \in Links /\ Rings(k, ringed \ {e})
  BY <1>1, UnlinkKeeps DEF Keeps
<1>8. listed \ {e} \subseteq ringed \ {e} /\ e \in Entries \ (listed \ {e})
      /\ (listed \ {e}) \cup {e} = listed /\ g \in Heads \cap (ringed \ {e})
  BY <1>1, <1>4, InvFacts
<1>9. Len(b[g]) \in Nat
  BY <1>1, <1>6 DEF Stand
<1>10. /\ 0 \in 0 .. Len(b[g]) /\ Len(b[g]) \in 0 .. Len(b[g]) /\ 0 + 1 = 1
      /\ Nth(b[g], g, 0) = g /\ Nth(b[g], g, Len(b[g]) + 1) = g
  BY <1>9 DEF Nth
<1>11. l' = list_add(k, e, g) \/ l' = list_add_tail(k, e, g)
  BY <1>1 DEF list_move, list_move_tail
<1> HIDE DEF k
<1>12. ringed \cap Heads = (ringed \ {e}) \cap Heads
  BY <1>4
<1>13. CASE l' = list_add(k, e, g)
  <2>1. Stand(l', ringed, [b EXCEPT ![g] = InsertAt(@, 0 + 1, e)], (listed \ {e}) \cup {e})
    <3>1. \/ l' = list_add(k, e, Nth(b[g], g, 0))
          \/ l' = list_add_tail(k, e, Nth(b[g], g, 0 + 1))
      BY <1>10, <1>13
    <3> QED
      BY ONLY <1>4, <1>6, <1>7, <1>8, <1>10, <1>12, <3>1, AddStands
  <2>2. Stand(l', ringed', [b EXCEPT ![g] = InsertAt(@, 1, e)], listed')
    BY ONLY <1>1, <1>8, <1>10, <2>1
  <2>3. Contents' = [b EXCEPT ![g] = InsertAt(@, 1, e)] /\ Standing'
    BY <2>2, ContentsAfter DEF IInv, TypeOK
  <2> QED
    BY <1>1, <1>3, <1>5, <2>3
<1>14. CASE l' = list_add_tail(k, e, g)
  <2> DEFINE m == Len(b[g])
  <2>1. Stand(l', ringed, [b EXCEPT ![g] = InsertAt(@, m + 1, e)], (listed \ {e}) \cup {e})
    <3>1. \/ l' = list_add(k, e, Nth(b[g], g, m))
          \/ l' = list_add_tail(k, e, Nth(b[g], g, m + 1))
      BY <1>10, <1>14
    <3> QED
      BY ONLY <1>4, <1>6, <1>7, <1>8, <1>10, <1>12, <3>1, AddStands DEF m
  <2>2. Stand(l', ringed', [b EXCEPT ![g] = InsertAt(@, m + 1, e)], listed')
    BY <1>1, <1>8, <2>1
  <2>3. Contents' = [b EXCEPT ![g] = InsertAt(@, m + 1, e)] /\ Standing'
    BY <2>2, ContentsAfter DEF IInv, TypeOK
  <2> QED
    BY <1>1, <1>3, <1>5, <2>3
<1> QED
  BY <1>11, <1>13, <1>14

\* A head whose next is itself has no entries.
LEMMA EmptyMeansNone ==
  ASSUME IInv, Standing, NEW h \in Heads \cap ringed
  PROVE  /\ l.next[h] = Nth(Contents[h], h, 1)
         /\ l.prev[h] = Nth(Contents[h], h, Len(Contents[h]))
         /\ l.next[h] = h <=> Contents[h] = << >>
<1> DEFINE s == Contents[h]
<1>1. s \in Seq(Entries) /\ Len(s) \in Nat
  BY InvFacts
<1>2. \A i \in 0 .. Len(s) : l.next[Nth(s, h, i)] = Nth(s, h, i + 1)
                              /\ l.prev[Nth(s, h, i + 1)] = Nth(s, h, i)
  BY InvFacts, Backlinks
<1> HIDE DEF s
<1>3. l.next[h] = Nth(s, h, 1)
  <2>1. 0 \in 0 .. Len(s) /\ 0 + 1 = 1 /\ Nth(s, h, 0) = h
    BY <1>1 DEF Nth
  <2> QED
    BY <1>2, <2>1
<1>4. l.prev[h] = Nth(s, h, Len(s))
  <2>1. Len(s) \in 0 .. Len(s) /\ Nth(s, h, Len(s) + 1) = h
    BY <1>1 DEF Nth
  <2> QED
    BY <1>2, <2>1
<1>5. CASE Len(s) = 0
  <2>1. Nth(s, h, 1) = h /\ s = << >>
    BY <1>1, <1>5 DEF Nth
  <2> QED
    BY <1>3, <1>4, <2>1 DEF s
<1>6. CASE Len(s) # 0
  <2>1. Nth(s, h, 1) = s[1] /\ s[1] \in Entries /\ s # << >>
    BY <1>1, <1>6 DEF Nth
  <2> QED
    BY <1>3, <1>4, <2>1, CellsAssumption DEF s
<1> QED
  BY <1>5, <1>6

\* list_replace puts an entry in the place of one, or hands a list over.
LEMMA ReplaceContents ==
  ASSUME IInv, IInv', Standing, NEW old \in Cells, NEW new \in Cells, Replace(old, new)
  PROVE  /\ Standing'
         /\ \/ /\ old \in listed /\ new \in Entries \ listed
               /\ \E h \in Heads : \E i \in 1 .. Len(Contents[h]) :
                    Contents[h][i] = old /\ Contents' = [Contents EXCEPT ![h] = ReplaceAt(@, i, new)]
            \/ /\ old \in Heads /\ new \in Heads /\ old # new /\ Contents[new] = << >>
               /\ Contents' = [Contents EXCEPT ![new] = Contents[old], ![old] = << >>]
<1>1. /\ old # new
      /\ \/ l' = list_replace(l, old, new) /\ ringed' = (ringed \ {old}) \cup {new}
         \/ l' = list_replace_init(l, old, new) /\ ringed' = ringed \cup {new}
  BY DEF Replace
<1>2. CASE old \in listed /\ new \in Alone /\ listed' = (listed \ {old}) \cup {new}
  <2>1. PICK h \in Heads \cap ringed : \E i \in 1 .. Len(Contents[h]) : Contents[h][i] = old
    BY <1>2, Located
  <2>2. PICK i \in 1 .. Len(Contents[h]) : Contents[h][i] = old
    BY <2>1
  <2>3. new \in Entries \ listed /\ ringed' \cap Heads = ringed \cap Heads
    BY <1>1, <1>2, InvFacts, CellsAssumption DEF Alone
  <2>4. \/ l' = list_replace(l, Contents[h][i], new)
        \/ l' = list_replace_init(l, Contents[h][i], new)
    BY <1>1, <2>2
  <2>5. /\ l \in Links /\ ringed \in SUBSET Cells /\ Rings(l, ringed) /\ listed \subseteq ringed
        /\ Stand(l, ringed, Contents, listed)
    BY InvFacts
  <2>6. Stand(l', ringed', [Contents EXCEPT ![h] = ReplaceAt(@, i, new)],
              (listed \ {Contents[h][i]}) \cup {new})
    BY ONLY <2>3, <2>4, <2>5, ReplaceEntryStands, h \in Heads \cap ringed,
            i \in 1 .. Len(Contents[h])
  <2>7. Stand(l', ringed', [Contents EXCEPT ![h] = ReplaceAt(@, i, new)], listed')
    BY <1>2, <2>2, <2>6
  <2>8. Contents' = [Contents EXCEPT ![h] = ReplaceAt(@, i, new)] /\ Standing'
    BY <2>7, ContentsAfter DEF IInv, TypeOK
  <2> QED
    BY <1>2, <2>2, <2>3, <2>8
<1>3. CASE /\ old \in Heads \cap ringed /\ new \in Heads
           /\ new \in ringed => list_empty(new)
           /\ UNCHANGED listed
  <2>1. Contents[new] = << >>
    <3>1. CASE new \in ringed
      BY <1>3, <3>1, EmptyMeansNone DEF list_empty
    <3>2. CASE new \notin ringed
      BY <1>3, <3>2, InvFacts DEF Rows
    <3> QED
      BY <3>1, <3>2
  <2>2. Stand(l', ringed', [Contents EXCEPT ![new] = Contents[old], ![old] = << >>], listed')
    BY <1>1, <1>3, <2>1, InvFacts, ReplaceHeadStands
  <2>3. Contents' = [Contents EXCEPT ![new] = Contents[old], ![old] = << >>] /\ Standing'
    BY <2>2, ContentsAfter DEF IInv, TypeOK
  <2> QED
    BY <1>1, <1>3, <2>1, <2>3
<1> QED
  BY <1>2, <1>3 DEF Replace

\* A step that writes no link changes no list.
LEMMA SameContents ==
  ASSUME Standing, UNCHANGED <<l, ringed, listed>>
  PROVE  Contents' = Contents /\ Standing'
  BY DEF Standing, Contents, Content

\* The lists as LiteList writes them.
LEMMA ContentIsContents ==
  ASSUME NEW h \in Heads
  PROVE  Content(h) = Contents[h] /\ On(h) = ToSet(Contents[h])
  BY DEF Contents, On

\* The entries on no list of Lists are those on none of LiteList.
LEMMA FreeIsAlone == Standing => Abstract!Free = Entries \ listed
<1> SUFFICES ASSUME Standing PROVE Abstract!Free = Entries \ listed
  OBVIOUS
<1>1. Hold(Contents, listed) /\ \A h \in Heads : DOMAIN Contents[h] = 1 .. Len(Contents[h])
  BY DEF Standing, Stand
<1>2. \A e : e \in listed <=> \E h \in Heads : e \in ToSet(Contents[h])
  BY <1>1 DEF Hold, ToSet
<1>3. UNION {ToSet(Contents[h]) : h \in Heads} = listed
  BY <1>2
<1> QED
  BY <1>3 DEF Abstract!Free, Abstract!On, Abstract!ToSet, ToSet, Contents

\* At first every list is empty.
LEMMA InitStanding == Init => Standing /\ Abstract!Init
<1> SUFFICES ASSUME Init PROVE Standing /\ Abstract!Init
  OBVIOUS
<1>1. \A h \in Heads : Content(h) = << >>
  BY DEF Init, Content
<1>2. Contents = [h \in Heads |-> << >>]
  BY <1>1 DEF Contents
<1>3. Abstract!Init
  BY <1>2 DEF Abstract!Init, Contents
<1>4. Contents \in [Heads -> Seq(Entries)] /\ \A h \in Heads : Contents[h] = << >> /\ Len(Contents[h]) = 0
  BY <1>2
<1>5. Standing
  BY <1>4 DEF Standing, Stand, Rows, Apart, Hold, Init
<1> QED
  BY <1>3, <1>5

\* Taking an entry out is a step of Lists.
LEMMA UnlinkRefines ==
  ASSUME Standing, NEW e,
         \E h \in Heads : \E i \in 1 .. Len(Contents[h]) :
           Contents[h][i] = e /\ Contents' = [Contents EXCEPT ![h] = RemoveAt(@, i)]
  PROVE  Abstract!Next
<1>1. PICK h \in Heads : \E i \in 1 .. Len(Contents[h]) :
        Contents[h][i] = e /\ Contents' = [Contents EXCEPT ![h] = RemoveAt(@, i)]
  OBVIOUS
<1>2. PICK i \in 1 .. Len(Contents[h]) : Contents' = [Contents EXCEPT ![h] = RemoveAt(@, i)]
  BY <1>1
<1>3. i \in DOMAIN Contents[h]
  BY DEF Standing, Stand
<1>4. Abstract!Unlink(h, i)
  BY <1>2 DEF Abstract!Unlink, Abstract!Without, Abstract!RemoveAt, RemoveAt, Contents
<1>5. i \in DOMAIN [g \in Heads |-> Content(g)][h]
  BY <1>3 DEF Contents
<1> QED
  BY <1>4, <1>5 DEF Abstract!Next

\* Moving an entry is a step of Lists.
LEMMA MoveRefines ==
  ASSUME Standing, NEW e, NEW g \in Heads,
         \E h \in Heads : \E i \in 1 .. Len(Contents[h]) : \E b :
           /\ Contents[h][i] = e /\ b = [Contents EXCEPT ![h] = RemoveAt(@, i)]
           /\ \E p \in {1, Len(b[g]) + 1} : Contents' = [b EXCEPT ![g] = InsertAt(@, p, e)]
  PROVE  Abstract!Next
<1>1. PICK h \in Heads : \E i \in 1 .. Len(Contents[h]) : \E b :
           /\ Contents[h][i] = e /\ b = [Contents EXCEPT ![h] = RemoveAt(@, i)]
           /\ \E p \in {1, Len(b[g]) + 1} : Contents' = [b EXCEPT ![g] = InsertAt(@, p, e)]
  OBVIOUS
<1>2. PICK i \in 1 .. Len(Contents[h]) : \E b :
           /\ Contents[h][i] = e /\ b = [Contents EXCEPT ![h] = RemoveAt(@, i)]
           /\ \E p \in {1, Len(b[g]) + 1} : Contents' = [b EXCEPT ![g] = InsertAt(@, p, e)]
  BY <1>1
<1>3. PICK b :
           /\ Contents[h][i] = e /\ b = [Contents EXCEPT ![h] = RemoveAt(@, i)]
           /\ \E p \in {1, Len(b[g]) + 1} : Contents' = [b EXCEPT ![g] = InsertAt(@, p, e)]
  BY <1>2
<1>4. PICK p \in {1, Len(b[g]) + 1} : Contents' = [b EXCEPT ![g] = InsertAt(@, p, e)]
  BY <1>3
<1>5. i \in DOMAIN Contents[h]
  BY DEF Standing, Stand
<1>6. Abstract!Without(h, i) = b
  BY <1>3 DEF Abstract!Without, Abstract!RemoveAt, RemoveAt, Contents
<1>7. Abstract!Insert(Abstract!Without(h, i), g, p, Contents[h][i])
  BY <1>3, <1>4, <1>6 DEF Abstract!Insert, Abstract!InsertAt, InsertAt, Contents
<1>8. p \in {1, Len(Abstract!Without(h, i)[g]) + 1}
  BY <1>6
<1>9. Abstract!Move(h, i, g)
  BY <1>7, <1>8 DEF Abstract!Move, Contents
<1>10. i \in DOMAIN [f \in Heads |-> Content(f)][h]
  BY <1>5 DEF Contents
<1> QED
  BY <1>9, <1>10 DEF Abstract!Next

\* The lists are as the callers know them after every step, and a step is a
\* step of Lists or changes no list.
LEMMA ListStep ==
  ASSUME IInv, IInv', Standing, [Next]_vars
  PROVE  Standing' /\ [Abstract!Next]_Contents
<1>1. ASSUME NEW x \in Cells, Prepare(x) PROVE Standing' /\ Contents' = Contents
  BY <1>1, PrepareContents
<1>2. ASSUME NEW e \in Entries, NEW at \in Cells, Insert(e, at) PROVE Standing' /\ Abstract!Next
  <2>1. Standing' /\ e \notin listed
    BY <1>2, InsertContents
  <2>2. PICK h \in Heads : \E p \in 1 .. Len(Contents[h]) + 1 :
          Contents' = [Contents EXCEPT ![h] = InsertAt(@, p, e)]
    BY <1>2, InsertContents
  <2>3. PICK p \in 1 .. Len(Contents[h]) + 1 :
          Contents' = [Contents EXCEPT ![h] = InsertAt(@, p, e)]
    BY <2>2
  <2>4. Abstract!Insert([f \in Heads |-> Content(f)], h, p, e)
    BY <2>3 DEF Abstract!Insert, Abstract!InsertAt, InsertAt, Contents
  <2>5. p \in 1 .. Len([f \in Heads |-> Content(f)][h]) + 1
    BY DEF Contents
  <2>6. Abstract!Add(e, h)
    BY <2>4, <2>5 DEF Abstract!Add
  <2>7. e \in Abstract!Free
    BY <2>1, FreeIsAlone
  <2> QED
    BY <2>1, <2>6, <2>7 DEF Abstract!Next
<1>3. ASSUME NEW e, Unlink(e) PROVE Standing' /\ Abstract!Next
  <2>1. /\ e \in listed /\ listed' = listed \ {e}
        /\ \/ l' = list_del(l, e) /\ ringed' = ringed \ {e}
           \/ l' = list_del_init(l, e) /\ ringed' = ringed
    BY <1>3 DEF Unlink
  <2> QED
    BY <2>1, UnlinkContents, UnlinkRefines
<1>4. ASSUME NEW e, NEW h, Move(e, h) PROVE Standing' /\ Abstract!Next
  BY <1>4, MoveContents, MoveRefines
<1>5. ASSUME NEW old \in Cells, NEW new \in Cells, Replace(old, new)
      PROVE  Standing' /\ Abstract!Next
  <2>1. Standing'
    BY <1>5, ReplaceContents
  <2>2. CASE /\ old \in listed /\ new \in Entries \ listed
             /\ \E h \in Heads : \E i \in 1 .. Len(Contents[h]) :
                  Contents[h][i] = old /\ Contents' = [Contents EXCEPT ![h] = ReplaceAt(@, i, new)]
    <3>1. PICK h \in Heads : \E i \in 1 .. Len(Contents[h]) :
                  Contents' = [Contents EXCEPT ![h] = ReplaceAt(@, i, new)]
      BY <2>2
    <3>2. PICK i \in 1 .. Len(Contents[h]) :
                  Contents' = [Contents EXCEPT ![h] = ReplaceAt(@, i, new)]
      BY <3>1
    <3>3. Abstract!Replace(h, i, new)
      BY <3>2 DEF Abstract!Replace, Abstract!ReplaceAt, ReplaceAt, Contents
    <3>4. i \in DOMAIN Contents[h]
      BY DEF Standing, Stand
    <3>5. i \in DOMAIN [f \in Heads |-> Content(f)][h]
      BY <3>4 DEF Contents
    <3>6. new \in Abstract!Free
      BY <2>2, FreeIsAlone
    <3> QED
      BY <2>1, <3>3, <3>5, <3>6 DEF Abstract!Next
  <2>3. CASE /\ old \in Heads /\ new \in Heads /\ old # new /\ Contents[new] = << >>
             /\ Contents' = [Contents EXCEPT ![new] = Contents[old], ![old] = << >>]
    <3>1. Abstract!TakeOver(old, new)
      BY <2>3 DEF Abstract!TakeOver, Contents
    <3> QED
      BY <2>1, <2>3, <3>1 DEF Abstract!Next
  <2> QED
    BY <1>5, <2>2, <2>3, ReplaceContents
<1>6. ASSUME NEW h \in Heads, TakeFirst(h) PROVE Standing' /\ Abstract!Next
  BY <1>3, <1>6 DEF TakeFirst
<1>7. ASSUME NEW h \in Heads, list_rotate_left(h) PROVE Standing' /\ Abstract!Next
  <2>1. Move(list_first_entry(h), h)
    BY <1>7 DEF list_rotate_left, Move
  <2> QED
    BY <1>4, <2>1
<1>8. ASSUME NEW h \in Heads, Loops(h) PROVE Standing' /\ Contents' = Contents
  <2>1. UNCHANGED <<l, ringed, listed>>
    BY <1>8 DEF Loops, list_for_each, list_for_each_safe, list_for_each_entry_continue,
       list_for_each_entry_from, list_for_each_entry_safe_continue,
       list_for_each_entry_safe_from, Start
  <2> QED
    BY <2>1, SameContents
<1>9. CASE Advance
  BY <1>9, SameContents DEF Advance
<1>10. ASSUME list_safe_reset_next PROVE Standing' /\ Abstract!Next
  <2>1. /\ loop.n \in listed /\ listed' = listed \ {loop.n}
        /\ l' = list_del_init(l, loop.n) /\ ringed' = ringed
    BY <1>10 DEF list_safe_reset_next
  <2> QED
    BY <2>1, UnlinkContents, UnlinkRefines
<1>11. CASE UNCHANGED vars
  BY <1>11, SameContents DEF vars
<1> QED
  BY <1>1, <1>2, <1>3, <1>4, <1>5, <1>6, <1>7, <1>8, <1>9, <1>10, <1>11 DEF Next

\* The lists stand in every state.
LEMMA AlwaysStanding == Spec => [](IInv /\ Standing)
<1>1. Init => IInv /\ Standing
  BY InitIInv, InitStanding
<1>2. IInv /\ Standing /\ [Next]_vars => (IInv /\ Standing)'
  BY NextIInv, ListStep
<1> QED
  BY <1>1, <1>2, PTL DEF Spec

\* Every operation of lite-list.h inserts, takes out, moves or replaces one
\* entry of the sequences, or hands one over, as Lists says.
THEOREM ListsImplemented == Spec => ImplementsLists
<1>1. Init => Abstract!Init
  BY InitStanding
<1>2. IInv /\ Standing /\ (IInv /\ Standing)' /\ [Next]_vars
        => [Abstract!Next]_([h \in Heads |-> Content(h)])
  BY ListStep DEF Contents
<1> QED
  BY <1>1, <1>2, AlwaysStanding, PTL DEF Spec, ImplementsLists, Abstract!Spec

-----------------------------------------------------------------------------
\* The list in either direction.

\* The links of a direction lead along the list in that direction.
LEMMA AlongLinks ==
  ASSUME IInv, Standing, NEW h \in Heads \cap ringed, NEW dir \in {"next", "prev"}
  PROVE  \A i \in 0 .. Len(Contents[h]) :
           l[dir][Nth(Along(dir, Contents[h]), h, i)] = Nth(Along(dir, Contents[h]), h, i + 1)
<1> DEFINE s == Contents[h]
           m == Len(s)
<1>1. s \in Seq(Entries) /\ m \in Nat
  BY InvFacts
<1>2. \A i \in 0 .. m : l.next[Nth(s, h, i)] = Nth(s, h, i + 1)
                        /\ l.prev[Nth(s, h, i + 1)] = Nth(s, h, i)
  BY InvFacts, Backlinks
<1>3. CASE dir = "next"
  BY <1>2, <1>3 DEF Along
<1>4. CASE dir = "prev"
  <2> DEFINE w == Reverse(s)
  <2>1. Along(dir, Contents[h]) = w
    BY <1>4 DEF Along
  <2>2. w \in Seq(Entries) /\ Len(w) = m /\ \A i \in 1 .. m : w[i] = s[m - i + 1]
    <3> HIDE DEF s
    <3> QED
      BY <1>1, Reversed
  <2> HIDE DEF w, s, m
  <2>3. ASSUME NEW i \in 0 .. m + 1 PROVE Nth(w, h, i) = Nth(s, h, m - i + 1)
    <3>1. CASE i \in 1 .. m
      <4>1. m - i + 1 \in 1 .. m
        BY <1>1, <3>1
      <4> QED
        BY <2>2, <3>1, <4>1 DEF Nth, m
    <3>2. CASE i \notin 1 .. m
      <4>1. m - i + 1 \notin 1 .. m
        BY <1>1, <3>2
      <4> QED
        BY <2>2, <3>2, <4>1 DEF Nth, m
    <3> QED
      BY <3>1, <3>2
  <2>4. ASSUME NEW i \in 0 .. m PROVE l.prev[Nth(w, h, i)] = Nth(w, h, i + 1)
    <3>1. /\ i \in 0 .. m + 1 /\ i + 1 \in 0 .. m + 1 /\ m - i \in 0 .. m
          /\ m - (i + 1) + 1 = m - i
      BY <1>1
    <3>2. Nth(w, h, i) = Nth(s, h, m - i + 1) /\ Nth(w, h, i + 1) = Nth(s, h, m - i)
      <4>1. Nth(w, h, i + 1) = Nth(s, h, m - (i + 1) + 1)
        BY <2>3, <3>1
      <4> QED
        BY <2>3, <3>1, <4>1
    <3> QED
      BY <1>2, <3>1, <3>2
  <2> QED
    BY <1>4, <2>1, <2>4 DEF s, m
<1> QED
  BY <1>3, <1>4

\* t is what w has from the place q on.
Suffix(t, w, q) ==
  /\ t \in Seq(Entries) /\ Len(t) = Len(w) + 1 - q
  /\ \A i \in 1 .. Len(w) + 1 - q : t[i] = w[q + i - 1]

\* Walking on from a place of the list.
LEMMA WalkFrom ==
  ASSUME IInv, Standing, NEW h \in Heads \cap ringed, NEW dir \in {"next", "prev"},
         NEW w, w = Along(dir, Contents[h]), NEW q \in 1 .. Len(w) + 1
  PROVE  Suffix(Walk(l, dir, Nth(w, h, q), h), w, q)
<1>1. Contents[h] \in Seq(Entries) /\ IsInjective(Contents[h])
  <2>1. Contents[h] \in Seq(Entries) /\ DOMAIN Contents[h] = 1 .. Len(Contents[h])
    BY InvFacts
  <2> QED
    BY <2>1, InvFacts DEF Apart, IsInjective
<1> DEFINE m == Len(w)
           t == [i \in 1 .. m + 1 - q |-> w[q + i - 1]]
<1>2. w \in Seq(Entries) /\ m = Len(Contents[h]) /\ IsInjective(w) /\ m \in Nat
      /\ q \in 1 .. m + 1
  BY <1>1, AlongOrder
<1>3. \A i \in 0 .. m : l[dir][Nth(w, h, i)] = Nth(w, h, i + 1)
  BY <1>2, AlongLinks
<1>4. \A i \in 1 .. m : w[i] \in Entries
  BY <1>2
<1>5. \A i, j \in 1 .. m : w[i] = w[j] => i = j
  BY <1>2 DEF IsInjective
<1> HIDE DEF m
<1>6. \A i \in 1 .. m + 1 - q : q + i - 1 \in 1 .. m
  BY <1>2
<1>7. t \in Seq(Entries) /\ Len(t) = m + 1 - q
  BY <1>2, <1>4, <1>6
<1>8. IsInjective(t)
  <2> SUFFICES ASSUME NEW i \in 1 .. m + 1 - q, NEW j \in 1 .. m + 1 - q, t[i] = t[j]
               PROVE  i = j
    BY DEF IsInjective
  <2>1. q + i - 1 = q + j - 1
    BY <1>6, <1>5
  <2> QED
    BY <1>2, <2>1
<1>9. \A i \in 1 .. m + 2 - q : Nth(t, h, i) = Nth(w, h, q + i - 1)
  <2> SUFFICES ASSUME NEW i \in 1 .. m + 2 - q PROVE Nth(t, h, i) = Nth(w, h, q + i - 1)
    OBVIOUS
  <2>1. CASE i = m + 2 - q
    <3>1. i \notin 1 .. m + 1 - q /\ q + i - 1 \notin 1 .. m
      BY <1>2, <2>1
    <3> QED
      BY <1>7, <3>1 DEF Nth, m
  <2>2. CASE i # m + 2 - q
    <3>1. i \in 1 .. m + 1 - q
      BY <1>2, <2>2
    <3>2. Nth(t, h, i) = w[q + i - 1]
      BY <1>7, <3>1 DEF Nth
    <3>3. Nth(w, h, q + i - 1) = w[q + i - 1]
      BY <1>6, <3>1 DEF Nth, m
    <3> QED
      BY <3>2, <3>3
  <2> QED
    BY <2>1, <2>2
<1>10. Leads(l, dir, h, t)
  <2> SUFFICES ASSUME NEW i \in 1 .. m + 1 - q PROVE l[dir][t[i]] = Nth(t, h, i + 1)
    BY <1>7 DEF Leads
  <2>1. t[i] = Nth(w, h, q + i - 1) /\ q + i - 1 \in 0 .. m
    BY <1>2, <1>6 DEF Nth, m
  <2>2. l[dir][t[i]] = Nth(w, h, q + i - 1 + 1)
    BY <1>3, <2>1
  <2>3. i + 1 \in 1 .. m + 2 - q /\ q + (i + 1) - 1 = q + i - 1 + 1
    BY <1>2
  <2>4. Nth(t, h, i + 1) = Nth(w, h, q + (i + 1) - 1)
    <3> HIDE DEF t
    <3> QED
      BY <1>9, <2>3
  <2> QED
    BY <2>2, <2>3, <2>4
<1>11. Nth(t, h, 1) = Nth(w, h, q)
  <2>1. 1 \in 1 .. m + 2 - q /\ q + 1 - 1 = q
    BY <1>2
  <2> HIDE DEF t
  <2> QED
    BY <1>9, <2>1
<1>12. Walk(l, dir, Nth(t, h, 1), h) = t
  <2> HIDE DEF t
  <2> QED
    BY <1>7, <1>8, <1>10, WalkIs, InvFacts
<1>13. Walk(l, dir, Nth(w, h, q), h) = t
  BY <1>11, <1>12
<1>14. \A i \in 1 .. m + 1 - q : t[i] = w[q + i - 1]
  OBVIOUS
<1> HIDE DEF t
<1> QED
  BY <1>7, <1>13, <1>14 DEF m, Suffix

\* What walking and the members of a head say of one list.
LEMMA OneList ==
  ASSUME IInv, Standing, NEW h \in Heads \cap ringed
  PROVE  LET s == Content(h) IN
         /\ IsInjective(s) /\ ToSet(s) \subseteq Entries
         /\ \A g \in Heads \ {h} : On(g) \cap On(h) = {}
         /\ Walk(l, "prev", l.prev[h], h) = Reverse(s)
         /\ list_empty(h) = (s = << >>) /\ list_empty_careful(h) = list_empty(h)
         /\ list_is_singular(h) = (Len(s) = 1)
         /\ s # << >> => list_first_entry(h) = s[1] /\ list_last_entry(h) = Last(s)
         /\ \A e \in ToSet(s) : list_is_last(e, h) = (e = Last(s))
<1> DEFINE s == Contents[h]
           m == Len(s)
<1>1. s \in Seq(Entries) /\ m \in Nat /\ DOMAIN s = 1 .. m /\ \A i \in 1 .. m : s[i] \in Entries
  BY InvFacts
<1>2. \A i \in 0 .. m : l.next[Nth(s, h, i)] = Nth(s, h, i + 1)
                        /\ l.prev[Nth(s, h, i + 1)] = Nth(s, h, i)
  BY InvFacts, Backlinks
<1>3. \A g \in Heads : Content(g) = Contents[g] /\ On(g) = ToSet(Contents[g])
  BY ContentIsContents
<1>4. IsInjective(s) /\ ToSet(s) \subseteq Entries
  BY <1>1, InvFacts DEF Apart, IsInjective, ToSet
<1>5. \A g \in Heads \ {h} : On(g) \cap On(h) = {}
  <2> SUFFICES ASSUME NEW g \in Heads \ {h}, NEW e, e \in ToSet(Contents[g]), e \in ToSet(Contents[h])
               PROVE  FALSE
    BY <1>3
  <2>1. DOMAIN Contents[g] = 1 .. Len(Contents[g])
    BY InvFacts
  <2>2. PICK i \in 1 .. Len(Contents[g]) : Contents[g][i] = e
    BY <2>1 DEF ToSet
  <2>3. PICK j \in 1 .. Len(Contents[h]) : Contents[h][j] = e
    BY <1>1 DEF ToSet
  <2> QED
    BY <2>2, <2>3, InvFacts DEF Apart
<1>6. /\ l.next[h] = Nth(s, h, 1) /\ l.prev[h] = Nth(s, h, m) /\ (l.next[h] = h <=> s = << >>)
  BY EmptyMeansNone
<1>7. Walk(l, "prev", l.prev[h], h) = Reverse(s)
  <2> DEFINE w == Reverse(s)
  <2>1. w \in Seq(Entries) /\ Len(w) = m /\ \A i \in 1 .. m : w[i] = s[m - i + 1]
    <3> HIDE DEF s
    <3> QED
      BY <1>1, Reversed
  <2>2. w = Along("prev", Contents[h])
    BY DEF Along
  <2>3. Nth(w, h, 1) = l.prev[h]
    <3> HIDE DEF w, s
    <3>1. CASE m = 0
      BY <1>6, <2>1, <3>1, <1>1 DEF Nth, m
    <3>2. CASE m # 0
      <4>1. 1 \in 1 .. m /\ m \in 1 .. m /\ m - 1 + 1 = m
        BY <1>1, <3>2
      <4>2. w[1] = s[m]
        BY <2>1, <4>1
      <4> QED
        BY <1>6, <2>1, <4>1, <4>2 DEF Nth, m
    <3> QED
      BY <3>1, <3>2
  <2> HIDE DEF w, s, m
  <2>4. 1 \in 1 .. Len(w) + 1 /\ Len(w) + 1 - 1 = m
    BY <1>1, <2>1
  <2>5. /\ Walk(l, "prev", Nth(w, h, 1), h) \in Seq(Entries)
        /\ Len(Walk(l, "prev", Nth(w, h, 1), h)) = Len(w) + 1 - 1
        /\ \A i \in 1 .. Len(w) + 1 - 1 : Walk(l, "prev", Nth(w, h, 1), h)[i] = w[1 + i - 1]
    <3>1. PICK q \in 1 .. Len(w) + 1 : q = 1
      BY <2>4
    <3>2. PICK dir \in {"next", "prev"} : dir = "prev"
      OBVIOUS
    <3>3. w = Along(dir, Contents[h])
      BY <2>2, <3>2
    <3>4. Suffix(Walk(l, dir, Nth(w, h, q), h), w, q)
      BY <3>3, WalkFrom
    <3> QED
      BY <3>1, <3>2, <3>4 DEF Suffix
  <2> DEFINE t == Walk(l, "prev", Nth(w, h, 1), h)
  <2>6. t \in Seq(Entries) /\ Len(t) = m /\ \A i \in 1 .. m : t[i] = w[i]
    BY <2>4, <2>5
  <2> HIDE DEF t
  <2>7. t = w
    BY <2>1, <2>6
  <2> QED
    BY <2>3, <2>7 DEF t, w
<1>8. list_empty(h) = (s = << >>) /\ list_empty_careful(h) = list_empty(h)
  <2>1. l.next[h] = h => l.prev[h] = h
    <3>1. l.next[h] = h => m = 0
      BY <1>6
    <3> QED
      BY <1>6, <3>1 DEF Nth
  <2> QED
    BY <1>6, <2>1 DEF list_empty, list_empty_careful
<1> HIDE DEF s
<1>9. s = << >> <=> m = 0
  BY <1>1
<1>10. m # 0 => l.next[h] = s[1] /\ l.prev[h] = s[m]
  BY <1>1, <1>6 DEF Nth
<1>11. list_is_singular(h) = (m = 1)
  <2>1. CASE m = 0
    <3>1. list_empty(h)
      BY <1>8, <1>9, <2>1
    <3> QED
      BY <2>1, <3>1 DEF list_is_singular
  <2>2. CASE m # 0
    <3>1. ~list_empty(h)
      BY <1>8, <1>9, <2>2
    <3>2. 1 \in 1 .. m /\ m \in 1 .. m
      BY <1>1, <2>2
    <3>3. s[1] = s[m] <=> m = 1
      BY <1>1, <1>4, <3>2 DEF IsInjective
    <3> QED
      BY <1>10, <2>2, <3>1, <3>3 DEF list_is_singular
  <2> QED
    BY <2>1, <2>2
<1>12. s # << >> => list_first_entry(h) = s[1] /\ list_last_entry(h) = Last(s)
  BY <1>9, <1>10 DEF list_first_entry, list_last_entry, Last
<1>13. \A e \in ToSet(s) : list_is_last(e, h) = (e = Last(s))
  <2> SUFFICES ASSUME NEW i \in 1 .. m PROVE list_is_last(s[i], h) = (s[i] = Last(s))
    BY <1>1 DEF ToSet
  <2>1. l.next[s[i]] = Nth(s, h, i + 1)
    <3>1. i \in 0 .. m /\ Nth(s, h, i) = s[i]
      BY <1>1 DEF Nth
    <3> QED
      BY <1>2, <3>1
  <2>2. m \in 1 .. m
    BY <1>1
  <2>3. CASE i = m
    <3>1. Nth(s, h, i + 1) = h
      BY <1>1, <2>3 DEF Nth
    <3> QED
      BY <2>1, <2>3, <3>1 DEF list_is_last, Last
  <2>4. CASE i # m
    <3>1. i + 1 \in 1 .. m
      <4>1. m \in Nat
        BY <1>1
      <4> HIDE DEF m
      <4> QED
        BY <2>4, <4>1
    <3>2. Nth(s, h, i + 1) # h
      BY <1>1, <3>1, CellsAssumption DEF Nth
    <3>3. s[i] # s[m]
      BY <1>1, <1>4, <2>2, <2>4 DEF IsInjective
    <3> QED
      BY <2>1, <3>2, <3>3 DEF list_is_last, Last
  <2> QED
    BY <2>3, <2>4
<1>14. Content(h) = s
  BY <1>3 DEF s
<1> QED
  BY <1>4, <1>5, <1>7, <1>8, <1>11, <1>12, <1>13, <1>14

\* The constant-time tests and accessors of lite-list.h say of every list what
\* walking it in either direction finds, and each entry is on one list.
THEOREM TestsAgree == Spec => []TestsAgreeWithWalk
<1>1. IInv /\ Standing => TestsAgreeWithWalk
  <2> SUFFICES ASSUME IInv, Standing PROVE TestsAgreeWithWalk
    OBVIOUS
  <2>1. listed = UNION {On(h) : h \in Heads}
    <3>1. Hold(Contents, listed) /\ \A h \in Heads : DOMAIN Contents[h] = 1 .. Len(Contents[h])
      BY InvFacts
    <3>2. \A e : e \in listed <=> \E h \in Heads : e \in On(h)
      BY <3>1, ContentIsContents DEF Hold, ToSet
    <3> QED
      BY <3>2
  <2> QED
    BY <2>1, OneList DEF TestsAgreeWithWalk
<1> QED
  BY <1>1, AlwaysStanding, PTL

-----------------------------------------------------------------------------
\* The entries a loop has to come to.

\* due lies in order on the list w of h behind the cell at, which the loop
\* steps from; a safe loop is at that cell next, and over if it is the head.
Ahead(w, h, at, safe, due) ==
  /\ due \in Seq(Entries)
  /\ at \in ToSet(w) \/ (safe /\ at = h /\ due = << >>)
  /\ \A i \in DOMAIN due : (safe /\ due[i] = at) \/ Before(w, at, due[i])
  /\ \A i, j \in DOMAIN due : i < j => Before(w, due[i], due[j])

\* The cell the loop steps from, or is at next.
Cursor == IF loop.safe THEN loop.n ELSE loop.pos

\* What a loop found and was left in place lies ahead of it.
DueInv ==
  loop.on => Ahead(Along(loop.dir, Contents[loop.head]), loop.head, Cursor, loop.safe, loop.due)

\* t has the entries of s but x, in the order of s.
Thinned(s, t, x) ==
  /\ t \in Seq(Entries) /\ ToSet(t) \subseteq ToSet(s) \ {x}
  /\ \A i, j \in DOMAIN t : i < j => Before(s, t[i], t[j])

\* s keeps its entries but x in order in t, which may have others.
OrderKept(s, t, x) ==
  /\ ToSet(s) \ {x} \subseteq ToSet(t)
  /\ \A a, b : Before(s, a, b) /\ a # x /\ b # x => Before(t, a, b)

\* What was ahead of a cell and is left in order is ahead of it still.
LEMMA AheadKept ==
  ASSUME NEW w, NEW v, NEW h, NEW at, NEW safe, NEW due, NEW fewer, NEW x,
         Ahead(w, h, at, safe, due), Thinned(due, fewer, x), OrderKept(w, v, x), at # x
  PROVE  Ahead(v, h, at, safe, fewer)
<1>1. \A i \in DOMAIN fewer : \E n \in DOMAIN due : fewer[i] = due[n] /\ fewer[i] # x
  BY DEF Thinned, ToSet
<1>2. at \in ToSet(w) => at \in ToSet(v)
  BY DEF OrderKept
<1>3. due = << >> => fewer = << >>
  <2>1. due = << >> => DOMAIN due = {}
    OBVIOUS
  <2>2. due = << >> => DOMAIN fewer = {}
    BY <1>1, <2>1
  <2> QED
    BY <2>2 DEF Thinned
<1>4. \A i \in DOMAIN fewer : (safe /\ fewer[i] = at) \/ Before(v, at, fewer[i])
  BY <1>1 DEF Ahead, OrderKept
<1>5. ASSUME NEW i \in DOMAIN fewer, NEW j \in DOMAIN fewer, i < j
      PROVE  Before(v, fewer[i], fewer[j])
  <2>1. Before(due, fewer[i], fewer[j])
    BY <1>5 DEF Thinned
  <2>2. Before(w, fewer[i], fewer[j])
    BY <2>1 DEF Before, Ahead
  <2> QED
    BY <1>1, <2>2 DEF OrderKept
<1> QED
  BY <1>2, <1>3, <1>4, <1>5 DEF Ahead, Thinned

\* Keeping the order of a list keeps it in both directions.
LEMMA KeptAlong ==
  ASSUME NEW s \in Seq(Entries), NEW t \in Seq(Entries), NEW dir \in {"next", "prev"}, NEW x,
         OrderKept(s, t, x)
  PROVE  OrderKept(Along(dir, s), Along(dir, t), x)
<1>1. /\ ToSet(Along(dir, s)) = ToSet(s) /\ ToSet(Along(dir, t)) = ToSet(t)
      /\ \A a, b : Before(Along(dir, s), a, b) <=>
                     IF dir = "next" THEN Before(s, a, b) ELSE Before(s, b, a)
      /\ \A a, b : Before(Along(dir, t), a, b) <=>
                     IF dir = "next" THEN Before(t, a, b) ELSE Before(t, b, a)
  BY AlongOrder
<1> QED
  BY <1>1 DEF OrderKept

\* Forget leaves the others due.
LEMMA ForgetThins ==
  ASSUME NEW w, NEW h, NEW at, NEW safe, Ahead(w, h, at, safe, loop.due),
         \A i, j \in DOMAIN w : w[i] = w[j] => i = j, DOMAIN w \subseteq Int,
         NEW x, DOMAIN loop = DOMAIN NoLoop
  PROVE  /\ Thinned(loop.due, Forget(x).due, x)
         /\ Forget(x).on = loop.on /\ Forget(x).safe = loop.safe /\ Forget(x).dir = loop.dir
         /\ Forget(x).head = loop.head /\ Forget(x).pos = loop.pos /\ Forget(x).n = loop.n
<1> DEFINE at0 == {i \in DOMAIN loop.due : loop.due[i] = x}
           p == CHOOSE i \in at0 : TRUE
           fewer == IF at0 = {} THEN loop.due ELSE RemoveAt(loop.due, p)
<1>1. Forget(x) = [loop EXCEPT !.due = fewer]
  BY DEF Forget
<1>2. loop.due \in Seq(Entries) /\ DOMAIN loop.due = 1 .. Len(loop.due)
  BY DEF Ahead
<1>3. CASE at0 = {}
  <2>1. fewer = loop.due
    BY <1>3
  <2>2. \A i \in DOMAIN loop.due : loop.due[i] # x
    BY <1>3
  <2>3. Thinned(loop.due, fewer, x)
    <3> HIDE DEF fewer
    <3> QED
      BY <1>2, <2>1, <2>2 DEF Thinned, ToSet, Before
  <2> QED
    BY <1>1, <2>3 DEF NoLoop
<1>4. CASE at0 # {}
  <2>1. p \in DOMAIN loop.due /\ loop.due[p] = x
    BY <1>4
  <2>2. fewer = RemoveAt(loop.due, p)
    BY <1>4
  <2> HIDE DEF p, fewer, at0
  <2>3. p \in 1 .. Len(loop.due)
    BY <1>2, <2>1
  <2>4. /\ fewer \in Seq(Entries) /\ Len(fewer) = Len(loop.due) - 1
        /\ \A i \in 1 .. Len(loop.due) - 1 :
             fewer[i] = IF i < p THEN loop.due[i] ELSE loop.due[i + 1]
    BY <1>2, <2>2, <2>3, Removed
  <2>5. /\ ToSet(fewer) \subseteq ToSet(loop.due)
        /\ \A i, j \in DOMAIN fewer : i < j => Before(loop.due, fewer[i], fewer[j])
    BY <1>2, <2>2, <2>3, RemovedOrder
  <2>6. \A i, j \in DOMAIN loop.due : i < j => loop.due[i] # loop.due[j]
    <3> SUFFICES ASSUME NEW i \in DOMAIN loop.due, NEW j \in DOMAIN loop.due, i < j,
                        loop.due[i] = loop.due[j]
                 PROVE  FALSE
      OBVIOUS
    <3>1. Before(w, loop.due[i], loop.due[j])
      BY DEF Ahead
    <3>2. PICK a \in DOMAIN w, b \in DOMAIN w : a < b /\ w[a] = loop.due[i] /\ w[b] = loop.due[j]
      BY <3>1 DEF Before
    <3>3. a = b /\ a \in Int
      BY <3>2
    <3> QED
      BY <3>2, <3>3
  <2>7. x \notin ToSet(fewer)
    <3>1. DOMAIN fewer = 1 .. Len(loop.due) - 1
      BY <2>4
    <3> SUFFICES ASSUME NEW i \in 1 .. Len(loop.due) - 1, fewer[i] = x PROVE FALSE
      BY <3>1 DEF ToSet
    <3>2. CASE i < p
      <4>1. i \in DOMAIN loop.due
        BY <1>2, <2>3, <3>2
      <4> QED
        BY <2>1, <2>4, <2>6, <3>2, <4>1
    <3>3. CASE ~(i < p)
      <4>1. i + 1 \in DOMAIN loop.due /\ p < i + 1
        BY <1>2, <2>3, <3>3
      <4> QED
        BY <2>1, <2>4, <2>6, <3>3, <4>1
    <3> QED
      BY <3>2, <3>3
  <2>8. Thinned(loop.due, fewer, x)
    BY <2>4, <2>5, <2>7 DEF Thinned
  <2> QED
    BY <1>1, <2>8 DEF NoLoop
<1> QED
  BY <1>3, <1>4

\* A list of the invariant in the direction of a loop.
Way(w, h, dir) ==
  /\ w \in Seq(Entries)
  /\ \A i, j \in 1 .. Len(w) : w[i] = w[j] => i = j
  /\ \A i \in 0 .. Len(w) : l[dir][Nth(w, h, i)] = Nth(w, h, i + 1)

\* The lists of the invariant are ways.
LEMMA WayIs ==
  ASSUME IInv, Standing, NEW h \in Heads \cap ringed, NEW dir \in {"next", "prev"},
         NEW w, w = Along(dir, Contents[h])
  PROVE  Way(w, h, dir)
<1>1. Contents[h] \in Seq(Entries) /\ IsInjective(Contents[h])
  <2>1. Contents[h] \in Seq(Entries) /\ DOMAIN Contents[h] = 1 .. Len(Contents[h])
    BY InvFacts
  <2> QED
    BY <2>1, InvFacts DEF Apart, IsInjective
<1>2. w \in Seq(Entries) /\ Len(w) = Len(Contents[h]) /\ IsInjective(w)
  BY <1>1, AlongOrder
<1>3. \A i \in 0 .. Len(w) : l[dir][Nth(w, h, i)] = Nth(w, h, i + 1)
  BY <1>2, AlongLinks
<1>4. \A i, j \in 1 .. Len(w) : w[i] = w[j] => i = j
  <2>1. DOMAIN w = 1 .. Len(w)
    BY <1>2
  <2> QED
    BY <1>2, <2>1 DEF IsInjective
<1> QED
  BY <1>2, <1>3, <1>4 DEF Way

\* A step that leaves the loop's cursor and keeps the order of its list.
LEMMA DueKept ==
  ASSUME IInv, Standing, DueInv, Standing', NEW x,
         loop.on => Cursor # x /\ OrderKept(Contents[loop.head], Contents'[loop.head], x),
         \/ loop' = Forget(x)
         \/ loop' = loop /\ x = NULL
  PROVE  DueInv'
<1>1. CASE ~loop.on
  <2>1. loop'.on = FALSE
    <3>1. CASE loop' = loop
      BY <1>1, <3>1 DEF IInv, TypeOK
    <3>2. CASE loop' = Forget(x)
      <4>1. PICK due : loop' = [loop EXCEPT !.due = due]
        BY <3>2 DEF Forget
      <4> QED
        BY <1>1, <4>1 DEF IInv, TypeOK, NoLoop
    <3> QED
      BY <3>1, <3>2
  <2> QED
    BY <2>1 DEF DueInv
<1>2. CASE loop.on
  <2> DEFINE h == loop.head
             w == Along(loop.dir, Contents[h])
             v == Along(loop.dir, Contents'[h])
  <2>1. h \in Heads \cap ringed /\ loop.dir \in {"next", "prev"} /\ DOMAIN loop = DOMAIN NoLoop
    BY <1>2 DEF IInv, TypeOK, CursorRinged
  <2>2. Contents[h] \in Seq(Entries) /\ Contents'[h] \in Seq(Entries)
    BY <2>1 DEF Standing, Stand
  <2>3. OrderKept(w, v, x)
    BY <1>2, <2>1, <2>2, KeptAlong
  <2>4. Ahead(w, h, Cursor, loop.safe, loop.due)
    BY <1>2 DEF DueInv
  <2>5. Way(w, h, loop.dir)
    BY <2>1, WayIs
  <2>6. /\ \A i, j \in DOMAIN w : w[i] = w[j] => i = j
        /\ DOMAIN w \subseteq Int
    <3> HIDE DEF w
    <3>1. DOMAIN w = 1 .. Len(w)
      BY <2>5 DEF Way
    <3> QED
      BY <2>5, <3>1 DEF Way
  <2> HIDE DEF w, v, h
  <2>7. CASE loop' = Forget(x)
    <3>1. /\ Thinned(loop.due, loop'.due, x)
          /\ loop'.on = loop.on /\ loop'.safe = loop.safe /\ loop'.dir = loop.dir
          /\ loop'.head = loop.head /\ loop'.pos = loop.pos /\ loop'.n = loop.n
      BY <2>1, <2>4, <2>6, <2>7, ForgetThins
    <3>2. Ahead(v, h, Cursor, loop.safe, loop'.due)
      BY <1>2, <2>3, <2>4, <3>1, AheadKept
    <3> QED
      BY <3>1, <3>2 DEF DueInv, Cursor, v, h
  <2>8. CASE loop' = loop /\ x = NULL
    <3>1. Thinned(loop.due, loop.due, x)
      <4>1. loop.due \in Seq(Entries) /\ \A i \in DOMAIN loop.due : loop.due[i] # x
        BY <2>4, <2>8, CellsAssumption DEF Ahead, Cells
      <4> QED
        BY <4>1 DEF Thinned, ToSet, Before
    <3>2. Ahead(v, h, Cursor, loop.safe, loop.due)
      BY <1>2, <2>3, <2>4, <3>1, AheadKept
    <3> QED
      BY <2>8, <3>2 DEF DueInv, Cursor, v, h
  <2> QED
    BY <2>7, <2>8
<1> QED
  BY <1>1, <1>2 DEF IInv, TypeOK

-----------------------------------------------------------------------------
\* What the operations on the lists leave in order on each of them.

\* Taking an entry out of one list leaves the others of every list in order.
LEMMA TakenOut ==
  ASSUME NEW c \in [Heads -> Seq(Entries)], NEW g \in Heads, NEW i \in 1 .. Len(c[g]),
         NEW b, b = [c EXCEPT ![g] = RemoveAt(@, i)], NEW h \in Heads
  PROVE  b \in [Heads -> Seq(Entries)] /\ OrderKept(c[h], b[h], c[g][i])
<1>1. c[g] \in Seq(Entries)
  OBVIOUS
<1>2. RemoveAt(c[g], i) \in Seq(Entries)
  BY <1>1, Removed
<1>3. OrderKept(c[g], RemoveAt(c[g], i), c[g][i])
  BY <1>1, RemovedOrder DEF OrderKept
<1>4. b[g] = RemoveAt(c[g], i) /\ (h # g => b[h] = c[h])
  OBVIOUS
<1>5. OrderKept(c[h], c[h], c[g][i])
  BY DEF OrderKept
<1>6. b \in [Heads -> Seq(Entries)]
  BY <1>2
<1> QED
  BY <1>3, <1>4, <1>5, <1>6

\* Putting an entry in leaves every list in order.
LEMMA PutIn ==
  ASSUME NEW c \in [Heads -> Seq(Entries)], NEW g \in Heads, NEW p \in 1 .. Len(c[g]) + 1,
         NEW e \in Entries, NEW b, b = [c EXCEPT ![g] = InsertAt(@, p, e)], NEW h \in Heads, NEW x
  PROVE  OrderKept(c[h], b[h], x)
<1>1. c[g] \in Seq(Entries)
  OBVIOUS
<1>2. OrderKept(c[g], InsertAt(c[g], p, e), x)
  BY <1>1, InsertedOrder DEF OrderKept
<1>3. b[g] = InsertAt(c[g], p, e) /\ (h # g => b[h] = c[h])
  OBVIOUS
<1>4. OrderKept(c[h], c[h], x)
  BY DEF OrderKept
<1> QED
  BY <1>2, <1>3, <1>4

\* Putting an entry in the place of one leaves the others in order.
LEMMA PutInPlace ==
  ASSUME NEW c \in [Heads -> Seq(Entries)], NEW g \in Heads, NEW i \in 1 .. Len(c[g]),
         NEW e, NEW b, b = [c EXCEPT ![g] = ReplaceAt(@, i, e)], NEW h \in Heads
  PROVE  OrderKept(c[h], b[h], c[g][i])
<1>1. c[g] \in Seq(Entries)
  OBVIOUS
<1>2. OrderKept(c[g], ReplaceAt(c[g], i, e), c[g][i])
  BY <1>1, ReplacedOrder DEF OrderKept
<1>3. b[g] = ReplaceAt(c[g], i, e) /\ (h # g => b[h] = c[h])
  OBVIOUS
<1>4. OrderKept(c[h], c[h], c[g][i])
  BY DEF OrderKept
<1> QED
  BY <1>2, <1>3, <1>4

\* A step that changes no list leaves any list in order.
LEMMA UntouchedOrder ==
  ASSUME Contents' = Contents, NEW h, NEW x
  PROVE  OrderKept(Contents[h], Contents'[h], x)
  BY DEF OrderKept

\* Unlink leaves the other entries in order.
LEMMA UnlinkOrder ==
  ASSUME IInv, Standing, NEW e,
         \E h \in Heads : \E i \in 1 .. Len(Contents[h]) :
           Contents[h][i] = e /\ Contents' = [Contents EXCEPT ![h] = RemoveAt(@, i)],
         NEW g \in Heads
  PROVE  OrderKept(Contents[g], Contents'[g], e)
<1>1. PICK h \in Heads : \E i \in 1 .. Len(Contents[h]) :
           Contents[h][i] = e /\ Contents' = [Contents EXCEPT ![h] = RemoveAt(@, i)]
  OBVIOUS
<1>2. PICK i \in 1 .. Len(Contents[h]) :
           Contents[h][i] = e /\ Contents' = [Contents EXCEPT ![h] = RemoveAt(@, i)]
  BY <1>1
<1>3. Contents \in [Heads -> Seq(Entries)]
  BY InvFacts
<1>4. PICK b : b = Contents'
  OBVIOUS
<1>5. OrderKept(Contents[g], b[g], Contents[h][i])
  BY <1>2, <1>3, <1>4, TakenOut
<1> QED
  BY <1>2, <1>4, <1>5

\* Move leaves the other entries in order.
LEMMA MoveOrder ==
  ASSUME IInv, Standing, NEW e \in Entries, NEW f \in Heads,
         \E h \in Heads : \E i \in 1 .. Len(Contents[h]) : \E b :
           /\ Contents[h][i] = e /\ b = [Contents EXCEPT ![h] = RemoveAt(@, i)]
           /\ \E p \in {1, Len(b[f]) + 1} : Contents' = [b EXCEPT ![f] = InsertAt(@, p, e)],
         NEW g \in Heads
  PROVE  OrderKept(Contents[g], Contents'[g], e)
<1>1. PICK h \in Heads : \E i \in 1 .. Len(Contents[h]) : \E b :
           /\ Contents[h][i] = e /\ b = [Contents EXCEPT ![h] = RemoveAt(@, i)]
           /\ \E p \in {1, Len(b[f]) + 1} : Contents' = [b EXCEPT ![f] = InsertAt(@, p, e)]
  OBVIOUS
<1>2. PICK i \in 1 .. Len(Contents[h]) : \E b :
           /\ Contents[h][i] = e /\ b = [Contents EXCEPT ![h] = RemoveAt(@, i)]
           /\ \E p \in {1, Len(b[f]) + 1} : Contents' = [b EXCEPT ![f] = InsertAt(@, p, e)]
  BY <1>1
<1>3. PICK b :
           /\ Contents[h][i] = e /\ b = [Contents EXCEPT ![h] = RemoveAt(@, i)]
           /\ \E p \in {1, Len(b[f]) + 1} : Contents' = [b EXCEPT ![f] = InsertAt(@, p, e)]
  BY <1>2
<1>4. PICK p \in {1, Len(b[f]) + 1} : Contents' = [b EXCEPT ![f] = InsertAt(@, p, e)]
  BY <1>3
<1>5. Contents \in [Heads -> Seq(Entries)]
  BY InvFacts
<1>6. b \in [Heads -> Seq(Entries)] /\ OrderKept(Contents[g], b[g], e)
  <2>1. b \in [Heads -> Seq(Entries)] /\ OrderKept(Contents[g], b[g], Contents[h][i])
    BY <1>3, <1>5, TakenOut
  <2> QED
    BY <1>3, <2>1
<1>7. PICK a : a = Contents'
  OBVIOUS
<1>8. p \in 1 .. Len(b[f]) + 1
  <2>1. Len(b[f]) \in Nat
    BY <1>6
  <2> QED
    BY <1>4, <2>1
<1>9. OrderKept(b[g], a[g], e)
  BY <1>4, <1>6, <1>7, <1>8, PutIn
<1>10. OrderKept(Contents[g], a[g], e)
  BY <1>6, <1>9 DEF OrderKept
<1> QED
  BY <1>7, <1>10

\* Insert leaves every entry in order.
LEMMA InsertOrder ==
  ASSUME IInv, Standing, NEW e \in Entries,
         \E h \in Heads : \E p \in 1 .. Len(Contents[h]) + 1 :
           Contents' = [Contents EXCEPT ![h] = InsertAt(@, p, e)],
         NEW g \in Heads, NEW x
  PROVE  OrderKept(Contents[g], Contents'[g], x)
<1>1. PICK h \in Heads : \E p \in 1 .. Len(Contents[h]) + 1 :
           Contents' = [Contents EXCEPT ![h] = InsertAt(@, p, e)]
  OBVIOUS
<1>2. PICK p \in 1 .. Len(Contents[h]) + 1 : Contents' = [Contents EXCEPT ![h] = InsertAt(@, p, e)]
  BY <1>1
<1>3. Contents \in [Heads -> Seq(Entries)]
  BY InvFacts
<1>4. PICK b : b = Contents'
  OBVIOUS
<1>5. OrderKept(Contents[g], b[g], x)
  BY <1>2, <1>3, <1>4, PutIn
<1> QED
  BY <1>4, <1>5

\* Replacing leaves the list of a head in order that is not replaced itself.
LEMMA ReplaceOrder ==
  ASSUME IInv, Standing, NEW old, NEW new, NEW g \in Heads \ {old, new},
         \/ \E h \in Heads : \E i \in 1 .. Len(Contents[h]) :
              Contents[h][i] = old /\ Contents' = [Contents EXCEPT ![h] = ReplaceAt(@, i, new)]
         \/ /\ old \in Heads /\ new \in Heads /\ old # new
            /\ Contents' = [Contents EXCEPT ![new] = Contents[old], ![old] = << >>]
  PROVE  OrderKept(Contents[g], Contents'[g], old)
<1>1. Contents \in [Heads -> Seq(Entries)]
  BY InvFacts
<1>2. PICK b : b = Contents'
  OBVIOUS
<1>3. CASE \E h \in Heads : \E i \in 1 .. Len(Contents[h]) :
              Contents[h][i] = old /\ Contents' = [Contents EXCEPT ![h] = ReplaceAt(@, i, new)]
  <2>1. PICK h \in Heads : \E i \in 1 .. Len(Contents[h]) :
              Contents[h][i] = old /\ Contents' = [Contents EXCEPT ![h] = ReplaceAt(@, i, new)]
    BY <1>3
  <2>2. PICK i \in 1 .. Len(Contents[h]) :
              Contents[h][i] = old /\ Contents' = [Contents EXCEPT ![h] = ReplaceAt(@, i, new)]
    BY <2>1
  <2>3. OrderKept(Contents[g], b[g], Contents[h][i])
    BY <1>1, <1>2, <2>2, PutInPlace
  <2> QED
    BY <1>2, <2>2, <2>3
<1>4. CASE /\ old \in Heads /\ new \in Heads /\ old # new
           /\ Contents' = [Contents EXCEPT ![new] = Contents[old], ![old] = << >>]
  <2>1. b[g] = Contents[g]
    BY <1>1, <1>2, <1>4
  <2>2. OrderKept(Contents[g], b[g], old)
    BY <2>1 DEF OrderKept
  <2> QED
    BY <1>2, <2>2
<1> QED
  BY <1>3, <1>4

-----------------------------------------------------------------------------
\* Stepping along a list.

\* The cell after one on the way is on the way or the head, and so is the
\* first.
LEMMA StepOnWay ==
  ASSUME NEW w, NEW h, NEW dir, Way(w, h, dir), NEW x, x \in ToSet(w) \cup {h}
  PROVE  l[dir][x] \in ToSet(w) \cup {h}
<1>1. DOMAIN w = 1 .. Len(w) /\ Len(w) \in Nat
  BY DEF Way
<1>2. PICK q \in 0 .. Len(w) : x = Nth(w, h, q)
  <2>1. CASE x = h
    <3>1. Nth(w, h, 0) = h /\ 0 \in 0 .. Len(w)
      BY <1>1 DEF Nth
    <3> QED
      BY <2>1, <3>1
  <2>2. CASE x \in ToSet(w)
    <3>1. PICK i \in 1 .. Len(w) : w[i] = x
      BY <1>1, <2>2 DEF ToSet
    <3>2. i \in 0 .. Len(w) /\ Nth(w, h, i) = x
      BY <3>1 DEF Nth
    <3> QED
      BY <3>2
  <2> QED
    BY <2>1, <2>2
<1>3. l[dir][x] = Nth(w, h, q + 1)
  BY <1>2 DEF Way
<1>4. Nth(w, h, q + 1) \in ToSet(w) \cup {h}
  BY <1>1 DEF Nth, ToSet
<1> QED
  BY <1>3, <1>4

\* What is behind a cell is the next one or behind that.
LEMMA StepAhead ==
  ASSUME NEW w, NEW h, NEW dir, Way(w, h, dir), NEW x, x \in ToSet(w), NEW due,
         Ahead(w, h, x, FALSE, due)
  PROVE  Ahead(w, h, l[dir][x], TRUE, due)
<1> DEFINE y == l[dir][x]
<1>1. DOMAIN w = 1 .. Len(w) /\ Len(w) \in Nat
  BY DEF Way
<1>2. PICK q \in 1 .. Len(w) : w[q] = x
  BY <1>1 DEF ToSet
<1>3. y = Nth(w, h, q + 1)
  <2>1. q \in 0 .. Len(w) /\ Nth(w, h, q) = x
    BY <1>2 DEF Nth
  <2> QED
    BY <2>1 DEF Way
<1> HIDE DEF y
<1>4. due \in Seq(Entries) /\ \A i \in DOMAIN due : \E n \in 1 .. Len(w) : q < n /\ w[n] = due[i]
  <2>1. due \in Seq(Entries) /\ \A i \in DOMAIN due : Before(w, x, due[i])
    BY DEF Ahead
  <2> SUFFICES ASSUME NEW i \in DOMAIN due
               PROVE  \E n \in 1 .. Len(w) : q < n /\ w[n] = due[i]
    BY <2>1
  <2>2. PICK a \in 1 .. Len(w), n \in 1 .. Len(w) : a < n /\ w[a] = x /\ w[n] = due[i]
    BY <1>1, <2>1 DEF Before
  <2>3. a = q
    BY <1>2, <2>2 DEF Way
  <2> QED
    BY <2>2, <2>3
<1>5. CASE q = Len(w)
  <2>1. y = h
    BY <1>1, <1>3, <1>5 DEF Nth
  <2>2. DOMAIN due = {}
    BY <1>1, <1>4, <1>5
  <2>3. due = << >>
    BY <1>4, <2>2
  <2> QED
    BY <2>1, <2>3 DEF Ahead, y
<1>6. CASE q # Len(w)
  <2>1. q + 1 \in 1 .. Len(w)
    <3>1. PICK m \in Nat : m = Len(w) /\ q \in 1 .. m /\ q # m
      BY <1>1, <1>2, <1>6
    <3>2. q + 1 \in 1 .. m
      BY ONLY m \in Nat, <3>1
    <3> QED
      BY <3>1, <3>2
  <2>2. y = w[q + 1] /\ y \in ToSet(w)
    BY <1>1, <1>3, <2>1 DEF Nth, ToSet
  <2>3. ASSUME NEW i \in DOMAIN due PROVE due[i] = y \/ Before(w, y, due[i])
    <3>1. PICK n \in 1 .. Len(w) : q < n /\ w[n] = due[i]
      BY <1>4
    <3>2. CASE n = q + 1
      BY <2>2, <3>1, <3>2
    <3>3. CASE n # q + 1
      <4>1. q + 1 < n
        BY <1>1, <3>1, <3>3
      <4> QED
        BY <1>1, <2>1, <2>2, <3>1, <4>1 DEF Before
    <3> QED
      BY <3>2, <3>3
  <2> QED
    BY <2>2, <2>3 DEF Ahead, y
<1> QED
  BY <1>5, <1>6

\* On a way nothing is before itself, and behind is behind.
LEMMA BeforeOnWay ==
  ASSUME NEW w, NEW h, NEW dir, Way(w, h, dir)
  PROVE  /\ \A x : ~Before(w, x, x)
         /\ \A x, y, z : Before(w, x, y) /\ Before(w, y, z) => Before(w, x, z)
<1>1. DOMAIN w = 1 .. Len(w) /\ \A i, j \in 1 .. Len(w) : w[i] = w[j] => i = j
  BY DEF Way
<1>2. ASSUME NEW x, Before(w, x, x) PROVE FALSE
  <2>1. PICK i \in 1 .. Len(w), j \in 1 .. Len(w) : i < j /\ w[i] = x /\ w[j] = x
    BY <1>1, <1>2 DEF Before
  <2>2. i = j
    BY <1>1, <2>1
  <2> QED
    BY <2>1, <2>2
<1>3. ASSUME NEW x, NEW y, NEW z, Before(w, x, y), Before(w, y, z) PROVE Before(w, x, z)
  <2>1. PICK i \in 1 .. Len(w), j \in 1 .. Len(w) : i < j /\ w[i] = x /\ w[j] = y
    BY <1>1, <1>3 DEF Before
  <2>2. PICK a \in 1 .. Len(w), b \in 1 .. Len(w) : a < b /\ w[a] = y /\ w[b] = z
    BY <1>1, <1>3 DEF Before
  <2>3. a = j
    BY <1>1, <2>1, <2>2
  <2>4. i < b
    BY <2>1, <2>2, <2>3
  <2> QED
    BY <1>1, <2>1, <2>2, <2>4 DEF Before
<1> QED
  BY <1>2, <1>3

\* The loop has come to the cell y.
LEMMA ComeTo ==
  ASSUME NEW w, NEW h, NEW dir, Way(w, h, dir), NEW y, y \in ToSet(w), NEW due,
         Ahead(w, h, y, TRUE, due)
  PROVE  Ahead(w, h, y, FALSE, IF due # << >> /\ Head(due) = y THEN Tail(due) ELSE due)
<1>1. /\ due \in Seq(Entries) /\ \A i \in DOMAIN due : due[i] = y \/ Before(w, y, due[i])
      /\ \A i, j \in DOMAIN due : i < j => Before(w, due[i], due[j])
  BY DEF Ahead
<1>2. DOMAIN due = 1 .. Len(due) /\ Len(due) \in Nat
  BY <1>1
<1>3. CASE due # << >> /\ due[1] = y
  <2> DEFINE t == Tail(due)
  <2>1. Head(due) = y
    BY <1>3
  <2>2. t \in Seq(Entries) /\ Len(t) = Len(due) - 1 /\ \A i \in 1 .. Len(t) : t[i] = due[i + 1]
    BY <1>1, <1>3, HeadTailProperties
  <2>3. Len(due) # 0
    BY <1>1, <1>3
  <2> HIDE DEF t
  <2>4. DOMAIN t = 1 .. Len(due) - 1
    BY <2>2
  <2>5. \A i \in 1 .. Len(due) - 1 : i + 1 \in 1 .. Len(due) /\ 1 < i + 1
    BY <1>2
  <2>6. 1 \in 1 .. Len(due)
    BY <1>2, <2>3
  <2>7. \A i \in DOMAIN t : Before(w, y, t[i])
    <3> SUFFICES ASSUME NEW i \in 1 .. Len(due) - 1 PROVE Before(w, y, t[i])
      BY <2>4
    <3>1. t[i] = due[i + 1] /\ Before(w, due[1], due[i + 1])
      BY <1>1, <1>2, <2>2, <2>5, <2>6
    <3> QED
      BY <1>3, <3>1
  <2>8. \A i, j \in DOMAIN t : i < j => Before(w, t[i], t[j])
    <3> SUFFICES ASSUME NEW i \in 1 .. Len(due) - 1, NEW j \in 1 .. Len(due) - 1, i < j
                 PROVE  Before(w, t[i], t[j])
      BY <2>4
    <3>1. i + 1 < j + 1
      OBVIOUS
    <3>2. i + 1 \in DOMAIN due /\ j + 1 \in DOMAIN due
      BY <1>2, <2>5
    <3>3. Before(w, due[i + 1], due[j + 1])
      BY <1>1, <3>1, <3>2
    <3> QED
      BY <2>2, <3>3
  <2> QED
    BY <1>3, <2>1, <2>2, <2>7, <2>8 DEF Ahead, t
<1>4. CASE ~(due # << >> /\ due[1] = y)
  <2>1. ~(due # << >> /\ Head(due) = y)
    BY <1>1, <1>4
  <2>2. ASSUME NEW i \in DOMAIN due PROVE Before(w, y, due[i])
    <3>1. 1 \in DOMAIN due /\ (i = 1 \/ 1 < i) /\ due # << >>
      BY <1>2
    <3>2. Before(w, y, due[1])
      BY <1>1, <1>4, <3>1
    <3>3. CASE i = 1
      BY <3>2, <3>3
    <3>4. CASE 1 < i
      BY <1>1, <3>1, <3>2, <3>4, BeforeOnWay
    <3> QED
      BY <3>1, <3>3, <3>4
  <2> QED
    BY <1>1, <2>1, <2>2 DEF Ahead
<1> QED
  BY <1>3, <1>4

\* The invariant of a loop while it is on.
LEMMA LoopFacts ==
  ASSUME IInv, Standing, DueInv, loop.on, NEW w, w = Along(loop.dir, Contents[loop.head])
  PROVE  /\ loop.head \in Heads \cap ringed /\ loop.dir \in {"next", "prev"}
         /\ loop.safe \in BOOLEAN /\ DOMAIN loop = DOMAIN NoLoop
         /\ Way(w, loop.head, loop.dir) /\ Ahead(w, loop.head, Cursor, loop.safe, loop.due)
         /\ ToSet(w) = ToSet(Contents[loop.head]) /\ ToSet(w) \subseteq Entries
<1>1. /\ loop.head \in Heads \cap ringed /\ loop.dir \in {"next", "prev"}
      /\ loop.safe \in BOOLEAN /\ DOMAIN loop = DOMAIN NoLoop
  BY DEF IInv, TypeOK, CursorRinged
<1>2. Way(w, loop.head, loop.dir)
  BY <1>1, WayIs
<1>3. Ahead(w, loop.head, Cursor, loop.safe, loop.due)
  BY DEF DueInv
<1>4. Contents[loop.head] \in Seq(Entries)
  BY <1>1, InvFacts
<1>5. ToSet(w) = ToSet(Contents[loop.head])
  BY <1>1, <1>4, AlongOrder
<1>6. ToSet(w) \subseteq Entries
  <2>1. w \in Seq(Entries)
    BY <1>2 DEF Way
  <2> QED
    BY <2>1 DEF ToSet
<1> QED
  BY <1>1, <1>2, <1>3, <1>5, <1>6

\* The loop comes to what is ahead of it.
LEMMA UpcomingAhead ==
  ASSUME IInv, Standing, DueInv, loop.on, NEW w, w = Along(loop.dir, Contents[loop.head])
  PROVE  Ahead(w, loop.head, Upcoming, TRUE, loop.due)
<1>1. CASE loop.safe
  <2>1. loop.safe = TRUE
    BY <1>1, LoopFacts
  <2> QED
    BY <1>1, <2>1, LoopFacts DEF Cursor, Upcoming
<1>2. CASE ~loop.safe
  <2>1. loop.safe = FALSE
    BY <1>2, LoopFacts
  <2>2. Ahead(w, loop.head, loop.pos, FALSE, loop.due)
    BY <1>2, <2>1, LoopFacts DEF Cursor
  <2>3. loop.pos \in ToSet(w) /\ Way(w, loop.head, loop.dir)
    BY <2>2, LoopFacts DEF Ahead
  <2>4. Upcoming = l[loop.dir][loop.pos]
    BY <1>2 DEF Upcoming
  <2> QED
    BY <2>2, <2>3, <2>4, StepAhead
<1> QED
  BY <1>1, <1>2

\* What is ahead of the upcoming cell is found walking on from there.
LEMMA AheadIsWalked ==
  ASSUME IInv, Standing, NEW h \in Heads \cap ringed, NEW dir \in {"next", "prev"},
         NEW w, w = Along(dir, Contents[h]), NEW u, NEW due, Ahead(w, h, u, TRUE, due),
         NEW t, t = Walk(l, dir, u, h)
  PROVE  /\ ToSet(due) \subseteq ToSet(t)
         /\ \A i, j \in DOMAIN due : i < j => Before(t, due[i], due[j])
<1>1. Way(w, h, dir)
  BY WayIs
<1>2. DOMAIN w = 1 .. Len(w) /\ \A i, j \in 1 .. Len(w) : w[i] = w[j] => i = j
  BY <1>1 DEF Way
<1>3. CASE u \in ToSet(w)
  <2>1. PICK q \in 1 .. Len(w) : w[q] = u
    BY <1>2, <1>3 DEF ToSet
  <2>2. PICK m \in Nat : m = Len(w) /\ q \in 1 .. m
    <3>1. Len(w) \in Nat
      BY <1>1 DEF Way
    <3> QED
      BY <2>1, <3>1
  <2>3. q \in 1 .. m + 1 /\ Nth(w, h, q) = u
    BY <2>1, <2>2 DEF Nth
  <2>4. q \in 1 .. Len(w) + 1
    BY <2>2, <2>3
  <2>5. Suffix(t, w, q)
    BY <2>3, <2>4, WalkFrom
  <2>6. DOMAIN t = 1 .. m + 1 - q /\ \A i \in 1 .. m + 1 - q : t[i] = w[q + i - 1]
    BY <2>2, <2>5 DEF Suffix
  <2>7. ASSUME NEW n \in 1 .. m, q <= n
        PROVE  n - q + 1 \in DOMAIN t /\ t[n - q + 1] = w[n]
    <3>1. n - q + 1 \in 1 .. m + 1 - q /\ q + (n - q + 1) - 1 = n
      BY <2>2, <2>7
    <3> QED
      BY <2>6, <3>1
  <2>8. ASSUME NEW i \in DOMAIN due PROVE \E n \in 1 .. m : q <= n /\ w[n] = due[i]
    <3>1. CASE due[i] = u
      BY <2>1, <2>2, <3>1
    <3>2. CASE Before(w, u, due[i])
      <4>1. PICK a \in 1 .. m, n \in 1 .. m : a < n /\ w[a] = u /\ w[n] = due[i]
        BY <1>2, <2>2, <3>2 DEF Before
      <4>2. a = q
        BY <1>2, <2>1, <2>2, <4>1
      <4>3. q <= n
        BY <4>1, <4>2
      <4> QED
        BY <4>1, <4>3
    <3> QED
      BY <3>1, <3>2 DEF Ahead
  <2>9. ToSet(due) \subseteq ToSet(t)
    <3> SUFFICES ASSUME NEW i \in DOMAIN due PROVE due[i] \in ToSet(t)
      BY DEF ToSet
    <3>1. PICK n \in 1 .. m : q <= n /\ w[n] = due[i]
      BY <2>8
    <3> QED
      BY <2>7, <3>1 DEF ToSet
  <2>10. ASSUME NEW i \in DOMAIN due, NEW j \in DOMAIN due, i < j
         PROVE  Before(t, due[i], due[j])
    <3>1. Before(w, due[i], due[j])
      BY <2>10 DEF Ahead
    <3>2. PICK a \in 1 .. m, b \in 1 .. m : a < b /\ w[a] = due[i] /\ w[b] = due[j]
      BY <1>2, <2>2, <3>1 DEF Before
    <3>3. PICK n \in 1 .. m : q <= n /\ w[n] = due[i]
      BY <2>8
    <3>4. a = n
      BY <1>2, <2>2, <3>2, <3>3
    <3>5. q <= a /\ q <= b /\ a - q + 1 < b - q + 1
      BY <2>2, <3>2, <3>3, <3>4
    <3>6. /\ a - q + 1 \in DOMAIN t /\ t[a - q + 1] = due[i]
          /\ b - q + 1 \in DOMAIN t /\ t[b - q + 1] = due[j]
      BY <2>7, <3>2, <3>5
    <3> QED
      BY <3>5, <3>6 DEF Before
  <2> QED
    BY <2>9, <2>10
<1>4. CASE u \notin ToSet(w)
  <2>1. due = << >>
    BY <1>4 DEF Ahead
  <2> QED
    BY <2>1 DEF ToSet
<1> QED
  BY <1>3, <1>4

\* The invariant is strong enough.
LEMMA NothingMissed == IInv /\ Standing /\ DueInv => LoopMissesNothing
<1> SUFFICES ASSUME IInv, Standing, DueInv, loop.on
             PROVE  LET ahead == Walk(l, loop.dir, Upcoming, loop.head) IN
                    /\ Upcoming \in On(loop.head) \cup {loop.head}
                    /\ ToSet(loop.due) \subseteq ToSet(ahead)
                    /\ \A i, j \in DOMAIN loop.due :
                         i < j => Before(ahead, loop.due[i], loop.due[j])
  BY DEF LoopMissesNothing
<1>1. PICK w : w = Along(loop.dir, Contents[loop.head])
  OBVIOUS
<1>2. Ahead(w, loop.head, Upcoming, TRUE, loop.due)
  BY <1>1, UpcomingAhead
<1>3. /\ loop.head \in Heads \cap ringed /\ loop.dir \in {"next", "prev"}
      /\ ToSet(w) = ToSet(Contents[loop.head])
  BY <1>1, LoopFacts
<1>4. PICK u, due : u = Upcoming /\ due = loop.due
  OBVIOUS
<1>5. PICK h \in Heads \cap ringed, dir \in {"next", "prev"} : h = loop.head /\ dir = loop.dir
  BY <1>3
<1>6. PICK t : t = Walk(l, dir, u, h)
  OBVIOUS
<1>7. /\ ToSet(due) \subseteq ToSet(t)
      /\ \A i, j \in DOMAIN due : i < j => Before(t, due[i], due[j])
  <2>1. w = Along(dir, Contents[h]) /\ Ahead(w, h, u, TRUE, due)
    BY <1>1, <1>2, <1>4, <1>5
  <2> QED
    BY <1>6, <2>1, AheadIsWalked
<1>8. Upcoming \in On(loop.head) \cup {loop.head}
  BY <1>2, <1>3, ContentIsContents DEF Ahead
<1> QED
  BY <1>4, <1>6, <1>7, <1>8, <1>5

-----------------------------------------------------------------------------
\* The loops keep it.

\* A loop that starts finds the entries behind its first.
LEMMA StartDue ==
  ASSUME IInv, Standing, NEW head, NEW first, NEW dir \in {"next", "prev"}, NEW safe \in BOOLEAN,
         Start(head, first, dir, safe), first \in ToSet(Contents[head]) \cup {head}
  PROVE  DueInv'
<1> DEFINE w == Along(dir, Contents[head])
           y == l[dir][first]
           due == Walk(l, dir, y, head)
<1>1. /\ head \in Heads \cap ringed /\ first # head
      /\ loop' = [on |-> TRUE, head |-> head, dir |-> dir, safe |-> safe, pos |-> first,
                  n |-> IF safe THEN y ELSE NULL, due |-> due]
      /\ UNCHANGED <<l, ringed, listed>>
  BY DEF Start
<1>2. Contents' = Contents
  BY <1>1, SameContents
<1>3. Way(w, head, dir)
  BY <1>1, WayIs
<1>4. first \in ToSet(w)
  <2>1. Contents[head] \in Seq(Entries)
    BY <1>1, InvFacts
  <2>2. ToSet(w) = ToSet(Contents[head])
    BY <2>1, AlongOrder
  <2> QED
    BY <1>1, <2>2
<1>5. w = Along(dir, Contents[head])
  OBVIOUS
<1>6. due = Walk(l, dir, y, head) /\ y = l[dir][first]
  OBVIOUS
<1> HIDE DEF w, due, y
<1>7. PICK m \in Nat : m = Len(w) /\ DOMAIN w = 1 .. m
  BY <1>3 DEF Way
<1>8. PICK q \in 1 .. m : w[q] = first
  BY <1>4, <1>7 DEF ToSet
<1>9. y = Nth(w, head, q + 1)
  <2>1. q \in 0 .. Len(w) /\ Nth(w, head, q) = first
    BY <1>7, <1>8 DEF Nth
  <2> QED
    BY <1>3, <1>6, <2>1 DEF Way
<1>10. Suffix(due, w, q + 1)
  <2>1. q + 1 \in 1 .. Len(w) + 1
    BY <1>7, <1>8
  <2>2. PICK p : p = q + 1
    OBVIOUS
  <2>3. Suffix(Walk(l, dir, Nth(w, head, p), head), w, p)
    BY <1>1, <1>5, <2>1, <2>2, WalkFrom
  <2> QED
    BY <1>9, <1>6, <2>2, <2>3
<1>11. due \in Seq(Entries) /\ DOMAIN due = 1 .. m - q /\ \A i \in 1 .. m - q : due[i] = w[q + i]
  <2>1. m + 1 - (q + 1) = m - q /\ \A i \in 1 .. m - q : (q + 1) + i - 1 = q + i
    BY <1>7, <1>8
  <2>2. /\ due \in Seq(Entries) /\ Len(due) = m - q
        /\ \A i \in 1 .. m - q : due[i] = w[(q + 1) + i - 1]
    BY <1>7, <1>10, <2>1 DEF Suffix
  <2> QED
    BY <2>1, <2>2
<1>12. \A i \in 1 .. m - q : q + i \in 1 .. m /\ q < q + i
  BY <1>7, <1>8
<1>13. Ahead(w, head, first, FALSE, due)
  <2>1. \A i \in DOMAIN due : Before(w, first, due[i])
    BY <1>7, <1>8, <1>11, <1>12 DEF Before
  <2>2. ASSUME NEW i \in 1 .. m - q, NEW j \in 1 .. m - q, i < j PROVE Before(w, due[i], due[j])
    <3>1. q + i < q + j
      BY <1>8, <2>2
    <3> QED
      BY <1>7, <1>11, <1>12, <3>1 DEF Before
  <2> QED
    BY <1>4, <1>11, <2>1, <2>2 DEF Ahead
<1>14. Ahead(w, head, y, TRUE, due)
  BY <1>3, <1>4, <1>13, <1>6, StepAhead
<1>15. /\ loop'.head = head /\ loop'.dir = dir /\ loop'.safe = safe /\ loop'.due = due
       /\ Cursor' = IF safe THEN y ELSE first
  BY <1>1 DEF Cursor
<1>16. Ahead(w, head, IF safe THEN y ELSE first, safe, due)
  <2>1. CASE safe = TRUE
    BY <1>14, <2>1
  <2>2. CASE safe = FALSE
    BY <1>13, <2>2
  <2> QED
    BY <2>1, <2>2
<1> QED
  BY <1>2, <1>15, <1>16, <1>5 DEF DueInv

\* Every macro starts its loop at an entry of the list.
LEMMA LoopsDue ==
  ASSUME IInv, Standing, NEW h \in Heads, Loops(h)
  PROVE  DueInv'
<1>1. h \in Heads \cap ringed
  BY DEF Loops, list_for_each, list_for_each_safe, list_for_each_entry_continue,
     list_for_each_entry_from, list_for_each_entry_safe_continue, list_for_each_entry_safe_from,
     Start
<1>2. On(h) = ToSet(Contents[h]) /\ Contents[h] \in Seq(Entries)
  BY ContentIsContents, InvFacts
<1>3. ASSUME NEW dir \in {"next", "prev"}, NEW x, x \in ToSet(Contents[h]) \cup {h}
      PROVE  l[dir][x] \in ToSet(Contents[h]) \cup {h}
  <2>1. PICK w : w = Along(dir, Contents[h])
    OBVIOUS
  <2>2. Way(w, h, dir) /\ ToSet(w) = ToSet(Contents[h])
    BY <1>1, <1>2, <2>1, WayIs, AlongOrder
  <2> QED
    BY <1>3, <2>2, StepOnWay
<1>4. ASSUME NEW dir \in {"next", "prev"}, NEW safe \in BOOLEAN,
             NEW x, x \in ToSet(Contents[h]) \cup {h}, Start(h, l[dir][x], dir, safe)
      PROVE  DueInv'
  <2>1. PICK first : first = l[dir][x]
    OBVIOUS
  <2>2. first \in ToSet(Contents[h]) \cup {h}
    BY <1>3, <1>4, <2>1
  <2> QED
    BY <1>4, <2>1, <2>2, StartDue
<1>5. ASSUME NEW dir \in {"next", "prev"}, list_for_each(h, dir) \/ list_for_each_safe(h, dir)
      PROVE  DueInv'
  <2>1. Start(h, l[dir][h], dir, FALSE) \/ Start(h, l[dir][h], dir, TRUE)
    BY <1>5 DEF list_for_each, list_for_each_safe
  <2> QED
    BY <1>4, <2>1
<1>6. ASSUME NEW pos \in (listed \cap On(h)) \cup {NULL}, NEW dir \in {"next", "prev"},
             list_for_each_entry_continue(pos, h, dir)
      PROVE  DueInv'
  <2>1. PICK x : x = list_prepare_entry(pos, h)
    OBVIOUS
  <2>2. x \in ToSet(Contents[h]) \cup {h}
    BY <1>2, <2>1 DEF list_prepare_entry
  <2>3. Start(h, l[dir][x], dir, FALSE)
    BY <1>6, <2>1 DEF list_for_each_entry_continue
  <2> QED
    BY <1>4, <2>2, <2>3
<1>7. ASSUME NEW pos \in listed \cap On(h),
             \/ list_for_each_entry_from(pos, h)
             \/ list_for_each_entry_safe_continue(pos, h)
             \/ list_for_each_entry_safe_from(pos, h)
      PROVE  DueInv'
  <2>1. PICK dir \in {"next", "prev"} : dir = "next"
    OBVIOUS
  <2>2. pos \in ToSet(Contents[h]) \cup {h}
    BY <1>2
  <2>3. CASE Start(h, pos, dir, FALSE) \/ Start(h, pos, dir, TRUE)
    <3>1. PICK safe \in BOOLEAN : Start(h, pos, dir, safe)
      BY <2>3
    <3> QED
      BY <2>2, <3>1, StartDue
  <2>4. CASE Start(h, l[dir][pos], dir, TRUE)
    BY <1>4, <2>2, <2>4
  <2> QED
    BY <1>7, <2>1, <2>3, <2>4 DEF list_for_each_entry_from, list_for_each_entry_safe_continue,
       list_for_each_entry_safe_from
<1> QED
  BY <1>5, <1>6, <1>7 DEF Loops

\* Advance comes to the next cell, and to an entry that is due if that is it.
LEMMA AdvanceDue ==
  ASSUME IInv, Standing, DueInv, Advance
  PROVE  DueInv'
<1>1. /\ loop.on /\ UNCHANGED <<l, ringed, listed>>
      /\ loop' = IF Upcoming = loop.head THEN NoLoop
                 ELSE [loop EXCEPT
                         !.pos = Upcoming,
                         !.n = IF loop.safe THEN l[loop.dir][Upcoming] ELSE NULL,
                         !.due = IF @ # << >> /\ Head(@) = Upcoming THEN Tail(@) ELSE @]
  BY DEF Advance
<1>2. Contents' = Contents
  BY <1>1, SameContents
<1>3. CASE Upcoming = loop.head
  BY <1>1, <1>3 DEF DueInv, NoLoop
<1>4. CASE Upcoming # loop.head
  <2>1. PICK w : w = Along(loop.dir, Contents[loop.head])
    OBVIOUS
  <2>2. PICK u, due : u = Upcoming /\ due = IF loop.due # << >> /\ Head(loop.due) = u
                                             THEN Tail(loop.due) ELSE loop.due
    OBVIOUS
  <2>3. /\ loop.safe \in BOOLEAN /\ DOMAIN loop = DOMAIN NoLoop
        /\ Way(w, loop.head, loop.dir) /\ Ahead(w, loop.head, u, TRUE, loop.due)
    BY <1>1, <2>1, <2>2, LoopFacts, UpcomingAhead
  <2>4. u \in ToSet(w)
    BY <1>4, <2>2, <2>3 DEF Ahead
  <2>5. Ahead(w, loop.head, u, FALSE, due)
    BY <2>2, <2>3, <2>4, ComeTo
  <2>6. Ahead(w, loop.head, l[loop.dir][u], TRUE, due)
    BY <2>3, <2>4, <2>5, StepAhead
  <2>7. /\ loop'.head = loop.head /\ loop'.dir = loop.dir /\ loop'.safe = loop.safe
        /\ loop'.due = due /\ loop'.pos = u /\ (loop.safe => loop'.n = l[loop.dir][u])
    BY <1>1, <1>4, <2>2, <2>3 DEF NoLoop
  <2>8. CASE loop.safe = TRUE
    <3>1. Cursor' = l[loop.dir][u]
      BY <2>7, <2>8 DEF Cursor
    <3> QED
      BY <1>2, <2>1, <2>6, <2>7, <2>8, <3>1 DEF DueInv
  <2>9. CASE loop.safe = FALSE
    <3>1. Cursor' = u
      BY <2>7, <2>9 DEF Cursor
    <3> QED
      BY <1>2, <2>1, <2>5, <2>7, <2>9, <3>1 DEF DueInv
  <2> QED
    BY <2>3, <2>8, <2>9
<1> QED
  BY <1>3, <1>4

\* Taking the cell out that a safe loop comes to next, the body gives it the
\* one after.
LEMMA ResetDue ==
  ASSUME IInv, IInv', Standing, DueInv, list_safe_reset_next
  PROVE  DueInv'
<1> DEFINE k == list_del_init(l, loop.n)
<1>1. /\ loop.on /\ loop.safe /\ loop.dir = "next" /\ loop.pos \in listed /\ loop.n \in listed
      /\ loop.n = l.next[loop.pos] /\ listed' = listed \ {loop.n} /\ ringed' = ringed
      /\ l' = k /\ loop' = [Forget(loop.n) EXCEPT !.n = k.next[loop.pos]]
  BY DEF list_safe_reset_next
<1>2. k = list_del_init(l, loop.n)
  OBVIOUS
<1> HIDE DEF k
<1>3. PICK x, pos, h, w : /\ x = loop.n /\ pos = loop.pos /\ h = loop.head
                          /\ w = Along(loop.dir, Contents[h])
  OBVIOUS
<1>4. /\ h \in Heads \cap ringed /\ loop.safe = TRUE /\ DOMAIN loop = DOMAIN NoLoop
      /\ Way(w, h, loop.dir) /\ Ahead(w, h, Cursor, loop.safe, loop.due)
  BY <1>1, <1>3, LoopFacts
<1>5. Ahead(w, h, x, TRUE, loop.due) /\ w = Contents[h] /\ Way(w, h, "next")
  BY <1>1, <1>3, <1>4 DEF Cursor, Along
<1>6. x \in ToSet(w) /\ x \in Entries
  <2>1. x \in Entries /\ h \notin Entries
    BY <1>1, <1>3, <1>4, InvFacts, CellsAssumption
  <2> QED
    BY <1>5, <2>1 DEF Ahead
<1>7. DOMAIN w = 1 .. Len(w) /\ \A i, j \in 1 .. Len(w) : w[i] = w[j] => i = j
  BY <1>5 DEF Way
<1>8. PICK q \in 1 .. Len(w) : w[q] = x
  BY <1>6, <1>7 DEF ToSet

\* Where x and its neighbours are.
<1>9. PICK next : next = Nth(w, h, q + 1)
  OBVIOUS
<1>10. l.next[x] = next /\ l.prev[x] = Nth(w, h, q - 1) /\ k.next[Nth(w, h, q - 1)] = next
  <2>1. PICK c, m, R, L : c = Contents /\ m = l /\ R = ringed /\ L = listed
    OBVIOUS
  <2>2. /\ m \in Links /\ R \in SUBSET Cells /\ Stand(m, R, c, L)
        /\ Rings(m, R) /\ L \subseteq R /\ h \in Heads \cap R
    BY <1>4, <2>1, InvFacts
  <2>3. c[h] = w /\ q \in 1 .. Len(c[h]) /\ c[h][q] = x
    BY <1>5, <1>8, <2>1
  <2>4. PICK j : j = list_del_init(m, c[h][q])
    OBVIOUS
  <2>5. j = k
    BY <1>3, <1>2, <2>1, <2>3, <2>4
  <2>6. /\ m.prev[c[h][q]] = Nth(c[h], h, q - 1) /\ m.next[c[h][q]] = Nth(c[h], h, q + 1)
        /\ j.next[Nth(c[h], h, q - 1)] = Nth(c[h], h, q + 1)
    BY <2>2, <2>3, <2>4, DelLinks
  <2> QED
    BY <1>9, <2>1, <2>3, <2>5, <2>6
<1>11. k.next[pos] = next
  <2>1. l.prev[x] = pos
    BY <1>1, <1>3, InvFacts DEF Rings
  <2> QED
    BY <1>10, <2>1
<1>12. next # x
  <2>1. CASE q + 1 \in 1 .. Len(w)
    BY <1>7, <1>8, <1>9, <2>1 DEF Nth
  <2>2. CASE q + 1 \notin 1 .. Len(w)
    BY <1>4, <1>6, <1>9, <2>2, CellsAssumption DEF Nth
  <2> QED
    BY <2>1, <2>2

\* What is due without x lies ahead of next, before and after x is taken out.
<1>13. PICK due : due = Forget(x).due
  OBVIOUS
<1>14. /\ Thinned(loop.due, due, x)
       /\ Forget(x).on = loop.on /\ Forget(x).safe = loop.safe /\ Forget(x).dir = loop.dir
       /\ Forget(x).head = loop.head
  <2>1. \A i, j \in DOMAIN w : w[i] = w[j] => i = j
    BY <1>7
  <2>2. DOMAIN w \subseteq Int
    BY <1>7
  <2> QED
    BY <1>4, <1>5, <1>13, <2>1, <2>2, ForgetThins
<1>15. due \in Seq(Entries) /\ DOMAIN due = 1 .. Len(due)
  BY <1>14 DEF Thinned
<1>16. Ahead(w, h, x, FALSE, due)
  <2>1. \A i \in DOMAIN due : due[i] # x /\ \E n \in DOMAIN loop.due : loop.due[n] = due[i]
    BY <1>14 DEF Thinned, ToSet
  <2>2. \A i \in DOMAIN due : Before(w, x, due[i])
    BY <1>5, <2>1 DEF Ahead
  <2>3. ASSUME NEW i \in DOMAIN due, NEW j \in DOMAIN due, i < j PROVE Before(w, due[i], due[j])
    <3>1. Before(loop.due, due[i], due[j])
      BY <1>14, <2>3 DEF Thinned
    <3> QED
      BY <1>5, <3>1 DEF Before, Ahead
  <2> QED
    BY <1>6, <1>15, <2>2, <2>3 DEF Ahead
<1>17. Ahead(w, h, next, TRUE, due)
  <2>1. PICK dir : dir = "next"
    OBVIOUS
  <2>2. Way(w, h, dir) /\ l[dir][x] = next
    BY <1>5, <1>10, <2>1
  <2> QED
    BY <1>6, <1>16, <2>2, StepAhead
<1>18. /\ Standing'
       /\ \E g \in Heads : \E i \in 1 .. Len(Contents[g]) :
            Contents[g][i] = x /\ Contents' = [Contents EXCEPT ![g] = RemoveAt(@, i)]
  BY <1>1, <1>3, <1>2, UnlinkContents
<1>19. PICK v : v = Contents'[h]
  OBVIOUS
<1>20. OrderKept(w, v, x)
  BY <1>4, <1>5, <1>18, <1>19, UnlinkOrder
<1>21. Thinned(due, due, x)
  BY <1>14, <1>15 DEF Thinned, Before
<1>22. Ahead(v, h, next, TRUE, due)
  BY <1>12, <1>17, <1>20, <1>21, AheadKept
<1>23. /\ loop'.head = h /\ loop'.dir = "next" /\ loop'.safe = TRUE /\ loop'.due = due
       /\ loop'.n = next
  <2>1. PICK dues : Forget(x) = [loop EXCEPT !.due = dues]
    BY DEF Forget
  <2>2. loop' = [[loop EXCEPT !.due = dues] EXCEPT !.n = next]
    BY <1>1, <1>3, <1>11, <2>1
  <2>3. due = dues
    BY <1>4, <1>13, <2>1 DEF NoLoop
  <2> QED
    BY <1>1, <1>3, <1>4, <2>2, <2>3 DEF NoLoop
<1>24. Cursor' = next
  BY <1>23 DEF Cursor
<1>25. Along(loop'.dir, Contents'[loop'.head]) = v
  BY <1>19, <1>23 DEF Along
<1> QED
  BY <1>22, <1>23, <1>24, <1>25 DEF DueInv

\* Unlink takes no cursor away.
LEMMA UnlinkDue ==
  ASSUME IInv, IInv', Standing, DueInv, NEW e, Unlink(e)
  PROVE  DueInv'
<1>1. /\ e \in listed /\ listed' = listed \ {e} /\ MayUnlink(e) /\ loop' = Forget(e)
      /\ \/ l' = list_del(l, e) /\ ringed' = ringed \ {e}
         \/ l' = list_del_init(l, e) /\ ringed' = ringed
  BY DEF Unlink
<1>2. /\ Standing'
      /\ \E h \in Heads : \E i \in 1 .. Len(Contents[h]) :
           Contents[h][i] = e /\ Contents' = [Contents EXCEPT ![h] = RemoveAt(@, i)]
  BY <1>1, UnlinkContents
<1>3. loop.on => OrderKept(Contents[loop.head], Contents'[loop.head], e)
  BY <1>2, UnlinkOrder DEF IInv, TypeOK
<1>4. loop.on => Cursor # e
  BY <1>1 DEF MayUnlink, Cursor
<1> QED
  BY <1>1, <1>2, <1>3, <1>4, DueKept

\* Nor does Move,
LEMMA MoveDue ==
  ASSUME IInv, IInv', Standing, DueInv, NEW e, NEW g, Move(e, g)
  PROVE  DueInv'
<1>1. e \in listed /\ g \in Heads /\ MayUnlink(e) /\ loop' = Forget(e)
  BY DEF Move
<1>2. /\ Standing'
      /\ \E h \in Heads : \E i \in 1 .. Len(Contents[h]) : \E b :
           /\ Contents[h][i] = e /\ b = [Contents EXCEPT ![h] = RemoveAt(@, i)]
           /\ \E p \in {1, Len(b[g]) + 1} : Contents' = [b EXCEPT ![g] = InsertAt(@, p, e)]
  BY MoveContents
<1>3. loop.on => OrderKept(Contents[loop.head], Contents'[loop.head], e)
  BY <1>1, <1>2, MoveOrder DEF IInv, TypeOK
<1>4. loop.on => Cursor # e
  BY <1>1 DEF MayUnlink, Cursor
<1> QED
  BY <1>1, <1>2, <1>3, <1>4, DueKept

\* nor Replace, nor does it take the head.
LEMMA ReplaceDue ==
  ASSUME IInv, IInv', Standing, DueInv, NEW old \in Cells, NEW new \in Cells, Replace(old, new)
  PROVE  DueInv'
<1>1. MayUnlink(old) /\ MayUnlink(new) /\ loop' = Forget(old)
  BY DEF Replace
<1>2. /\ Standing'
      /\ \/ \E h \in Heads : \E i \in 1 .. Len(Contents[h]) :
              Contents[h][i] = old /\ Contents' = [Contents EXCEPT ![h] = ReplaceAt(@, i, new)]
         \/ /\ old \in Heads /\ new \in Heads /\ old # new
            /\ Contents' = [Contents EXCEPT ![new] = Contents[old], ![old] = << >>]
  BY ReplaceContents
<1>3. loop.on => loop.head \in Heads \ {old, new} /\ Cursor # old
  BY <1>1 DEF MayUnlink, Cursor, IInv, TypeOK
<1>4. loop.on => OrderKept(Contents[loop.head], Contents'[loop.head], old)
  BY <1>2, <1>3, ReplaceOrder
<1> QED
  BY <1>1, <1>2, <1>3, <1>4, DueKept

\* A step that leaves the loop alone and no entry out of place.
LEMMA LoopAlone ==
  ASSUME IInv, Standing, DueInv, Standing', loop' = loop,
         loop.on => OrderKept(Contents[loop.head], Contents'[loop.head], NULL)
  PROVE  DueInv'
<1>1. loop.on => Cursor # NULL
  BY CellsAssumption DEF IInv, TypeOK, CursorRinged, Cursor
<1>2. PICK x : x = NULL
  OBVIOUS
<1> QED
  BY <1>1, <1>2, DueKept

\* Every step keeps what is due ahead of the loop.
LEMMA NextDue == IInv /\ IInv' /\ Standing /\ Standing' /\ DueInv /\ [Next]_vars => DueInv'
<1> SUFFICES ASSUME IInv, IInv', Standing, Standing', DueInv, [Next]_vars PROVE DueInv'
  OBVIOUS
<1>1. ASSUME NEW x \in Cells, Prepare(x) PROVE DueInv'
  <2>1. Contents' = Contents /\ loop' = loop
    BY <1>1, PrepareContents DEF Prepare
  <2> QED
    BY <2>1, UntouchedOrder, LoopAlone
<1>2. ASSUME NEW e \in Entries, NEW at \in Cells, Insert(e, at) PROVE DueInv'
  <2>1. loop' = loop
    BY <1>2 DEF Insert
  <2>2. \E h \in Heads : \E p \in 1 .. Len(Contents[h]) + 1 :
          Contents' = [Contents EXCEPT ![h] = InsertAt(@, p, e)]
    BY <1>2, InsertContents
  <2>3. loop.on => OrderKept(Contents[loop.head], Contents'[loop.head], NULL)
    <3>1. PICK x : x = NULL
      OBVIOUS
    <3>2. loop.on => OrderKept(Contents[loop.head], Contents'[loop.head], x)
      BY <2>2, InsertOrder DEF IInv, TypeOK
    <3> QED
      BY <3>1, <3>2
  <2> QED
    BY <2>1, <2>3, LoopAlone
<1>3. ASSUME NEW e, Unlink(e) PROVE DueInv'
  BY <1>3, UnlinkDue
<1>4. ASSUME NEW e, NEW h, Move(e, h) PROVE DueInv'
  BY <1>4, MoveDue
<1>5. ASSUME NEW old \in Cells, NEW new \in Cells, Replace(old, new) PROVE DueInv'
  BY <1>5, ReplaceDue
<1>6. ASSUME NEW h \in Heads, TakeFirst(h) PROVE DueInv'
  BY <1>3, <1>6 DEF TakeFirst
<1>7. ASSUME NEW h \in Heads, list_rotate_left(h) PROVE DueInv'
  <2>1. Move(list_first_entry(h), h)
    BY <1>7 DEF list_rotate_left, Move
  <2> QED
    BY <1>4, <2>1
<1>8. ASSUME NEW h \in Heads, Loops(h) PROVE DueInv'
  BY <1>8, LoopsDue
<1>9. CASE Advance
  BY <1>9, AdvanceDue
<1>10. CASE list_safe_reset_next
  BY <1>10, ResetDue
<1>11. CASE UNCHANGED vars
  <2>1. Contents' = Contents /\ loop' = loop
    BY <1>11, SameContents DEF vars
  <2> QED
    BY <2>1, UntouchedOrder, LoopAlone
<1> QED
  BY <1>1, <1>2, <1>3, <1>4, <1>5, <1>6, <1>7, <1>8, <1>9, <1>10, <1>11 DEF Next

\* Every macro of lite-list.h that loops comes to each entry it found that its
\* body left in place, in order, whatever else the body does to the lists.
THEOREM LoopsMissNothing == Spec => []LoopMissesNothing
<1>1. Init => DueInv
  BY DEF Init, DueInv, NoLoop
<1>2. (IInv /\ Standing) /\ (IInv /\ Standing)' /\ DueInv /\ [Next]_vars => DueInv'
  BY NextDue
<1> QED
  BY <1>1, <1>2, NothingMissed, AlwaysStanding, PTL DEF Spec
=============================================================================
