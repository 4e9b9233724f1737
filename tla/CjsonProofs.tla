---------------------------- MODULE CjsonProofs -----------------------------
(* What Cjson promises for every text, tree, way to print, limit and       *)
(* outcome of malloc: the depth of the parser's recursion, what the        *)
(* printer leaves allocated, and, from one invariant of a use of the       *)
(* library from end to end, where parser and printer are in text and       *)
(* buffer and who holds each block.                                        *)
EXTENDS Cjson, CjsonTextProofs, SequenceTheorems, TLAPS

-----------------------------------------------------------------------------
\* Sequences of whatever they hold.

IsSequence(s) == s \in Seq({s[i] : i \in DOMAIN s})

LEMMA EmptySequence == IsSequence(<< >>) /\ Len(<< >>) = 0
BY DEF IsSequence

LEMMA SequenceOf ==
  ASSUME NEW S, NEW s \in Seq(S)
  PROVE  IsSequence(s)
<1>1. s = [i \in 1 .. Len(s) |-> s[i]] /\ DOMAIN s = 1 .. Len(s) /\ Len(s) \in Nat
  OBVIOUS
<1> QED
  BY <1>1 DEF IsSequence

LEMMA SequenceAppend ==
  ASSUME NEW s, IsSequence(s), NEW e
  PROVE  IsSequence(Append(s, e)) /\ Len(Append(s, e)) = Len(s) + 1
<1> DEFINE S == {s[i] : i \in DOMAIN s} \cup {e}
<1>1. s \in Seq(S) /\ e \in S
  BY DEF IsSequence
<1> HIDE DEF S
<1>2. Append(s, e) \in Seq(S) /\ Len(Append(s, e)) = Len(s) + 1
  BY <1>1
<1> QED
  BY <1>2, SequenceOf

LEMMA SequenceFront ==
  ASSUME NEW s, IsSequence(s), s # << >>
  PROVE  IsSequence(Front(s)) /\ Len(Front(s)) = Len(s) - 1
<1> DEFINE S == {s[i] : i \in DOMAIN s}
<1>1. s \in Seq(S)
  BY DEF IsSequence
<1> HIDE DEF S
<1>2. Front(s) = [i \in 1 .. Len(s) - 1 |-> s[i]] /\ Len(s) - 1 \in Nat
  BY <1>1 DEF Front
<1>3. \A i \in 1 .. Len(s) - 1 : s[i] \in S
  BY <1>1
<1>4. Front(s) \in Seq(S) /\ Len(Front(s)) = Len(s) - 1
  BY <1>2, <1>3
<1> QED
  BY <1>4, SequenceOf

LEMMA SequenceExcept ==
  ASSUME NEW s, IsSequence(s), NEW k, NEW e
  PROVE  IsSequence([s EXCEPT ![k] = e]) /\ Len([s EXCEPT ![k] = e]) = Len(s)
<1> DEFINE S == {s[i] : i \in DOMAIN s} \cup {e}
           t == [s EXCEPT ![k] = e]
<1>1. s \in Seq(S) /\ e \in S
  BY DEF IsSequence
<1> HIDE DEF S
<1>2. t = [i \in 1 .. Len(s) |-> IF i = k THEN e ELSE s[i]] /\ Len(s) \in Nat
  BY <1>1
<1>3. \A i \in 1 .. Len(s) : s[i] \in S
  BY <1>1
<1> HIDE DEF t
<1>4. t \in Seq(S) /\ Len(t) = Len(s)
  BY <1>1, <1>2, <1>3
<1> QED
  BY <1>4, SequenceOf DEF t

-----------------------------------------------------------------------------
\* The parser's depth.

ParseFields == {"pc", "offset", "depth", "stack", "item", "mem", "error", "strays"}

\* The calls that are under way are counted by depth until one has failed.
NestInv ==
  /\ DOMAIN p = ParseFields
  /\ IsSequence(p.stack)
  /\ p.depth \in 0 .. NestingLimit
  /\ p.pc \notin {"fail", "null"} => Len(p.stack) = p.depth

LEMMA NestInit == p = NoParse => NestInv
BY EmptySequence, ParseAssumption DEF NoParse, NestInv, ParseFields

LEMMA NestValue ==
  ASSUME NestInv, parse_value
  PROVE  NestInv'
<1> USE DEF NestInv, ParseFields
<1>1. p.pc = "value"
  BY DEF parse_value, AtValue
<1>2. ASSUME NEW v, NEW o, Returned(v, o) PROVE NestInv'
  BY <1>1, <1>2 DEF Returned
<1>3. ASSUME NEW o, Failed(o) PROVE NestInv'
  BY <1>1, <1>3 DEF Failed
<1>4. ASSUME NEW type, OpenContainer(type) PROVE NestInv'
  <2> DEFINE frame == [type |-> type, kids |-> << >>, name |-> << >>, new |-> 0]
             o == buffer_skip_whitespace(p.offset + 1)
  <2>1. CASE /\ ~TooDeep
             /\ p' = [p EXCEPT !.pc = "element", !.offset = o - 1, !.depth = @ + 1,
                               !.stack = Append(@, frame)]
    <3> HIDE DEF frame, o
    <3>1. p.depth + 1 \in 0 .. NestingLimit
      BY <2>1, ParseAssumption DEF TooDeep
    <3>2. p'.depth = p.depth + 1 /\ p'.stack = Append(p.stack, frame) /\ DOMAIN p' = DOMAIN p
          /\ p'.pc = "element"
      BY <2>1
    <3> QED
      BY <1>1, <3>1, <3>2, SequenceAppend
  <2> QED
    BY <1>2, <1>3, <1>4, <2>1 DEF OpenContainer
<1> QED
  BY <1>2, <1>3, <1>4
     DEF parse_value, Literal, ParseString, parse_number, NoValue

LEMMA NestElement ==
  ASSUME NestInv, Element
  PROVE  NestInv'
<1> USE DEF NestInv, ParseFields
<1> DEFINE n == Len(p.stack)
           e == [p.stack[n] EXCEPT !.new = 1]
           o == buffer_skip_whitespace(p.offset + 1)
<1>1. CASE p' = [p EXCEPT !.pc = "value", !.mem = @ + 1, !.stack[n].new = 1, !.offset = o]
  <2>1. p'.stack = [p.stack EXCEPT ![n] = e] /\ p'.pc = "value" /\ p'.depth = p.depth
        /\ DOMAIN p' = DOMAIN p
    <3> HIDE DEF o, n
    <3> QED
      BY <1>1
  <2> HIDE DEF e, n
  <2>2. IsSequence([p.stack EXCEPT ![n] = e]) /\ Len([p.stack EXCEPT ![n] = e]) = Len(p.stack)
    BY SequenceExcept
  <2>3. p.pc = "element"
    BY DEF Element
  <2> QED
    BY <2>1, <2>2, <2>3
<1>2. CASE Failed(p.offset)
  BY <1>2 DEF Failed
<1> QED
  BY <1>1, <1>2 DEF Element

LEMMA NestMember ==
  ASSUME NestInv, Member
  PROVE  NestInv'
<1> USE DEF NestInv, ParseFields
<1> DEFINE n == Len(p.stack)
           o == buffer_skip_whitespace(p.offset + 1)
           s == parse_string(Text, o)
           c == buffer_skip_whitespace(s.offset)
           new == [p EXCEPT !.mem = @ + 1, !.stack[n].new = 1, !.strays = @ \/ ~CanRead(o)]
           named == [new EXCEPT !.mem = @ + 1, !.stack[n].new = 2,
                                !.stack[n].name = <<s.bytes>>]
           Same(x) == DOMAIN x = DOMAIN p /\ x.depth = p.depth /\ IsSequence(x.stack)
                      /\ Len(x.stack) = Len(p.stack)
<1>1. Same(new)
  <2> DEFINE e == [p.stack[n] EXCEPT !.new = 1]
  <2>1. new.stack = [p.stack EXCEPT ![n] = e] /\ DOMAIN new = DOMAIN p /\ new.depth = p.depth
    <3> HIDE DEF o, n
    <3> QED
      OBVIOUS
  <2> HIDE DEF e, n, new
  <2>2. IsSequence([p.stack EXCEPT ![n] = e]) /\ Len([p.stack EXCEPT ![n] = e]) = Len(p.stack)
    BY SequenceExcept
  <2> QED
    BY <2>1, <2>2
<1>2. Same(named)
  <2> DEFINE e == [new.stack[n] EXCEPT !.new = 2]
             once == [new.stack EXCEPT ![n] = e]
             f == [once[n] EXCEPT !.name = <<s.bytes>>]
             twice == [once EXCEPT ![n] = f]
  <2>1. named.stack = twice /\ DOMAIN named = DOMAIN new /\ named.depth = new.depth
    <3> HIDE DEF o, n, s
    <3>1. DOMAIN new = DOMAIN p
      OBVIOUS
    <3> HIDE DEF new
    <3> QED
      BY <3>1
  <2>2. IsSequence(once) /\ Len(once) = Len(new.stack)
    <3> HIDE DEF n, new, e
    <3> QED
      BY <1>1, SequenceExcept
  <2>3. IsSequence(twice) /\ Len(twice) = Len(once)
    <3> HIDE DEF once, n, new
    <3>1. ASSUME NEW z
          PROVE  IsSequence([once EXCEPT ![n] = z]) /\ Len([once EXCEPT ![n] = z]) = Len(once)
      BY <2>2, SequenceExcept
    <3> HIDE DEF f
    <3> QED
      BY <3>1
  <2> HIDE DEF new, named, once, twice, e, f
  <2> QED
    BY <1>1, <2>1, <2>2, <2>3
<1>3. ASSUME NEW x, Same(x), NEW y, p' = [x EXCEPT !.pc = "fail", !.item = NoItem, !.offset = y]
      PROVE  NestInv'
  <2> HIDE DEF new, named, n
  <2> QED
    BY <1>3
<1>4. ASSUME NEW y, p' = [named EXCEPT !.pc = "value", !.offset = y] PROVE NestInv'
  <2> HIDE DEF named
  <2>1. p.pc = "element"
    BY DEF Member
  <2> QED
    BY <1>2, <1>4, <2>1
<1>5. CASE Failed(p.offset)
  BY <1>5 DEF Failed
<1>6. \/ Failed(p.offset)
      \/ \E x \in {new, named} : \E y \in {o + 1, s.offset, c} :
           p' = [x EXCEPT !.pc = "fail", !.item = NoItem, !.offset = y]
      \/ \E y \in {buffer_skip_whitespace(c + 1)} : p' = [named EXCEPT !.pc = "value", !.offset = y]
  BY DEF Member
<1> HIDE DEF new, named, o, s, c, Same
<1> QED
  BY <1>1, <1>2, <1>3, <1>4, <1>5, <1>6

LEMMA NestChild ==
  ASSUME NestInv, Child
  PROVE  NestInv'
<1> USE DEF NestInv, ParseFields
<1>1. PICK frame, whole, o :
        \/ p' = [p EXCEPT !.pc = "element", !.offset = o, !.stack[Len(p.stack)] = frame]
        \/ p' = [p EXCEPT !.item = whole, !.offset = o + 1, !.stack = Front(@), !.depth = @ - 1]
        \/ p' = [p EXCEPT !.pc = "fail", !.item = NoItem, !.offset = o,
                          !.stack[Len(p.stack)] = frame]
  BY ZenonT(30) DEF Child
<1>2. p.pc = "have" /\ p.stack # << >>
  BY DEF Child
<1>3. IsSequence([p.stack EXCEPT ![Len(p.stack)] = frame])
      /\ Len([p.stack EXCEPT ![Len(p.stack)] = frame]) = Len(p.stack)
  BY SequenceExcept
<1>4. IsSequence(Front(p.stack)) /\ Len(Front(p.stack)) = Len(p.stack) - 1
  BY <1>2, SequenceFront
<1>5. Len(p.stack) \in Nat /\ Len(p.stack) # 0
  BY <1>2 DEF IsSequence
<1>6. CASE p' = [p EXCEPT !.item = whole, !.offset = o + 1, !.stack = Front(@), !.depth = @ - 1]
  <2>1. p'.depth = p.depth - 1 /\ p'.stack = Front(p.stack) /\ p'.pc = p.pc /\ DOMAIN p' = DOMAIN p
    BY <1>6
  <2> QED
    BY <1>2, <1>4, <1>5, <2>1, ParseAssumption
<1> QED
  BY <1>1, <1>2, <1>3, <1>6

LEMMA NestCalls ==
  ASSUME NestInv, ParseNothing \/ Begin \/ End \/ Unwind \/ GiveUp
  PROVE  NestInv'
<1> USE DEF NestInv, ParseFields
<1>1. CASE Unwind
  BY <1>1, SequenceFront DEF Unwind
<1>2. CASE ParseNothing \/ Begin
  BY <1>2 DEF ParseNothing, Begin
<1>3. CASE End \/ GiveUp
  BY <1>3 DEF End, GiveUp
<1> QED
  BY <1>1, <1>2, <1>3

LEMMA NestNext ==
  ASSUME NestInv, [Next]_vars
  PROVE  NestInv'
<1>1. CASE ParseNext
  BY <1>1, NestValue, NestElement, NestMember, NestChild, NestCalls DEF ParseNext
<1>2. CASE UNCHANGED p
  BY <1>2 DEF NestInv
<1>3. CASE ParseAgain
  <2>1. p' = NoParse
    BY <1>3 DEF ParseAgain
  <2> QED
    BY <2>1, EmptySequence, ParseAssumption DEF NoParse, NestInv, ParseFields
<1> QED
  BY <1>1, <1>2, <1>3 DEF Next, vars, Minify, Parse, GoOn, ChooseJob, PrintStep

\* However a text is nested and wherever memory runs out, the parser never
\* recurses deeper than CJSON_NESTING_LIMIT, and depth counts its calls.
THEOREM RecursionBounded == Spec => []NestingBounded
<1>1. Init => NestInv
  BY NestInit DEF Init, ParseInit
<1>2. NestInv /\ [Next]_vars => NestInv'
  BY NestNext
<1>3. NestInv => NestingBounded
  BY ParseAssumption DEF NestInv, NestingBounded
<1> QED
  BY <1>1, <1>2, <1>3, PTL DEF Spec

-----------------------------------------------------------------------------
\* What the printer leaves allocated.

PrintFields == {"pc", "todo", "out", "length", "offset", "mem", "buffer", "strays"}

\* The block print() or cJSON_PrintBuffered allocates for its buffer.
OwnBlock == IF noalloc THEN 0 ELSE 1

\* The buffer is there, one block of the library's or the caller's own, until
\* ensure has freed it.
MemInv ==
  /\ DOMAIN q = PrintFields
  /\ q.pc \in {"idle", "print", "fail", "printed", "failed"}
  /\ q.buffer \in BOOLEAN
  /\ q.pc \in {"idle", "failed"} => q.mem = 0 /\ ~q.buffer
  /\ q.pc \in {"print", "printed"} => q.mem = OwnBlock /\ q.buffer
  /\ q.pc = "fail" => q.mem = IF q.buffer THEN OwnBlock ELSE 0

LEMMA IdleMem == q = Idle => MemInv
BY DEF Idle, NewBuffer, MemInv, PrintFields

\* A step that changes neither the blocks nor where the call is.
LEMMA MemSame ==
  ASSUME MemInv, DOMAIN q' = PrintFields, q'.buffer = q.buffer, q'.mem = q.mem,
         q'.pc = q.pc \/ (q.pc = "print" /\ q'.pc \in {"fail", "printed"}),
         UNCHANGED job
  PROVE  MemInv'
BY DEF MemInv, OwnBlock, noalloc

LEMMA MemPieces ==
  ASSUME MemInv, UNCHANGED job, PrintValue \/ PutFits \/ PutGrows \/ PutRefused \/ UpdateOffset
  PROVE  MemInv'
<1>1. DOMAIN q = PrintFields /\ q.pc = "print"
  BY DEF MemInv, PrintValue, PutFits, PutGrows, PutRefused, UpdateOffset, Does
<1>2. ASSUME NEW b, DOMAIN b = PrintFields, b.pc = q.pc, b.buffer = q.buffer, b.mem = q.mem,
             q' = Written(b)
      PROVE  MemInv'
  BY <1>1, <1>2, MemSame DEF Written, PrintFields
<1>3. CASE PutFits
  BY <1>1, <1>2, <1>3 DEF PutFits
<1>4. CASE PutGrows
  <2>1. PICK b \in {[q EXCEPT !.length = NewSize],
                    [q EXCEPT !.length = NewSize, !.strays = @ \/ q.offset + 1 > q.length]} :
          q' = Written(b)
    BY <1>4, Zenon DEF PutGrows
  <2>2. DOMAIN b = PrintFields /\ b.pc = q.pc /\ b.buffer = q.buffer /\ b.mem = q.mem
    BY <1>1, <2>1 DEF PrintFields
  <2> QED
    BY <1>2, <2>1, <2>2
<1>5. CASE PrintValue
  BY <1>1, <1>5, MemSame DEF PrintValue, PrintFields
<1>6. CASE PutRefused \/ UpdateOffset
  BY <1>1, <1>6, MemSame DEF PutRefused, UpdateOffset, PrintFields
<1> QED
  BY <1>3, <1>4, <1>5, <1>6

\* ensure frees only a buffer it may replace, which is the library's own.
LEMMA MemFails ==
  ASSUME MemInv, UNCHANGED job, PutFails
  PROVE  MemInv'
<1>1. ~noalloc /\ q.pc = "print"
  BY DEF PutFails, Grows, Refused, Does
<1>2. /\ q' = [q EXCEPT !.pc = "fail", !.mem = @ - 1, !.buffer = FALSE, !.length = 0]
      /\ DOMAIN q = PrintFields /\ q.mem = 1
  BY <1>1 DEF PutFails, MemInv, OwnBlock
<1> QED
  BY <1>2 DEF MemInv, PrintFields

LEMMA MemCalls ==
  ASSUME MemInv, UNCHANGED job,
         (\E v : StartPrint(v)) \/ FinishPrint \/ FinishOther \/ PrintFailed
  PROVE  MemInv'
<1>1. ASSUME NEW v, StartPrint(v) PROVE MemInv'
  BY <1>1 DEF StartPrint, MemInv, Idle, NewBuffer, PrintFields, OwnBlock, noalloc
<1>2. CASE FinishPrint
  BY <1>2, MemSame DEF FinishPrint, MemInv, PrintFields
<1>3. CASE FinishOther
  BY <1>3, MemSame DEF FinishOther, MemInv, PrintFields
<1>4. CASE PrintFailed
  <2>1. q'.pc = "failed" /\ ~q'.buffer /\ DOMAIN q' = PrintFields
        /\ q'.mem = IF q.buffer /\ ~noalloc THEN q.mem - 1 ELSE q.mem
    BY <1>4 DEF PrintFailed, MemInv, PrintFields
  <2> QED
    BY <1>4, <2>1 DEF PrintFailed, MemInv, OwnBlock
<1> QED
  BY <1>1, <1>2, <1>3, <1>4

LEMMA MemNext ==
  ASSUME MemInv, [Next]_vars
  PROVE  MemInv'
<1>1. CASE PrintStep
  BY <1>1, MemPieces, MemFails, MemCalls DEF PrintStep, PrintNext
<1>2. CASE UNCHANGED <<job, q>>
  BY <1>2 DEF MemInv, OwnBlock, noalloc
<1>3. CASE q' = Idle
  BY <1>3 DEF Idle, NewBuffer, MemInv, PrintFields
<1> QED
  BY <1>1, <1>2, <1>3 DEF Next, vars, Minify, Parse, GoOn, ChooseJob, ParseAgain

\* Whatever is printed, in whichever way and wherever memory runs out or a
\* caller's buffer ends, the caller is left with the text's block and no other,
\* or with none; nothing is freed twice.
THEOREM PrintLeavesNothing == Spec => []PrintKeepsNothing
<1>1. Init => MemInv
  BY IdleMem DEF Init
<1>2. MemInv /\ [Next]_vars => MemInv'
  BY MemNext
<1>3. MemInv => PrintKeepsNothing
  BY DEF MemInv, OwnBlock, PrintKeepsNothing
<1> QED
  BY <1>1, <1>2, <1>3, PTL DEF Spec

-----------------------------------------------------------------------------
\* What the parser holds.

\* Items whose children are among S, a set of items with all that are in them,
\* and what the parser keeps of such items.
Nodes(S) ==
  [type : {"none", "null", "true", "false", "number", "raw", "string", "array", "object"},
   str : Seq(Nat), num : Int, int : Int, kids : Seq(S), name : Seq(Seq(Nat)), size : Int]

Forest(S) == NoItem \in S /\ S \subseteq Nodes(S)

Frames(S) == [type : {"array", "object"}, kids : Seq(S), name : Seq(Seq(Nat)), new : Int]

Parses(S) ==
  [pc : {"call", "value", "have", "element", "fail", "tree", "null"}, offset : Nat,
   depth : Int, stack : Seq(Frames(S)), item : S, mem : Int, error : Int, strays : BOOLEAN]

ParseType == \E S : Forest(S) /\ p \in Parses(S)

\* An item without children is one over every set.
LEMMA ItemType ==
  ASSUME NEW S, NEW type \in {"none", "null", "true", "false", "number", "raw", "string",
                              "array", "object"}
  PROVE  Item(type) \in Nodes(S)
<1>1. << >> \in Seq(Nat) /\ << >> \in Seq(S) /\ << >> \in Seq(Seq(Nat))
  OBVIOUS
<1> HIDE DEF Nodes
<1> QED
  BY <1>1 DEF Item, Nodes

\* Every set of items can take one more whose children are in it.
LEMMA Undergrowth == Forest({NoItem})
BY ItemType DEF Forest, NoItem

LEMMA ForestGrows ==
  ASSUME NEW S, Forest(S), NEW v \in Nodes(S)
  PROVE  Forest(S \cup {v})
<1> DEFINE T == S \cup {v}
<1>1. Seq(S) \subseteq Seq(T)
  BY SeqMonotonic
<1>2. Nodes(S) \subseteq Nodes(T)
  <2> HIDE DEF T
  <2> QED
    BY <1>1 DEF Nodes
<1> QED
  BY <1>2 DEF Forest

\* A parser that holds items of a set holds items of a larger one.
LEMMA ParsesGrow ==
  ASSUME NEW S, NEW T, S \subseteq T
  PROVE  Frames(S) \subseteq Frames(T) /\ Parses(S) \subseteq Parses(T)
<1>1. Seq(S) \subseteq Seq(T)
  BY SeqMonotonic
<1>2. Frames(S) \subseteq Frames(T)
  BY <1>1 DEF Frames
<1>3. Seq(Frames(S)) \subseteq Seq(Frames(T))
  BY <1>2, SeqMonotonic
<1> QED
  BY <1>2, <1>3 DEF Parses

\* The parser holds what it held, and one item more.
LEMMA TypeMore ==
  ASSUME NEW S, Forest(S), NEW v \in Nodes(S), NEW r \in Parses(S)
  PROVE  \E T : Forest(T) /\ [r EXCEPT !.item = v] \in Parses(T)
<1>1. r \in Parses(S \cup {v})
  BY ParsesGrow
<1>2. [r EXCEPT !.item = v] \in Parses(S \cup {v})
  BY <1>1 DEF Parses
<1> QED
  BY <1>2, ForestGrows

\* The parser has its type before a call, when a value is returned, when one
\* fails, and when parse_value has looked at one.
LEMMA TypeStart == p = NoParse => ParseType
<1>1. NoParse \in Parses({NoItem})
  <2>1. << >> \in Seq(Frames({NoItem}))
    OBVIOUS
  <2> QED
    BY <2>1 DEF NoParse, Parses, OldError
<1> QED
  BY <1>1, Undergrowth DEF ParseType

LEMMA TypeReturned ==
  ASSUME NEW S, Forest(S), p \in Parses(S), NEW v \in Nodes(S), NEW o \in Nat, Returned(v, o)
  PROVE  ParseType'
<1> DEFINE r == [p EXCEPT !.pc = "have", !.offset = o, !.mem = @ + (v.size - 1)]
<1>0. v.size \in Int /\ p.mem \in Int
  BY DEF Parses, Nodes
<1>1. r \in Parses(S)
  <2>1. p.mem + (v.size - 1) \in Int
    BY <1>0
  <2> QED
    BY <2>1 DEF Parses
<1>2. p' = [r EXCEPT !.item = v]
  BY DEF Returned, Parses
<1> HIDE DEF r
<1> QED
  BY <1>1, <1>2, TypeMore DEF ParseType

LEMMA TypeFailed ==
  ASSUME NEW S, Forest(S), p \in Parses(S), NEW o \in Nat, Failed(o)
  PROVE  ParseType'
<1>1. p' \in Parses(S)
  BY DEF Failed, Parses, Forest
<1> QED
  BY <1>1 DEF ParseType

LEMMA TypeValue ==
  ASSUME NEW S, Forest(S), p \in Parses(S), Text \in Seq(Nat), parse_value
  PROVE  ParseType'
<1>0. p.offset \in Nat /\ Len(Text) \in Nat
  BY DEF Parses
<1>1. ASSUME NEW word \in {NullWord, TrueWord, FalseWord}, NEW type \in {"null", "true", "false"},
             Literal(word, type)
      PROVE  ParseType'
  <2> DEFINE v == [Item(type) EXCEPT !.int = IF type = "true" THEN 1 ELSE 0]
  <2>1. v \in Nodes(S)
    <3>1. Item(type) \in Nodes(S)
      BY ItemType
    <3> DEFINE x == IF type = "true" THEN 1 ELSE 0
    <3>2. x \in Int
      OBVIOUS
    <3> HIDE DEF x
    <3> QED
      BY ONLY <3>1, <3>2 DEF Nodes
  <2>2. p.offset + Len(word) \in Nat
    BY <1>0 DEF NullWord, TrueWord, FalseWord
  <2>3. Returned(v, p.offset + Len(word))
    BY <1>1 DEF Literal
  <2> HIDE DEF v
  <2> QED
    BY <2>1, <2>2, <2>3, TypeReturned
<1>2. CASE ParseString
  <2> DEFINE s == parse_string(Text, p.offset)
             v == [Item("string") EXCEPT !.str = s.bytes, !.size = 2]
  <2>1. s.bytes \in Seq(Nat) /\ s.offset \in Nat
    <3> HIDE DEF s
    <3>1. s = parse_string(Text, p.offset)
      BY DEF s
    <3> QED
      BY <1>0, <3>1, StringAt
  <2>2. Returned(v, s.offset) \/ Failed(s.offset) \/ Failed(p.offset + 1)
    BY <1>2 DEF ParseString
  <2> HIDE DEF s
  <2>3. v \in Nodes(S)
    <3>1. Item("string") \in Nodes(S)
      BY ItemType
    <3> DEFINE b == s.bytes
    <3>2. b \in Seq(Nat) /\ 2 \in Int
      BY <2>1
    <3> HIDE DEF b
    <3>3. [Item("string") EXCEPT !.str = b, !.size = 2] \in Nodes(S)
      BY ONLY <3>1, <3>2 DEF Nodes
    <3> QED
      BY <3>3 DEF b
  <2> HIDE DEF v
  <2> QED
    BY <1>0, <2>1, <2>2, <2>3, TypeReturned, TypeFailed
<1>3. CASE parse_number
  <2> DEFINE t == NumberAt(Text, p.offset)
             n == strtod(t)
             v == [Item("number") EXCEPT !.num = n.value, !.int = Saturated(n.value)]
  <2>1. /\ p.offset <= Len(Text)
        /\ Failed(p.offset) \/ Returned(v, p.offset + n.length)
    BY <1>0, <1>3 DEF parse_number, CanRead
  <2>2. t \in Seq(Nat)
    <3> HIDE DEF t
    <3>1. t = NumberAt(Text, p.offset)
      BY DEF t
    <3> QED
      BY <1>0, <2>1, <3>1, NumberText
  <2>3. n.length \in Nat /\ n.value \in Int
    <3> HIDE DEF t, n
    <3>1. n = strtod(t)
      BY DEF n
    <3> QED
      BY <2>2, <3>1, StrtodFits
  <2> HIDE DEF n
  <2>4. v \in Nodes(S)
    <3>1. Item("number") \in Nodes(S)
      BY ItemType
    <3>2. Saturated(n.value) \in Int
      BY <2>3, TextAssumption DEF Saturated
    <3> QED
      BY <2>3, <3>1, <3>2 DEF Nodes
  <2> HIDE DEF v
  <2> QED
    BY <1>0, <2>1, <2>3, <2>4, TypeReturned, TypeFailed
<1>4. ASSUME NEW type \in {"array", "object"}, OpenContainer(type) PROVE ParseType'
  <2> DEFINE o == buffer_skip_whitespace(p.offset + 1)
             f == [type |-> type, kids |-> << >>, name |-> << >>, new |-> 0]
  <2>1. o \in Nat /\ o >= 1
    <3> HIDE DEF o
    <3>1. o = buffer_skip_whitespace(p.offset + 1) /\ p.offset + 1 \in Nat
      BY <1>0 DEF o
    <3>2. o \in Nat /\ p.offset + 1 <= o
      BY ONLY <3>1, Text \in Seq(Nat), SkipAt
    <3> QED
      BY <1>0, <3>2
  <2>2. \/ Failed(p.offset) \/ Returned(Item(type), o + 1) \/ Failed(o - 1)
        \/ p' = [p EXCEPT !.pc = "element", !.offset = o - 1, !.depth = @ + 1,
                          !.stack = Append(@, f)]
    BY <1>4 DEF OpenContainer
  <2> HIDE DEF o
  <2>3. Item(type) \in Nodes(S) /\ o + 1 \in Nat /\ o - 1 \in Nat
    BY <2>1, ItemType
  <2>4. CASE p' = [p EXCEPT !.pc = "element", !.offset = o - 1, !.depth = @ + 1,
                            !.stack = Append(@, f)]
    <3>1. f \in Frames(S)
      BY DEF Frames
    <3> HIDE DEF f
    <3>2. Append(p.stack, f) \in Seq(Frames(S))
      BY <3>1 DEF Parses
    <3>3. p' \in Parses(S)
      <4> DEFINE st == Append(p.stack, f)
      <4>1. p.depth + 1 \in Int
        BY DEF Parses
      <4>2. p' = [p EXCEPT !.pc = "element", !.offset = o - 1, !.depth = p.depth + 1,
                           !.stack = st]
        BY <2>4
      <4> HIDE DEF st, f
      <4>3. st \in Seq(Frames(S))
        BY <3>2 DEF st
      <4> QED
        BY ONLY p \in Parses(S), <2>3, <4>1, <4>2, <4>3 DEF Parses
    <3> QED
      BY <3>3 DEF ParseType
  <2> QED
    BY <1>0, <2>2, <2>3, <2>4, TypeReturned, TypeFailed
<1>5. CASE NoValue
  BY <1>0, <1>5, TypeFailed DEF NoValue
<1> QED
  BY <1>1, <1>2, <1>3, <1>4, <1>5 DEF parse_value

-----------------------------------------------------------------------------
\* The blocks that items, frames and stacks stand for.

\* The blocks of a row of items, counted from a base.
Sizes(kids) == [i \in 1 .. Len(kids) |-> kids[i].size]

SizeOf(kids, base) == SumOf(Sizes(kids), Len(kids), base)

\* The blocks of a row of items as the sum that print and free count.
LEMMA SizesFold ==
  ASSUME NEW S, NEW kids \in Seq(S), NEW base
  PROVE  FoldLeft(LAMBDA n, k : n + k.size, base, kids) = SizeOf(kids, base)
<1> DEFINE n == Len(kids)
           w == Sizes(kids)
           P(f) == f = [x \in SUBSET (1 .. n) |-> IF x = {} THEN base
                          ELSE f[x \ {Max(x)}] + w[Max(x)]]
           Q(f) == f = [x \in SUBSET DOMAIN kids |-> IF x = {} THEN base
                          ELSE f[x \ {Max(x)}] + kids[Max(x)].size]
<1>1. \A x \in SUBSET (1 .. n) : x # {} => Max(x) \in 1 .. n
  <2>1. n \in Nat
    OBVIOUS
  <2> HIDE DEF n
  <2> QED
    BY <2>1, MaxWithin
<1>2. DOMAIN kids = 1 .. n
  OBVIOUS
<1>3. ASSUME NEW f PROVE P(f) <=> Q(f)
  <2> DEFINE a == [x \in SUBSET (1 .. n) |-> IF x = {} THEN base
                     ELSE f[x \ {Max(x)}] + w[Max(x)]]
             b == [x \in SUBSET (1 .. n) |-> IF x = {} THEN base
                     ELSE f[x \ {Max(x)}] + kids[Max(x)].size]
  <2>1. \A i \in 1 .. n : w[i] = kids[i].size
    BY DEF Sizes
  <2> HIDE DEF n, w
  <2>2. a = b
    BY <1>1, <2>1
  <2>3. P(f) <=> f = a
    OBVIOUS
  <2>4. Q(f) <=> f = b
    BY <1>2
  <2> HIDE DEF a, b, P, Q
  <2> QED
    BY <2>2, <2>3, <2>4
<1>4. (CHOOSE f : P(f)) = (CHOOSE f : Q(f))
  <2> HIDE DEF P, Q
  <2> QED
    BY <1>3, Zenon
<1>5. SizeOf(kids, base) = (CHOOSE f : P(f))[1 .. n]
  BY DEF SizeOf, SumOf
<1>6. FoldLeft(LAMBDA m, k : m + k.size, base, kids) = (CHOOSE f : Q(f))[DOMAIN kids]
  BY DEF FoldLeft, MapThenFoldSet
<1> HIDE DEF P, Q
<1> QED
  BY <1>2, <1>4, <1>5, <1>6

LEMMA SizesType ==
  ASSUME NEW R, NEW S, S \subseteq Nodes(R), NEW kids \in Seq(S)
  PROVE  Len(kids) \in Nat /\ Sizes(kids) \in [1 .. Len(kids) -> Int]
<1>1. \A i \in 1 .. Len(kids) : kids[i].size \in Int
  BY DEF Nodes
<1> QED
  BY <1>1 DEF Sizes

LEMMA SizeInt ==
  ASSUME NEW R, NEW S, S \subseteq Nodes(R), NEW kids \in Seq(S), NEW base \in Int
  PROVE  SizeOf(kids, base) \in Int
BY SizesType, SumInt DEF SizeOf

\* The blocks of no items, of one more, and from another base.
LEMMA SizeNone == \A base \in Int : SizeOf(<< >>, base) = base
<1>1. Len(<< >>) = 0
  OBVIOUS
<1> QED
  BY <1>1, SumNone DEF SizeOf

LEMMA SizeMore ==
  ASSUME NEW R, NEW S, S \subseteq Nodes(R), NEW kids \in Seq(S), NEW k \in Nodes(R),
         NEW base \in Int
  PROVE  SizeOf(Append(kids, k), base) = SizeOf(kids, base) + k.size
<1> DEFINE n == Len(kids)
           w == Sizes(kids)
           u == Sizes(Append(kids, k))
<1>1. n \in Nat /\ w \in [1 .. n -> Int] /\ k.size \in Int
  BY SizesType DEF Nodes
<1>2. Len(Append(kids, k)) = n + 1 /\ n + 1 \in 1 .. n + 1 /\ 1 .. n \subseteq 1 .. n + 1
  OBVIOUS
<1>3. Append(kids, k)[n + 1] = k /\ \A i \in 1 .. n : Append(kids, k)[i] = kids[i]
  OBVIOUS
<1>a. DOMAIN u = 1 .. n + 1
  BY <1>2 DEF Sizes
<1>4. u[n + 1] = k.size
  BY <1>2, <1>3 DEF Sizes
<1>5. \A i \in 1 .. n : u[i] = w[i]
  <2>1. \A i \in 1 .. n : u[i] = Append(kids, k)[i].size
    BY <1>2 DEF Sizes
  <2>2. \A i \in 1 .. n : w[i] = kids[i].size
    BY DEF Sizes
  <2> HIDE DEF u, w, n
  <2> QED
    BY <1>3, <2>1, <2>2
<1>6. u \in [1 .. n + 1 -> Int]
  <2>1. u = [i \in 1 .. n + 1 |-> u[i]]
    BY <1>2 DEF Sizes
  <2>2. \A i \in 1 .. n + 1 : i = n + 1 \/ i \in 1 .. n
    BY <1>1
  <2> HIDE DEF u, w, n
  <2>3. \A i \in 1 .. n + 1 : u[i] \in Int
    BY <1>1, <1>4, <1>5, <2>2
  <2> QED
    BY <2>1, <2>3
<1>7. SizeOf(Append(kids, k), base) = SumOf(u, n + 1, base)
  BY <1>2 DEF SizeOf
<1>8. SizeOf(kids, base) = SumOf(w, n, base)
  BY DEF SizeOf
<1> HIDE DEF u, w, n
<1> QED
  BY <1>1, <1>4, <1>5, <1>6, <1>7, <1>8, SumMore

LEMMA SizeBase ==
  ASSUME NEW R, NEW S, S \subseteq Nodes(R), NEW kids \in Seq(S), NEW base \in Int,
         NEW more \in Int
  PROVE  SizeOf(kids, base + more) = SizeOf(kids, base) + more
<1>1. Len(kids) \in Nat /\ Sizes(kids) \in [1 .. Len(kids) -> Int]
  BY SizesType
<1> DEFINE n == Len(kids)
           w == Sizes(kids)
<1>2. SizeOf(kids, base) = SumOf(w, n, base) /\ SizeOf(kids, base + more) = SumOf(w, n, base + more)
  BY DEF SizeOf
<1> HIDE DEF n, w
<1> QED
  BY <1>1, <1>2, SumBase DEF n, w

\* The blocks of a frame: its container's children, and the child that is begun.
LEMMA BlocksOf ==
  ASSUME NEW R, NEW S, S \subseteq Nodes(R), NEW f \in Frames(S)
  PROVE  Blocks(f) = SizeOf(f.kids, f.new) /\ Blocks(f) \in Int
<1>1. f.kids \in Seq(S) /\ f.new \in Int
  BY DEF Frames
<1>2. Blocks(f) = SizeOf(f.kids, f.new)
  BY <1>1, SizesFold DEF Blocks
<1> QED
  BY <1>1, <1>2, SizeInt

\* A stack is what is under its top, and its top.
LEMMA TopOf ==
  ASSUME NEW F, NEW s \in Seq(F), s # << >>
  PROVE  /\ Front(s) \in Seq(F) /\ s[Len(s)] \in F /\ Last(s) = s[Len(s)]
         /\ s = Append(Front(s), s[Len(s)])
         /\ Len(s) = Len(Front(s)) + 1
         /\ \A f : [s EXCEPT ![Len(s)] = f] = Append(Front(s), f)
<1> DEFINE n == Len(s)
<1>1. n \in Nat /\ n # 0 /\ n - 1 \in Nat /\ DOMAIN s = 1 .. n /\ \A i \in 1 .. n : s[i] \in F
  OBVIOUS
<1>2. Front(s) = [i \in 1 .. n - 1 |-> s[i]]
  BY DEF Front
<1>3. Front(s) \in Seq(F) /\ Len(Front(s)) = n - 1
  <2> HIDE DEF n
  <2>1. \A i \in 1 .. n - 1 : s[i] \in F
    BY <1>1
  <2> QED
    BY <1>1, <1>2, <2>1
<1>4. ASSUME NEW f PROVE [s EXCEPT ![n] = f] = Append(Front(s), f)
  <2> DEFINE G == F \cup {f}
             a == [s EXCEPT ![n] = f]
             b == Append(Front(s), f)
  <2>1. s \in Seq(G) /\ Front(s) \in Seq(G) /\ f \in G
    BY <1>3, SeqMonotonic
  <2> HIDE DEF G
  <2>2. /\ b \in Seq(G) /\ Len(b) = n /\ b[n] = f
        /\ \A i \in 1 .. n - 1 : b[i] = Front(s)[i]
    <3>1. /\ b \in Seq(G) /\ Len(b) = Len(Front(s)) + 1 /\ b[Len(Front(s)) + 1] = f
          /\ \A i \in 1 .. Len(Front(s)) : b[i] = Front(s)[i]
      BY <2>1, AppendProperties
    <3>2. Len(Front(s)) = n - 1 /\ Len(Front(s)) + 1 = n
      BY <1>1, <1>3
    <3> HIDE DEF b, n
    <3> QED
      BY <3>1, <3>2
  <2>3. a \in Seq(G) /\ Len(a) = n
    BY <2>1
  <2>4. \A i \in 1 .. n : a[i] = b[i]
    <3>1. \A i \in 1 .. n - 1 : Front(s)[i] = s[i]
      BY <1>2
    <3>2. a[n] = f
      BY <1>1
    <3>4. \A i \in 1 .. n - 1 : i \in DOMAIN s /\ i # n
      <4> HIDE DEF n
      <4> QED
        BY <1>1
    <3>5. \A i \in 1 .. n - 1 : a[i] = s[i]
      BY <3>4
    <3> HIDE DEF a, b, n
    <3>3. \A i \in 1 .. n : i = n \/ i \in 1 .. n - 1
      BY <1>1
    <3> QED
      BY <2>2, <3>1, <3>2, <3>3, <3>5
  <2>5. a = [i \in 1 .. n |-> a[i]] /\ b = [i \in 1 .. n |-> b[i]]
    <3>1. \A z \in Seq(G) : z = [i \in 1 .. Len(z) |-> z[i]]
      OBVIOUS
    <3> QED
      BY <2>2, <2>3, <3>1
  <2>6. a = b
    BY <2>4, <2>5
  <2> QED
    BY <2>6 DEF a, b, n
<1>5. s = [s EXCEPT ![n] = s[n]] /\ s[n] \in F
  BY <1>1
<1>6. s = Append(Front(s), s[n])
  BY <1>4, <1>5
<1>7. Last(s) = s[n]
  BY DEF Last
<1>8. n = Len(Front(s)) + 1
  BY <1>1, <1>3
<1> HIDE DEF n
<1> QED
  BY <1>3, <1>4, <1>5, <1>6, <1>7, <1>8 DEF n

\* What the frames have allocated.
Held(stack) == SumOf([i \in 1 .. Len(stack) |-> Blocks(stack[i])], Len(stack), 0)

\* What no frame holds, what any hold, and one more.
LEMMA HeldNone == Held(<< >>) = 0
<1>1. Len(<< >>) = 0 /\ 0 \in Int
  OBVIOUS
<1> QED
  BY <1>1, SumNone DEF Held

LEMMA HeldType ==
  ASSUME NEW R, NEW S, S \subseteq Nodes(R), NEW s \in Seq(Frames(S))
  PROVE  /\ Len(s) \in Nat /\ [i \in 1 .. Len(s) |-> Blocks(s[i])] \in [1 .. Len(s) -> Int]
         /\ Held(s) \in Int
<1>1. \A i \in 1 .. Len(s) : s[i] \in Frames(S)
  OBVIOUS
<1>2. \A i \in 1 .. Len(s) : Blocks(s[i]) \in Int
  BY <1>1, BlocksOf
<1>3. [i \in 1 .. Len(s) |-> Blocks(s[i])] \in [1 .. Len(s) -> Int] /\ Len(s) \in Nat /\ 0 \in Int
  BY <1>2
<1> QED
  BY <1>3, SumInt DEF Held

LEMMA HeldPush ==
  ASSUME NEW R, NEW S, S \subseteq Nodes(R), NEW s \in Seq(Frames(S)), NEW f \in Frames(S)
  PROVE  Held(Append(s, f)) = Held(s) + Blocks(f)
<1> DEFINE n == Len(s)
           t == Append(s, f)
           w == [i \in 1 .. n |-> Blocks(s[i])]
           u == [i \in 1 .. Len(t) |-> Blocks(t[i])]
<1>1. n \in Nat /\ w \in [1 .. n -> Int]
  BY HeldType
<1>2. Len(t) = n + 1 /\ t[n + 1] = f /\ t \in Seq(Frames(S)) /\ \A i \in 1 .. n : t[i] = s[i]
  OBVIOUS
<1>3. u \in [1 .. Len(t) -> Int]
  <2> HIDE DEF t
  <2> QED
    BY <1>2, HeldType
<1>4. Held(t) = SumOf(u, Len(t), 0) /\ Held(s) = SumOf(w, n, 0)
  BY DEF Held
<1> HIDE DEF t
<1>5. u[n + 1] = Blocks(f) /\ \A i \in 1 .. n : u[i] = w[i]
  <2>1. n + 1 \in 1 .. Len(t) /\ \A i \in 1 .. n : i \in 1 .. Len(t)
    BY <1>1, <1>2
  <2> HIDE DEF n
  <2> QED
    BY <1>2, <2>1
<1>6. u \in [1 .. n + 1 -> Int] /\ 0 \in Int
  BY <1>2, <1>3
<1>7. Held(t) = SumOf(u, n + 1, 0)
  BY <1>2, <1>4
<1> HIDE DEF u, w, n
<1>8. Held(t) = Held(s) + Blocks(f)
  BY <1>1, <1>4, <1>5, <1>6, <1>7, SumMore
<1> QED
  BY <1>8 DEF t

-----------------------------------------------------------------------------
\* The parser, action by action.

\* What an action makes of the parser, field by field, but for the depth.
Becomes(pc, o, stack, item, mem, strays) ==
  \E d \in Int :
    p' = [pc |-> pc, offset |-> o, depth |-> d, stack |-> stack, item |-> item,
          mem |-> mem, error |-> p.error, strays |-> strays]

Top(f) == Append(Front(p.stack), f)

\* The parser's fields and their types.
LEMMA FieldsOf ==
  ASSUME NEW S, p \in Parses(S)
  PROVE  /\ p = [pc |-> p.pc, offset |-> p.offset, depth |-> p.depth, stack |-> p.stack,
                 item |-> p.item, mem |-> p.mem, error |-> p.error, strays |-> p.strays]
         /\ p.offset \in Nat /\ p.depth \in Int /\ p.stack \in Seq(Frames(S)) /\ p.item \in S
         /\ p.mem \in Int /\ p.error \in Int /\ p.strays \in BOOLEAN
BY DEF Parses

\* What a failed call, a returned value, a first child and a member make of the
\* parser.
LEMMA FailedBecomes ==
  ASSUME NEW S, p \in Parses(S), NEW o, Failed(o)
  PROVE  Becomes("fail", o, p.stack, NoItem, p.mem, p.strays)
BY FieldsOf DEF Failed, Becomes, Parses

LEMMA ReturnedBecomes ==
  ASSUME NEW S, p \in Parses(S), NEW v, NEW o, Returned(v, o)
  PROVE  Becomes("have", o, p.stack, v, p.mem + (v.size - 1), p.strays)
BY FieldsOf DEF Returned, Becomes, Parses

LEMMA ElementBecomes ==
  ASSUME NEW S, p \in Parses(S), p.stack # << >>, Element
  PROVE  \/ Failed(p.offset)
         \/ Becomes("value", buffer_skip_whitespace(p.offset + 1), Top([Frame EXCEPT !.new = 1]),
                    p.item, p.mem + 1, p.strays)
<1> DEFINE n == Len(p.stack)
           e == [p.stack[n] EXCEPT !.new = 1]
           o == buffer_skip_whitespace(p.offset + 1)
<1>1. ASSUME p' = [p EXCEPT !.pc = "value", !.mem = @ + 1, !.stack[n].new = 1, !.offset = o]
      PROVE  Becomes("value", o, Top(e), p.item, p.mem + 1, p.strays)
  <2>1. [p.stack EXCEPT ![n] = e] = Top(e)
    BY FieldsOf, TopOf DEF Top
  <2>2. p' = [p EXCEPT !.pc = "value", !.mem = p.mem + 1, !.stack = [p.stack EXCEPT ![n] = e],
                       !.offset = o]
    <3> HIDE DEF o, n
    <3> QED
      BY <1>1, FieldsOf
  <2> HIDE DEF e, n, o
  <2>3. p' = [p EXCEPT !.pc = "value", !.mem = p.mem + 1, !.stack = Top(e), !.offset = o]
    BY <2>1, <2>2
  <2> HIDE DEF Top
  <2> QED
    BY <2>3 DEF Becomes, Parses
<1>2. e = [Frame EXCEPT !.new = 1]
  BY FieldsOf, TopOf DEF Frame
<1>3. \/ Failed(p.offset)
      \/ p' = [p EXCEPT !.pc = "value", !.mem = @ + 1, !.stack[n].new = 1, !.offset = o]
  BY DEF Element
<1> HIDE DEF e, o, n
<1>4. Failed(p.offset) \/ Becomes("value", o, Top(e), p.item, p.mem + 1, p.strays)
  BY <1>1, <1>3
<1> QED
  BY <1>2, <1>4 DEF o

LEMMA MemberBecomes ==
  ASSUME NEW S, p \in Parses(S), p.stack # << >>, Text \in Seq(Nat), Member,
         NEW o, o = buffer_skip_whitespace(p.offset + 1), NEW s, s = parse_string(Text, o),
         NEW c, c = buffer_skip_whitespace(s.offset),
         NEW f1, f1 = [Frame EXCEPT !.new = 1],
         NEW f2, f2 = [Frame EXCEPT !.new = 2, !.name = <<s.bytes>>],
         NEW b, b = (p.strays \/ ~CanRead(o))
  PROVE  \/ Failed(p.offset)
         \/ s.opens /\ Becomes("fail", o + 1, Top(f1), NoItem, p.mem + 1, b)
         \/ ~s.ok /\ Becomes("fail", s.offset, Top(f1), NoItem, p.mem + 1, b)
         \/ s.ok /\ ~Sees(c, Colon) /\ Becomes("fail", c, Top(f2), NoItem, p.mem + 2, b)
         \/ s.ok /\ Sees(c, Colon)
            /\ Becomes("value", buffer_skip_whitespace(c + 1), Top(f2), p.item, p.mem + 2, b)
<1> DEFINE n == Len(p.stack)
           new == [p EXCEPT !.mem = @ + 1, !.stack[n].new = 1, !.strays = @ \/ ~CanRead(o)]
           named == [new EXCEPT !.mem = @ + 1, !.stack[n].new = 2, !.stack[n].name = <<s.bytes>>]
           With(st, m) == [pc |-> p.pc, offset |-> p.offset, depth |-> p.depth, stack |-> st,
                           item |-> p.item, mem |-> m, error |-> p.error, strays |-> b]
<1>1. p.stack \in Seq(Frames(S)) /\ p.mem \in Int /\ n \in Nat /\ n \in 1 .. n
  <2>1. p.stack \in Seq(Frames(S)) /\ p.mem \in Int
    BY FieldsOf
  <2> QED
    BY <2>1
<1>2. Frame = p.stack[n] /\ p.stack[n] \in Frames(S)
      /\ \A f : [p.stack EXCEPT ![n] = f] = Top(f)
  BY <1>1, TopOf DEF Frame, Top
<1>3. new = With(Top(f1), p.mem + 1)
  <2> DEFINE ne == [p.stack EXCEPT ![n] = [p.stack[n] EXCEPT !.new = 1]]
  <2>1. new = With(ne, p.mem + 1)
    <3>1. new = [p EXCEPT !.mem = p.mem + 1, !.stack = ne, !.strays = b]
      <4> HIDE DEF n
      <4> QED
        BY <1>1
    <3> HIDE DEF new, ne
    <3> QED
      BY <3>1, FieldsOf
  <2>2. [p.stack EXCEPT ![n] = f1] = Top(f1)
    BY <1>2
  <2> QED
    BY <1>2, <2>1, <2>2
<1>4. named = With(Top(f2), p.mem + 2)
  <2> DEFINE g == [p.stack[n] EXCEPT !.new = 2, !.name = <<s.bytes>>]
             st == [p.stack EXCEPT ![n] = f1]
             st2 == [st EXCEPT ![n].new = 2, ![n].name = <<s.bytes>>]
             st3 == [p.stack EXCEPT ![n] = g]
  <2>1. st2 = st3
    <3>1. f1 \in Frames(S)
      <4>1. Frame \in Frames(S) /\ 1 \in Int
        BY <1>2
      <4> QED
        BY ONLY <4>1, f1 = [Frame EXCEPT !.new = 1] DEF Frames
    <3>2. st[n] = f1 /\ st \in Seq(Frames(S)) /\ DOMAIN st = 1 .. n
      <4>1. DOMAIN p.stack = 1 .. n
        BY <1>1
      <4> HIDE DEF n
      <4> QED
        BY <1>1, <3>1, <4>1
    <3> DEFINE g1 == [f1 EXCEPT !.new = 2]
               g2 == [g1 EXCEPT !.name = <<s.bytes>>]
    <3>3. st2 = [[st EXCEPT ![n] = g1] EXCEPT ![n] = g2]
      <4> HIDE DEF st, n
      <4> QED
        BY <1>1, <3>2
    <3>4. g2 = g
      BY <1>2 DEF Frames
    <3> HIDE DEF g, g1, g2, n
    <3>5. DOMAIN p.stack = 1 .. n
      BY <1>1 DEF n
    <3> QED
      BY <1>1, <3>3, <3>4, <3>5
  <2>2. named = With(st2, (p.mem + 1) + 1)
    <3>1. [p.stack EXCEPT ![n] = f1] = Top(f1)
      BY <1>2
    <3>2. new = With(st, p.mem + 1)
      BY <1>3, <3>1
    <3>3. new.mem = p.mem + 1 /\ new.stack = st /\ DOMAIN new = DOMAIN p
      BY <3>2, FieldsOf
    <3> HIDE DEF new, n, st
    <3>4. named = [new EXCEPT !.mem = new.mem + 1,
                              !.stack = [new.stack EXCEPT ![n].new = 2, ![n].name = <<s.bytes>>]]
      OBVIOUS
    <3>5. named = [new EXCEPT !.mem = (p.mem + 1) + 1, !.stack = st2]
      BY <3>3, <3>4
    <3> HIDE DEF named, st2
    <3> QED
      BY <3>2, <3>5
  <2>3. st3 = Top(g) /\ g = f2
    BY <1>2
  <2>4. (p.mem + 1) + 1 = p.mem + 2
    BY <1>1
  <2> HIDE DEF named, st2, st3, g
  <2> QED
    BY <2>1, <2>2, <2>3, <2>4
<1>5. ASSUME NEW r, NEW st, NEW m, NEW pc, NEW y, NEW v, r = With(st, m),
             p' = [r EXCEPT !.pc = pc, !.item = v, !.offset = y]
      PROVE  Becomes(pc, y, st, v, m, b)
  BY <1>5, FieldsOf DEF Becomes
<1>6. ASSUME NEW r, NEW st, NEW m, NEW pc, NEW y, r = With(st, m),
             p' = [r EXCEPT !.pc = pc, !.offset = y]
      PROVE  Becomes(pc, y, st, p.item, m, b)
  BY <1>6, FieldsOf DEF Becomes
<1>7. \/ Failed(p.offset)
      \/ s.opens /\ p' = [new EXCEPT !.pc = "fail", !.item = NoItem, !.offset = o + 1]
      \/ ~s.ok /\ p' = [new EXCEPT !.pc = "fail", !.item = NoItem, !.offset = s.offset]
      \/ s.ok /\ ~Sees(c, Colon)
         /\ p' = [named EXCEPT !.pc = "fail", !.item = NoItem, !.offset = c]
      \/ s.ok /\ Sees(c, Colon)
         /\ p' = [named EXCEPT !.pc = "value", !.offset = buffer_skip_whitespace(c + 1)]
  BY Zenon DEF Member
<1> HIDE DEF new, named, n, With
<1>8. CASE Failed(p.offset)
  BY <1>8
<1>9. CASE s.opens /\ p' = [new EXCEPT !.pc = "fail", !.item = NoItem, !.offset = o + 1]
  BY <1>3, <1>5, <1>9
<1>10. CASE ~s.ok /\ p' = [new EXCEPT !.pc = "fail", !.item = NoItem, !.offset = s.offset]
  BY <1>3, <1>5, <1>10
<1>11. CASE s.ok /\ ~Sees(c, Colon)
            /\ p' = [named EXCEPT !.pc = "fail", !.item = NoItem, !.offset = c]
  BY <1>4, <1>5, <1>11
<1>12. CASE s.ok /\ Sees(c, Colon)
            /\ p' = [named EXCEPT !.pc = "value", !.offset = buffer_skip_whitespace(c + 1)]
  BY <1>4, <1>6, <1>12
<1> QED
  BY <1>7, <1>8, <1>9, <1>10, <1>11, <1>12

\* What the opening of an array or an object makes of the parser.
LEMMA OpenBecomes ==
  ASSUME NEW S, p \in Parses(S), NEW type, OpenContainer(type),
         NEW o, o = buffer_skip_whitespace(p.offset + 1),
         NEW f, f = [type |-> type, kids |-> << >>, name |-> << >>, new |-> 0]
  PROVE  \/ Failed(p.offset)
         \/ CanRead(o) /\ Returned(Item(type), o + 1)
         \/ ~CanRead(o) /\ Failed(o - 1)
         \/ CanRead(o) /\ Becomes("element", o - 1, Append(p.stack, f), p.item, p.mem, p.strays)
<1>1. ASSUME p' = [p EXCEPT !.pc = "element", !.offset = o - 1, !.depth = @ + 1,
                            !.stack = Append(@, f)]
      PROVE  Becomes("element", o - 1, Append(p.stack, f), p.item, p.mem, p.strays)
  <2> DEFINE d == p.depth + 1
             st == Append(p.stack, f)
  <2>1. d \in Int
    BY FieldsOf
  <2>2. p' = [p EXCEPT !.pc = "element", !.offset = o - 1, !.depth = d, !.stack = st]
    BY <1>1
  <2> HIDE DEF d, st
  <2>3. p' = [pc |-> "element", offset |-> o - 1, depth |-> d, stack |-> st,
              item |-> p.item, mem |-> p.mem, error |-> p.error, strays |-> p.strays]
    BY <2>2, FieldsOf
  <2> QED
    BY <2>1, <2>3 DEF Becomes, st
<1>2. \/ Failed(p.offset)
      \/ Sees(o, Closing(type)) /\ Returned(Item(type), o + 1)
      \/ ~CanRead(o) /\ Failed(o - 1)
      \/ CanRead(o) /\ p' = [p EXCEPT !.pc = "element", !.offset = o - 1, !.depth = @ + 1,
                                      !.stack = Append(@, f)]
  BY DEF OpenContainer
<1> QED
  BY <1>1, <1>2 DEF Sees

\* The child that a value becomes, and the container that it completes.
Kid == [p.item EXCEPT !.name = Frame.name, !.size = @ + Len(Frame.name)]

With(kids) == [Frame EXCEPT !.kids = kids, !.name = << >>, !.new = 0]

Completed(kids) == [Item(Frame.type) EXCEPT !.kids = kids, !.size = SizeOf(kids, 1)]

\* A child that is linked into its container.
LEMMA KidType ==
  ASSUME NEW S, Forest(S), p \in Parses(S), p.stack # << >>
  PROVE  /\ Frame \in Frames(S) /\ Kid \in Nodes(S)
         /\ Kid.size = p.item.size + Len(Frame.name)
         /\ Append(Frame.kids, Kid) \in Seq(S \cup {Kid})
<1>1. p.stack \in Seq(Frames(S)) /\ p.item \in Nodes(S)
  BY FieldsOf DEF Forest
<1>2. Frame \in Frames(S)
  BY <1>1, TopOf DEF Frame
<1>3. Frame.name \in Seq(Seq(Nat)) /\ Len(Frame.name) \in Nat /\ Frame.kids \in Seq(S)
  BY <1>2 DEF Frames
<1>4. p.item.size \in Int /\ p.item.size + Len(Frame.name) \in Int
  BY <1>1, <1>3 DEF Nodes
<1>5. Kid \in Nodes(S) /\ Kid.size = p.item.size + Len(Frame.name)
  <2> DEFINE nm == Frame.name
             z == p.item.size + Len(Frame.name)
  <2>1. Kid = [p.item EXCEPT !.name = nm, !.size = z]
    BY DEF Kid
  <2>2. nm \in Seq(Seq(Nat)) /\ z \in Int
    BY <1>3, <1>4
  <2> HIDE DEF nm, z
  <2>3. Kid \in Nodes(S) /\ Kid.size = z
    BY ONLY <1>1, <2>1, <2>2 DEF Nodes
  <2> QED
    BY <2>3 DEF z
<1>6. Frame.kids \in Seq(S \cup {Kid})
  BY <1>3, SeqMonotonic
<1>7. Append(Frame.kids, Kid) \in Seq(S \cup {Kid})
  BY <1>6, AppendProperties
<1> QED
  BY <1>2, <1>5, <1>7

\* What the parser becomes behind a child: at the next one, with the container
\* completed, or failed.
LEMMA ChildBecomes ==
  ASSUME NEW S, Forest(S), p \in Parses(S), p.stack # << >>, Child,
         NEW kids, kids = Append(Frame.kids, Kid),
         NEW o, o = buffer_skip_whitespace(p.offset)
  PROVE  \/ Sees(o, Comma) /\ Becomes("element", o, Top(With(kids)), p.item, p.mem, p.strays)
         \/ CanRead(o) /\ Becomes(p.pc, o + 1, Front(p.stack), Completed(kids), p.mem, p.strays)
         \/ Becomes("fail", o, Top(With(kids)), NoItem, p.mem, p.strays)
<1> DEFINE n == Len(p.stack)
           f == With(kids)
           whole == [Item(Frame.type) EXCEPT
                      !.kids = kids, !.size = FoldLeft(LAMBDA m, k : m + k.size, 1, kids)]
<1>1. whole = Completed(kids)
  <2>1. kids \in Seq(S \cup {Kid})
    BY KidType
  <2>2. FoldLeft(LAMBDA m, k : m + k.size, 1, kids) = SizeOf(kids, 1)
    BY <2>1, SizesFold
  <2> QED
    BY <2>2 DEF Completed
<1>2. \/ Sees(o, Comma) /\ p' = [p EXCEPT !.pc = "element", !.offset = o, !.stack[n] = f]
      \/ Sees(o, Closing(Frame.type))
         /\ p' = [p EXCEPT !.item = whole, !.offset = o + 1, !.stack = Front(@), !.depth = @ - 1]
      \/ p' = [p EXCEPT !.pc = "fail", !.item = NoItem, !.offset = o, !.stack[n] = f]
  BY Zenon DEF Child, With, Kid
<1>3. [p.stack EXCEPT ![n] = f] = Top(f)
  BY FieldsOf, TopOf DEF Top
<1> HIDE DEF f, whole, n
<1>4. CASE Sees(o, Comma) /\ p' = [p EXCEPT !.pc = "element", !.offset = o, !.stack[n] = f]
  <2>1. p' = [p EXCEPT !.pc = "element", !.offset = o, !.stack = Top(f)]
    BY <1>3, <1>4
  <2>2. Becomes("element", o, Top(f), p.item, p.mem, p.strays)
    BY <2>1, FieldsOf DEF Becomes
  <2> QED
    BY <1>4, <2>2 DEF f
<1>5. CASE p' = [p EXCEPT !.pc = "fail", !.item = NoItem, !.offset = o, !.stack[n] = f]
  <2>1. p' = [p EXCEPT !.pc = "fail", !.item = NoItem, !.offset = o, !.stack = Top(f)]
    BY <1>3, <1>5
  <2>2. Becomes("fail", o, Top(f), NoItem, p.mem, p.strays)
    BY <2>1, FieldsOf DEF Becomes
  <2> QED
    BY <2>2 DEF f
<1>6. CASE /\ Sees(o, Closing(Frame.type))
           /\ p' = [p EXCEPT !.item = whole, !.offset = o + 1, !.stack = Front(@), !.depth = @ - 1]
  <2> DEFINE d == p.depth - 1
             st == Front(p.stack)
  <2>1. d \in Int
    BY FieldsOf
  <2>2. p' = [p EXCEPT !.item = whole, !.offset = o + 1, !.stack = st, !.depth = d]
    BY <1>6
  <2> HIDE DEF d, st
  <2>3. p' = [pc |-> p.pc, offset |-> o + 1, depth |-> d, stack |-> st,
              item |-> whole, mem |-> p.mem, error |-> p.error, strays |-> p.strays]
    BY <2>2, FieldsOf
  <2>4. Becomes(p.pc, o + 1, st, whole, p.mem, p.strays)
    BY <2>1, <2>3 DEF Becomes
  <2>5. CanRead(o)
    BY <1>6 DEF Sees
  <2> QED
    BY <1>1, <2>4, <2>5 DEF st
<1> QED
  BY <1>2, <1>4, <1>5, <1>6

\* What the actions make of the parser are things of their types.
LEMMA TypeBecomes ==
  ASSUME NEW S, Forest(S), NEW T, Forest(T), S \subseteq T, p \in Parses(S),
         NEW pc \in {"call", "value", "have", "element", "fail", "tree", "null"}, NEW o \in Nat,
         NEW stack \in Seq(Frames(T)), NEW item \in T, NEW mem \in Int, NEW b \in BOOLEAN,
         Becomes(pc, o, stack, item, mem, b)
  PROVE  ParseType'
<1>1. p.error \in Int
  BY FieldsOf
<1>2. p' \in Parses(T)
  BY <1>1 DEF Becomes, Parses
<1> QED
  BY <1>2 DEF ParseType

\* A stack with another top, and one without its top, are stacks.
LEMMA TypeTop ==
  ASSUME NEW S, NEW T, S \subseteq T, p \in Parses(S), p.stack # << >>, NEW f \in Frames(T)
  PROVE  Top(f) \in Seq(Frames(T)) /\ Front(p.stack) \in Seq(Frames(T))
<1>1. Front(p.stack) \in Seq(Frames(S))
  BY FieldsOf, TopOf
<1>2. Front(p.stack) \in Seq(Frames(T))
  BY <1>1, ParsesGrow, SeqMonotonic
<1> QED
  BY <1>2, AppendProperties DEF Top

\* A frame with a child, and with the name of one.
LEMMA FrameType ==
  ASSUME NEW S, NEW f \in Frames(S), NEW b \in Seq(Nat)
  PROVE  [f EXCEPT !.new = 1] \in Frames(S) /\ [f EXCEPT !.new = 2, !.name = <<b>>] \in Frames(S)
<1>1. <<b>> \in Seq(Seq(Nat)) /\ 1 \in Int /\ 2 \in Int
  OBVIOUS
<1> DEFINE nm == <<b>>
<1> HIDE DEF nm
<1>2. nm \in Seq(Seq(Nat))
  BY <1>1 DEF nm
<1>3. [f EXCEPT !.new = 1] \in Frames(S)
  BY ONLY f \in Frames(S), 1 \in Int DEF Frames
<1>4. [f EXCEPT !.new = 2, !.name = nm] \in Frames(S)
  BY ONLY f \in Frames(S), 2 \in Int, <1>2 DEF Frames
<1> QED
  BY <1>3, <1>4 DEF nm

\* The loop over the children keeps the type of the parser.
LEMMA TypeElement ==
  ASSUME NEW S, Forest(S), p \in Parses(S), p.stack # << >>, Text \in Seq(Nat), Element
  PROVE  ParseType'
<1>1. p.offset \in Nat /\ p.mem \in Int /\ p.item \in S /\ p.strays \in BOOLEAN
      /\ p.offset + 1 \in Nat /\ p.mem + 1 \in Int
  BY FieldsOf
<1> DEFINE o == buffer_skip_whitespace(p.offset + 1)
<1>2. o \in Nat
  BY <1>1, SkipAt
<1>3. Top([Frame EXCEPT !.new = 1]) \in Seq(Frames(S))
  <2>1. Frame \in Frames(S)
    BY FieldsOf, TopOf DEF Frame
  <2>2. [Frame EXCEPT !.new = 1] \in Frames(S)
    BY <2>1, FrameType, EmptySeq
  <2> QED
    BY <2>2, TypeTop
<1>4. CASE Failed(p.offset)
  BY <1>1, <1>4, TypeFailed
<1>5. CASE Becomes("value", o, Top([Frame EXCEPT !.new = 1]), p.item, p.mem + 1, p.strays)
  <2> HIDE DEF o
  <2> QED
    BY <1>1, <1>2, <1>3, <1>5, TypeBecomes
<1> QED
  BY <1>4, <1>5, ElementBecomes

LEMMA TypeMember ==
  ASSUME NEW S, Forest(S), p \in Parses(S), p.stack # << >>, Text \in Seq(Nat), Member
  PROVE  ParseType'
<1> DEFINE o == buffer_skip_whitespace(p.offset + 1)
           s == parse_string(Text, o)
           c == buffer_skip_whitespace(s.offset)
           f1 == [Frame EXCEPT !.new = 1]
           f2 == [Frame EXCEPT !.new = 2, !.name = <<s.bytes>>]
           b == (p.strays \/ ~CanRead(o))
           d == buffer_skip_whitespace(c + 1)
<1>1. p.offset \in Nat /\ p.mem \in Int /\ p.item \in S /\ p.strays \in BOOLEAN
      /\ p.offset + 1 \in Nat /\ p.mem + 1 \in Int /\ p.mem + 2 \in Int
  BY FieldsOf
<1>2. o \in Nat /\ o + 1 \in Nat
  <2>1. o \in Nat
    BY <1>1, SkipAt
  <2> HIDE DEF o
  <2> QED
    BY <2>1
<1>3. \/ Failed(p.offset)
      \/ s.opens /\ Becomes("fail", o + 1, Top(f1), NoItem, p.mem + 1, b)
      \/ ~s.ok /\ Becomes("fail", s.offset, Top(f1), NoItem, p.mem + 1, b)
      \/ s.ok /\ ~Sees(c, Colon) /\ Becomes("fail", c, Top(f2), NoItem, p.mem + 2, b)
      \/ s.ok /\ Sees(c, Colon) /\ Becomes("value", d, Top(f2), p.item, p.mem + 2, b)
  BY MemberBecomes
<1> HIDE DEF o
<1>4. s.offset \in Nat /\ s.bytes \in Seq(Nat)
  BY <1>2, StringAt
<1> HIDE DEF s
<1>5. c \in Nat /\ c + 1 \in Nat
  <2>1. c \in Nat
    BY <1>4, SkipAt
  <2> HIDE DEF c
  <2> QED
    BY <2>1
<1> HIDE DEF c
<1>6. d \in Nat
  BY <1>5, SkipAt
<1>7. Top(f1) \in Seq(Frames(S)) /\ Top(f2) \in Seq(Frames(S))
  <2>1. Frame \in Frames(S)
    BY FieldsOf, TopOf DEF Frame
  <2>2. f1 \in Frames(S) /\ f2 \in Frames(S)
    BY <1>4, <2>1, FrameType
  <2> HIDE DEF f1, f2
  <2> QED
    BY <2>2, TypeTop
<1>8. b \in BOOLEAN
  BY <1>1
<1>9. NoItem \in S
  BY DEF Forest
<1> HIDE DEF d, f1, f2, b
<1>10. ASSUME NEW y \in Nat, NEW f \in {f1, f2}, NEW m \in Int,
              Becomes("fail", y, Top(f), NoItem, m, b)
       PROVE  ParseType'
  BY <1>7, <1>8, <1>9, <1>10, TypeBecomes
<1>11. CASE Becomes("value", d, Top(f2), p.item, p.mem + 2, b)
  BY <1>1, <1>6, <1>7, <1>8, <1>11, TypeBecomes
<1>12. CASE Failed(p.offset)
  BY <1>1, <1>12, TypeFailed
<1> QED
  BY <1>1, <1>2, <1>3, <1>4, <1>5, <1>10, <1>11, <1>12

LEMMA TypeChild ==
  ASSUME NEW S, Forest(S), p \in Parses(S), p.stack # << >>, Text \in Seq(Nat), Child
  PROVE  ParseType'
<1> DEFINE kids == Append(Frame.kids, Kid)
           o == buffer_skip_whitespace(p.offset)
           R == S \cup {Kid}
           T == R \cup {Completed(kids)}
<1>1. p.offset \in Nat /\ p.mem \in Int /\ p.item \in S /\ p.strays \in BOOLEAN
  BY FieldsOf
<1>2. o \in Nat
  BY <1>1, SkipAt
<1>3. \/ Sees(o, Comma) /\ Becomes("element", o, Top(With(kids)), p.item, p.mem, p.strays)
      \/ CanRead(o) /\ Becomes(p.pc, o + 1, Front(p.stack), Completed(kids), p.mem, p.strays)
      \/ Becomes("fail", o, Top(With(kids)), NoItem, p.mem, p.strays)
  BY ChildBecomes
<1>4. /\ Frame \in Frames(S) /\ Kid \in Nodes(S) /\ kids \in Seq(R)
  BY KidType
<1> HIDE DEF o, kids
<1>5. Forest(R)
  BY <1>4, ForestGrows
<1>6. Completed(kids) \in Nodes(R)
  <2>1. Item(Frame.type) \in Nodes(R)
    <3>1. Frame.type \in {"array", "object"}
      BY <1>4 DEF Frames
    <3> QED
      BY <3>1, ItemType
  <2>2. SizeOf(kids, 1) \in Int
    <3> HIDE DEF R
    <3>1. R \subseteq Nodes(R) /\ 1 \in Int
      BY <1>5 DEF Forest
    <3> QED
      BY <1>4, <3>1, SizeInt
  <2> DEFINE z == SizeOf(kids, 1)
             v == Item(Frame.type)
  <2>3. z \in Int /\ v \in Nodes(R)
    BY <2>1, <2>2
  <2> HIDE DEF z, v, R
  <2>4. [v EXCEPT !.kids = kids, !.size = z] \in Nodes(R)
    BY ONLY <1>4, <2>3 DEF Nodes
  <2> QED
    BY <2>4 DEF Completed, z, v
<1>7. Forest(T)
  <2> HIDE DEF R
  <2> QED
    BY <1>5, <1>6, ForestGrows
<1>8. With(kids) \in Frames(R)
  <2>1. Frame \in Frames(R) /\ << >> \in Seq(Seq(Nat)) /\ 0 \in Int
    BY <1>4, ParsesGrow
  <2> HIDE DEF R
  <2> QED
    BY ONLY <1>4, <2>1 DEF With, Frames
<1>9. /\ Top(With(kids)) \in Seq(Frames(R)) /\ S \subseteq R /\ S \subseteq T
      /\ NoItem \in R /\ p.item \in R /\ Completed(kids) \in T
  <2>1. S \subseteq R
    OBVIOUS
  <2>2. Top(With(kids)) \in Seq(Frames(R))
    <3> HIDE DEF R
    <3> QED
      BY <1>8, <2>1, TypeTop
  <2> QED
    BY <1>1, <2>2 DEF Forest
<1>10. Front(p.stack) \in Seq(Frames(T))
  <2>1. Front(p.stack) \in Seq(Frames(S)) /\ S \subseteq T
    BY FieldsOf, TopOf
  <2> HIDE DEF T
  <2>2. Frames(S) \subseteq Frames(T)
    BY <2>1, ParsesGrow
  <2> QED
    BY <2>1, <2>2, SeqMonotonic
<1> HIDE DEF R, T
<1>11. CASE Becomes("element", o, Top(With(kids)), p.item, p.mem, p.strays)
  BY <1>1, <1>2, <1>5, <1>9, <1>11, TypeBecomes
<1>12. CASE Becomes("fail", o, Top(With(kids)), NoItem, p.mem, p.strays)
  BY <1>1, <1>2, <1>5, <1>9, <1>12, TypeBecomes
<1>13. CASE Becomes(p.pc, o + 1, Front(p.stack), Completed(kids), p.mem, p.strays)
  <2>1. o + 1 \in Nat
    BY <1>2
  <2>2. p.pc = "have"
    BY DEF Child
  <2> QED
    BY <1>1, <1>7, <1>9, <1>10, <1>13, <2>1, <2>2, TypeBecomes
<1> QED
  BY <1>3, <1>11, <1>12, <1>13

\* So do the begin and the end of a call, and a failed one.
LEMMA TypeCalls ==
  ASSUME NEW S, Forest(S), p \in Parses(S), Text \in Seq(Nat),
         ParseNothing \/ Begin \/ End \/ Unwind \/ GiveUp
  PROVE  ParseType'
<1>1. p.offset \in Nat /\ p.mem \in Int /\ p.item \in S /\ p.stack \in Seq(Frames(S))
      /\ p.item.size \in Int
  <2>1. S \subseteq Nodes(S)
    BY DEF Forest
  <2> QED
    BY <2>1, FieldsOf DEF Nodes
<1>2. NoItem \in S
  BY DEF Forest
<1>3. \A o \in Nat : Report(o) \in Int
  <2>1. Len(Text) \in Nat
    OBVIOUS
  <2> QED
    BY <2>1 DEF Report, ErrorAt, NoError
<1>4. p' \in Parses(S)
  <2>1. CASE ParseNothing
    BY <2>1 DEF ParseNothing, Parses
  <2>2. CASE Begin
    <3> DEFINE o == buffer_skip_whitespace(skip_utf8_bom(0))
               e == Report(0)
    <3>1. o \in Nat /\ e \in Int
      BY <1>3, BomAt, SkipAt
    <3>2. p' = [p EXCEPT !.pc = "value", !.error = NoError, !.mem = 1, !.offset = o]
          \/ p' = [p EXCEPT !.pc = "null", !.error = e]
      BY <2>2 DEF Begin
    <3>3. NoError \in Int /\ 1 \in Int
      BY DEF NoError
    <3> HIDE DEF o, e
    <3> QED
      BY ONLY p \in Parses(S), <3>1, <3>2, <3>3 DEF Parses
  <2>3. CASE End
    <3> DEFINE o == IF call.nul THEN buffer_skip_whitespace(p.offset) ELSE p.offset
    <3>1. o \in Nat
      BY <1>1, SkipAt
    <3>2. p' = [p EXCEPT !.pc = "tree", !.offset = o] \/ p' = [p EXCEPT !.pc = "fail", !.offset = o]
      BY <2>3 DEF End
    <3> HIDE DEF o
    <3> QED
      BY ONLY p \in Parses(S), <3>1, <3>2 DEF Parses
  <2>4. CASE Unwind
    <3> DEFINE st == Front(p.stack)
               m == p.mem - Blocks(Last(p.stack))
    <3>1. st \in Seq(Frames(S)) /\ m \in Int
      <4>1. p.stack # << >> /\ S \subseteq Nodes(S)
        BY <2>4 DEF Unwind, Forest
      <4>2. Last(p.stack) \in Frames(S) /\ st \in Seq(Frames(S))
        <5> DEFINE F == Frames(S)
        <5>1. p.stack \in Seq(F)
          BY <1>1
        <5> HIDE DEF F
        <5>2. Last(p.stack) \in F /\ Front(p.stack) \in Seq(F)
          BY <4>1, <5>1, TopOf, SMTT(30)
        <5> QED
          BY <5>2 DEF F
      <4>3. Blocks(Last(p.stack)) \in Int
        BY <4>1, <4>2, BlocksOf
      <4> QED
        BY <1>1, <4>2, <4>3
    <3>2. p' = [p EXCEPT !.stack = st, !.mem = m]
      BY <2>4 DEF Unwind
    <3> HIDE DEF st, m
    <3> QED
      BY ONLY p \in Parses(S), <3>1, <3>2 DEF Parses
  <2>5. CASE GiveUp
    <3> DEFINE m == p.mem - p.item.size
               e == Report(p.offset)
    <3>1. m \in Int /\ e \in Int
      BY <1>1, <1>3
    <3>2. p' = [p EXCEPT !.pc = "null", !.mem = m, !.error = e, !.item = NoItem]
      BY <2>5 DEF GiveUp
    <3> HIDE DEF m, e
    <3> QED
      BY ONLY p \in Parses(S), <1>2, <3>1, <3>2 DEF Parses
  <2> QED
    BY <2>1, <2>2, <2>3, <2>4, <2>5
<1> QED
  BY <1>4 DEF ParseType

\* In the loop over the children there is a container.
InLoop == p.pc = "element" => p.stack # << >>

\* Every step of the parser leaves a parser.
LEMMA TypeParse ==
  ASSUME ParseType, InLoop, Text \in Seq(Nat), ParseNext
  PROVE  ParseType'
<1>1. PICK S : Forest(S) /\ p \in Parses(S)
  BY DEF ParseType
<1>2. CASE parse_value
  BY <1>1, <1>2, TypeValue
<1>3. CASE Element
  <2>1. p.stack # << >>
    BY <1>3 DEF Element, InLoop
  <2> QED
    BY <1>1, <1>3, <2>1, TypeElement
<1>4. CASE Member
  <2>1. p.stack # << >>
    BY <1>4 DEF Member, InLoop
  <2> QED
    BY <1>1, <1>4, <2>1, TypeMember
<1>5. CASE Child
  <2>1. p.stack # << >>
    BY <1>5 DEF Child
  <2> QED
    BY <1>1, <1>5, <2>1, TypeChild
<1>6. CASE ParseNothing \/ Begin \/ End \/ Unwind \/ GiveUp
  BY <1>1, <1>6, TypeCalls
<1> QED
  BY <1>2, <1>3, <1>4, <1>5, <1>6 DEF ParseNext

-----------------------------------------------------------------------------
\* Where the parser is in the text.

\* Where the parser may be in the text, whether it has looked behind it, and
\* what global_error says.
OpenEnd == Text # << >> /\ EndsInComma

BoundsInv ==
  /\ InLoop
  /\ p.pc \notin {"call", "null"} => ~call.null /\ Text # << >> /\ p.error = NoError
  /\ p.pc \in {"have", "tree"} => p.offset <= Len(Text)
  /\ p.pc = "element" => CanRead(p.offset + 1) \/ Sees(p.offset, Comma)
  /\ p.pc = "call" => ~p.strays
  /\ p.pc = "null" /\ ~call.null => p.error = 0 \/ p.error \in 0 .. Len(Text) - 1
  /\ p.strays => OpenEnd

\* What a step within a call has to show of the offset it leaves.
LEMMA BoundsBecomes ==
  ASSUME BoundsInv, UNCHANGED call, p.pc \notin {"call", "null"},
         NEW pc, pc \notin {"call", "null"}, NEW o, NEW stack, NEW item, NEW mem, NEW b,
         Becomes(pc, o, stack, item, mem, b),
         pc \in {"have", "tree"} => o <= Len(Text),
         pc = "element" => stack # << >> /\ (CanRead(o + 1) \/ Sees(o, Comma)),
         b => OpenEnd
  PROVE  BoundsInv'
<1>1. /\ p'.pc = pc /\ p'.offset = o /\ p'.stack = stack /\ p'.error = p.error
      /\ p'.strays = b
  BY DEF Becomes
<1>2. Text' = Text
  BY DEF Text
<1>3. ~call.null /\ Text # << >> /\ p.error = NoError
  BY DEF BoundsInv
<1>4. (CanRead(o + 1) \/ Sees(o, Comma)) => (CanRead(p.offset + 1) \/ Sees(p.offset, Comma))'
  BY <1>1, <1>2 DEF CanRead, Sees
<1>5. OpenEnd' = OpenEnd
  BY <1>2 DEF OpenEnd, EndsInComma
<1> QED
  BY <1>1, <1>2, <1>3, <1>4, <1>5 DEF BoundsInv, InLoop

\* A failed value and a returned one.
LEMMA BoundsFailed ==
  ASSUME BoundsInv, ParseType, UNCHANGED call, p.pc \notin {"call", "null"}, NEW o, Failed(o)
  PROVE  BoundsInv'
<1>1. Becomes("fail", o, p.stack, NoItem, p.mem, p.strays)
  BY FailedBecomes DEF ParseType
<1> QED
  BY <1>1, BoundsBecomes DEF BoundsInv

LEMMA BoundsReturned ==
  ASSUME BoundsInv, ParseType, UNCHANGED call, p.pc \notin {"call", "null"}, NEW v, NEW o,
         Returned(v, o), o <= Len(Text)
  PROVE  BoundsInv'
<1>1. Becomes("have", o, p.stack, v, p.mem + (v.size - 1), p.strays)
  BY ReturnedBecomes DEF ParseType
<1> DEFINE m == p.mem + (v.size - 1)
<1> HIDE DEF m
<1>2. Becomes("have", o, p.stack, v, m, p.strays)
  BY <1>1 DEF m
<1> QED
  BY <1>2, BoundsBecomes DEF BoundsInv

\* parse_value looks only at bytes that can_read has allowed, and stops in the text.
LEMMA BoundsValue ==
  ASSUME BoundsInv, ParseType, UNCHANGED call, Text \in Seq(Nat), parse_value
  PROVE  BoundsInv'
<1>0. p.offset \in Nat /\ Len(Text) \in Nat /\ p.offset + 1 \in Nat /\ p.pc = "value"
  BY FieldsOf DEF ParseType, parse_value, AtValue
<1>1. ASSUME NEW word, NEW type, Literal(word, type) PROVE BoundsInv'
  <2>1. PICK v : Returned(v, p.offset + Len(word))
    BY <1>1 DEF Literal
  <2>2. p.offset + Len(word) <= Len(Text)
    BY <1>1 DEF Literal, HasAt
  <2> QED
    BY <1>0, <2>1, <2>2, BoundsReturned
<1>2. CASE ParseString
  <2> DEFINE s == parse_string(Text, p.offset)
  <2>1. s.ok => s.offset <= Len(Text)
    BY <1>0, StringAt
  <2>2. \/ s.ok /\ \E v : Returned(v, s.offset)
        \/ Failed(s.offset) \/ Failed(p.offset + 1)
    BY <1>2 DEF ParseString
  <2> HIDE DEF s
  <2> QED
    BY <1>0, <2>1, <2>2, BoundsReturned, BoundsFailed
<1>3. CASE parse_number
  <2> DEFINE t == NumberAt(Text, p.offset)
             n == strtod(t)
  <2>1. /\ p.offset <= Len(Text)
        /\ Failed(p.offset) \/ \E v : Returned(v, p.offset + n.length)
    BY <1>0, <1>3 DEF parse_number, CanRead
  <2>2. t \in Seq(Nat) /\ p.offset + Len(t) <= Len(Text)
    BY <1>0, <2>1, NumberText
  <2> HIDE DEF t
  <2>3. n.length \in Nat /\ n.length <= Len(t) /\ Len(t) \in Nat
    BY <2>2, StrtodFits
  <2> HIDE DEF n
  <2>4. p.offset + n.length <= Len(Text)
    BY <1>0, <2>2, <2>3
  <2> QED
    BY <1>0, <2>1, <2>4, BoundsReturned, BoundsFailed
<1>4. ASSUME NEW type, OpenContainer(type) PROVE BoundsInv'
  <2> DEFINE o == buffer_skip_whitespace(p.offset + 1)
             f == [type |-> type, kids |-> << >>, name |-> << >>, new |-> 0]
  <2>1. \/ Failed(p.offset)
        \/ CanRead(o) /\ Returned(Item(type), o + 1)
        \/ ~CanRead(o) /\ Failed(o - 1)
        \/ CanRead(o) /\ Becomes("element", o - 1, Append(p.stack, f), p.item, p.mem, p.strays)
    BY <1>4, OpenBecomes DEF ParseType
  <2>2. o \in Nat
    BY <1>0, SkipAt
  <2> HIDE DEF o
  <2>3. CanRead(o) => o + 1 <= Len(Text)
    BY <1>0, <2>2 DEF CanRead
  <2>4. CASE CanRead(o) /\ Becomes("element", o - 1, Append(p.stack, f), p.item, p.mem, p.strays)
    <3>1. CanRead((o - 1) + 1)
      <4>1. (o - 1) + 1 = o
        BY <2>2
      <4> QED
        BY <2>4, <4>1
    <3>2. Append(p.stack, f) # << >>
      <4>1. PICK S : p \in Parses(S)
        BY DEF ParseType
      <4>2. p.stack \in Seq(Frames(S))
        BY <4>1, FieldsOf
      <4>3. p.stack \in Seq(Frames(S) \cup {f}) /\ f \in Frames(S) \cup {f}
        BY <4>2, SeqMonotonic
      <4> QED
        BY <4>3, AppendProperties
    <3> DEFINE st == Append(p.stack, f)
               y == o - 1
    <3>3. st # << >> /\ CanRead(y + 1) /\ Becomes("element", y, st, p.item, p.mem, p.strays)
      BY <2>4, <3>1, <3>2
    <3> HIDE DEF st, y
    <3> QED
      BY <1>0, <3>3, BoundsBecomes DEF BoundsInv
  <2> QED
    BY <1>0, <2>1, <2>3, <2>4, BoundsReturned, BoundsFailed
<1>5. CASE NoValue
  BY <1>0, <1>5, BoundsFailed DEF NoValue
<1> QED
  BY <1>1, <1>2, <1>3, <1>4, <1>5 DEF parse_value

\* The loop over the elements of an array.
LEMMA BoundsElement ==
  ASSUME BoundsInv, ParseType, UNCHANGED call, Element
  PROVE  BoundsInv'
<1>1. p.pc = "element" /\ p.stack # << >>
  BY DEF Element, BoundsInv, InLoop
<1> DEFINE o == buffer_skip_whitespace(p.offset + 1)
           st == Top([Frame EXCEPT !.new = 1])
           m == p.mem + 1
<1>2. Failed(p.offset) \/ Becomes("value", o, st, p.item, m, p.strays)
  BY <1>1, ElementBecomes DEF ParseType
<1> HIDE DEF o, st, m
<1>3. CASE Failed(p.offset)
  BY <1>1, <1>3, BoundsFailed
<1>4. CASE Becomes("value", o, st, p.item, m, p.strays)
  BY <1>1, <1>4, BoundsBecomes DEF BoundsInv
<1> QED
  BY <1>2, <1>3, <1>4

\* Only behind a comma that ends the text there is nothing to read.
LEMMA BehindComma ==
  ASSUME BoundsInv, ParseType, Text \in Seq(Nat), p.pc = "element",
         ~CanRead(buffer_skip_whitespace(p.offset + 1)), call.text \in Seq(Nat)
  PROVE  OpenEnd
<1>1. p.offset \in Nat /\ p.offset + 1 \in Nat /\ Len(Text) \in Nat
  BY FieldsOf DEF ParseType
<1>2. ~CanRead(p.offset + 1)
  BY <1>1, SkipAt
<1>3. Sees(p.offset, Comma)
  BY <1>2 DEF BoundsInv
<1>4. p.offset < Len(Text) /\ ~(p.offset + 1 < Len(Text)) /\ Text[p.offset + 1] = Comma
  BY <1>2, <1>3 DEF Sees, CanRead, At
<1>5. Len(Text) = p.offset + 1 /\ Text # << >>
  BY <1>1, <1>4
<1>6. Last(Text) = Comma
  BY <1>4, <1>5 DEF Last
<1>7. call.api # "Opts"
  <2>1. ASSUME call.api = "Opts" PROVE FALSE
    <3>1. Text = Append(call.text, Nul)
      BY <2>1 DEF Text
    <3>2. Nul \in Nat
      BY DEF Nul
    <3>3. Text[Len(call.text) + 1] = Nul /\ Len(Text) = Len(call.text) + 1
      BY <3>1, <3>2, AppendProperties
    <3>4. Comma # Nul
      BY DEF Comma, Nul
    <3> QED
      BY <1>4, <1>5, <3>3, <3>4
  <2> QED
    BY <2>1
<1> QED
  BY <1>5, <1>6, <1>7 DEF OpenEnd, EndsInComma

\* The loop over the members of an object, which may look behind a last comma.
LEMMA BoundsMember ==
  ASSUME BoundsInv, ParseType, UNCHANGED call, Text \in Seq(Nat), call.text \in Seq(Nat), Member
  PROVE  BoundsInv'
<1>1. p.pc = "element" /\ p.stack # << >> /\ p.pc \notin {"call", "null"}
  BY DEF Member, BoundsInv, InLoop
<1> DEFINE o == buffer_skip_whitespace(p.offset + 1)
           s == parse_string(Text, o)
           c == buffer_skip_whitespace(s.offset)
           f1 == [Frame EXCEPT !.new = 1]
           f2 == [Frame EXCEPT !.new = 2, !.name = <<s.bytes>>]
           b == (p.strays \/ ~CanRead(o))
           d == buffer_skip_whitespace(c + 1)
<1>2. \/ Failed(p.offset)
      \/ s.opens /\ Becomes("fail", o + 1, Top(f1), NoItem, p.mem + 1, b)
      \/ ~s.ok /\ Becomes("fail", s.offset, Top(f1), NoItem, p.mem + 1, b)
      \/ s.ok /\ ~Sees(c, Colon) /\ Becomes("fail", c, Top(f2), NoItem, p.mem + 2, b)
      \/ s.ok /\ Sees(c, Colon) /\ Becomes("value", d, Top(f2), p.item, p.mem + 2, b)
  BY <1>1, MemberBecomes DEF ParseType
<1>3. b => OpenEnd
  BY <1>1, BehindComma DEF BoundsInv
<1> HIDE DEF o, s, c, d, f1, f2, b
<1>4. ASSUME NEW y, NEW st, NEW m, NEW v, NEW pc \in {"fail", "value"}, Becomes(pc, y, st, v, m, b)
      PROVE  BoundsInv'
  BY <1>1, <1>3, <1>4, BoundsBecomes
<1> QED
  BY <1>1, <1>2, <1>4, BoundsFailed

\* Behind a child the loop goes on at a comma or ends behind a bracket.
LEMMA BoundsChild ==
  ASSUME BoundsInv, ParseType, UNCHANGED call, Text \in Seq(Nat), Child
  PROVE  BoundsInv'
<1>1. p.pc = "have" /\ p.stack # << >> /\ p.offset \in Nat /\ Len(Text) \in Nat
  <2>1. p.pc = "have" /\ p.stack # << >>
    BY DEF Child
  <2>2. p.offset \in Nat
    BY FieldsOf DEF ParseType
  <2> QED
    BY <2>1, <2>2
<1> DEFINE kids == Append(Frame.kids, Kid)
           o == buffer_skip_whitespace(p.offset)
           st == Top(With(kids))
           rest == Front(p.stack)
           v == Completed(kids)
           z == o + 1
<1>2. \/ Sees(o, Comma) /\ Becomes("element", o, st, p.item, p.mem, p.strays)
      \/ CanRead(o) /\ Becomes("have", z, rest, v, p.mem, p.strays)
      \/ Becomes("fail", o, st, NoItem, p.mem, p.strays)
  BY <1>1, ChildBecomes DEF ParseType
<1>3. o \in Nat
  BY <1>1, SkipAt
<1>4. CanRead(o) => z <= Len(Text)
  <2> HIDE DEF o
  <2> QED
    BY <1>1, <1>3 DEF CanRead
<1>5. st # << >>
  <2>1. PICK S : Forest(S) /\ p \in Parses(S)
    BY DEF ParseType
  <2> DEFINE f == With(kids)
             T == Frames(S) \cup {f}
  <2>2. Front(p.stack) \in Seq(Frames(S))
    BY <1>1, <2>1, FieldsOf, TopOf
  <2>3. Front(p.stack) \in Seq(T) /\ f \in T
    BY <2>2, SeqMonotonic
  <2> HIDE DEF f, T
  <2>4. Append(Front(p.stack), f) # << >>
    BY <2>3, AppendProperties
  <2> QED
    BY <2>4 DEF Top, f
<1> HIDE DEF o, z, st, rest, v
<1>6. p.strays => OpenEnd
  BY DEF BoundsInv
<1>7. CASE Sees(o, Comma) /\ Becomes("element", o, st, p.item, p.mem, p.strays)
  BY <1>1, <1>5, <1>6, <1>7, BoundsBecomes
<1>8. CASE CanRead(o) /\ Becomes("have", z, rest, v, p.mem, p.strays)
  BY <1>1, <1>4, <1>6, <1>8, BoundsBecomes
<1>9. CASE Becomes("fail", o, st, NoItem, p.mem, p.strays)
  BY <1>1, <1>6, <1>9, BoundsBecomes
<1> QED
  BY <1>2, <1>7, <1>8, <1>9

\* global_error is put on a byte of the text.
LEMMA ReportAt ==
  ASSUME Text \in Seq(Nat), ~call.null, NEW o \in Nat
  PROVE  Report(o) = 0 \/ Report(o) \in 0 .. Len(Text) - 1
<1>1. Len(Text) \in Nat /\ (Text # << >> => Len(Text) # 0)
  OBVIOUS
<1> QED
  BY <1>1 DEF Report, ErrorAt

\* The begin and the end of a call.
LEMMA BoundsCalls ==
  ASSUME BoundsInv, ParseType, UNCHANGED call, Text \in Seq(Nat),
         ParseNothing \/ Begin \/ End \/ Unwind \/ GiveUp
  PROVE  BoundsInv'
<1>1. Text' = Text /\ OpenEnd' = OpenEnd
  BY DEF Text, OpenEnd, EndsInComma
<1>2. p.offset \in Nat /\ \A S : p \in Parses(S) => DOMAIN p = ParseFields
  BY FieldsOf DEF ParseType, Parses, ParseFields
<1>3. DOMAIN p = ParseFields
  BY <1>2 DEF ParseType
<1> USE DEF ParseFields
<1>4. CASE ParseNothing
  BY <1>1, <1>3, <1>4 DEF ParseNothing, BoundsInv, InLoop
<1>5. CASE Begin
  <2>1. \/ ~call.null /\ Text # << >> /\ p'.pc = "value" /\ p'.error = NoError
        \/ p'.pc = "null" /\ p'.error = Report(0)
    BY <1>3, <1>5 DEF Begin
  <2>2. p'.strays = p.strays /\ p.pc = "call"
    BY <1>3, <1>5 DEF Begin
  <2>3. ~call.null => Report(0) = 0 \/ Report(0) \in 0 .. Len(Text) - 1
    BY ReportAt
  <2> QED
    BY <1>1, <2>1, <2>2, <2>3 DEF BoundsInv, InLoop
<1>6. CASE End
  <2> DEFINE o == IF call.nul THEN buffer_skip_whitespace(p.offset) ELSE p.offset
  <2>1. \/ p'.pc = "tree" /\ (call.nul => Sees(o, Nul))
        \/ p'.pc = "fail"
    BY <1>3, <1>6 DEF End
  <2>2. p'.strays = p.strays /\ p'.error = p.error /\ p.pc = "have" /\ p'.offset = o
    BY <1>3, <1>6 DEF End
  <2>3. (call.nul => Sees(o, Nul)) => o <= Len(Text)
    <3>1. CASE call.nul
      <4>1. o \in Nat /\ Len(Text) \in Nat
        BY <1>2, <3>1, SkipAt, SMTT(30)
      <4> HIDE DEF o
      <4> QED
        BY <3>1, <4>1 DEF Sees, CanRead
    <3>2. CASE ~call.nul
      BY <2>2, <3>2 DEF BoundsInv
    <3> QED
      BY <3>1, <3>2
  <2> HIDE DEF o
  <2> QED
    BY <1>1, <2>1, <2>2, <2>3 DEF BoundsInv, InLoop
<1>7. CASE Unwind
  <2>1. p'.pc = p.pc /\ p.pc = "fail" /\ p'.error = p.error /\ p'.strays = p.strays
    BY <1>3, <1>7 DEF Unwind
  <2> QED
    BY <1>1, <2>1 DEF BoundsInv, InLoop
<1>8. CASE GiveUp
  <2>1. p'.pc = "null" /\ p.pc = "fail" /\ p'.error = Report(p.offset) /\ p'.strays = p.strays
    BY <1>3, <1>8 DEF GiveUp
  <2>2. ~call.null => Report(p.offset) = 0 \/ Report(p.offset) \in 0 .. Len(Text) - 1
    BY <1>2, ReportAt
  <2> QED
    BY <1>1, <2>1, <2>2 DEF BoundsInv, InLoop
<1> QED
  BY <1>4, <1>5, <1>6, <1>7, <1>8

\* Every step of the parser.
LEMMA BoundsParse ==
  ASSUME BoundsInv, ParseType, UNCHANGED call, Text \in Seq(Nat), call.text \in Seq(Nat), ParseNext
  PROVE  BoundsInv'
BY BoundsValue, BoundsElement, BoundsMember, BoundsChild, BoundsCalls DEF ParseNext

\* Before a call.
LEMMA BoundsStart == p = NoParse => BoundsInv
BY DEF NoParse, BoundsInv, InLoop

\* What the invariant says of the two properties.
LEMMA BoundsMeans ==
  ASSUME BoundsInv, ParseType, Text \in Seq(Nat), call.text \in Seq(Nat)
  PROVE  ParserInBounds /\ ErrorInText
<1>0. p.offset \in Nat /\ p.offset + 1 \in Nat /\ StringOffset \in Nat
  <2>1. p.offset \in Nat /\ p.offset + 1 \in Nat
    BY FieldsOf DEF ParseType
  <2> QED
    BY <2>1, SkipAt DEF StringOffset
<1>1. OneStray
  BY DEF OneStray, BoundsInv, OpenEnd
<1>2. StringFits
  <2> DEFINE s == parse_string(Text, StringOffset)
  <2>1. s.opens => Len(s.bytes) + 1 <= s.room
    BY <1>0, StringAt
  <2> QED
    BY <2>1 DEF StringFits
<1>4. StringInText
  <2>1. SUFFICES ASSUME StringCalled, NEW i \in StringReads(Text, StringOffset)
                 PROVE  i < Len(Text) \/ (i = Len(Text) /\ EndsInComma)
    BY DEF StringInText
  <2>2. Len(Text) \in Nat
    OBVIOUS
  <2>3. i < Len(Text) \/ (i = StringOffset /\ StringOffset >= Len(Text))
    BY <1>0, ReadsAt
  <2>4. ASSUME StringOffset >= Len(Text) PROVE StringOffset = Len(Text) /\ EndsInComma
    <3>1. ~CanRead(StringOffset)
      BY <1>0, <2>2, <2>4 DEF CanRead
    <3>2. p.pc = "element" /\ StringOffset = buffer_skip_whitespace(p.offset + 1)
      BY <2>1, <3>1 DEF StringCalled, StringOffset, Sees
    <3>3. EndsInComma
      BY <3>1, <3>2, BehindComma DEF OpenEnd
    <3>4. ~CanRead(p.offset + 1) /\ StringOffset = p.offset + 1
      BY <1>0, <3>1, <3>2, SkipAt
    <3>5. CanRead(p.offset)
      BY <3>2, <3>4 DEF BoundsInv, Sees
    <3> QED
      BY <1>0, <2>2, <3>3, <3>4, <3>5 DEF CanRead
  <2> QED
    BY <2>3, <2>4
<1>3. ErrorInText
  BY DEF ErrorInText, ParseDone, BoundsInv
<1> QED
  BY <1>1, <1>2, <1>3, <1>4 DEF ParserInBounds

-----------------------------------------------------------------------------
\* Who holds what the parser has allocated.

\* The frames whose child is being parsed: the child, and its name when it has one.
Counted(s) == \A i \in 1 .. Len(s) : s[i].new = 1 + Len(s[i].name)

\* Everything allocated is in a frame, or the item at hand: the root while its
\* value is not complete, then what was made of it.
HeldInv ==
  /\ p.pc \in {"call", "tree", "null"} => p.stack = << >>
  /\ p.pc \in {"value", "element"} => p.mem = Held(p.stack) + 1
  /\ p.pc \in {"have", "fail", "tree"} => p.mem = Held(p.stack) + p.item.size
  /\ p.pc \in {"call", "null"} => p.mem = 0
  /\ p.pc \in {"value", "have"} => Counted(p.stack)
  /\ p.pc = "element" => Counted(Front(p.stack)) /\ Frame.new = 0 /\ Frame.name = << >>

\* A counted frame is pushed and popped.
LEMMA PushOf ==
  ASSUME NEW F, NEW s \in Seq(F), NEW f \in F
  PROVE  /\ Front(Append(s, f)) = s /\ Last(Append(s, f)) = f /\ Append(s, f) # << >>
         /\ Counted(s) /\ f.new = 1 + Len(f.name) => Counted(Append(s, f))
<1> DEFINE t == Append(s, f)
<1>1. /\ t \in Seq(F) /\ Len(t) = Len(s) + 1 /\ t[Len(s) + 1] = f /\ Len(s) \in Nat /\ t # << >>
      /\ \A i \in 1 .. Len(s) : t[i] = s[i]
  BY AppendProperties
<1> HIDE DEF t
<1>2. Last(t) = f
  BY <1>1 DEF Last
<1>3. Front(t) = s
  <2>1. Front(t) = [i \in 1 .. Len(t) - 1 |-> t[i]]
    BY DEF Front
  <2>2. Len(t) - 1 = Len(s)
    BY <1>1
  <2>3. s = [i \in 1 .. Len(s) |-> s[i]]
    OBVIOUS
  <2> QED
    BY <1>1, <2>1, <2>2, <2>3
<1>4. Counted(s) /\ f.new = 1 + Len(f.name) => Counted(t)
  <2>1. \A i \in 1 .. Len(t) : i \in 1 .. Len(s) \/ i = Len(s) + 1
    BY <1>1
  <2> QED
    BY <1>1, <2>1 DEF Counted
<1> QED
  BY <1>1, <1>2, <1>3, <1>4 DEF t

LEMMA PopOf ==
  ASSUME NEW F, NEW s \in Seq(F), s # << >>, Counted(s)
  PROVE  Counted(Front(s)) /\ Last(s).new = 1 + Len(Last(s).name)
<1>1. /\ Front(s) \in Seq(F) /\ s[Len(s)] \in F /\ Last(s) = s[Len(s)]
      /\ Len(s) = Len(Front(s)) + 1 /\ s = Append(Front(s), s[Len(s)])
  BY TopOf
<1>2. Len(Front(s)) \in Nat
  BY <1>1
<1>3. \A i \in 1 .. Len(Front(s)) : Front(s)[i] = s[i] /\ i \in 1 .. Len(s)
  <2>1. \A i \in 1 .. Len(Front(s)) : Append(Front(s), s[Len(s)])[i] = Front(s)[i]
    BY <1>1, AppendProperties
  <2> QED
    BY <1>1, <1>2, <2>1
<1>4. Len(s) \in 1 .. Len(s)
  BY <1>1, <1>2
<1> QED
  BY <1>1, <1>3, <1>4 DEF Counted

LEMMA CountedNone == Counted(<< >>)
BY DEF Counted

\* What the loop's actions do to the blocks of a frame.
LEMMA FrameBlocks ==
  ASSUME NEW S, Forest(S), NEW f \in Frames(S)
  PROVE  /\ Blocks(f) \in Int /\ Blocks(f) = SizeOf(f.kids, 0) + f.new
         /\ SizeOf(f.kids, 0) \in Int /\ f.new \in Int
<1>1. S \subseteq Nodes(S) /\ f.kids \in Seq(S) /\ f.new \in Int /\ 0 \in Int
  BY DEF Forest, Frames
<1>2. SizeOf(f.kids, 0 + f.new) = SizeOf(f.kids, 0) + f.new
  BY <1>1, SizeBase, ZenonT(30)
<1>3. 0 + f.new = f.new
  BY <1>1
<1>4. SizeOf(f.kids, 0) \in Int
  BY <1>1, SizeInt
<1> QED
  BY <1>1, <1>2, <1>3, <1>4, BlocksOf

\* The blocks of a stack with another top.
LEMMA HeldTop ==
  ASSUME NEW S, Forest(S), NEW T, Forest(T), S \subseteq T, p \in Parses(S), p.stack # << >>,
         NEW f \in Frames(T)
  PROVE  /\ Held(Top(f)) = Held(Front(p.stack)) + Blocks(f)
         /\ Held(p.stack) = Held(Front(p.stack)) + Blocks(Frame)
         /\ Held(Front(p.stack)) \in Int /\ Held(p.stack) \in Int /\ Blocks(Frame) \in Int
         /\ Blocks(f) \in Int
<1>1. p.stack \in Seq(Frames(S)) /\ S \subseteq Nodes(S) /\ T \subseteq Nodes(T)
  BY FieldsOf DEF Forest
<1> DEFINE F == Frames(S)
<1>2. /\ Front(p.stack) \in Seq(F) /\ p.stack[Len(p.stack)] \in F
      /\ Last(p.stack) = p.stack[Len(p.stack)]
      /\ p.stack = Append(Front(p.stack), p.stack[Len(p.stack)])
  <2>1. p.stack \in Seq(F)
    BY <1>1
  <2> HIDE DEF F
  <2> QED
    BY <2>1, TopOf
<1>3. Front(p.stack) \in Seq(Frames(T)) /\ Frame \in F
  BY <1>2, TypeTop DEF Frame
<1> DEFINE rest == Front(p.stack)
           top == Frame
<1>4. p.stack = Append(rest, top) /\ rest \in Seq(Frames(S)) /\ top \in Frames(S)
  BY <1>2, <1>3 DEF Frame
<1> HIDE DEF rest, top, F
<1>5. Held(p.stack) = Held(rest) + Blocks(top) /\ Held(rest) \in Int /\ Blocks(top) \in Int
  BY <1>1, <1>4, HeldPush, HeldType, BlocksOf
<1>6. Held(p.stack) \in Int
  BY <1>1, HeldType
<1>7. Held(Append(rest, f)) = Held(rest) + Blocks(f) /\ Blocks(f) \in Int
  BY <1>1, <1>3, HeldPush, BlocksOf DEF rest
<1> QED
  BY <1>5, <1>6, <1>7 DEF Top, rest, top

\* Before a call nothing is held.
LEMMA HeldStart == p = NoParse => HeldInv
BY DEF NoParse, HeldInv

\* An item that has no value yet is one block.
LEMMA NoItemSize == NoItem.size = 1
BY DEF NoItem, Item

\* A failed call leaves what the frames hold and an item without a value.
LEMMA HeldFails ==
  ASSUME NEW o, NEW stack, NEW mem, NEW b, Becomes("fail", o, stack, NoItem, mem, b),
         mem = Held(stack) + 1
  PROVE  HeldInv'
<1>1. p'.pc = "fail" /\ p'.stack = stack /\ p'.mem = mem /\ p'.item = NoItem
  BY DEF Becomes
<1>2. Held(p.stack)' = Held(stack)
  BY <1>1
<1> QED
  BY <1>1, <1>2, NoItemSize DEF HeldInv

\* A failed value, a returned one, and an opened container.
LEMMA HeldFailed ==
  ASSUME HeldInv, ParseType, p.pc \in {"value", "element"}, NEW o, Failed(o)
  PROVE  HeldInv'
<1>1. Becomes("fail", o, p.stack, NoItem, p.mem, p.strays)
  BY FailedBecomes DEF ParseType
<1> QED
  BY <1>1, HeldFails DEF HeldInv

LEMMA HeldReturned ==
  ASSUME HeldInv, NEW S, Forest(S), p \in Parses(S), p.pc = "value", NEW v, v.size \in Int,
         NEW o, Returned(v, o)
  PROVE  HeldInv'
<1> DEFINE m == p.mem + (v.size - 1)
<1>1. Becomes("have", o, p.stack, v, m, p.strays)
  BY ReturnedBecomes
<1>2. Held(p.stack) \in Int
  BY FieldsOf, HeldType DEF Forest
<1>3. m = Held(p.stack) + v.size
  BY <1>2 DEF HeldInv
<1> HIDE DEF m
<1>4. p'.pc = "have" /\ p'.stack = p.stack /\ p'.mem = m /\ p'.item = v
  BY <1>1 DEF Becomes
<1>5. Counted(p.stack) /\ Held(p.stack)' = Held(p.stack) /\ Counted(p.stack)' = Counted(p.stack)
  BY <1>4 DEF HeldInv, Counted
<1> QED
  BY <1>3, <1>4, <1>5 DEF HeldInv

LEMMA HeldOpen ==
  ASSUME HeldInv, NEW S, Forest(S), p \in Parses(S), p.pc = "value",
         NEW type \in {"array", "object"},
         NEW f, f = [type |-> type, kids |-> << >>, name |-> << >>, new |-> 0], NEW o,
         Becomes("element", o, Append(p.stack, f), p.item, p.mem, p.strays)
  PROVE  HeldInv'
<1> DEFINE F == Frames(S)
           st == Append(p.stack, f)
<1>1. f \in F /\ p.stack \in Seq(F) /\ f.new = 0 /\ f.name = << >> /\ f.kids = << >>
  BY FieldsOf DEF Frames
<1>2. Blocks(f) = 0
  <2>1. S \subseteq Nodes(S)
    BY DEF Forest
  <2>2. Blocks(f) = SizeOf(f.kids, f.new)
    BY <1>1, <2>1, BlocksOf
  <2> QED
    BY <1>1, <2>2, SizeNone
<1>3. Held(st) = Held(p.stack)
  <2>1. S \subseteq Nodes(S)
    BY DEF Forest
  <2>2. Held(p.stack) \in Int
    BY <1>1, <2>1, HeldType
  <2>3. Held(st) = Held(p.stack) + Blocks(f)
    BY <1>1, <2>1, HeldPush
  <2> HIDE DEF st
  <2> QED
    BY <1>2, <2>2, <2>3
<1> HIDE DEF F
<1>4. Front(st) = p.stack /\ Last(st) = f
  BY <1>1, PushOf
<1> HIDE DEF st
<1>5. p'.pc = "element" /\ p'.stack = st /\ p'.mem = p.mem
  <2>1. Becomes("element", o, st, p.item, p.mem, p.strays)
    BY DEF st
  <2> QED
    BY <2>1 DEF Becomes
<1>6. Counted(p.stack) /\ p.mem = Held(p.stack) + 1
  BY DEF HeldInv
<1>7. Held(p.stack)' = Held(st) /\ Counted(Front(p.stack))' = Counted(Front(st)) /\ Frame' = Last(st)
  BY <1>5 DEF Counted, Frame
<1> QED
  BY <1>1, <1>3, <1>4, <1>5, <1>6, <1>7 DEF HeldInv

\* parse_value keeps account of what it allocates.
LEMMA HeldValue ==
  ASSUME HeldInv, NEW S, Forest(S), p \in Parses(S), Text \in Seq(Nat), parse_value
  PROVE  HeldInv'
<1>0. p.pc = "value" /\ ParseType
  BY DEF parse_value, AtValue, ParseType
<1>1. ASSUME NEW word, NEW type, Literal(word, type) PROVE HeldInv'
  <2>1. PICK v : v.size = 1 /\ Returned(v, p.offset + Len(word))
    BY <1>1 DEF Literal, Item
  <2> QED
    BY <1>0, <2>1, HeldReturned
<1>2. CASE ParseString
  <2>1. \/ \E v, o : v.size = 2 /\ Returned(v, o)
        \/ \E o : Failed(o)
    BY <1>2 DEF ParseString, Item
  <2> QED
    BY <1>0, <2>1, HeldReturned, HeldFailed
<1>3. CASE parse_number
  <2>1. \/ \E v, o : v.size = 1 /\ Returned(v, o)
        \/ \E o : Failed(o)
    BY <1>3 DEF parse_number, Item
  <2> QED
    BY <1>0, <2>1, HeldReturned, HeldFailed
<1>4. ASSUME NEW type \in {"array", "object"}, OpenContainer(type) PROVE HeldInv'
  <2> DEFINE o == buffer_skip_whitespace(p.offset + 1)
             f == [type |-> type, kids |-> << >>, name |-> << >>, new |-> 0]
  <2>1. \/ Failed(p.offset)
        \/ CanRead(o) /\ Returned(Item(type), o + 1)
        \/ ~CanRead(o) /\ Failed(o - 1)
        \/ CanRead(o) /\ Becomes("element", o - 1, Append(p.stack, f), p.item, p.mem, p.strays)
    BY <1>4, OpenBecomes
  <2>2. Item(type).size = 1
    BY DEF Item
  <2> HIDE DEF o
  <2>3. CASE Failed(p.offset) \/ Failed(o - 1)
    BY <1>0, <2>3, HeldFailed
  <2>4. CASE Returned(Item(type), o + 1)
    BY <1>0, <2>2, <2>4, HeldReturned
  <2>5. CASE Becomes("element", o - 1, Append(p.stack, f), p.item, p.mem, p.strays)
    <3> HIDE DEF f
    <3> QED
      BY <1>0, <2>5, HeldOpen DEF f
  <2> QED
    BY <2>1, <2>3, <2>4, <2>5
<1>5. CASE NoValue
  BY <1>0, <1>5, HeldFailed DEF NoValue
<1> QED
  BY <1>1, <1>2, <1>3, <1>4, <1>5 DEF parse_value

\* A child is begun: its frame has it, and its name when it has one.
LEMMA HeldBegun ==
  ASSUME HeldInv, NEW S, Forest(S), p \in Parses(S), p.pc = "element", p.stack # << >>,
         NEW f \in Frames(S), f.kids = Frame.kids, NEW o, NEW v, NEW b,
         \/ Becomes("value", o, Top(f), v, p.mem + f.new, b) /\ f.new = 1 + Len(f.name)
         \/ Becomes("fail", o, Top(f), NoItem, p.mem + f.new, b)
  PROVE  HeldInv'
<1> DEFINE st == Top(f)
           m == p.mem + f.new
<1>1. Frame \in Frames(S) /\ Front(p.stack) \in Seq(Frames(S))
  BY FieldsOf, TopOf DEF Frame
<1>2. m = Held(st) + 1
  <2>1. Blocks(f) = SizeOf(f.kids, 0) + f.new /\ Blocks(Frame) = SizeOf(f.kids, 0) + Frame.new
        /\ SizeOf(f.kids, 0) \in Int /\ f.new \in Int
    BY <1>1, FrameBlocks
  <2>2. /\ Held(st) = Held(Front(p.stack)) + Blocks(f)
        /\ Held(p.stack) = Held(Front(p.stack)) + Blocks(Frame)
        /\ Held(Front(p.stack)) \in Int
    BY HeldTop
  <2>3. Frame.new = 0 /\ p.mem = Held(p.stack) + 1
    BY DEF HeldInv
  <2> HIDE DEF st
  <2> QED
    BY <2>1, <2>2, <2>3
<1>3. CASE Becomes("fail", o, st, NoItem, m, b)
  <2> HIDE DEF st, m
  <2> QED
    BY <1>2, <1>3, HeldFails
<1>4. CASE Becomes("value", o, st, v, m, b) /\ f.new = 1 + Len(f.name)
  <2>1. Counted(st)
    <3>1. Counted(Front(p.stack))
      BY DEF HeldInv
    <3> QED
      BY <1>1, <1>4, <3>1, PushOf DEF Top
  <2> HIDE DEF st, m
  <2>2. p'.pc = "value" /\ p'.stack = st /\ p'.mem = m
    BY <1>4 DEF Becomes
  <2>3. Held(p.stack)' = Held(st) /\ Counted(p.stack)' = Counted(st)
    BY <2>2 DEF Counted
  <2> QED
    BY <1>2, <2>1, <2>2, <2>3 DEF HeldInv
<1> QED
  BY <1>3, <1>4

\* The loop over elements, and the one over members.
LEMMA HeldElement ==
  ASSUME HeldInv, InLoop, NEW S, Forest(S), p \in Parses(S), Element
  PROVE  HeldInv'
<1>1. p.pc = "element" /\ p.stack # << >> /\ ParseType
  BY DEF Element, InLoop, ParseType
<1> DEFINE o == buffer_skip_whitespace(p.offset + 1)
           f == [Frame EXCEPT !.new = 1]
<1>2. Failed(p.offset) \/ Becomes("value", o, Top(f), p.item, p.mem + 1, p.strays)
  BY <1>1, ElementBecomes
<1>3. Frame \in Frames(S)
  BY <1>1, FieldsOf, TopOf DEF Frame
<1>4. f \in Frames(S)
  BY <1>3, FrameType, EmptySeq
<1>5. f.kids = Frame.kids /\ f.new = 1 /\ f.name = << >>
  BY <1>1, <1>3 DEF HeldInv, Frames
<1> HIDE DEF o, f
<1>6. Len(f.name) = 0
  BY <1>5
<1>7. f.new = 1 + Len(f.name)
  BY <1>5, <1>6
<1>8. CASE Failed(p.offset)
  BY <1>1, <1>8, HeldFailed
<1>9. CASE Becomes("value", o, Top(f), p.item, p.mem + 1, p.strays)
  <2>1. Becomes("value", o, Top(f), p.item, p.mem + f.new, p.strays)
    BY <1>5, <1>9
  <2> QED
    BY <1>1, <1>4, <1>5, <1>7, <2>1, HeldBegun
<1> QED
  BY <1>2, <1>8, <1>9

LEMMA HeldMember ==
  ASSUME HeldInv, InLoop, NEW S, Forest(S), p \in Parses(S), Text \in Seq(Nat), Member
  PROVE  HeldInv'
<1>1. p.pc = "element" /\ p.stack # << >> /\ ParseType /\ p.offset + 1 \in Nat
  BY FieldsOf DEF Member, InLoop, ParseType
<1> DEFINE o == buffer_skip_whitespace(p.offset + 1)
           s == parse_string(Text, o)
           c == buffer_skip_whitespace(s.offset)
           f1 == [Frame EXCEPT !.new = 1]
           f2 == [Frame EXCEPT !.new = 2, !.name = <<s.bytes>>]
           b == (p.strays \/ ~CanRead(o))
           d == buffer_skip_whitespace(c + 1)
<1>2. \/ Failed(p.offset)
      \/ s.opens /\ Becomes("fail", o + 1, Top(f1), NoItem, p.mem + 1, b)
      \/ ~s.ok /\ Becomes("fail", s.offset, Top(f1), NoItem, p.mem + 1, b)
      \/ s.ok /\ ~Sees(c, Colon) /\ Becomes("fail", c, Top(f2), NoItem, p.mem + 2, b)
      \/ s.ok /\ Sees(c, Colon) /\ Becomes("value", d, Top(f2), p.item, p.mem + 2, b)
  BY <1>1, MemberBecomes
<1>3. o \in Nat
  BY <1>1, SkipAt
<1>4. s.bytes \in Seq(Nat)
  <2> HIDE DEF o
  <2> QED
    BY <1>3, StringAt
<1>5. Frame \in Frames(S)
  BY <1>1, FieldsOf, TopOf DEF Frame
<1> HIDE DEF s
<1>6. f1 \in Frames(S) /\ f2 \in Frames(S)
  BY <1>4, <1>5, FrameType
<1>7. f1.kids = Frame.kids /\ f1.new = 1 /\ f2.kids = Frame.kids /\ f2.new = 2
  BY <1>5 DEF Frames
<1>8. f2.new = 1 + Len(f2.name)
  <2>1. f2.name = <<s.bytes>>
    BY <1>5 DEF Frames
  <2>2. Len(<<s.bytes>>) = 1
    OBVIOUS
  <2> QED
    BY <1>7, <2>1, <2>2
<1> HIDE DEF o, c, f1, f2, b, d
<1>9. ASSUME NEW y, NEW f \in {f1, f2}, Becomes("fail", y, Top(f), NoItem, p.mem + f.new, b)
      PROVE  HeldInv'
  BY <1>1, <1>6, <1>7, <1>9, HeldBegun
<1>10. CASE Becomes("value", d, Top(f2), p.item, p.mem + 2, b)
  <2>1. Becomes("value", d, Top(f2), p.item, p.mem + f2.new, b)
    BY <1>7, <1>10
  <2> QED
    BY <1>1, <1>6, <1>7, <1>8, <2>1, HeldBegun
<1>11. CASE Failed(p.offset)
  BY <1>1, <1>11, HeldFailed
<1>12. CASE \E y : Becomes("fail", y, Top(f1), NoItem, p.mem + 1, b)
  BY <1>7, <1>9, <1>12
<1>13. CASE \E y : Becomes("fail", y, Top(f2), NoItem, p.mem + 2, b)
  BY <1>7, <1>9, <1>13
<1> QED
  BY <1>2, <1>10, <1>11, <1>12, <1>13

\* A completed container takes over what its frame held.
LEMMA HeldChild ==
  ASSUME HeldInv, NEW S, Forest(S), p \in Parses(S), Child
  PROVE  HeldInv'
<1> DEFINE kids == Append(Frame.kids, Kid)
           o == buffer_skip_whitespace(p.offset)
           T == S \cup {Kid}
           f == With(kids)
           v == Completed(kids)
           rest == Front(p.stack)
<1>1. p.pc = "have" /\ p.stack # << >>
  BY DEF Child
<1>2. \/ Becomes("element", o, Top(f), p.item, p.mem, p.strays)
      \/ Becomes("have", o + 1, rest, v, p.mem, p.strays)
      \/ Becomes("fail", o, Top(f), NoItem, p.mem, p.strays)
  BY <1>1, ChildBecomes
<1>3. /\ Frame \in Frames(S) /\ Kid \in Nodes(S) /\ Kid.size = p.item.size + Len(Frame.name)
      /\ kids \in Seq(T)
  BY <1>1, KidType
<1>4. Forest(T) /\ S \subseteq T
  BY <1>3, ForestGrows
<1>5. SizeOf(kids, 0) = SizeOf(Frame.kids, 0) + Kid.size /\ SizeOf(kids, 0) \in Int
      /\ SizeOf(kids, 1) = SizeOf(kids, 0) + 1
  <2>1. S \subseteq Nodes(S) /\ Frame.kids \in Seq(S)
    BY <1>3 DEF Forest, Frames
  <2>2. 0 \in Int /\ 1 \in Int /\ 0 + 1 = 1
    OBVIOUS
  <2>3. SizeOf(kids, 0) = SizeOf(Frame.kids, 0) + Kid.size
    BY <1>3, <2>1, <2>2, SizeMore
  <2> HIDE DEF kids, T
  <2>4. T \subseteq Nodes(T)
    BY <1>4 DEF Forest
  <2>5. SizeOf(kids, 0) \in Int
    BY <1>3, <2>2, <2>4, SizeInt
  <2>6. SizeOf(kids, 0 + 1) = SizeOf(kids, 0) + 1
    BY <1>3, <2>2, <2>4, SizeBase
  <2> QED
    BY <2>2, <2>3, <2>5, <2>6
<1>6. p.item.size \in Int /\ Len(Frame.name) \in Nat
  <2>1. p.item \in Nodes(S) /\ Frame.name \in Seq(Seq(Nat))
    BY <1>3, FieldsOf DEF Forest, Frames
  <2>2. p.item.size \in Int
    BY <2>1 DEF Nodes
  <2> QED
    BY <2>1, <2>2
<1>7. Counted(rest) /\ Frame.new = 1 + Len(Frame.name)
  <2>1. Counted(p.stack) /\ p.stack \in Seq(Frames(S))
    BY <1>1, FieldsOf DEF HeldInv
  <2>2. Counted(Front(p.stack)) /\ Last(p.stack).new = 1 + Len(Last(p.stack).name)
    BY <1>1, <2>1, PopOf
  <2> QED
    BY <2>2 DEF Frame
<1> HIDE DEF kids, T
<1>8. f \in Frames(T) /\ f.kids = kids /\ f.new = 0 /\ f.name = << >>
  <2>1. Frame \in Frames(T) /\ << >> \in Seq(Seq(Nat)) /\ 0 \in Int
    BY <1>3, <1>4, ParsesGrow
  <2> QED
    BY ONLY <1>3, <2>1 DEF With, Frames
<1>9. v.size = SizeOf(kids, 1)
  BY DEF Completed, Item
<1> HIDE DEF f, v, o
<1>10. /\ Blocks(Frame) = SizeOf(Frame.kids, 0) + Frame.new /\ SizeOf(Frame.kids, 0) \in Int
       /\ Blocks(f) = SizeOf(kids, 0) + 0
  BY <1>3, <1>4, <1>8, FrameBlocks
<1>11. /\ Held(Top(f)) = Held(rest) + Blocks(f) /\ Held(p.stack) = Held(rest) + Blocks(Frame)
       /\ Held(rest) \in Int
  BY <1>1, <1>4, <1>8, HeldTop
<1>12. p.mem = Held(p.stack) + p.item.size
  BY <1>1 DEF HeldInv
<1> DEFINE st == Top(f)
<1>13. p.mem = Held(st) + 1 /\ p.mem = Held(rest) + v.size
  <2> HIDE DEF st, rest
  <2>1. Held(st) = Held(rest) + (SizeOf(Frame.kids, 0) + p.item.size + Len(Frame.name))
    BY <1>3, <1>5, <1>6, <1>10, <1>11 DEF st
  <2>2. Held(p.stack) = Held(rest) + (SizeOf(Frame.kids, 0) + 1 + Len(Frame.name))
    BY <1>6, <1>7, <1>10, <1>11
  <2>3. v.size = SizeOf(Frame.kids, 0) + p.item.size + Len(Frame.name) + 1
    BY <1>3, <1>5, <1>6, <1>9, <1>10
  <2> DEFINE a == Held(rest)
             b == SizeOf(Frame.kids, 0)
             c == p.item.size
             d == Len(Frame.name)
  <2>4. a \in Int /\ b \in Int /\ c \in Int /\ d \in Int
    BY <1>6, <1>10, <1>11
  <2>5. /\ Held(st) = a + (b + c + d) /\ v.size = b + c + d + 1
        /\ p.mem = (a + (b + 1 + d)) + c
    BY <1>12, <2>1, <2>2, <2>3
  <2> HIDE DEF a, b, c, d
  <2>6. p.mem = Held(st) + 1 /\ p.mem = a + v.size
    BY <2>4, <2>5
  <2> QED
    BY <2>6 DEF a
<1>14. Front(st) = rest /\ Last(st) = f
  <2>1. Front(p.stack) \in Seq(Frames(T))
    BY <1>1, <1>4, <1>8, TypeTop
  <2> QED
    BY <1>8, <2>1, PushOf DEF Top
<1> HIDE DEF st, rest
<1>15. CASE Becomes("fail", o, Top(f), NoItem, p.mem, p.strays)
  BY <1>13, <1>15, HeldFails DEF st
<1>16. CASE Becomes("element", o, Top(f), p.item, p.mem, p.strays)
  <2>1. p'.pc = "element" /\ p'.stack = st /\ p'.mem = p.mem
    BY <1>16 DEF Becomes, st
  <2>2. /\ Held(p.stack)' = Held(st) /\ Frame' = Last(st)
        /\ Counted(Front(p.stack))' = Counted(Front(st))
    BY <2>1 DEF Counted, Frame
  <2> QED
    BY <1>7, <1>8, <1>13, <1>14, <2>1, <2>2 DEF HeldInv
<1>17. CASE Becomes("have", o + 1, rest, v, p.mem, p.strays)
  <2>1. p'.pc = "have" /\ p'.stack = rest /\ p'.mem = p.mem /\ p'.item = v
    BY <1>17 DEF Becomes
  <2>2. Held(p.stack)' = Held(rest) /\ Counted(p.stack)' = Counted(rest)
    BY <2>1 DEF Counted
  <2> QED
    BY <1>7, <1>13, <2>1, <2>2 DEF HeldInv
<1> QED
  BY <1>2, <1>15, <1>16, <1>17

\* The begin and the end of a call, and the deletions after a failed one.
LEMMA HeldCalls ==
  ASSUME HeldInv, NEW S, Forest(S), p \in Parses(S),
         ParseNothing \/ Begin \/ End \/ Unwind \/ GiveUp
  PROVE  HeldInv'
<1>1. DOMAIN p = ParseFields /\ p.stack \in Seq(Frames(S)) /\ S \subseteq Nodes(S)
      /\ p.item \in Nodes(S)
  BY FieldsOf DEF Parses, ParseFields, Forest
<1> USE DEF ParseFields
<1>2. Held(p.stack) \in Int /\ p.item.size \in Int
  BY <1>1, HeldType DEF Nodes
<1>3. CASE ParseNothing
  <2>1. p'.pc = "null" /\ p'.stack = p.stack /\ p'.mem = p.mem /\ p.pc = "call"
    BY <1>1, <1>3 DEF ParseNothing
  <2> QED
    BY <2>1 DEF HeldInv
<1>4. CASE Begin
  <2>1. /\ p'.stack = p.stack /\ p.pc = "call"
        /\ \/ p'.pc = "value" /\ p'.mem = 1
           \/ p'.pc = "null" /\ p'.mem = p.mem
    BY <1>1, <1>4 DEF Begin
  <2>2. p.stack = << >> /\ p.mem = 0
    BY <2>1 DEF HeldInv
  <2>3. Held(p.stack)' = 0 /\ Counted(p.stack)'
    <3>1. p'.stack = << >>
      BY <2>1, <2>2
    <3>2. Held(p.stack)' = Held(p'.stack) /\ (Counted(p'.stack) => Counted(p.stack)')
      BY DEF Counted
    <3> QED
      BY <3>1, <3>2, HeldNone, CountedNone
  <2>4. 0 + 1 = 1
    OBVIOUS
  <2> QED
    BY <2>1, <2>2, <2>3, <2>4 DEF HeldInv
<1>5. CASE End
  <2>1. /\ p'.stack = p.stack /\ p.pc = "have" /\ p'.pc \in {"tree", "fail"}
        /\ p'.mem = p.mem /\ p'.item = p.item /\ p.stack = << >>
    BY <1>1, <1>5 DEF End
  <2>2. Held(p.stack)' = Held(p.stack)
    BY <2>1
  <2> QED
    BY <2>1, <2>2 DEF HeldInv
<1>6. CASE Unwind
  <2> DEFINE rest == Front(p.stack)
             m == p.mem - Blocks(Last(p.stack))
  <2>1. /\ p'.pc = p.pc /\ p.pc = "fail" /\ p'.stack = rest /\ p'.mem = m /\ p'.item = p.item
        /\ p.stack # << >>
    BY <1>1, <1>6 DEF Unwind
  <2>2. /\ Held(p.stack) = Held(rest) + Blocks(Frame) /\ Held(rest) \in Int
        /\ Blocks(Frame) \in Int
    <3>1. Frame \in Frames(S)
      BY <2>1, FieldsOf, TopOf DEF Frame
    <3> QED
      BY <2>1, <3>1, HeldTop
  <2>3. p.mem = Held(p.stack) + p.item.size
    BY <2>1 DEF HeldInv
  <2>4. m = Held(rest) + p.item.size
    BY <1>2, <2>2, <2>3 DEF Frame
  <2> HIDE DEF m, rest
  <2>5. Held(p.stack)' = Held(rest)
    BY <2>1
  <2> QED
    BY <2>1, <2>4, <2>5 DEF HeldInv
<1>7. CASE GiveUp
  <2>1. /\ p'.pc = "null" /\ p.pc = "fail" /\ p'.stack = p.stack /\ p.stack = << >>
        /\ p'.mem = p.mem - p.item.size
    BY <1>1, <1>7 DEF GiveUp
  <2>2. p.mem = 0 + p.item.size
    BY <2>1, HeldNone DEF HeldInv
  <2>3. p'.mem = 0
    BY <1>2, <2>1, <2>2
  <2> QED
    BY <2>1, <2>3 DEF HeldInv
<1> QED
  BY <1>3, <1>4, <1>5, <1>6, <1>7

\* Every step of the parser.
LEMMA HeldParse ==
  ASSUME HeldInv, InLoop, ParseType, Text \in Seq(Nat), ParseNext
  PROVE  HeldInv'
<1>1. PICK S : Forest(S) /\ p \in Parses(S)
  BY DEF ParseType
<1> QED
  BY <1>1, HeldValue, HeldElement, HeldMember, HeldChild, HeldCalls DEF ParseNext

\* When the call is over nothing is in a frame.
LEMMA HeldMeans ==
  ASSUME HeldInv, ParseType
  PROVE  NothingLeaks
<1>1. p.pc = "tree" => p.mem = 0 + p.item.size
  BY HeldNone DEF HeldInv
<1>2. p.item.size \in Int
  <2>1. PICK S : Forest(S) /\ p \in Parses(S)
    BY DEF ParseType
  <2>2. p.item \in Nodes(S)
    BY <2>1, FieldsOf DEF Forest
  <2> QED
    BY <2>2 DEF Nodes
<1> QED
  BY <1>1, <1>2 DEF NothingLeaks, ParseDone, HeldInv

-----------------------------------------------------------------------------
\* What is left to print.

\* What is left to print: values, pieces for which there is room where ensure
\* grants what they need, and calls of update_offset.
Pieces ==
  {x \in [op : {"put"}, need : Nat, bytes : Seq(Nat), advance : Nat] :
     x.advance <= Len(x.bytes) /\ Len(x.bytes) <= x.need + 1}

Ops(S) == [op : {"value"}, v : S, depth : Nat] \cup Pieces \cup {update_offset}

\* Behind o there is a NUL and it ends what is written.
Ended(s, o) == o < Len(s) /\ s[Len(s)] = Nul /\ \A i \in o + 1 .. Len(s) - 1 : s[i] # Nul

\* What leaves such a NUL, so that update_offset may follow.
Ends(x) == x.op = "value" \/ (x.op = "put" /\ Ended(x.bytes, x.advance))

Chain(sq) == \A i \in 2 .. Len(sq) : sq[i].op = "offset" => Ends(sq[i - 1])

Works(S) == {sq \in Seq(Ops(S)) : sq # << >> /\ sq[1].op # "offset" /\ Chain(sq)}

\* Two parts of what is left follow one another.
LEMMA ChainJoin ==
  ASSUME NEW F, NEW a \in Seq(F), NEW b \in Seq(F), a # << >>, Chain(a), Chain(b),
         b # << >> /\ b[1].op = "offset" => Ends(Last(a))
  PROVE  /\ Chain(a \o b) /\ a \o b # << >> /\ (a \o b)[1] = a[1] /\ a \o b \in Seq(F)
         /\ Last(a \o b) = IF b = << >> THEN Last(a) ELSE Last(b)
<1> DEFINE c == a \o b
           m == Len(a)
           n == Len(b)
<1>1. /\ m \in Nat /\ n \in Nat /\ m # 0 /\ (b = << >> <=> n = 0)
  OBVIOUS
<1>2. /\ c \in Seq(F) /\ Len(c) = m + n
      /\ \A i \in 1 .. m + n : c[i] = IF i <= m THEN a[i] ELSE b[i - m]
  BY ConcatProperties
<1>3. Last(a) = a[m] /\ Last(b) = b[n] /\ Last(c) = c[m + n]
  BY <1>2 DEF Last
<1> HIDE DEF c
<1>4. c # << >>
  BY <1>1, <1>2
<1> HIDE DEF m, n
<1>5. c[1] = a[1]
  BY <1>1, <1>2
<1>6. Last(c) = IF b = << >> THEN Last(a) ELSE Last(b)
  <2>1. m + n \in 1 .. m + n
    BY <1>1
  <2>2. c[m + n] = IF m + n <= m THEN a[m + n] ELSE b[(m + n) - m]
    BY <1>2, <2>1
  <2>3. CASE n = 0
    <3>1. m + n = m /\ m <= m
      BY <1>1, <2>3
    <3> QED
      BY <1>1, <1>3, <2>2, <2>3, <3>1
  <2>4. CASE n # 0
    <3>1. ~(m + n <= m) /\ (m + n) - m = n
      BY <1>1, <2>4
    <3> QED
      BY <1>1, <1>3, <2>2, <2>4, <3>1
  <2> QED
    BY <2>3, <2>4
<1>7. ASSUME NEW i \in 2 .. m + n, c[i].op = "offset" PROVE Ends(c[i - 1])
  <2>1. i \in 1 .. m + n /\ i - 1 \in 1 .. m + n
    BY <1>1
  <2>2. CASE i <= m
    <3>1. c[i] = a[i] /\ c[i - 1] = a[i - 1] /\ i \in 2 .. Len(a)
      BY <1>1, <1>2, <2>1, <2>2, SMTT(30) DEF m
    <3> QED
      BY <1>7, <3>1 DEF Chain
  <2>3. CASE i = m + 1
    <3>1. c[i] = b[1] /\ c[i - 1] = a[m] /\ n # 0
      <4>1. ~(i <= m) /\ i - m = 1 /\ i - 1 <= m /\ i - 1 = m /\ n # 0
        BY <1>1, <2>3
      <4> QED
        BY <1>2, <2>1, <4>1
    <3> QED
      BY <1>1, <1>3, <1>7, <3>1
  <2>4. CASE i > m + 1
    <3>1. ~(i <= m) /\ ~(i - 1 <= m) /\ (i - 1) - m = (i - m) - 1 /\ i - m \in 2 .. Len(b)
      BY <1>1, <2>4 DEF n
    <3>2. c[i] = b[i - m] /\ c[i - 1] = b[(i - m) - 1]
      BY <1>2, <2>1, <3>1
    <3> QED
      BY <1>7, <3>1, <3>2 DEF Chain
  <2> QED
    BY <1>1, <2>2, <2>3, <2>4
<1>8. Chain(c)
  BY <1>2, <1>7 DEF Chain
<1> QED
  BY <1>2, <1>4, <1>5, <1>6, <1>8 DEF c

\* Two parts, one thing, and one thing with the call of update_offset behind it.
LEMMA WorksJoin ==
  ASSUME NEW S, NEW a \in Works(S), NEW b \in Works(S)
  PROVE  a \o b \in Works(S) /\ Last(a \o b) = Last(b)
<1> DEFINE F == Ops(S)
<1>1. /\ a \in Seq(F) /\ a # << >> /\ Chain(a) /\ a[1].op # "offset"
      /\ b \in Seq(F) /\ b # << >> /\ Chain(b) /\ b[1].op # "offset"
  BY DEF Works
<1> HIDE DEF F
<1>2. /\ Chain(a \o b) /\ a \o b # << >> /\ (a \o b)[1] = a[1] /\ a \o b \in Seq(F)
      /\ Last(a \o b) = Last(b)
  BY <1>1, ChainJoin
<1> QED
  BY <1>1, <1>2 DEF Works, F

LEMMA WorksOne ==
  ASSUME NEW S, NEW x \in Ops(S), x.op # "offset"
  PROVE  <<x>> \in Works(S) /\ Last(<<x>>) = x
<1> DEFINE F == Ops(S)
           s == <<x>>
<1> HIDE DEF F
<1>1. x \in F
  BY DEF F
<1>2. s \in Seq(F) /\ Len(s) = 1 /\ s[1] = x /\ s # << >>
  BY <1>1
<1> HIDE DEF s
<1>3. Chain(s)
  BY <1>2 DEF Chain
<1>4. Last(s) = x
  BY <1>2 DEF Last
<1> QED
  BY <1>2, <1>3, <1>4 DEF Works, F, s

LEMMA WorksTwo ==
  ASSUME NEW S, NEW x \in Ops(S), x.op # "offset", Ends(x)
  PROVE  <<x, update_offset>> \in Works(S)
<1> DEFINE F == Ops(S)
           y == update_offset
           s == <<x, y>>
<1>0. y \in F
  BY DEF Ops
<1> HIDE DEF F
<1>1. x \in F
  BY DEF F
<1> HIDE DEF y
<1>2. s \in Seq(F) /\ Len(s) = 2 /\ s[1] = x /\ s[2] = y /\ s # << >>
  BY <1>0, <1>1
<1> HIDE DEF s
<1>3. Chain(s)
  <2>1. \A i \in 2 .. 2 : i = 2 /\ i - 1 = 1
    OBVIOUS
  <2> QED
    BY <1>2, <2>1 DEF Chain
<1> QED
  BY <1>2, <1>3 DEF Works, F, s, y

\* What a string with a NUL behind it, a piece, a whole string and a value are.
LEMMA EndedBy ==
  ASSUME NEW s \in Seq(Visible), NEW o \in Nat, o <= Len(s)
  PROVE  /\ Ended(Append(s, Nul), o) /\ Append(s, Nul) \in Seq(Nat)
         /\ Len(Append(s, Nul)) = Len(s) + 1
<1> DEFINE t == Append(s, Nul)
<1>1. Visible \subseteq Nat /\ Nul \in Nat
  BY DEF Visible, Nul
<1>2. s \in Seq(Nat)
  BY <1>1, SeqMonotonic
<1>3. /\ t \in Seq(Nat) /\ Len(t) = Len(s) + 1 /\ t[Len(s) + 1] = Nul
      /\ \A i \in 1 .. Len(s) : t[i] = s[i]
  BY <1>1, <1>2, AppendProperties
<1>4. Len(s) \in Nat /\ \A i \in 1 .. Len(s) : s[i] # Nul
  BY DEF Visible
<1> HIDE DEF t
<1>5. Ended(t, o)
  BY <1>3, <1>4 DEF Ended
<1> QED
  BY <1>3, <1>5 DEF t

LEMMA PutOf ==
  ASSUME NEW S, NEW need \in Nat, NEW bytes \in Seq(Nat), NEW adv \in Nat, adv <= Len(bytes),
         Len(bytes) <= need + 1
  PROVE  /\ Put(need, bytes, adv) \in Ops(S) /\ Put(need, bytes, adv).op # "offset"
         /\ Ended(bytes, adv) => Ends(Put(need, bytes, adv))
<1> DEFINE x == Put(need, bytes, adv)
<1>1. x.op = "put" /\ x.need = need /\ x.bytes = bytes /\ x.advance = adv
      /\ x \in [op : {"put"}, need : Nat, bytes : Seq(Nat), advance : Nat]
  BY DEF Put
<1> HIDE DEF x
<1>2. x \in Ops(S)
  BY <1>1 DEF Ops, Pieces
<1> QED
  BY <1>1, <1>2 DEF Ends, x

LEMMA WholeOf ==
  ASSUME NEW S, NEW need \in Nat, NEW bytes \in Seq(Visible), Len(bytes) <= need
  PROVE  /\ Whole(need, bytes) \in Ops(S) /\ Whole(need, bytes).op # "offset"
         /\ Ends(Whole(need, bytes))
<1> DEFINE t == Append(bytes, Nul)
<1>1. Ended(t, 0) /\ t \in Seq(Nat) /\ Len(t) = Len(bytes) + 1
  BY EndedBy
<1>2. 0 <= Len(t) /\ Len(t) <= need + 1 /\ 0 \in Nat
  BY <1>1
<1>3. Whole(need, bytes) = Put(need, t, 0)
  BY DEF Whole
<1> HIDE DEF t
<1> QED
  BY <1>1, <1>2, <1>3, PutOf

LEMMA ValueOf ==
  ASSUME NEW S, NEW v \in S, NEW d \in Nat
  PROVE  Value(v, d) \in Ops(S) /\ Value(v, d).op # "offset" /\ Ends(Value(v, d))
BY DEF Value, Ops, Ends

\* Indentation.
LEMMA TabsOf == \A n \in Nat : Tabs(n) \in Seq(Visible) /\ Len(Tabs(n)) = n
BY DEF Tabs, Tab, Visible, Nul

\* A string with its quotes has the room it asks for.
LEMMA QuotedOf ==
  ASSUME NEW S, NEW s \in Seq(Nat)
  PROVE  Quoted(s) \in Ops(S) /\ Quoted(s).op # "offset" /\ Ends(Quoted(s))
<1> DEFINE c == CString(s)
           b == print_string_ptr(c)
           need == StringNeed(c)
<1>1. c \in Seq(Visible)
  BY CStringOf
<1>2. Visible \subseteq Nat
  BY DEF Visible
<1>3. c \in Seq(Nat)
  BY <1>1, <1>2, SeqMonotonic
<1>4. Quoted(s) = Whole(need, b)
  BY DEF Quoted
<1> HIDE DEF c
<1>5. b \in Seq(Visible) /\ need \in Nat /\ Len(b) + 1 = need
  BY <1>3, QuotedLength
<1> HIDE DEF b, need
<1>6. Len(b) <= need
  BY <1>5
<1> QED
  BY <1>4, <1>5, <1>6, WholeOf

\* The parts of an array or an object that stand for its children.
LEMMA PartsOf ==
  ASSUME NEW S, NEW n \in Nat, NEW ss \in [1 .. n -> Works(S)],
         NEW a \in Works(S), NEW b \in Works(S)
  PROVE  a \o FlattenSeq(ss) \o b \in Works(S) /\ Last(a \o FlattenSeq(ss) \o b) = Last(b)
<1> DEFINE W == Works(S)
           flat == FlattenSeq(ss)
<1>1. \A v, w \in W : v \o w \in W /\ Last(v \o w) = Last(w)
  BY WorksJoin
<1>2. a \in Seq(Ops(S))
  BY DEF Works
<1>3. a \o flat \in W
  <2>1. CASE n = 0
    <3>1. ss = << >>
      BY <2>1
    <3>2. flat = << >>
      BY <3>1, FlattenNone
    <3>3. a \o << >> = a
      BY <1>2
    <3> QED
      BY <3>2, <3>3
  <2>2. CASE n # 0
    <3>1. ss \in Seq(W) /\ Len(ss) = n
      <4> HIDE DEF W
      <4>1. ss \in [1 .. n -> W]
        BY DEF W
      <4> QED
        BY <4>1
    <3>2. ss # << >>
      BY <2>2, <3>1
    <3>3. PICK h \in [0 .. Len(ss) -> W] : flat = h[Len(ss)]
      <4> HIDE DEF W
      <4> QED
        BY <1>1, <3>1, <3>2, FlattenIn
    <3>4. flat \in W
      <4> HIDE DEF W, flat
      <4> QED
        BY <3>1, <3>3
    <3> QED
      BY <1>1, <3>4
  <2> QED
    BY <2>1, <2>2
<1> HIDE DEF W, flat
<1>4. a \o flat \o b \in W /\ Last(a \o flat \o b) = Last(b)
  <2>1. b \in W
    BY DEF W
  <2> QED
    BY <1>1, <1>3, <2>1
<1> QED
  BY <1>4 DEF W, flat

\* The comma between two items.
LEMMA SeparatorOf ==
  ASSUME NEW S, job \in JobTypes
  PROVE  PutSeparator \in Ops(S) /\ PutSeparator.op # "offset"
<1> DEFINE s == Separator
<1>1. s \in Seq(Nat) /\ Len(s) \in {2, 3}
  <2>1. s = <<Comma, Blank, Nul>> \/ s = <<Comma, Nul>>
    BY DEF Separator
  <2>2. Comma \in Nat /\ Blank \in Nat /\ Nul \in Nat
    BY DEF Comma, Blank, Nul
  <2> HIDE DEF s
  <2>3. s = <<Comma, Blank, Nul>> => s \in Seq(Nat) /\ Len(s) = 3
    BY <2>2
  <2>4. s = <<Comma, Nul>> => s \in Seq(Nat) /\ Len(s) = 2
    BY <2>2
  <2> QED
    BY <2>1, <2>3, <2>4
<1> HIDE DEF s
<1>2. Len(s) \in Nat /\ Len(s) - 1 \in Nat /\ Len(s) - 1 <= Len(s)
      /\ Len(s) <= Len(s) + 1
  <2> DEFINE n == Len(s)
  <2>1. n = 2 \/ n = 3
    BY <1>1
  <2> HIDE DEF n
  <2>2. n \in Nat /\ n - 1 \in Nat /\ n - 1 <= n /\ n <= n + 1
    BY <2>1
  <2> QED
    BY <2>2 DEF n
<1>3. PutSeparator = Put(Len(s), s, Len(s) - 1)
  BY DEF PutSeparator, s
<1> QED
  BY <1>1, <1>2, <1>3, PutOf

\* What print_array has to do ends with a NUL.
LEMMA ArrayOf ==
  ASSUME NEW S, NEW v \in Nodes(S), NEW d \in Nat, job \in JobTypes
  PROVE  print_array(v, d) \in Works(S) /\ Ends(Last(print_array(v, d)))
<1> DEFINE n == Len(v.kids)
           W == Works(S)
           E(i) == <<Value(v.kids[i], d + 1), update_offset>>
                    \o (IF i < Len(v.kids) THEN <<PutSeparator>> ELSE << >>)
           ss == [i \in DOMAIN v.kids |-> E(i)]
           first == Put(1, <<Open>>, 1)
           last == Whole(2, <<Close>>)
<1>0. v.kids \in Seq(S) /\ n \in Nat /\ DOMAIN v.kids = 1 .. n /\ d + 1 \in Nat
  BY DEF Nodes
<1>1. \A i \in 1 .. n : v.kids[i] \in S
  BY <1>0
<1>2. \A i \in 1 .. n : E(i) \in W
  <2> TAKE i \in 1 .. n
  <2> DEFINE x == Value(v.kids[i], d + 1)
             head == <<x, update_offset>>
  <2>1. x \in Ops(S) /\ x.op # "offset" /\ Ends(x)
    BY <1>0, <1>1, ValueOf
  <2> HIDE DEF x
  <2>2. head \in W
    BY <2>1, WorksTwo
  <2>3. head \in Seq(Ops(S))
    BY <2>2 DEF Works
  <2>4. <<PutSeparator>> \in W
    BY SeparatorOf, WorksOne
  <2> HIDE DEF head
  <2>5. head \o <<PutSeparator>> \in W /\ head \o << >> = head
    BY <2>2, <2>3, <2>4, WorksJoin
  <2> HIDE DEF W
  <2> QED
    BY <2>2, <2>5 DEF head, x
<1>3. ss \in [1 .. n -> W]
  <2> HIDE DEF E, W, n
  <2> QED
    BY <1>0, <1>2
<1>4. <<first>> \in W
  <2>1. <<Open>> \in Seq(Nat) /\ Len(<<Open>>) = 1
    BY DEF Open
  <2> DEFINE b == <<Open>>
  <2> HIDE DEF b
  <2>2. 1 <= Len(b) /\ Len(b) <= 1 + 1 /\ 1 \in Nat /\ b \in Seq(Nat)
    BY <2>1 DEF b
  <2>3. Put(1, b, 1) \in Ops(S) /\ Put(1, b, 1).op # "offset"
    BY <2>2, PutOf
  <2> QED
    BY <2>3, WorksOne DEF b
<1>5. <<last>> \in W /\ Ends(Last(<<last>>))
  <2>1. <<Close>> \in Seq(Visible) /\ Len(<<Close>>) = 1
    BY DEF Close, Visible, Nul
  <2> DEFINE b == <<Close>>
  <2> HIDE DEF b
  <2>2. Len(b) <= 2 /\ 2 \in Nat /\ b \in Seq(Visible)
    BY <2>1 DEF b
  <2>3. Whole(2, b) \in Ops(S) /\ Whole(2, b).op # "offset" /\ Ends(Whole(2, b))
    BY <2>2, WholeOf
  <2>4. <<Whole(2, b)>> \in W /\ Last(<<Whole(2, b)>>) = Whole(2, b)
    BY <2>3, WorksOne
  <2> QED
    BY <2>3, <2>4 DEF b
<1>6. print_array(v, d) = <<first>> \o FlattenSeq(ss) \o <<last>>
  BY DEF print_array
<1> HIDE DEF ss, first, last, n
<1> QED
  BY <1>0, <1>3, <1>4, <1>5, <1>6, PartsOf

\* A piece of text that may stand anywhere but at the end.
LEMMA PieceOf ==
  ASSUME NEW S, NEW b \in Seq(Visible), NEW need \in Nat, Len(b) <= need + 1
  PROVE  /\ <<Put(need, b, Len(b))>> \in Works(S)
         /\ Put(need, b, Len(b)) \in Ops(S) /\ Put(need, b, Len(b)).op # "offset"
<1>1. Visible \subseteq Nat
  BY DEF Visible
<1>2. b \in Seq(Nat) /\ Len(b) \in Nat /\ Len(b) <= Len(b)
  <2>1. b \in Seq(Nat)
    BY <1>1, SeqMonotonic
  <2> QED
    BY <2>1
<1>3. Put(need, b, Len(b)) \in Ops(S) /\ Put(need, b, Len(b)).op # "offset"
  BY <1>2, PutOf
<1> DEFINE x == Put(need, b, Len(b))
<1> HIDE DEF x
<1>4. x \in Ops(S) /\ x.op # "offset"
  BY <1>3 DEF x
<1>5. <<x>> \in Works(S)
  BY <1>4, WorksOne
<1> QED
  BY <1>4, <1>5 DEF x

\* One with a NUL behind it, which the offset does not pass.
LEMMA EndingOf ==
  ASSUME NEW S, NEW b \in Seq(Visible)
  PROVE  LET x == Put(Len(b) + 1, Append(b, Nul), Len(b)) IN
         /\ <<x>> \in Works(S) /\ Last(<<x>>) = x /\ Ends(x)
         /\ x \in Ops(S) /\ x.op # "offset"
<1> DEFINE t == Append(b, Nul)
           n == Len(b)
           x == Put(n + 1, t, n)
<1>1. n \in Nat
  OBVIOUS
<1>2. n <= n
  BY <1>1
<1>3. Ended(t, n) /\ t \in Seq(Nat) /\ Len(t) = n + 1
  BY <1>1, <1>2, EndedBy
<1> HIDE DEF t, n
<1>4. n + 1 \in Nat /\ n <= Len(t) /\ Len(t) <= (n + 1) + 1
  BY <1>1, <1>3
<1>5. x \in Ops(S) /\ x.op # "offset" /\ Ends(x)
  BY <1>1, <1>3, <1>4, PutOf
<1>6. <<x>> \in Works(S) /\ Last(<<x>>) = x
  <2> HIDE DEF x
  <2> QED
    BY <1>5, WorksOne
<1> QED
  BY <1>5, <1>6 DEF t, n

\* The closing brace of an object.
LEMMA BraceOf ==
  ASSUME NEW S, NEW d \in Nat
  PROVE  <<ClosingBrace(d)>> \in Works(S) /\ Ends(Last(<<ClosingBrace(d)>>))
<1> DEFINE b == <<CloseBrace>>
           t == Tabs(d) \o b
<1>1. b \in Seq(Visible) /\ Len(b) = 1
  BY DEF CloseBrace, Visible, Nul
<1>2. Tabs(d) \in Seq(Visible) /\ Len(Tabs(d)) = d
  BY TabsOf
<1> HIDE DEF b
<1>3. t \in Seq(Visible) /\ Len(t) = d + 1
  <2> DEFINE a == Tabs(d)
  <2> HIDE DEF a
  <2>1. a \in Seq(Visible) /\ Len(a) = d
    BY <1>2 DEF a
  <2>2. a \o b \in Seq(Visible) /\ Len(a \o b) = d + 1
    <3>1. a \o b \in Seq(Visible) /\ Len(a \o b) = Len(a) + Len(b)
      BY <1>1, <2>1, ConcatProperties
    <3> QED
      BY <1>1, <2>1, <3>1
  <2> QED
    BY <2>2 DEF a
<1> HIDE DEF t
<1>4. d + 2 \in Nat /\ Len(t) <= d + 2 /\ 2 \in Nat /\ Len(b) <= 2
  BY <1>1, <1>3
<1>5. \A x \in {Whole(d + 2, t), Whole(2, b)} : x \in Ops(S) /\ x.op # "offset" /\ Ends(x)
  BY <1>1, <1>3, <1>4, WholeOf
<1>6. ClosingBrace(d) \in {Whole(d + 2, t), Whole(2, b)}
  BY DEF ClosingBrace, t, b
<1> DEFINE x == ClosingBrace(d)
<1> HIDE DEF x
<1>7. x \in Ops(S) /\ x.op # "offset" /\ Ends(x)
  BY <1>5, <1>6 DEF x
<1>8. <<x>> \in Works(S) /\ Last(<<x>>) = x
  BY <1>7, WorksOne
<1> QED
  BY <1>7, <1>8 DEF x

\* A member of an object.
LEMMA WorksSix ==
  ASSUME NEW S, NEW x \in Ops(S), NEW y \in Ops(S), NEW z \in Ops(S), NEW w \in Ops(S),
         x.op # "offset", y.op # "offset", z.op # "offset", w.op # "offset", Ends(x), Ends(z)
  PROVE  <<x, update_offset, y, z, update_offset, w>> \in Works(S)
<1> DEFINE F == Ops(S)
           u == update_offset
           s == <<x, u, y, z, u, w>>
<1>0. u \in F
  BY DEF Ops
<1> HIDE DEF F
<1>1. x \in F /\ y \in F /\ z \in F /\ w \in F
  BY DEF F
<1> HIDE DEF u
<1>2. /\ s \in Seq(F) /\ Len(s) = 6 /\ s # << >> /\ s[1] = x /\ s[2] = u /\ s[3] = y
      /\ s[4] = z /\ s[5] = u /\ s[6] = w
  BY <1>0, <1>1
<1> HIDE DEF s
<1>3. Chain(s)
  <2>1. \A i \in 2 .. 6 : i \in {2, 3, 4, 5, 6}
    OBVIOUS
  <2>2. 2 - 1 = 1 /\ 5 - 1 = 4
    OBVIOUS
  <2>3. s[3].op # "offset" /\ s[4].op # "offset" /\ s[6].op # "offset"
    BY <1>2
  <2>4. Ends(s[2 - 1]) /\ Ends(s[5 - 1])
    BY <1>2, <2>2
  <2>5. \A i \in 2 .. 6 : s[i].op = "offset" => Ends(s[i - 1])
    BY <2>1, <2>3, <2>4
  <2> QED
    BY <1>2, <2>5 DEF Chain
<1> QED
  BY <1>2, <1>3 DEF Works, F, s, u

\* What print_object does for a member: its name, a colon, its value and what
\* follows it.
LEMMA MemberOf ==
  ASSUME NEW S, NEW d \in Nat, NEW k \in S, NEW name \in Seq(Nat),
         NEW tabs, tabs = << >> \/ tabs \in Works(S),
         NEW colon \in Seq(Visible), NEW tail \in Seq(Visible)
  PROVE  tabs \o <<Quoted(name), update_offset,
                   Put(Len(colon), colon, Len(colon)), Value(k, d), update_offset,
                   Put(Len(tail) + 1, tail \o <<Nul>>, Len(tail))>> \in Works(S)
<1> DEFINE W == Works(S)
           x == Quoted(name)
           y == Put(Len(colon), colon, Len(colon))
           z == Value(k, d)
           w == Put(Len(tail) + 1, tail \o <<Nul>>, Len(tail))
           all == <<x, update_offset, y, z, update_offset, w>>
<1>1. x \in Ops(S) /\ x.op # "offset" /\ Ends(x)
  BY QuotedOf
<1>2. y \in Ops(S) /\ y.op # "offset"
  <2>1. Len(colon) \in Nat
    OBVIOUS
  <2>2. Len(colon) <= Len(colon) + 1
    BY <2>1
  <2> QED
    BY <2>1, <2>2, PieceOf
<1>3. z \in Ops(S) /\ z.op # "offset" /\ Ends(z)
  BY ValueOf
<1>4. w \in Ops(S) /\ w.op # "offset"
  <2>1. tail \o <<Nul>> = Append(tail, Nul)
    OBVIOUS
  <2> QED
    BY <2>1, EndingOf
<1> HIDE DEF x, y, z, w
<1>5. all \in W
  BY <1>1, <1>2, <1>3, <1>4, WorksSix
<1>6. all \in Seq(Ops(S))
  BY <1>5 DEF Works
<1> HIDE DEF all, W
<1>7. tabs \o all \in W
  <2>1. << >> \o all = all
    BY <1>6
  <2>2. tabs \in Works(S) => tabs \o all \in W
    BY <1>5, WorksJoin DEF W
  <2> QED
    BY <1>5, <2>1, <2>2
<1> QED
  BY <1>7 DEF W, all, x, y, z, w

\* What print_object has to do ends with a NUL.
LEMMA ObjectOf ==
  ASSUME NEW S, S \subseteq Nodes(S), NEW v \in Nodes(S), NEW d \in Nat
  PROVE  print_object(v, d) \in Works(S) /\ Ends(Last(print_object(v, d)))
<1> DEFINE n == Len(v.kids)
           W == Works(S)
           line == IF job.format THEN <<NewLine>> ELSE << >>
           colon == IF job.format THEN <<Colon, Tab>> ELSE <<Colon>>
           Comma_(i) == IF i < Len(v.kids) THEN <<Comma>> ELSE << >>
           tabs == IF job.format THEN <<Put(d + 1, Tabs(d + 1), d + 1)>> ELSE << >>
           Name(i) == IF v.kids[i].name = << >> THEN << >> ELSE v.kids[i].name[1]
           One(i) == tabs \o
             <<Quoted(Name(i)), update_offset,
               Put(Len(colon), colon, Len(colon)),
               Value(v.kids[i], d + 1), update_offset,
               Put(Len(Comma_(i) \o line) + 1, Comma_(i) \o line \o <<Nul>>, Len(Comma_(i) \o line))>>
           ss == [i \in DOMAIN v.kids |-> One(i)]
           brace == <<OpenBrace>> \o line
           first == Put(Len(line) + 2, brace, Len(line) + 1)
           last == ClosingBrace(d)
<1>0. v.kids \in Seq(S) /\ n \in Nat /\ DOMAIN v.kids = 1 .. n /\ d + 1 \in Nat
  BY DEF Nodes
<1>1. \A i \in 1 .. n : v.kids[i] \in S /\ v.kids[i] \in Nodes(S)
  BY <1>0
<1>2. /\ line \in Seq(Visible) /\ Len(line) \in Nat
      /\ colon \in Seq(Visible)
  <2>1. /\ << >> \in Seq(Visible) /\ <<NewLine>> \in Seq(Visible)
        /\ <<Colon, Tab>> \in Seq(Visible) /\ <<Colon>> \in Seq(Visible)
    BY DEF NewLine, Colon, Tab, Visible, Nul
  <2>2. line \in {<< >>, <<NewLine>>} /\ colon \in {<<Colon, Tab>>, <<Colon>>}
    OBVIOUS
  <2> HIDE DEF line, colon
  <2> QED
    BY <2>1, <2>2
<1>3. \A i \in 1 .. n : Comma_(i) \in Seq(Visible)
  <2>1. << >> \in Seq(Visible) /\ <<Comma>> \in Seq(Visible)
    BY DEF Comma, Visible, Nul
  <2> QED
    BY <2>1
<1>4. \A i \in 1 .. n : Name(i) \in Seq(Nat)
  <2> TAKE i \in 1 .. n
  <2> DEFINE name == v.kids[i].name
  <2>1. name \in Seq(Seq(Nat))
    BY <1>1 DEF Nodes
  <2> HIDE DEF name
  <2>2. name # << >> => name[1] \in Seq(Nat)
    BY <2>1
  <2>3. << >> \in Seq(Nat)
    OBVIOUS
  <2> QED
    BY <2>2, <2>3 DEF name
<1>5. tabs = << >> \/ tabs \in W
  <2> DEFINE t == Tabs(d + 1)
             x == <<Put(d + 1, t, d + 1)>>
  <2>1. t \in Seq(Visible) /\ Len(t) = d + 1
    BY <1>0, TabsOf
  <2> HIDE DEF t
  <2>2. Len(t) <= (d + 1) + 1
    BY <1>0, <2>1
  <2>3. <<Put(d + 1, t, Len(t))>> \in Works(S)
    BY <1>0, <2>1, <2>2, PieceOf
  <2>4. x \in W
    BY <2>1, <2>3
  <2>5. tabs = << >> \/ tabs = x
    BY DEF t
  <2> HIDE DEF x, tabs, W
  <2> QED
    BY <2>4, <2>5
<1> HIDE DEF line, colon, tabs, Name, Comma_
<1>6. \A i \in 1 .. n : One(i) \in W
  <2> TAKE i \in 1 .. n
  <2> DEFINE tail == Comma_(i) \o line
             k == v.kids[i]
             name == Name(i)
  <2>1. tail \in Seq(Visible) /\ k \in S /\ name \in Seq(Nat)
    BY <1>1, <1>2, <1>3, <1>4, ConcatProperties
  <2> HIDE DEF tail, k, name
  <2>2. tabs \o <<Quoted(name), update_offset,
                   Put(Len(colon), colon, Len(colon)), Value(k, d + 1), update_offset,
                   Put(Len(tail) + 1, tail \o <<Nul>>, Len(tail))>> \in Works(S)
    BY <1>0, <1>2, <1>5, <2>1, MemberOf
  <2> QED
    BY <2>2 DEF tail, k, name
<1>7. ss \in [1 .. n -> W]
  <2> HIDE DEF One, W, n
  <2> QED
    BY <1>0, <1>6
<1>8. <<first>> \in W
  <2>1. <<OpenBrace>> \in Seq(Visible) /\ Len(<<OpenBrace>>) = 1
    BY DEF OpenBrace, Visible, Nul
  <2> DEFINE b == <<OpenBrace>>
  <2> HIDE DEF b
  <2>2. b \o line \in Seq(Visible) /\ Len(b \o line) = Len(b) + Len(line)
    BY <1>2, <2>1, ConcatProperties DEF b
  <2>3. brace \in Seq(Visible) /\ Len(brace) = Len(line) + 1
    BY <1>2, <2>1, <2>2 DEF b
  <2> HIDE DEF brace
  <2>4. Len(line) + 2 \in Nat /\ Len(brace) <= (Len(line) + 2) + 1
    BY <1>2, <2>3
  <2>5. <<Put(Len(line) + 2, brace, Len(brace))>> \in Works(S)
    BY <2>3, <2>4, PieceOf
  <2> QED
    BY <2>3, <2>5
<1>9. <<last>> \in W /\ Ends(Last(<<last>>))
  BY BraceOf
<1>10. print_object(v, d) = <<first>> \o FlattenSeq(ss) \o <<last>>
  BY DEF print_object, line, colon, Comma_, tabs, Name
<1> HIDE DEF ss, first, last, n
<1> QED
  BY <1>0, <1>7, <1>8, <1>9, <1>10, PartsOf

\* What print_value has to do for a value: its pieces fit, and every
\* update_offset in it follows something that ends with a NUL.
THEOREM WorkOf ==
  ASSUME NEW S, Forest(S), NEW v \in S, NEW d \in Nat, job \in JobTypes, Printable(v)
  PROVE  Work(v, d) \in Works(S) /\ Ends(Last(Work(v, d)))
<1>1. v \in Nodes(S) /\ S \subseteq Nodes(S)
  BY DEF Forest
<1>2. v.str \in Seq(Nat) /\ v.num \in Int
  BY <1>1 DEF Nodes
<1>3. CASE v.type = "string"
  <2> DEFINE x == Quoted(v.str)
  <2>1. x \in Ops(S) /\ x.op # "offset" /\ Ends(x)
    BY <1>2, QuotedOf
  <2> HIDE DEF x
  <2>2. <<x>> \in Works(S) /\ Last(<<x>>) = x
    BY <2>1, WorksOne
  <2> QED
    BY <1>3, <2>1, <2>2 DEF Work, x
<1>4. CASE v.type = "array"
  BY <1>1, <1>4, ArrayOf DEF Work
<1>5. CASE v.type = "object"
  BY <1>1, <1>5, ObjectOf DEF Work
<1>6. v.type \notin {"string", "array", "object"} => Word(v) \in Seq(Visible)
  <2>1. NullWord \in Seq(Visible) /\ TrueWord \in Seq(Visible) /\ FalseWord \in Seq(Visible)
    BY DEF NullWord, TrueWord, FalseWord, Visible, Nul
  <2>2. print_number(v.num) \in Seq(Visible)
    BY <1>2, <2>1, DecimalType DEF print_number
  <2>3. CString(v.str) \in Seq(Visible)
    BY <1>2, CStringOf
  <2> QED
    BY <2>1, <2>2, <2>3 DEF Word, Printable
<1>7. CASE v.type = "number"
  <2> DEFINE b == Word(v)
             x == Put(Len(b) + 1, Append(b, Nul), Len(b))
  <2>1. b \in Seq(Visible)
    BY <1>6, <1>7
  <2> HIDE DEF b
  <2>2. <<x>> \in Works(S) /\ Last(<<x>>) = x /\ Ends(x)
    BY <2>1, EndingOf
  <2>3. Work(v, d) = <<x>>
    BY <1>7 DEF Work, b
  <2> HIDE DEF x
  <2> QED
    BY <2>2, <2>3
<1>8. CASE v.type \notin {"string", "array", "object", "number"}
  <2> DEFINE b == Word(v)
             x == Whole(Len(b) + 1, b)
  <2>1. b \in Seq(Visible)
    BY <1>6, <1>8
  <2> HIDE DEF b
  <2>2. Len(b) \in Nat
    BY <2>1
  <2>3. Len(b) + 1 \in Nat /\ Len(b) <= Len(b) + 1
    BY <2>2
  <2>4. x \in Ops(S) /\ x.op # "offset" /\ Ends(x)
    BY <2>1, <2>3, WholeOf
  <2>5. Work(v, d) = <<x>>
    BY <1>8 DEF Work, b
  <2> HIDE DEF x
  <2>6. <<x>> \in Works(S) /\ Last(<<x>>) = x
    BY <2>4, WorksOne
  <2> QED
    BY <2>4, <2>5, <2>6
<1> QED
  BY <1>3, <1>4, <1>5, <1>7, <1>8

-----------------------------------------------------------------------------
\* The buffer.

\* Once the first thing is done.
LEMMA TailOf ==
  ASSUME NEW F, NEW sq \in Seq(F), sq # << >>, Chain(sq), Ends(Last(sq))
  PROVE  /\ Tail(sq) \in Seq(F) /\ Chain(Tail(sq)) /\ sq[1] \in F /\ Head(sq) = sq[1]
         /\ Tail(sq) # << >> => Ends(Last(Tail(sq)))
         /\ Tail(sq) = << >> \/ Tail(sq)[1].op = "offset" => Ends(sq[1])
<1> DEFINE t == Tail(sq)
           n == Len(sq)
<1>1. n \in Nat /\ n # 0 /\ n \in 1 .. n /\ 1 \in 1 .. n
  OBVIOUS
<1>2. /\ t \in Seq(F) /\ Len(t) = n - 1 /\ \A i \in 1 .. n - 1 : t[i] = sq[i + 1]
      /\ sq[1] \in F /\ Head(sq) = sq[1]
  BY HeadTailProperties
<1>3. t = << >> <=> n = 1
  BY <1>1, <1>2
<1>4. Last(sq) = sq[n] /\ Last(t) = t[n - 1]
  BY <1>2 DEF Last
<1> HIDE DEF t, n
<1>a. t # << >> => n > 1
  BY <1>1, <1>3
<1>5. Chain(t)
  <2>1. ASSUME NEW i \in 2 .. n - 1, t[i].op = "offset" PROVE Ends(t[i - 1])
    <3>1. i \in 1 .. n - 1 /\ i - 1 \in 1 .. n - 1 /\ i + 1 \in 2 .. n /\ (i - 1) + 1 = (i + 1) - 1
      BY <1>1, <2>1
    <3>2. t[i] = sq[i + 1] /\ t[i - 1] = sq[(i + 1) - 1]
      BY <1>2, <3>1
    <3> QED
      BY <2>1, <3>1, <3>2 DEF Chain, n
  <2> QED
    BY <1>2, <2>1 DEF Chain
<1>6. t # << >> => Ends(Last(t))
  <2>1. t # << >> => n - 1 \in 1 .. n - 1 /\ (n - 1) + 1 = n
    BY <1>1, <1>a
  <2>2. t # << >> => t[n - 1] = sq[n]
    BY <1>2, <2>1
  <2> QED
    BY <1>4, <2>2
<1>7. t = << >> => Ends(sq[1])
  BY <1>3, <1>4
<1>8. t # << >> /\ t[1].op = "offset" => Ends(sq[1])
  <2>1. t # << >> => 1 \in 1 .. n - 1 /\ 2 \in 2 .. n /\ 2 - 1 = 1 /\ 1 + 1 = 2
    BY <1>1, <1>a
  <2>2. t # << >> => t[1] = sq[2]
    BY <1>2, <2>1
  <2> QED
    BY <2>1, <2>2 DEF Chain, n
<1> QED
  BY <1>2, <1>5, <1>6, <1>7, <1>8 DEF t

\* The end update_offset finds when there is one.
LEMMA StrlenOf ==
  ASSUME NEW s \in Seq(Nat), NEW o \in Nat, Ended(s, o),
         NEW len, len = Len(CString(Slice(s, o, Len(s))))
  PROVE  len = (Len(s) - o) - 1 /\ len \in Nat
<1> DEFINE n == Len(s)
           rest == Slice(s, o, n)
           c == CString(rest)
<1>1. n \in Nat /\ o < n /\ s[n] = Nul /\ \A i \in o + 1 .. n - 1 : s[i] # Nul
  BY DEF Ended
<1>2. o <= n
  BY <1>1
<1>3. /\ rest \in Seq(Nat) /\ Len(rest) = n - o
      /\ \A k \in 1 .. n - o : rest[k] = s[o + k]
  <2>1. n \in Nat /\ n <= Len(s)
    BY <1>1
  <2> HIDE DEF n
  <2> QED
    BY <1>2, <2>1, SliceOf
<1>4. len = Len(c)
  OBVIOUS
<1> HIDE DEF rest
<1>5. /\ Len(c) \in Nat /\ Len(c) <= Len(rest)
      /\ Len(c) < Len(rest) => rest[Len(c) + 1] = Nul
      /\ (\E i \in 1 .. Len(rest) : rest[i] = Nul) => Len(c) < Len(rest)
  BY <1>3, CStringOf
<1> DEFINE k == Len(c)
<1> HIDE DEF c
<1>6. k < n - o
  <2>1. n - o \in 1 .. n - o /\ o + (n - o) = n
    BY <1>1
  <2>2. rest[n - o] = Nul
    BY <1>1, <1>3, <2>1
  <2> QED
    BY <1>3, <1>5, <2>1, <2>2
<1>7. s[o + (k + 1)] = Nul /\ k \in Nat
  <2>1. k + 1 \in 1 .. n - o
    BY <1>1, <1>5, <1>6
  <2> QED
    BY <1>3, <1>5, <1>6, <2>1
<1> HIDE DEF k
<1>8. k = (n - o) - 1
  <2>1. CASE k + 1 < n - o
    <3>1. o + (k + 1) \in o + 1 .. n - 1
      BY <1>1, <1>7, <2>1
    <3> QED
      BY <1>1, <1>7, <3>1
  <2> QED
    BY <1>1, <1>6, <1>7, <2>1
<1> QED
  BY <1>4, <1>7, <1>8 DEF k, n

\* What is in the buffer once a piece is written.
LEMMA BufferOf ==
  ASSUME NEW s \in Seq(Nat), NEW o \in Nat, o <= Len(s), NEW x \in Pieces,
         NEW t, t = Slice(s, 0, o) \o x.bytes
  PROVE  /\ t \in Seq(Nat) /\ Len(t) = o + Len(x.bytes)
         /\ o + x.advance <= Len(t) /\ Len(t) <= (x.need + o) + 1
         /\ o + x.advance \in Nat
         /\ Ends(x) => Ended(t, o + x.advance)
<1> DEFINE a == Slice(s, 0, o)
           b == x.bytes
           m == x.advance
           need == x.need
           n == Len(x.bytes)
<1>1. b \in Seq(Nat) /\ n \in Nat /\ m \in Nat /\ m <= n /\ n <= need + 1 /\ need \in Nat
      /\ x.op = "put"
  BY DEF Pieces
<1>2. a \in Seq(Nat) /\ Len(a) = o
  <2>1. 0 \in Nat /\ 0 <= o /\ o - 0 = o
    OBVIOUS
  <2> QED
    BY <2>1, SliceOf
<1> HIDE DEF a
<1>3. /\ t \in Seq(Nat) /\ Len(t) = o + n
      /\ \A i \in 1 .. o + n : t[i] = IF i <= o THEN a[i] ELSE b[i - o]
  <2> HIDE DEF b, n
  <2>1. t = a \o b /\ Len(b) = n
    BY DEF a, b, n
  <2>2. /\ a \o b \in Seq(Nat) /\ Len(a \o b) = Len(a) + Len(b)
        /\ \A i \in 1 .. Len(a) + Len(b) :
             (a \o b)[i] = IF i <= Len(a) THEN a[i] ELSE b[i - Len(a)]
    BY <1>1, <1>2, ConcatProperties
  <2> QED
    BY <1>2, <2>1, <2>2
<1>4. Ends(x) => m < n /\ b[n] = Nul /\ \A i \in m + 1 .. n - 1 : b[i] # Nul
  BY <1>1 DEF Ends, Ended
<1> HIDE DEF b, m, n, need
<1>5. o + m <= o + n /\ o + n <= (need + o) + 1 /\ o + m \in Nat
  BY <1>1
<1>6. ASSUME Ends(x) PROVE Ended(t, o + m)
  <2>1. o + m < o + n /\ o + n \in 1 .. o + n /\ ~(o + n <= o) /\ (o + n) - o = n
    BY <1>1, <1>4, <1>6
  <2>2. t[o + n] = Nul
    BY <1>3, <1>4, <1>6, <2>1
  <2>3. ASSUME NEW i \in (o + m) + 1 .. (o + n) - 1 PROVE t[i] # Nul
    <3>1. i \in 1 .. o + n /\ ~(i <= o) /\ i - o \in m + 1 .. n - 1
      BY <1>1
    <3> QED
      BY <1>3, <1>4, <1>6, <3>1
  <2> QED
    BY <1>3, <2>1, <2>2, <2>3 DEF Ended
<1> QED
  BY <1>3, <1>5, <1>6 DEF b, m, n, need

\* What the printer keeps when the items it may still have to print are in S.
Prints(S) ==
  [pc : {"idle", "print", "fail", "printed", "failed"}, todo : Seq(Ops(S)), out : Seq(Nat),
   length : Int, offset : Nat, mem : Int, buffer : BOOLEAN, strays : BOOLEAN]

\* While it prints: the buffer holds what was written, up to the offset and
\* beyond, and a NUL ends it wherever update_offset is about to look for one.
Printing(b) ==
  /\ Chain(b.todo) /\ (b.todo # << >> => Ends(Last(b.todo)))
  /\ b.todo = << >> \/ b.todo[1].op = "offset" => Ended(b.out, b.offset)
  /\ b.offset <= Len(b.out) /\ Len(b.out) <= b.length
  /\ b.length = 0 => job.size = 0 /\ job.fun # "Print"

Sound(b) ==
  /\ b.pc = "print" => Printing(b)
  /\ b.pc = "printed" => Len(b.out) <= b.length
  /\ b.strays => job.fun = "Buffered" /\ job.size = 0

\* What is left to do, and the buffer, once a piece is written.
LEMMA WriteType ==
  ASSUME NEW S, NEW b \in Prints(S), Sound(b), b.pc = "print", b.todo # << >>,
         b.todo[1].op = "put"
  PROVE  LET x    == b.todo[1]
             rest == Tail(b.todo)
             out  == Slice(b.out, 0, b.offset) \o x.bytes
             o    == b.offset + x.advance
         IN  /\ rest \in Seq(Ops(S)) /\ Chain(rest) /\ x \in Pieces
             /\ rest # << >> => Ends(Last(rest))
             /\ rest = << >> \/ rest[1].op = "offset" => Ended(out, o)
             /\ out \in Seq(Nat) /\ o <= Len(out) /\ Len(out) <= (x.need + b.offset) + 1 /\ o \in Nat
<1> DEFINE F == Ops(S)
           todo == b.todo
           x == b.todo[1]
           rest == Tail(b.todo)
           out == Slice(b.out, 0, b.offset) \o x.bytes
           o == b.offset + x.advance
<1>1. todo \in Seq(F) /\ b.out \in Seq(Nat) /\ b.offset \in Nat
  BY DEF Prints
<1>2. todo # << >> /\ Chain(todo) /\ Ends(Last(todo)) /\ b.offset <= Len(b.out)
  BY DEF Sound, Printing
<1>3. /\ rest \in Seq(F) /\ Chain(rest) /\ x \in F
      /\ rest # << >> => Ends(Last(rest))
      /\ rest = << >> \/ rest[1].op = "offset" => Ends(x)
  <2> HIDE DEF F, todo
  <2>1. /\ Tail(todo) \in Seq(F) /\ Chain(Tail(todo)) /\ todo[1] \in F
        /\ Tail(todo) # << >> => Ends(Last(Tail(todo)))
        /\ Tail(todo) = << >> \/ Tail(todo)[1].op = "offset" => Ends(todo[1])
    BY <1>1, <1>2, TailOf
  <2> QED
    BY <2>1 DEF todo
<1>4. x \in Pieces
  <2>1. update_offset.op # "put"
    BY DEF update_offset
  <2> HIDE DEF x
  <2>2. x.op = "put"
    BY DEF x
  <2> QED
    BY <1>3, <2>1, <2>2 DEF Ops
<1>5. /\ out \in Seq(Nat) /\ o <= Len(out) /\ Len(out) <= (x.need + b.offset) + 1 /\ o \in Nat
      /\ Ends(x) => Ended(out, o)
  BY <1>1, <1>2, <1>4, BufferOf
<1> HIDE DEF rest, out, o, F
<1> QED
  BY <1>3, <1>4, <1>5 DEF F, rest, out, o

\* A piece is written into a buffer that has been made large enough for it.
LEMMA WriteSound ==
  ASSUME NEW S, NEW b \in Prints(S), Sound(b), b.pc = "print", b.todo # << >>,
         b.todo[1].op = "put", NEW r, r.pc = "print", r.todo = Tail(b.todo),
         r.out = Slice(b.out, 0, b.offset) \o b.todo[1].bytes,
         r.offset = b.offset + b.todo[1].advance,
         r.length \in Int, (b.todo[1].need + b.offset) + 1 <= r.length,
         r.strays => job.fun = "Buffered" /\ job.size = 0
  PROVE  Sound(r)
<1> DEFINE x == b.todo[1]
<1>1. /\ Chain(r.todo) /\ x \in Pieces
      /\ r.todo # << >> => Ends(Last(r.todo))
      /\ r.todo = << >> \/ r.todo[1].op = "offset" => Ended(r.out, r.offset)
      /\ r.out \in Seq(Nat) /\ r.offset <= Len(r.out) /\ Len(r.out) <= (x.need + b.offset) + 1
  BY WriteType
<1>2. x.need \in Nat /\ b.offset \in Nat
  BY <1>1 DEF Pieces, Prints
<1>3. r.length # 0 /\ Len(r.out) <= r.length
  <2> DEFINE n == Len(r.out)
             m == x.need
             k == b.offset
             length == r.length
  <2>a. n \in Nat
    <3> DEFINE out == r.out
    <3>1. out \in Seq(Nat)
      BY <1>1
    <3> HIDE DEF out
    <3>2. Len(out) \in Nat
      BY <3>1
    <3> QED
      BY <3>2 DEF out
  <2>1. m \in Nat /\ k \in Nat /\ n \in Nat /\ n <= (m + k) + 1 /\ (m + k) + 1 <= length
        /\ length \in Int
    <3> HIDE DEF x
    <3> QED
      BY <1>1, <1>2, <2>a DEF x
  <2> HIDE DEF n, m, k, length
  <2>2. length # 0 /\ n <= length
    BY <2>1
  <2> QED
    BY <2>2 DEF n, length
<1> QED
  BY <1>1, <1>3 DEF Sound, Printing

\* The same with what may be left to do for a set.
PrintPcs == {"idle", "print", "fail", "printed", "failed"}

\* The same with what may be left to do for a set.
PrintsOf(F) ==
  [pc : PrintPcs, todo : F, out : Seq(Nat), length : Int, offset : Nat, mem : Int,
   buffer : BOOLEAN, strays : BOOLEAN]

\* It is the type of a printer.
LEMMA PrintsIs == \A S : Prints(S) = PrintsOf(Seq(Ops(S)))
BY DEF Prints, PrintsOf, PrintPcs

\* The printer with a piece written.
WrittenTo(b, out, offset, todo) ==
  [b EXCEPT !.out = out, !.offset = offset, !.todo = todo]

LEMMA WrittenType ==
  ASSUME NEW F, NEW b \in PrintsOf(F), NEW todo \in F, NEW out \in Seq(Nat),
         NEW offset \in Nat
  PROVE  LET r == WrittenTo(b, out, offset, todo) IN
         /\ r \in PrintsOf(F) /\ r.todo = todo /\ r.out = out /\ r.offset = offset
         /\ r.length = b.length /\ r.strays = b.strays /\ r.pc = b.pc
BY DEF PrintsOf, WrittenTo

\* The printer with a buffer of another length.
GrownTo(b, length, strays) == [b EXCEPT !.length = length, !.strays = strays]

LEMMA GrownType ==
  ASSUME NEW F, NEW b \in PrintsOf(F), NEW length \in Int
  PROVE  \A strays \in BOOLEAN :
         /\ GrownTo(b, length, strays) \in PrintsOf(F)
         /\ GrownTo(b, length, strays).length = length
         /\ GrownTo(b, length, strays).strays = strays
         /\ GrownTo(b, length, strays).pc = b.pc
         /\ GrownTo(b, length, strays).out = b.out
         /\ GrownTo(b, length, strays).offset = b.offset
         /\ GrownTo(b, length, strays).todo = b.todo
BY DEF PrintsOf, GrownTo

LEMMA GrownSame ==
  ASSUME NEW F, NEW b \in PrintsOf(F), NEW length \in Int
  PROVE  [b EXCEPT !.length = length] = GrownTo(b, length, b.strays)
BY DEF PrintsOf, GrownTo

\* The printer that has failed, without a buffer.
HaltedAt(b, mem, length) ==
  [b EXCEPT !.pc = "fail", !.mem = mem, !.buffer = FALSE, !.length = length]

LEMMA HaltedType ==
  ASSUME NEW F, NEW b \in PrintsOf(F), NEW mem \in Int, NEW length \in Int
  PROVE  LET r == HaltedAt(b, mem, length) IN
         r \in PrintsOf(F) /\ r.pc = "fail" /\ r.strays = b.strays
BY DEF PrintsOf, HaltedAt, PrintPcs

\* ensure finds that the piece fits.
LEMMA PutFitsSound ==
  ASSUME NEW S, q \in Prints(S), Sound(q), PutFits
  PROVE  q' \in Prints(S) /\ Sound(q')
<1> DEFINE x == q.todo[1]
           F == Seq(Ops(S))
           rest == Tail(q.todo)
           out == Slice(q.out, 0, q.offset) \o x.bytes
           o == q.offset + x.advance
<1>1. q.todo \in F /\ q.todo # << >> /\ q.pc = "print" /\ Doing = x /\ x.op = "put"
  <2>1. q.todo \in Seq(Ops(S)) /\ q.todo # << >> /\ q.pc = "print" /\ Doing.op = "put"
    BY DEF Prints, PutFits, Does
  <2>2. Head(q.todo) = q.todo[1]
    BY <2>1
  <2> QED
    BY <2>1, <2>2 DEF Doing
<1>2. rest \in F /\ out \in Seq(Nat) /\ o \in Nat /\ x \in Pieces
  BY <1>1, WriteType
<1>3. q' = WrittenTo(q, out, o, rest)
  BY <1>1 DEF PutFits, Written, WrittenTo
<1>4. (x.need + q.offset) + 1 <= q.length
  <2> HIDE DEF x
  <2> QED
    BY <1>1 DEF PutFits, Fits, Needed
<1>5. q \in PrintsOf(F) /\ q.length \in Int
  BY PrintsIs DEF Prints
<1> HIDE DEF rest, out, o, F
<1>6. /\ q' \in PrintsOf(F) /\ q'.todo = rest /\ q'.out = out /\ q'.offset = o
      /\ q'.length = q.length /\ q'.strays = q.strays /\ q'.pc = q.pc
  <2> HIDE DEF x
  <2> QED
    BY <1>2, <1>3, <1>5, WrittenType
<1>7. q' \in Prints(S)
  BY <1>6, PrintsIs DEF F
<1>8. Sound(q')
  <2>1. q'.strays => job.fun = "Buffered" /\ job.size = 0
    BY <1>6 DEF Sound
  <2> QED
    BY <1>1, <1>4, <1>5, <1>6, <2>1, WriteSound DEF rest, out, o
<1> QED
  BY <1>7, <1>8

\* What the next thing to do is, while there is one.
LEMMA DoingIs ==
  ASSUME NEW S, q \in Prints(S), NEW op, Does(op)
  PROVE  /\ q.todo \in Seq(Ops(S)) /\ q.todo # << >> /\ q.pc = "print"
         /\ Doing = q.todo[1] /\ q.todo[1].op = op /\ q.todo[1] \in Ops(S)
<1>1. q.todo \in Seq(Ops(S)) /\ q.todo # << >> /\ q.pc = "print" /\ Doing.op = op
  BY DEF Prints, Does
<1>2. Head(q.todo) = q.todo[1] /\ q.todo[1] \in Ops(S)
  <2> DEFINE F == Ops(S)
             todo == q.todo
  <2>1. todo \in Seq(F) /\ todo # << >>
    BY <1>1
  <2> HIDE DEF F, todo
  <2>2. Head(todo) = todo[1] /\ todo[1] \in F
    BY <2>1
  <2> QED
    BY <2>2 DEF F, todo
<1> QED
  BY <1>1, <1>2 DEF Doing

\* The printer stops.
LEMMA StopSound ==
  ASSUME NEW F, NEW b \in PrintsOf(F), Sound(b), NEW r \in PrintsOf(F),
         r.pc \in {"fail", "failed"}, r.strays = b.strays
  PROVE  Sound(r)
BY DEF Sound

\* A printer that is refused room, or runs out of memory, only stops.
LEMMA RefusedSound ==
  ASSUME NEW S, q \in Prints(S), Sound(q), PutRefused \/ PutFails \/ PrintFailed
  PROVE  q' \in Prints(S) /\ Sound(q')
<1> DEFINE F == Seq(Ops(S))
<1>1. q \in PrintsOf(F)
  BY PrintsIs
<1> HIDE DEF F
<1>2. q' \in PrintsOf(F) /\ q'.pc \in {"fail", "failed"} /\ q'.strays = q.strays
  <2>1. CASE PutRefused
    <3>1. q' = [q EXCEPT !.pc = "fail"]
      BY <2>1 DEF PutRefused
    <3> QED
      BY <1>1, <3>1 DEF PrintsOf, PrintPcs
  <2>2. CASE PutFails
    <3>1. q' = [q EXCEPT !.pc = "fail", !.mem = @ - 1, !.buffer = FALSE, !.length = 0]
      BY <2>2 DEF PutFails
    <3> DEFINE m == q.mem - 1
    <3>2. m \in Int
      BY <1>1 DEF PrintsOf
    <3> HIDE DEF m
    <3>3. q' = HaltedAt(q, m, 0) /\ 0 \in Int
      BY <3>1 DEF m, HaltedAt
    <3>4. HaltedAt(q, m, 0) \in PrintsOf(F) /\ HaltedAt(q, m, 0).pc = "fail"
          /\ HaltedAt(q, m, 0).strays = q.strays
      BY <1>1, <3>2, <3>3, HaltedType
    <3> QED
      BY <3>3, <3>4
  <2>3. CASE PrintFailed
    <3>1. PICK m \in Int : q' = [q EXCEPT !.pc = "failed", !.buffer = FALSE, !.mem = m]
      <4>1. q' = [q EXCEPT !.pc = "failed", !.buffer = FALSE, !.mem = q.mem]
            \/ q' = [q EXCEPT !.pc = "failed", !.buffer = FALSE, !.mem = q.mem - 1]
        BY <2>3 DEF PrintFailed
      <4>2. q.mem \in Int /\ q.mem - 1 \in Int
        BY <1>1 DEF PrintsOf
      <4> QED
        BY <4>1, <4>2
    <3>2. q' \in PrintsOf(F)
      BY <1>1, <3>1 DEF PrintsOf, PrintPcs
    <3>3. q'.pc = "failed" /\ q'.strays = q.strays
      BY <1>1, <3>1 DEF PrintsOf, PrintPcs
    <3> QED
      BY <3>2, <3>3
  <2> QED
    BY <2>1, <2>2, <2>3
<1>3. Sound(q')
  BY <1>1, <1>2, StopSound
<1> QED
  BY <1>2, <1>3, PrintsIs DEF F

\* ensure makes room.
LEMMA PutGrowsSound ==
  ASSUME NEW S, q \in Prints(S), Sound(q), job \in JobTypes, PutGrows
  PROVE  q' \in Prints(S) /\ Sound(q')
<1> DEFINE x == q.todo[1]
           F == Seq(Ops(S))
           rest == Tail(q.todo)
           out == Slice(q.out, 0, q.offset) \o x.bytes
           o == q.offset + x.advance
           new == NewSize
           strays == q.strays \/ q.offset + 1 > q.length
           flag == IF HasReallocate THEN q.strays ELSE strays
           b == GrownTo(q, new, flag)
<1>1. q.todo \in F /\ q.todo # << >> /\ q.pc = "print" /\ Doing = x /\ x.op = "put"
  BY DoingIs DEF PutGrows
<1>2. /\ rest \in F /\ out \in Seq(Nat) /\ o \in Nat /\ x \in Pieces
      /\ q.offset <= Len(q.out) /\ Len(q.out) <= q.length
  BY <1>1, WriteType DEF Sound, Printing
<1>3. q \in PrintsOf(F) /\ q.length \in Int /\ q.strays \in BOOLEAN /\ q.offset \in Nat
      /\ Len(q.out) \in Nat
  <2>1. q.out \in Seq(Nat)
    BY DEF Prints
  <2>2. Len(q.out) \in Nat
    BY <2>1
  <2> QED
    BY <2>2, PrintsIs DEF Prints
<1>4. new \in Int /\ (x.need + q.offset) + 1 <= new
  <2> DEFINE need == x.need
             m == (need + q.offset) + 1
             half == IntMax \div 2
  <2>1. need \in Nat /\ m \in Nat /\ m # 0 /\ Needed = m
    <3>1. need \in Nat
      BY <1>2 DEF Pieces
    <3> HIDE DEF need
    <3>2. Doing.need = need
      BY <1>1 DEF need
    <3> QED
      BY <1>3, <3>1, <3>2 DEF Needed
  <2>2. ~(m > IntMax)
    <3>1. ~Refused /\ Needed > q.length
      BY DEF PutGrows, Grows
    <3> HIDE DEF m
    <3> QED
      BY <2>1, <3>1 DEF Refused
  <2>3. new = IF m > half THEN IntMax ELSE 2 * m
    BY <2>1 DEF NewSize
  <2>4. IntMax \in Nat /\ half \in Int
    BY TextAssumption
  <2> HIDE DEF m, half, new
  <2>5. new \in Int /\ m <= new
    BY <2>1, <2>2, <2>3, <2>4
  <2> QED
    BY <2>5 DEF m
<1>5. q.offset + 1 > q.length => job.fun = "Buffered" /\ job.size = 0
  <2>1. ~(q.length > 0 /\ q.offset >= q.length)
    BY DEF PutGrows, Grows, Refused
  <2>2. q.offset + 1 > q.length => q.length = 0
    BY <1>2, <1>3, <2>1
  <2>3. q.length = 0 => job.size = 0 /\ job.fun # "Print"
    BY <1>1 DEF Sound, Printing
  <2>4. ~noalloc
    BY DEF PutGrows, Grows, Refused
  <2>5. job.fun \in {"Print", "Buffered", "Preallocated"}
    BY DEF JobTypes
  <2> QED
    BY <2>2, <2>3, <2>4, <2>5 DEF noalloc
<1>a. flag \in BOOLEAN
  BY <1>3
<1>6. (flag => job.fun = "Buffered" /\ job.size = 0)
  BY <1>3, <1>5 DEF Sound
<1>7. strays \in BOOLEAN
  BY <1>3
<1>8. q' = WrittenTo(b, out, o, rest)
  <2>1. q' = IF HasReallocate THEN Written([q EXCEPT !.length = new])
             ELSE Written([q EXCEPT !.length = new, !.strays = strays])
    BY DEF PutGrows
  <2>2. [q EXCEPT !.length = new, !.strays = strays] = GrownTo(q, new, strays)
    BY DEF GrownTo
  <2> HIDE DEF new, strays, F
  <2>3. [q EXCEPT !.length = new] = GrownTo(q, new, q.strays)
    BY <1>3, <1>4, GrownSame
  <2>4. q' = Written(b)
    BY <2>1, <2>2, <2>3
  <2>5. b.out = q.out /\ b.offset = q.offset /\ b.todo = q.todo
    <3> HIDE DEF flag
    <3>1. /\ GrownTo(q, new, flag).out = q.out /\ GrownTo(q, new, flag).offset = q.offset
          /\ GrownTo(q, new, flag).todo = q.todo
      BY <1>3, <1>4, <1>a, GrownType
    <3> QED
      BY <3>1
  <2> HIDE DEF b, x
  <2>6. Written(b) = WrittenTo(b, Slice(b.out, 0, b.offset) \o x.bytes, b.offset + x.advance,
                               Tail(b.todo))
    BY <1>1 DEF Written, WrittenTo
  <2> QED
    BY <2>4, <2>5, <2>6
<1> HIDE DEF new, flag, strays, F, rest, out, o, x
<1>9. b \in PrintsOf(F) /\ b.length = new /\ b.strays = flag /\ b.pc = "print"
  <2>1. /\ GrownTo(q, new, flag) \in PrintsOf(F) /\ GrownTo(q, new, flag).length = new
        /\ GrownTo(q, new, flag).strays = flag /\ GrownTo(q, new, flag).pc = q.pc
    BY <1>3, <1>4, <1>a, GrownType
  <2> QED
    BY <1>1, <2>1
<1> HIDE DEF b
<1>10. /\ q' \in PrintsOf(F) /\ q'.todo = rest /\ q'.out = out /\ q'.offset = o
       /\ q'.length = new /\ q'.strays = flag /\ q'.pc = "print"
  BY <1>2, <1>8, <1>9, WrittenType
<1>11. q' \in Prints(S)
  BY <1>10, PrintsIs DEF F
<1>12. Sound(q')
  BY <1>1, <1>4, <1>6, <1>10, WriteSound DEF rest, out, o, x
<1> QED
  BY <1>11, <1>12

\* The printer at another offset.
MovedTo(b, offset, todo) == [b EXCEPT !.offset = offset, !.todo = todo]

LEMMA MovedType ==
  ASSUME NEW F, NEW b \in PrintsOf(F), NEW offset \in Nat, NEW todo \in F
  PROVE  LET r == MovedTo(b, offset, todo) IN
         /\ r \in PrintsOf(F) /\ r.offset = offset /\ r.todo = todo /\ r.out = b.out
         /\ r.length = b.length /\ r.strays = b.strays /\ r.pc = b.pc
BY DEF PrintsOf, MovedTo

\* The printer with the text it returns.
FinishedAt(b, offset, length) ==
  [b EXCEPT !.pc = "printed", !.offset = offset, !.length = length]

LEMMA FinishedType ==
  ASSUME NEW F, NEW b \in PrintsOf(F), NEW offset \in Nat, NEW length \in Int
  PROVE  LET r == FinishedAt(b, offset, length) IN
         /\ r \in PrintsOf(F) /\ r.pc = "printed" /\ r.out = b.out /\ r.length = length
         /\ r.strays = b.strays
BY DEF PrintsOf, PrintPcs, FinishedAt

\* The printer that stops with its buffer.
LEMMA FailType ==
  ASSUME NEW F, NEW b \in PrintsOf(F), NEW r, r = [b EXCEPT !.pc = "fail"]
  PROVE  r \in PrintsOf(F) /\ r.pc = "fail" /\ r.strays = b.strays
BY DEF PrintsOf, PrintPcs

\* update_offset moves to the NUL.
LEMMA OffsetSound ==
  ASSUME NEW S, q \in Prints(S), Sound(q), UpdateOffset
  PROVE  q' \in Prints(S) /\ Sound(q')
<1> DEFINE F == Ops(S)
           G == Seq(F)
           todo == q.todo
           rest == Tail(todo)
           o == q.offset + Strlen
<1>1. /\ todo \in Seq(F) /\ todo # << >> /\ q.pc = "print" /\ todo[1].op = "offset"
  BY DoingIs DEF UpdateOffset
<1>2. /\ Chain(todo) /\ Ends(Last(todo)) /\ Ended(q.out, q.offset)
      /\ q.offset <= Len(q.out) /\ Len(q.out) <= q.length
      /\ q.length = 0 => job.size = 0 /\ job.fun # "Print"
  BY <1>1 DEF Sound, Printing
<1>3. /\ rest \in Seq(F) /\ Chain(rest)
      /\ rest # << >> => Ends(Last(rest))
      /\ rest = << >> \/ rest[1].op = "offset" => Ends(todo[1])
  <2> HIDE DEF F, todo
  <2> QED
    BY <1>1, <1>2, TailOf
<1>4. ~Ends(todo[1])
  BY <1>1 DEF Ends
<1>5. q.out \in Seq(Nat) /\ q.offset \in Nat /\ q.length \in Int
  BY DEF Prints
<1>6. o \in Nat /\ o <= Len(q.out)
  <2> DEFINE len == Strlen
             n == Len(q.out)
             k == q.offset
  <2>1. len = (n - k) - 1 /\ len \in Nat
    <3>1. len = Len(CString(Slice(q.out, q.offset, Len(q.out))))
      BY DEF Strlen
    <3> HIDE DEF len
    <3> QED
      BY <1>2, <1>5, <3>1, StrlenOf
  <2>2. n \in Nat
    BY <1>5
  <2> HIDE DEF len, n, k
  <2>3. k + len \in Nat /\ k + len <= n
    BY <1>5, <2>1, <2>2 DEF k
  <2> QED
    BY <2>3 DEF k, len, n
<1>7. q' = MovedTo(q, o, rest)
  BY DEF UpdateOffset, MovedTo
<1>8. q \in PrintsOf(G)
  BY PrintsIs
<1>9. rest \in G
  BY <1>3
<1> HIDE DEF G, rest, o, todo
<1>10. /\ q' \in PrintsOf(G) /\ q'.offset = o /\ q'.todo = rest /\ q'.out = q.out
       /\ q'.length = q.length /\ q'.strays = q.strays /\ q'.pc = q.pc
  BY <1>6, <1>7, <1>8, <1>9, MovedType
<1>11. q' \in Prints(S)
  BY <1>10, PrintsIs DEF G, F
<1>12. Printing(q')
  BY <1>2, <1>3, <1>4, <1>6, <1>10 DEF Printing
<1>13. Sound(q')
  BY <1>1, <1>10, <1>12 DEF Sound
<1> QED
  BY <1>11, <1>13

\* A value is next: its work comes before the rest.
LEMMA ValueSound ==
  ASSUME NEW S, Forest(S), job \in JobTypes, q \in Prints(S), Sound(q), PrintValue
  PROVE  q' \in Prints(S) /\ Sound(q')
<1> DEFINE F == Ops(S)
           G == Seq(F)
           todo == q.todo
           rest == Tail(todo)
           x == todo[1]
           work == Work(x.v, x.depth)
           new == work \o rest
<1>1. /\ todo \in Seq(F) /\ todo # << >> /\ q.pc = "print" /\ x.op = "value" /\ x \in F
      /\ Doing = x
  BY DoingIs DEF PrintValue
<1>2. x.v \in S /\ x.depth \in Nat
  <2>1. update_offset.op # "value" /\ \A y \in Pieces : y.op # "value"
    BY DEF update_offset, Pieces
  <2> HIDE DEF x
  <2> QED
    BY <1>1, <2>1 DEF Ops
<1>3. /\ Chain(todo) /\ Ends(Last(todo))
      /\ q.offset <= Len(q.out) /\ Len(q.out) <= q.length
      /\ q.length = 0 => job.size = 0 /\ job.fun # "Print"
  BY <1>1 DEF Sound, Printing
<1>4. /\ rest \in Seq(F) /\ Chain(rest)
      /\ rest # << >> => Ends(Last(rest))
  <2> HIDE DEF F, todo
  <2> QED
    BY <1>1, <1>3, TailOf
<1>5. q \in PrintsOf(G) /\ q.offset \in Nat
  BY PrintsIs DEF Prints
<1>6. CASE ~Printable(x.v)
  <2>1. q' = [q EXCEPT !.pc = "fail"]
    BY <1>1, <1>6 DEF PrintValue
  <2> HIDE DEF G
  <2>2. q' \in PrintsOf(G) /\ q'.pc = "fail" /\ q'.strays = q.strays
    BY <1>5, <2>1, FailType
  <2>3. Sound(q')
    BY <1>5, <2>2, StopSound
  <2> QED
    BY <2>2, <2>3, PrintsIs DEF G
<1>7. CASE Printable(x.v)
  <2>1. work \in Works(S) /\ Ends(Last(work))
    BY <1>2, <1>7, WorkOf
  <2>2. q' = [q EXCEPT !.todo = new]
    BY <1>1, <1>7 DEF PrintValue
  <2>3. q' = MovedTo(q, q.offset, new)
    <3> HIDE DEF new, G
    <3> QED
      BY <1>5, <2>2 DEF MovedTo, PrintsOf
  <2>4. work \in Seq(F) /\ work # << >> /\ Chain(work) /\ work[1].op # "offset"
    BY <2>1 DEF Works
  <2> HIDE DEF F, work, rest
  <2>5. /\ Chain(new) /\ new # << >> /\ new[1] = work[1] /\ new \in Seq(F)
        /\ Last(new) = IF rest = << >> THEN Last(work) ELSE Last(rest)
    BY <1>4, <2>1, <2>4, ChainJoin
  <2>6. new \in G
    BY <2>5
  <2> HIDE DEF G, new
  <2>7. /\ q' \in PrintsOf(G) /\ q'.offset = q.offset /\ q'.todo = new /\ q'.out = q.out
        /\ q'.length = q.length /\ q'.strays = q.strays /\ q'.pc = q.pc
    BY <1>5, <2>3, <2>6, MovedType
  <2>8. Ends(Last(new))
    BY <1>4, <2>1, <2>5
  <2>9. Printing(q')
    BY <1>3, <2>4, <2>5, <2>7, <2>8 DEF Printing
  <2>10. Sound(q')
    BY <1>1, <2>7, <2>9 DEF Sound
  <2> QED
    BY <2>7, <2>10, PrintsIs DEF G, F
<1> QED
  BY <1>6, <1>7

\* A printer that starts, and one that does not print.
LEMMA FreshType ==
  ASSUME NEW F, << >> \in F, NEW length \in Int, NEW mem \in Int
  PROVE  /\ NewBuffer(length, mem) \in PrintsOf(F)
         /\ NewBuffer(length, mem).pc = "print" /\ NewBuffer(length, mem).out = << >>
         /\ NewBuffer(length, mem).offset = 0 /\ NewBuffer(length, mem).length = length
         /\ NewBuffer(length, mem).strays = FALSE
<1>1. << >> \in Seq(Nat)
  OBVIOUS
<1> QED
  BY <1>1 DEF NewBuffer, PrintsOf, PrintPcs

LEMMA IdleType ==
  ASSUME NEW S
  PROVE  /\ Idle \in Prints(S) /\ Sound(Idle)
         /\ [Idle EXCEPT !.pc = "failed"] \in Prints(S)
         /\ Sound([Idle EXCEPT !.pc = "failed"])
<1> DEFINE F == Seq(Ops(S))
           b == NewBuffer(0, 0)
           r == [Idle EXCEPT !.pc = "failed"]
<1>1. << >> \in F
  OBVIOUS
<1>2. << >> \in Seq(Nat)
  OBVIOUS
<1> HIDE DEF F
<1>3. Idle \in PrintsOf(F) /\ Idle.pc = "idle" /\ Idle.strays = FALSE
  <2>1. b \in PrintsOf(F) /\ b.strays = FALSE
    BY <1>1, <1>2 DEF NewBuffer, PrintsOf, PrintPcs
  <2>2. Idle = [b EXCEPT !.pc = "idle", !.buffer = FALSE]
    BY DEF Idle
  <2> HIDE DEF b
  <2> QED
    BY <2>1, <2>2 DEF PrintsOf, PrintPcs
<1> DEFINE i == Idle
<1> HIDE DEF i
<1>4. [i EXCEPT !.pc = "failed"] \in PrintsOf(F) /\ [i EXCEPT !.pc = "failed"].pc = "failed"
      /\ [i EXCEPT !.pc = "failed"].strays = i.strays
  BY <1>3 DEF PrintsOf, PrintPcs, i
<1>5. r \in PrintsOf(F) /\ r.pc = "failed" /\ r.strays = FALSE
  BY <1>3, <1>4 DEF i
<1> HIDE DEF r
<1>6. Sound(Idle) /\ Sound(r)
  BY <1>3, <1>5 DEF Sound
<1> QED
  BY <1>3, <1>5, <1>6, PrintsIs DEF F, r

\* The call begins.
LEMMA StartSound ==
  ASSUME NEW S, job \in JobTypes, q \in Prints(S), NEW v \in S, StartPrint(v)
  PROVE  q' \in Prints(S) /\ Sound(q')
<1> DEFINE size == IF job.fun = "Print" THEN DefaultSize ELSE job.size
           blocks == IF noalloc THEN 0 ELSE 1
           x == Value(v, 0)
           todo == <<x>>
           F == Ops(S)
           G == Seq(F)
           b == NewBuffer(size, blocks)
<1>1. size \in Int /\ blocks \in Int /\ (size = 0 => job.size = 0 /\ job.fun # "Print")
  <2>1. job.size \in Int
    BY DEF JobTypes
  <2> QED
    BY <2>1, PrintAssumption
<1>2. todo \in Works(S) /\ Last(todo) = x /\ Ends(x)
  <2>1. x \in Ops(S) /\ x.op # "offset" /\ Ends(x)
    BY ValueOf
  <2> HIDE DEF x
  <2> QED
    BY <2>1, WorksOne
<1>3. todo \in G /\ << >> \in G /\ Chain(todo) /\ todo # << >> /\ todo[1].op # "offset"
  BY <1>2 DEF Works
<1>4. CASE size >= 0 /\ q' = [b EXCEPT !.todo = todo]
  <2> HIDE DEF todo, size, blocks, G
  <2>1. /\ b \in PrintsOf(G) /\ b.pc = "print" /\ b.out = << >> /\ b.offset = 0
        /\ b.length = size /\ b.strays = FALSE
    <3>1. size \in Int /\ blocks \in Int /\ << >> \in G
      BY <1>1, <1>3
    <3>2. \A l, m \in Int :
            /\ NewBuffer(l, m) \in PrintsOf(G)
            /\ NewBuffer(l, m).pc = "print" /\ NewBuffer(l, m).out = << >>
            /\ NewBuffer(l, m).offset = 0 /\ NewBuffer(l, m).length = l
            /\ NewBuffer(l, m).strays = FALSE
      BY <3>1, FreshType
    <3> QED
      BY <3>1, <3>2
  <2>3. q' = MovedTo(b, 0, todo)
    <3> HIDE DEF b
    <3> QED
      BY <1>4, <2>1 DEF MovedTo, PrintsOf
  <2> DEFINE r == MovedTo(b, 0, todo)
  <2> HIDE DEF b
  <2>4. /\ r \in PrintsOf(G) /\ r.offset = 0 /\ r.todo = todo /\ r.out = << >>
        /\ r.length = size /\ r.strays = FALSE /\ r.pc = "print"
    <3>1. 0 \in Nat
      OBVIOUS
    <3> QED
      BY <1>3, <2>1, <3>1, MovedType
  <2> HIDE DEF r
  <2>5. Len(r.out) = 0
    BY <2>4
  <2>6. Printing(r)
    BY <1>1, <1>2, <1>3, <1>4, <2>4, <2>5 DEF Printing
  <2>7. Sound(r)
    BY <2>4, <2>6 DEF Sound
  <2> QED
    BY <2>3, <2>4, <2>7, PrintsIs DEF r, G
<1>5. CASE q' = [Idle EXCEPT !.pc = "failed"]
  BY <1>5, IdleType
<1> QED
  BY <1>4, <1>5 DEF StartPrint

\* The call ends: print makes a copy of the right size.
LEMMA FinishSound ==
  ASSUME NEW S, job \in JobTypes, q \in Prints(S), Sound(q), FinishPrint \/ FinishOther
  PROVE  q' \in Prints(S) /\ Sound(q')
<1> DEFINE G == Seq(Ops(S))
           len == Strlen
           o == q.offset + len
<1>1. q \in PrintsOf(G) /\ q.offset \in Nat /\ q.out \in Seq(Nat) /\ q.length \in Int
  BY PrintsIs DEF Prints
<1>2. /\ q.pc = "print" /\ q.todo = << >> /\ Ended(q.out, q.offset)
      /\ q.offset <= Len(q.out) /\ Len(q.out) <= q.length
  BY DEF FinishPrint, FinishOther, Sound, Printing
<1>3. len = (Len(q.out) - q.offset) - 1 /\ len \in Nat /\ Len(q.out) \in Nat
  <2>1. len = Len(CString(Slice(q.out, q.offset, Len(q.out))))
    BY DEF Strlen
  <2> HIDE DEF len
  <2>2. Len(q.out) \in Nat
    BY <1>1
  <2> QED
    BY <1>1, <1>2, <2>1, <2>2, StrlenOf
<1>4. o \in Nat /\ o + 1 \in Int /\ Len(q.out) <= o + 1
  <2> DEFINE n == Len(q.out)
             k == q.offset
  <2> HIDE DEF n, k, len
  <2>1. n \in Nat /\ k \in Nat /\ len = (n - k) - 1 /\ len \in Nat
    BY <1>1, <1>3 DEF n, k
  <2>2. k + len \in Nat /\ (k + len) + 1 \in Int /\ n <= (k + len) + 1
    BY <2>1
  <2> QED
    BY <2>2 DEF n, k
<1> HIDE DEF G, o
<1>5. CASE q' = FinishedAt(q, o, o + 1)
  <2> DEFINE r == FinishedAt(q, o, o + 1)
  <2>1. /\ r \in PrintsOf(G) /\ r.pc = "printed" /\ r.out = q.out /\ r.length = o + 1
        /\ r.strays = q.strays
    BY <1>1, <1>4, FinishedType, ZenonT(30)
  <2> HIDE DEF r
  <2>2. Sound(r)
    BY <1>4, <2>1 DEF Sound
  <2> QED
    BY <1>5, <2>1, <2>2, PrintsIs DEF r, G
<1>6. CASE q' = [q EXCEPT !.pc = "fail"]
  <2>1. q' \in PrintsOf(G) /\ q'.pc = "fail" /\ q'.strays = q.strays
    BY <1>1, <1>6, FailType
  <2>2. Sound(q')
    BY <1>1, <2>1, StopSound
  <2> QED
    BY <2>1, <2>2, PrintsIs DEF G
<1>7. CASE q' = [q EXCEPT !.pc = "printed"]
  <2>1. q' = FinishedAt(q, q.offset, q.length)
    BY <1>1, <1>7 DEF FinishedAt, PrintsOf
  <2> DEFINE r == FinishedAt(q, q.offset, q.length)
  <2>2. /\ r \in PrintsOf(G) /\ r.pc = "printed" /\ r.out = q.out /\ r.length = q.length
        /\ r.strays = q.strays
    BY <1>1, FinishedType
  <2> HIDE DEF r
  <2>3. Sound(r)
    BY <1>2, <2>2 DEF Sound
  <2> QED
    BY <2>1, <2>2, <2>3, PrintsIs DEF r, G
<1>8. FinishPrint => q' = FinishedAt(q, o, o + 1) \/ q' = [q EXCEPT !.pc = "fail"]
  BY DEF FinishPrint, FinishedAt, o
<1> QED
  BY <1>5, <1>6, <1>7, <1>8 DEF FinishOther

\* Every step of the printer.
LEMMA PrintSound ==
  ASSUME NEW S, Forest(S), job \in JobTypes, tree \in S, q \in Prints(S), Sound(q),
         StartPrint(tree) \/ PrintNext
  PROVE  q' \in Prints(S) /\ Sound(q')
BY StartSound, ValueSound, PutFitsSound, PutGrowsSound, RefusedSound, OffsetSound, FinishSound
   DEF PrintNext

\* What the invariant is for.
LEMMA SoundMeans ==
  ASSUME NEW S, q \in Prints(S), Sound(q)
  PROVE  PrinterInBounds
<1>1. WritesInBuffer
  BY DEF WritesInBuffer, Sound, Printing
<1>2. CopiesInBuffer
  BY DEF CopiesInBuffer, Sound
<1>3. StrlenStops
  <2>1. SUFFICES ASSUME Does("offset") \/ (q.pc = "print" /\ q.todo = << >>)
                 PROVE  \E i \in q.offset + 1 .. Len(q.out) : q.out[i] = Nul
    BY DEF StrlenStops
  <2>2. q.pc = "print" /\ (q.todo = << >> \/ q.todo[1].op = "offset")
    BY <2>1, DoingIs
  <2>3. Ended(q.out, q.offset)
    BY <2>2 DEF Sound, Printing
  <2>4. q.offset \in Nat /\ Len(q.out) \in Nat
    <3>1. q.out \in Seq(Nat) /\ q.offset \in Nat
      BY DEF Prints
    <3> QED
      BY <3>1
  <2>5. Len(q.out) \in q.offset + 1 .. Len(q.out)
    BY <2>3, <2>4 DEF Ended
  <2> QED
    BY <2>3, <2>5 DEF Ended
<1> QED
  BY <1>1, <1>2, <1>3 DEF PrinterInBounds

-----------------------------------------------------------------------------
\* A use of the library from end to end.

\* The calls, whatever their bytes.
CallsOfBytes ==
  [api : {"Opts", "LengthOpts"}, text : Seq(Nat), null : BOOLEAN, nul : BOOLEAN,
   short : BOOLEAN, source : Seq(Nat), use : {"parse", "minify", "print"}]

\* The state of a use of the library from end to end: what is printed, and what
\* the printer has still to do, are items of one set with all that are in them.
CjsonType ==
  /\ call \in CallsOfBytes /\ job \in JobTypes
  /\ stage \in {"parse", "print", "again"} /\ (stage = "parse" => q = Idle)
  /\ ParseType
  /\ \E S : Forest(S) /\ tree \in S /\ q \in Prints(S)

\* The inductive invariant: types, places in the text, owners of blocks, and the
\* printer's buffer.
CjsonInv == CjsonType /\ BoundsInv /\ HeldInv /\ Sound(q)

\* Bytes are naturals, so the bytes of a call's text and of a C string are.
LEMMA ByteStrings == Seq(0 .. 255) \subseteq Seq(Nat) /\ Seq(Visible) \subseteq Seq(Nat)
<1>1. 0 .. 255 \subseteq Nat /\ Visible \subseteq Nat
  BY DEF Visible
<1> QED
  BY <1>1, SeqMonotonic

LEMMA TextType ==
  ASSUME call \in CallsOfBytes
  PROVE  Text \in Seq(Nat) /\ call.text \in Seq(Nat)
<1>1. call.text \in Seq(Nat) /\ Nul \in Nat
  BY DEF CallsOfBytes, Nul
<1>2. Append(call.text, Nul) \in Seq(Nat)
  BY <1>1, AppendProperties
<1> QED
  BY <1>1, <1>2 DEF Text

LEMMA CallsType == CallTypes \subseteq CallsOfBytes
BY ByteStrings DEF CallTypes, CallsOfBytes

\* Where the parser and the printer begin.
LEMMA IdleIs == Idle.pc = "idle" /\ Idle.strays = FALSE
<1> DEFINE b == NewBuffer(0, 0)
<1>1. DOMAIN b = {"pc", "todo", "out", "length", "offset", "mem", "buffer", "strays"}
      /\ b.strays = FALSE
  BY DEF NewBuffer
<1>2. Idle = [b EXCEPT !.pc = "idle", !.buffer = FALSE]
  BY DEF Idle
<1> HIDE DEF b
<1> QED
  BY <1>1, <1>2

LEMMA NoParseIs ==
  /\ NoParse.pc = "call" /\ NoParse.strays = FALSE /\ NoParse.mem = 0
  /\ NoParse.stack = << >> /\ NoParse \in Parses({NoItem})
<1>1. << >> \in Seq(Frames({NoItem}))
  OBVIOUS
<1> QED
  BY <1>1 DEF NoParse, Parses, OldError

\* The callers' trees are items of one set.
LEMMA TreesGrow ==
  ASSUME Trees \subseteq ItemTypes(Trees)
  PROVE  Forest(Trees \cup {NoItem})
<1> DEFINE T == Trees \cup {NoItem}
<1>1. Trees \subseteq T /\ NoItem \in T
  OBVIOUS
<1> HIDE DEF T
<1>2. Seq(Trees) \subseteq Seq(T) /\ Seq(Seq(0 .. 255)) \subseteq Seq(Seq(Nat))
  BY <1>1, ByteStrings, SeqMonotonic
<1>3. ItemTypes(Trees) \subseteq Nodes(T)
  BY <1>2, ByteStrings DEF ItemTypes, Nodes
<1>4. NoItem \in Nodes(T)
  BY ItemType DEF NoItem
<1>5. T \subseteq Nodes(T)
  BY <1>3, <1>4 DEF T
<1> QED
  BY <1>1, <1>5 DEF Forest, T

\* The invariant holds before the first call.
LEMMA CjsonInit == Init => CjsonInv
<1> SUFFICES ASSUME Init PROVE CjsonInv
  OBVIOUS
<1>1. job \in JobTypes /\ q = Idle /\ stage \in {"parse", "print"}
  BY DEF Init, NoJob, JobTypes
<1>2. p = NoParse
  BY DEF Init, ParseInit
<1>3. call \in CallsOfBytes
  <2>1. NoCall \in CallsOfBytes
    <3>1. << >> \in Seq(Nat)
      OBVIOUS
    <3> QED
      BY <3>1 DEF NoCall, CallsOfBytes
  <2> QED
    BY <2>1, CallsAssumption, CallsType DEF Init, ParseInit
<1>4. \E S : Forest(S) /\ tree \in S
  BY TreesGrow, CallerAssumption DEF Init
<1>5. \A S : q \in Prints(S)
  BY <1>1, IdleType
<1>6. Sound(q)
  BY <1>1, IdleIs DEF Sound
<1>7. ParseType /\ BoundsInv /\ HeldInv
  BY <1>2, TypeStart, BoundsStart, HeldStart
<1> QED
  BY <1>1, <1>3, <1>4, <1>5, <1>6, <1>7 DEF CjsonInv, CjsonType

\* cJSON_Minify, a step of the parser, the choice of what to print, a step of the
\* printer, and a second parse keep the invariant.
LEMMA MinifyKeeps ==
  ASSUME CjsonInv, Minify
  PROVE  CjsonInv'
<1>1. UNCHANGED <<p, job, q, stage, tree>> /\ p.pc = "call"
  BY DEF Minify
<1>2. call' \in CallsOfBytes
  <2> DEFINE t == cJSON_Minify(call.text)
  <2>1. call' = [call EXCEPT !.text = t] /\ call \in CallsOfBytes
    BY DEF Minify, CjsonInv, CjsonType
  <2>2. t \in Seq(Nat)
    BY <2>1, TextType, MinifyType
  <2> HIDE DEF t
  <2> QED
    BY <2>1, <2>2 DEF CallsOfBytes
<1>3. ParseType'
  BY <1>1 DEF CjsonInv, CjsonType, ParseType
<1>4. BoundsInv'
  BY <1>1 DEF CjsonInv, BoundsInv, InLoop
<1>5. HeldInv'
  BY <1>1 DEF CjsonInv, HeldInv, Frame
<1>6. Sound(q)'
  BY <1>1 DEF CjsonInv, Sound, Printing
<1> QED
  BY <1>1, <1>2, <1>3, <1>4, <1>5, <1>6 DEF CjsonInv, CjsonType

LEMMA ParseKeeps ==
  ASSUME CjsonInv, Parse
  PROVE  CjsonInv'
<1>1. UNCHANGED <<call, job, q, stage, tree>> /\ ParseNext
  BY DEF Parse
<1>2. Text \in Seq(Nat) /\ call.text \in Seq(Nat)
  BY TextType DEF CjsonInv, CjsonType
<1>3. ParseType /\ BoundsInv /\ HeldInv /\ InLoop
  BY DEF CjsonInv, CjsonType, BoundsInv
<1>4. ParseType'
  BY <1>1, <1>2, <1>3, TypeParse
<1>5. BoundsInv'
  BY <1>1, <1>2, <1>3, BoundsParse
<1>6. HeldInv'
  BY <1>1, <1>2, <1>3, HeldParse
<1>7. Sound(q)'
  BY <1>1 DEF CjsonInv, Sound, Printing
<1> QED
  BY <1>1, <1>4, <1>5, <1>6, <1>7 DEF CjsonInv, CjsonType

\* What a caller makes of an item is an item.
LEMMA ChangedType ==
  ASSUME NEW S, NEW v \in Nodes(S), NEW w \in Changed(v)
  PROVE  w \in Nodes(S)
<1>1. CASE w = v
  BY <1>1
<1>2. CASE \E s \in NewStrings : w = [v EXCEPT !.str = s]
  <2>1. PICK s \in NewStrings : w = [v EXCEPT !.str = s]
    BY <1>2
  <2>2. s \in Seq(Nat)
    BY CallerAssumption, ByteStrings
  <2> QED
    BY <2>1, <2>2 DEF Nodes
<1>3. CASE \E x \in NewNumbers : w = [v EXCEPT !.num = x, !.int = Saturated(x)]
  <2>1. PICK x \in NewNumbers : w = [v EXCEPT !.num = x, !.int = Saturated(x)]
    BY <1>3
  <2> DEFINE n == Saturated(x)
  <2>2. x \in Int /\ n \in Int
    BY CallerAssumption, TextAssumption DEF Saturated
  <2> HIDE DEF n
  <2>3. w = [v EXCEPT !.num = x, !.int = n]
    BY <2>1 DEF n
  <2> QED
    BY <2>2, <2>3 DEF Nodes
<1>4. \A s : \A y \in cJSON_SetValuestring(v, s, call.short) : y = v \/ y = [v EXCEPT !.str = s]
  BY DEF cJSON_SetValuestring
<1>5. \/ w = v
      \/ \E s \in NewStrings : w \in cJSON_SetValuestring(v, s, call.short)
      \/ \E x \in NewNumbers : w = cJSON_SetNumberHelper(v, x)
  <2> DEFINE A == {x \in NewStrings : cJSON_GetStringValue(v) \notin {<< >>, <<x>>}}
             B == {x \in NewNumbers : cJSON_GetNumberValue(v) \notin {<< >>, <<x>>}}
  <2>1. A \subseteq NewStrings /\ B \subseteq NewNumbers
    OBVIOUS
  <2>2. \/ w \in {v}
        \/ w \in UNION {cJSON_SetValuestring(v, s, call.short) : s \in A}
        \/ w \in {cJSON_SetNumberHelper(v, x) : x \in B}
    <3> DEFINE C == UNION {cJSON_SetValuestring(v, s, call.short) : s \in A}
               D == {cJSON_SetNumberHelper(v, x) : x \in B}
    <3>1. w \in {v} \cup C \cup D
      BY DEF Changed
    <3> HIDE DEF C, D
    <3>2. w \in {v} \/ w \in C \/ w \in D
      BY <3>1
    <3> QED
      BY <3>2 DEF C, D
  <2> HIDE DEF A, B
  <2>3. CASE w \in UNION {cJSON_SetValuestring(v, s, call.short) : s \in A}
    <3>1. \E s \in A : w \in cJSON_SetValuestring(v, s, call.short)
      BY <2>3
    <3> QED
      BY <2>1, <3>1
  <2>4. CASE w \in {cJSON_SetNumberHelper(v, x) : x \in B}
    <3>1. \E x \in B : w = cJSON_SetNumberHelper(v, x)
      BY <2>4
    <3> QED
      BY <2>1, <3>1
  <2> QED
    BY <2>2, <2>3, <2>4
<1> QED
  BY <1>1, <1>2, <1>3, <1>4, <1>5 DEF cJSON_SetNumberHelper

LEMMA GoOnKeeps ==
  ASSUME CjsonInv, GoOn
  PROVE  CjsonInv'
<1>1. UNCHANGED <<call, p, job, q>> /\ stage = "parse" /\ stage' = "print" /\ tree' \in Changed(p.item)
  BY DEF GoOn
<1>2. PICK S : Forest(S) /\ p \in Parses(S)
  BY DEF CjsonInv, CjsonType, ParseType
<1>3. tree' \in Nodes(S)
  <2>1. p.item \in Nodes(S)
    BY <1>2 DEF Parses, Forest
  <2> QED
    BY <1>1, <2>1, ChangedType
<1>4. \E T : Forest(T) /\ tree' \in T
  <2> DEFINE w == tree'
  <2> HIDE DEF w
  <2>1. w \in Nodes(S)
    BY <1>3 DEF w
  <2>2. Forest(S \cup {w})
    BY <1>2, <2>1, ForestGrows
  <2> QED
    BY <2>2 DEF w
<1>5. q' = Idle
  BY <1>1 DEF CjsonInv, CjsonType
<1>6. \A T : q' \in Prints(T)
  BY <1>5, IdleType
<1>7. ParseType' /\ BoundsInv' /\ HeldInv' /\ Sound(q)'
  BY <1>1 DEF CjsonInv, CjsonType, ParseType, BoundsInv, InLoop, HeldInv, Frame, Sound, Printing,
              CanRead, Sees, Text, OpenEnd, EndsInComma
<1> QED
  BY <1>1, <1>4, <1>6, <1>7 DEF CjsonInv, CjsonType

\* Only the printer moves.
LEMMA ParserRests ==
  ASSUME CjsonInv, UNCHANGED <<call, p>>
  PROVE  ParseType' /\ BoundsInv' /\ HeldInv' /\ call' \in CallsOfBytes
BY DEF CjsonInv, CjsonType, ParseType, BoundsInv, InLoop, HeldInv, Frame, CanRead, Sees, Text,
       OpenEnd, EndsInComma

LEMMA PrintKeeps ==
  ASSUME CjsonInv, ChooseJob \/ PrintStep
  PROVE  CjsonInv'
<1>1. UNCHANGED <<call, p, stage, tree>> /\ stage = "print"
  BY DEF ChooseJob, PrintStep
<1>2. ParseType' /\ BoundsInv' /\ HeldInv' /\ call' \in CallsOfBytes
  BY <1>1, ParserRests
<1>3. PICK S : Forest(S) /\ tree \in S /\ q \in Prints(S)
  BY DEF CjsonInv, CjsonType
<1>4. job' \in JobTypes
  BY CallerAssumption DEF ChooseJob, PrintStep, CjsonInv, CjsonType
<1>5. q' \in Prints(S) /\ Sound(q)'
  <2>1. CASE ChooseJob
    <3>1. q' = q /\ q = Idle
      BY <2>1 DEF ChooseJob
    <3> QED
      BY <1>3, <3>1, IdleIs DEF Sound
  <2>2. CASE PrintStep
    <3>1. job' = job /\ (StartPrint(tree) \/ PrintNext)
      BY <2>2 DEF PrintStep
    <3>2. job \in JobTypes /\ Sound(q)
      BY DEF CjsonInv, CjsonType
    <3>3. q' \in Prints(S) /\ Sound(q')
      BY <1>3, <3>1, <3>2, PrintSound
    <3> QED
      BY <3>1, <3>3 DEF Sound, Printing
  <2> QED
    BY <2>1, <2>2
<1>6. stage' \in {"parse", "print", "again"} /\ stage' # "parse"
  BY <1>1
<1> QED
  BY <1>1, <1>2, <1>3, <1>4, <1>5, <1>6 DEF CjsonInv, CjsonType

LEMMA AgainKeeps ==
  ASSUME CjsonInv, ParseAgain
  PROVE  CjsonInv'
<1>1. /\ stage' = "again" /\ p' = NoParse /\ job' = NoJob /\ q' = Idle /\ tree' = tree
  BY DEF ParseAgain
<1>2. PICK S : Forest(S) /\ tree \in S /\ q \in Prints(S)
  BY DEF CjsonInv, CjsonType
<1>3. call' \in CallsOfBytes
  <2> DEFINE t == Printed
  <2>1. q.out \in Seq(Nat)
    BY <1>2 DEF Prints
  <2>2. t \in Seq(Visible)
    BY <2>1, CStringOf DEF Printed
  <2>3. t \in Seq(Nat)
    BY <2>2, ByteStrings
  <2>4. call' = [call EXCEPT !.api = "Opts", !.text = t, !.source = t, !.null = FALSE,
                             !.nul = TRUE, !.short = FALSE, !.use = "parse"]
        /\ call \in CallsOfBytes
    BY DEF ParseAgain, CjsonInv, CjsonType
  <2> HIDE DEF t
  <2> QED
    BY <2>3, <2>4 DEF CallsOfBytes
<1>4. ParseType'
  <2>1. p' \in Parses({NoItem})
    BY <1>1, NoParseIs
  <2> QED
    BY <2>1, Undergrowth DEF ParseType
<1>5. BoundsInv' /\ HeldInv'
  BY <1>1, NoParseIs DEF BoundsInv, InLoop, HeldInv
<1>6. q' \in Prints(S) /\ Sound(q)'
  BY <1>1, IdleType, IdleIs DEF Sound
<1>7. job' \in JobTypes
  BY <1>1 DEF NoJob, JobTypes
<1> QED
  BY <1>1, <1>2, <1>3, <1>4, <1>5, <1>6, <1>7 DEF CjsonInv, CjsonType

\* Every step of the library keeps it.
LEMMA CjsonStep == CjsonInv /\ [Next]_vars => CjsonInv'
<1> SUFFICES ASSUME CjsonInv, [Next]_vars PROVE CjsonInv'
  OBVIOUS
<1>1. CASE UNCHANGED vars
  <2>1. UNCHANGED <<call, p, job, q, stage, tree>>
    BY <1>1 DEF vars
  <2>2. ParseType' /\ BoundsInv' /\ HeldInv' /\ call' \in CallsOfBytes
    BY <2>1, ParserRests
  <2> QED
    BY <2>1, <2>2 DEF CjsonInv, CjsonType, Sound, Printing
<1> QED
  BY <1>1, MinifyKeeps, ParseKeeps, GoOnKeeps, PrintKeeps, AgainKeeps DEF Next

\* Call, tree, parser and printer have their types whatever is parsed and
\* printed: what the parser returns and what the printer takes are items.
THEOREM CjsonTyped == Spec => []CjsonType
<1>1. CjsonInv => CjsonType
  BY DEF CjsonInv
<1> QED
  BY <1>1, CjsonInit, CjsonStep, PTL DEF Spec

\* However a text ends or breaks off and whatever its escapes, every byte that
\* parse_string looks at, for a value or a name, is in the text, and what it writes
\* is in the block it has allocated; only behind a comma that ends an object's text
\* without a NUL does it look at the one byte that follows.
THEOREM ParserStaysInBounds == Spec => []ParserInBounds
<1>1. CjsonInv => ParserInBounds
  BY TextType, BoundsMeans DEF CjsonInv, CjsonType
<1> QED
  BY <1>1, CjsonInit, CjsonStep, PTL DEF Spec

\* After cJSON_ParseWithOpts and its kin have returned NULL for a text,
\* global_error, which cJSON_GetErrorPtr hands out, is on a byte of that text,
\* also when the fault lies behind the last one.
THEOREM ErrorsPointIntoText == Spec => []ErrorInText
<1>1. CjsonInv => ErrorInText
  BY TextType, BoundsMeans DEF CjsonInv, CjsonType
<1> QED
  BY <1>1, CjsonInit, CjsonStep, PTL DEF Spec

\* When a call of the parser is over, every block it has allocated is in the tree
\* it returns, and none is left when it returns NULL, whichever value or
\* allocation has failed and however deep in the text.
THEOREM ParserLeaksNothing == Spec => []NothingLeaks
<1>1. CjsonInv => NothingLeaks
  BY HeldMeans DEF CjsonInv, CjsonType
<1> QED
  BY <1>1, CjsonInit, CjsonStep, PTL DEF Spec

\* Whatever is printed, every piece is written where ensure has made room for it
\* and ends before the end of the buffer; only a caller's buffer of no size is
\* written to outside.
THEOREM PrinterStaysInBounds == Spec => []PrinterInBounds
<1>1. CjsonInv => PrinterInBounds
  BY SoundMeans DEF CjsonInv, CjsonType
<1> QED
  BY <1>1, CjsonInit, CjsonStep, PTL DEF Spec
=============================================================================
