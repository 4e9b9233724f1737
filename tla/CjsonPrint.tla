----------------------------- MODULE CjsonPrint -----------------------------
(* cJSON.c: the printer.  print_value, print_array and print_object are a    *)
(* list of what is left to do, in the order of the code: values to print,    *)
(* pieces to write, each after asking ensure for room, and update_offset.    *)
(* The buffer is what has been written to it; bytes not written yet are not  *)
(* there to be read.                                                         *)
EXTENDS CjsonText

CONSTANTS DefaultSize   \* default_buffer_size

ASSUME PrintAssumption == DefaultSize \in Nat \ {0}

VARIABLES
  job,  \* the arguments of the call, the hooks, and whether memory is short
  q     \* printbuffer, what is left to do, and what has been allocated

\* size: prebuffer, or length; hooks: the functions of their own that
\* cJSON_InitHooks was given.
JobTypes == [fun : {"Print", "Buffered", "Preallocated"}, format : BOOLEAN,
             size : Int, hooks : SUBSET {"malloc", "free"}, short : BOOLEAN]

-----------------------------------------------------------------------------
\* What is to be done for a value at a depth.

Value(v, d)           == [op |-> "value", v |-> v, depth |-> d]
Put(need, bytes, adv) == [op |-> "put", need |-> need, bytes |-> bytes, advance |-> adv]
Whole(need, bytes)    == Put(need, Append(bytes, Nul), 0)
update_offset         == [op |-> "offset"]

Tabs(n) == [i \in 1 .. n |-> Tab]

Quoted(s) == Whole(StringNeed(CString(s)), print_string_ptr(CString(s)))

Separator == IF job.format THEN <<Comma, Blank, Nul>> ELSE <<Comma, Nul>>

\* A bug: the NUL behind a separator counts as part of it.
PutSeparator_WithNul == Put(Len(Separator), Separator, Len(Separator))

PutSeparator == Put(Len(Separator), Separator, Len(Separator) - 1)

print_array(v, d) ==
  LET Element(i) == <<Value(v.kids[i], d + 1), update_offset>>
                    \o (IF i < Len(v.kids) THEN <<PutSeparator>> ELSE << >>)
  IN  <<Put(1, <<Open>>, 1)>> \o FlattenSeq([i \in DOMAIN v.kids |-> Element(i)])
        \o <<Whole(2, <<Close>>)>>

\* A bug: the room for the indentation forgets the brace behind it.
ClosingBrace_Tight(d) ==
  IF job.format THEN Whole(d, Tabs(d) \o <<CloseBrace>>) ELSE Whole(2, <<CloseBrace>>)

ClosingBrace(d) ==
  IF job.format THEN Whole(d + 2, Tabs(d) \o <<CloseBrace>>) ELSE Whole(2, <<CloseBrace>>)

print_object(v, d) ==
  LET line == IF job.format THEN <<NewLine>> ELSE << >>
      colon == IF job.format THEN <<Colon, Tab>> ELSE <<Colon>>
      Comma_(i) == IF i < Len(v.kids) THEN <<Comma>> ELSE << >>
      Member(i) ==
        (IF job.format THEN <<Put(d + 1, Tabs(d + 1), d + 1)>> ELSE << >>)
        \o <<Quoted(IF v.kids[i].name = << >> THEN << >> ELSE v.kids[i].name[1]), update_offset,
             Put(Len(colon), colon, Len(colon)),
             Value(v.kids[i], d + 1), update_offset,
             Put(Len(Comma_(i) \o line) + 1, Comma_(i) \o line \o <<Nul>>, Len(Comma_(i) \o line))>>
  IN  <<Put(Len(line) + 2, <<OpenBrace>> \o line, Len(line) + 1)>>
        \o FlattenSeq([i \in DOMAIN v.kids |-> Member(i)]) \o <<ClosingBrace(d)>>

Word(v) == CASE v.type = "null" -> NullWord [] v.type = "true" -> TrueWord
             [] v.type = "false" -> FalseWord [] v.type = "number" -> print_number(v.num)
             [] v.type = "raw" -> CString(v.str)

Printable(v) == v.type \in {"null", "true", "false", "number", "raw", "string", "array", "object"}

Work(v, d) ==
  CASE v.type = "string" -> <<Quoted(v.str)>>
    [] v.type = "array"  -> print_array(v, d)
    [] v.type = "object" -> print_object(v, d)
    [] v.type = "number" -> <<Put(Len(Word(v)) + 1, Append(Word(v), Nul), Len(Word(v)))>>
    [] OTHER             -> <<Whole(Len(Word(v)) + 1, Word(v))>>

-----------------------------------------------------------------------------
\* The buffer.

\* cJSON_InitHooks: realloc is used only with malloc and free.
HasReallocate == job.hooks = {}

noalloc == job.fun = "Preallocated"

NewBuffer(length, mem) ==
  [pc |-> "print", todo |-> << >>, out |-> << >>, length |-> length, offset |-> 0,
   mem |-> mem, buffer |-> TRUE, strays |-> FALSE]

Idle == [NewBuffer(0, 0) EXCEPT !.pc = "idle", !.buffer = FALSE]

Doing == Head(q.todo)
Does(op) == q.pc = "print" /\ q.todo # << >> /\ Doing.op = op

Needed == Doing.need + q.offset + 1

\* The outcomes of ensure.
Refused == \/ q.length > 0 /\ q.offset >= q.length
           \/ Doing.need > IntMax
           \/ Needed > q.length /\ (noalloc \/ Needed > IntMax)
Fits    == ~Refused /\ Needed <= q.length
Grows   == ~Refused /\ Needed > q.length

NewSize == IF Needed > IntMax \div 2 THEN IntMax ELSE 2 * Needed

Written(b) == [b EXCEPT !.out = Slice(@, 0, b.offset) \o Doing.bytes,
                        !.offset = @ + Doing.advance, !.todo = Tail(@)]

PutFits    == Does("put") /\ Fits /\ q' = Written(q)
PutRefused == Does("put") /\ Refused /\ q' = [q EXCEPT !.pc = "fail"]

\* ensure reallocates, or allocates, copies the bytes up to the offset and frees.
PutGrows ==
  /\ Does("put") /\ Grows
  /\ q' = IF HasReallocate THEN Written([q EXCEPT !.length = NewSize])
          ELSE Written([q EXCEPT !.length = NewSize, !.strays = @ \/ q.offset + 1 > q.length])

\* A bug: a buffer that could not be made larger is kept by ensure and by its
\* callers' error paths alike.
PutFails_KeepsPointer ==
  /\ Does("put") /\ Grows /\ job.short
  /\ q' = [q EXCEPT !.pc = "fail", !.mem = @ - 1]

\* ensure frees the buffer it cannot replace.
PutFails ==
  /\ Does("put") /\ Grows /\ job.short
  /\ q' = [q EXCEPT !.pc = "fail", !.mem = @ - 1, !.buffer = FALSE, !.length = 0]

\* strlen from the offset on.
Strlen == LET rest == Slice(q.out, q.offset, Len(q.out)) IN Len(CString(rest))

UpdateOffset ==
  /\ Does("offset")
  /\ q' = [q EXCEPT !.offset = @ + Strlen, !.todo = Tail(@)]

PrintValue ==
  /\ Does("value")
  /\ q' = IF Printable(Doing.v) THEN [q EXCEPT !.todo = Work(Doing.v, Doing.depth) \o Tail(@)]
          ELSE [q EXCEPT !.pc = "fail"]

-----------------------------------------------------------------------------
\* The calls.

StartPrint(v) ==
  LET size == IF job.fun = "Print" THEN DefaultSize ELSE job.size
      blocks == IF noalloc THEN 0 ELSE 1
  IN  /\ q.pc = "idle"
      /\ \/ /\ size >= 0
            /\ q' = [NewBuffer(size, blocks) EXCEPT !.todo = <<Value(v, 0)>>]
         \/ /\ size < 0 \/ (job.short /\ ~noalloc)
            /\ q' = [Idle EXCEPT !.pc = "failed"]

\* print(): a last update_offset, then a copy of the right size.
FinishPrint ==
  /\ q.pc = "print" /\ q.todo = << >> /\ job.fun = "Print"
  /\ \/ q' = [q EXCEPT !.pc = "printed", !.offset = @ + Strlen, !.length = q.offset + Strlen + 1]
     \/ job.short /\ q' = [q EXCEPT !.pc = "fail"]

FinishOther ==
  /\ q.pc = "print" /\ q.todo = << >> /\ job.fun # "Print"
  /\ q' = [q EXCEPT !.pc = "printed"]

PrintFailed ==
  /\ q.pc = "fail"
  /\ q' = [q EXCEPT !.pc = "failed", !.buffer = FALSE,
                    !.mem = IF q.buffer /\ ~noalloc THEN @ - 1 ELSE @]

PrintNext ==
  \/ PrintValue \/ PutFits \/ PutGrows \/ PutFails \/ PutRefused \/ UpdateOffset
  \/ FinishPrint \/ FinishOther \/ PrintFailed

Printed == CString(q.out)

-----------------------------------------------------------------------------

\* The caller is left with one block when there is a text for it, and with none
\* otherwise; nothing is freed twice.
PrintKeepsNothing ==
  /\ q.mem \in {0, 1}
  /\ q.pc = "printed" => q.mem = (IF noalloc THEN 0 ELSE 1)
  /\ q.pc = "failed" => q.mem = 0

\* No piece is written past what ensure provided.
WritesInBuffer == q.pc \in {"print", "printed"} => Len(q.out) <= q.length

\* Whenever update_offset looks for the end of the text, a NUL has been written
\* behind the offset: it never runs into bytes nobody wrote.
StrlenStops ==
  Does("offset") \/ (q.pc = "print" /\ q.todo = << >>)
    => \E i \in q.offset + 1 .. Len(q.out) : q.out[i] = Nul

\* When ensure copies a buffer itself it copies bytes of that buffer, unless the
\* caller asked for a prebuffer of 0.
CopiesInBuffer == q.strays => job.fun = "Buffered" /\ job.size = 0

PrinterInBounds == WritesInBuffer /\ StrlenStops /\ CopiesInBuffer
=============================================================================
