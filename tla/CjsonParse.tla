----------------------------- MODULE CjsonParse -----------------------------
(* cJSON.c: the recursive-descent parser, from cJSON_Parse and its variants  *)
(* down to the values.  The C stack is explicit: a frame is a call of        *)
(* parse_array or parse_object with the items it has allocated.  malloc may  *)
(* fail whenever it is called.  A read outside the text is an error of TLC's *)
(* evaluation, except the one place where the code makes it, see strays.     *)
EXTENDS CjsonText

CONSTANTS
  NestingLimit,  \* CJSON_NESTING_LIMIT
  Calls          \* the calls that are made, see CallTypes

ASSUME ParseAssumption == NestingLimit \in Nat

VARIABLES
  call,  \* the arguments of the call
  p      \* parse_buffer, the frames, and what has been allocated

\* api: which of the functions is called; text: the bytes the caller passes,
\* without the NUL of the functions that take a C string; null: value is NULL;
\* nul: require_null_terminated; short: memory may run out; source: the text
\* before cJSON_Minify; use: what the caller does with text and tree.
CallTypes == [api : {"Opts", "LengthOpts"}, text : Seq(0 .. 255), null : BOOLEAN,
              nul : BOOLEAN, short : BOOLEAN, source : Seq(0 .. 255),
              use : {"parse", "minify", "print"}]

ASSUME CallsAssumption == Calls \subseteq CallTypes

\* An item: size counts the blocks cJSON_Delete frees, name is a sequence of
\* at most one string.
Item(type) == [type |-> type, str |-> << >>, num |-> 0, int |-> 0, kids |-> << >>,
               name |-> << >>, size |-> 1]

\* Items whose children are among S.
ItemTypes(S) ==
  [type : {"none", "null", "true", "false", "number", "raw", "string", "array", "object"},
   str : Seq(0 .. 255), num : Int, int : Int, kids : Seq(S), name : Seq(Seq(0 .. 255)),
   size : Nat]

NoItem  == Item("none")
NoError == -1   \* global_error points nowhere
OldError == -2  \* into the text of an earlier call

\* cJSON_ParseWithOpts takes the NUL for a byte of the text.
Text == IF call.api = "Opts" THEN Append(call.text, Nul) ELSE call.text

NoParse == [pc |-> "call", offset |-> 0, depth |-> 0, stack |-> << >>, item |-> NoItem,
            mem |-> 0, error |-> OldError, strays |-> FALSE]

ParseInit == call \in Calls /\ p = NoParse

-----------------------------------------------------------------------------
\* Moving in the text.

CanRead(o) == o < Len(Text)
Sees(o, c) == CanRead(o) /\ At(Text, o) = c

\* Behind blanks; at the last byte when there is nothing else.
buffer_skip_whitespace(o) ==
  LET ends == {i \in o .. Len(Text) : i = Len(Text) \/ At(Text, i) > Blank} IN
  IF ~CanRead(o) THEN o ELSE IF Min(ends) = Len(Text) THEN Len(Text) - 1 ELSE Min(ends)

skip_utf8_bom(o) == IF CanRead(4) /\ HasAt(Text, 0, <<239, 187, 191>>) THEN 3 ELSE o

-----------------------------------------------------------------------------
\* Returning.

\* parse_value is true with item v, the text read up to o.
Returned(v, o) == p' = [p EXCEPT !.pc = "have", !.item = v, !.offset = o,
                                 !.mem = @ + (v.size - 1)]

\* false: the calls return one after the other.
Failed(o) == p' = [p EXCEPT !.pc = "fail", !.item = NoItem, !.offset = o]

Blocks(f) == FoldLeft(LAMBDA n, k : n + k.size, f.new, f.kids)

\* parse_array, parse_object: fail deletes what was parsed.
Unwind ==
  /\ p.pc = "fail" /\ p.stack # << >>
  /\ p' = [p EXCEPT !.stack = Front(@), !.mem = @ - Blocks(Last(p.stack))]

\* A bug: the offset of the failure may be behind the text.
ErrorAt_Raw(o) == o

\* Where global_error points after a failure at offset o.
ErrorAt(o) == IF o < Len(Text) THEN o ELSE IF Text # << >> THEN Len(Text) - 1 ELSE 0

Report(o) == IF call.null THEN NoError ELSE ErrorAt(o)

\* cJSON_ParseWithLengthOpts: fail deletes the root and notes where it happened.
GiveUp ==
  /\ p.pc = "fail" /\ p.stack = << >>
  /\ p' = [p EXCEPT !.pc = "null", !.mem = @ - p.item.size,
                    !.error = Report(p.offset), !.item = NoItem]

-----------------------------------------------------------------------------
\* The values.

AtValue == p.pc = "value"

Literal(word, type) ==
  /\ HasAt(Text, p.offset, word)
  /\ Returned([Item(type) EXCEPT !.int = IF type = "true" THEN 1 ELSE 0], p.offset + Len(word))

ParseString ==
  LET s == parse_string(Text, p.offset) IN
  /\ Sees(p.offset, Quote)
  /\ \/ s.ok /\ Returned([Item("string") EXCEPT !.str = s.bytes, !.size = 2], s.offset)
     \/ ~s.ok /\ Failed(s.offset)
     \/ call.short /\ s.opens /\ Failed(p.offset + 1)

parse_number ==
  LET n == strtod(NumberAt(Text, p.offset)) IN
  /\ CanRead(p.offset)
  /\ At(Text, p.offset) = Minus \/ IsDigit(At(Text, p.offset))
  /\ IF n.length = 0 THEN Failed(p.offset)
     ELSE Returned([Item("number") EXCEPT !.num = n.value, !.int = Saturated(n.value)],
                   p.offset + n.length)

Opening(type) == IF type = "array" THEN Open ELSE OpenBrace
Closing(type) == IF type = "array" THEN Close ELSE CloseBrace

\* A bug: one level too many is let in.
TooDeep_OffByOne == p.depth > NestingLimit

TooDeep == p.depth >= NestingLimit

\* parse_array, parse_object up to their loops.
OpenContainer(type) ==
  LET o == buffer_skip_whitespace(p.offset + 1) IN
  /\ Sees(p.offset, Opening(type))
  /\ IF TooDeep THEN Failed(p.offset)
     ELSE IF Sees(o, Closing(type)) THEN Returned(Item(type), o + 1)
     ELSE IF ~CanRead(o) THEN Failed(o - 1)
     ELSE p' = [p EXCEPT !.pc = "element", !.offset = o - 1, !.depth = @ + 1,
                         !.stack = Append(@, [type |-> type, kids |-> << >>,
                                              name |-> << >>, new |-> 0])]

StartsValue == /\ CanRead(p.offset)
               /\ \/ At(Text, p.offset) \in {Quote, Minus, Open, OpenBrace}
                  \/ IsDigit(At(Text, p.offset))
                  \/ \E w \in {NullWord, TrueWord, FalseWord} : HasAt(Text, p.offset, w)

NoValue == ~StartsValue /\ Failed(p.offset)

parse_value ==
  /\ AtValue
  /\ \/ Literal(NullWord, "null") \/ Literal(FalseWord, "false") \/ Literal(TrueWord, "true")
     \/ ParseString \/ parse_number
     \/ \E type \in {"array", "object"} : OpenContainer(type)
     \/ NoValue

-----------------------------------------------------------------------------
\* The loop over the children.

Frame == Last(p.stack)

\* The next item of an array.
Element ==
  /\ p.pc = "element" /\ Frame.type = "array"
  /\ \/ p' = [p EXCEPT !.pc = "value", !.mem = @ + 1, !.stack[Len(p.stack)].new = 1,
                       !.offset = buffer_skip_whitespace(@ + 1)]
     \/ call.short /\ Failed(p.offset)

\* The next item of an object with its name and the colon.  After a comma that
\* ends a text without a NUL the name is looked for behind the text.
Member ==
  LET o == buffer_skip_whitespace(p.offset + 1)
      s == parse_string(Text, o)
      c == buffer_skip_whitespace(s.offset)
      new == [p EXCEPT !.mem = @ + 1, !.stack[Len(p.stack)].new = 1,
                       !.strays = @ \/ ~CanRead(o)]
      named == [new EXCEPT !.mem = @ + 1, !.stack[Len(p.stack)].new = 2,
                           !.stack[Len(p.stack)].name = <<s.bytes>>]
  IN  /\ p.pc = "element" /\ Frame.type = "object"
      /\ \/ call.short /\ Failed(p.offset)
         \/ /\ call.short /\ s.opens
            /\ p' = [new EXCEPT !.pc = "fail", !.item = NoItem, !.offset = o + 1]
         \/ ~s.ok /\ p' = [new EXCEPT !.pc = "fail", !.item = NoItem, !.offset = s.offset]
         \/ /\ s.ok
            /\ IF Sees(c, Colon)
               THEN p' = [named EXCEPT !.pc = "value", !.offset = buffer_skip_whitespace(c + 1)]
               ELSE p' = [named EXCEPT !.pc = "fail", !.item = NoItem, !.offset = c]

\* A value has been parsed: it is the new child's, and the loop goes on, or the
\* container is complete.
Child ==
  LET kid  == [p.item EXCEPT !.name = Frame.name, !.size = @ + Len(Frame.name)]
      kids == Append(Frame.kids, kid)
      o    == buffer_skip_whitespace(p.offset)
      whole == [Item(Frame.type) EXCEPT
                  !.kids = kids, !.size = FoldLeft(LAMBDA n, k : n + k.size, 1, kids)]
      frame == [Frame EXCEPT !.kids = kids, !.name = << >>, !.new = 0]
  IN  /\ p.pc = "have" /\ p.stack # << >>
      /\ IF Sees(o, Comma)
         THEN p' = [p EXCEPT !.pc = "element", !.offset = o, !.stack[Len(p.stack)] = frame]
         ELSE IF Sees(o, Closing(Frame.type))
         THEN p' = [p EXCEPT !.item = whole, !.offset = o + 1, !.stack = Front(@),
                             !.depth = @ - 1]
         ELSE p' = [p EXCEPT !.pc = "fail", !.item = NoItem, !.offset = o,
                             !.stack[Len(p.stack)] = frame]

-----------------------------------------------------------------------------
\* The calls.

\* cJSON_ParseWithOpts(NULL) answers before anything is reset.
ParseNothing ==
  /\ p.pc = "call" /\ call.null /\ call.api = "Opts"
  /\ p' = [p EXCEPT !.pc = "null"]

\* cJSON_ParseWithLengthOpts up to parse_value.
Begin ==
  LET o == buffer_skip_whitespace(skip_utf8_bom(0)) IN
  /\ p.pc = "call" /\ ~(call.null /\ call.api = "Opts")
  /\ \/ /\ ~call.null /\ Text # << >>
        /\ p' = [p EXCEPT !.pc = "value", !.error = NoError, !.mem = 1, !.offset = o]
     \/ /\ call.null \/ Text = << >> \/ call.short
        /\ p' = [p EXCEPT !.pc = "null", !.error = Report(0)]

\* A bug: the root is not deleted when something follows it.
End_KeepsRoot ==
  LET o == IF call.nul THEN buffer_skip_whitespace(p.offset) ELSE p.offset IN
  /\ p.pc = "have" /\ p.stack = << >>
  /\ IF call.nul => Sees(o, Nul) THEN p' = [p EXCEPT !.pc = "tree", !.offset = o]
     ELSE p' = [p EXCEPT !.pc = "fail", !.offset = o, !.item = NoItem]

\* The root is parsed; a NUL must follow if the caller wants one.
End ==
  LET o == IF call.nul THEN buffer_skip_whitespace(p.offset) ELSE p.offset IN
  /\ p.pc = "have" /\ p.stack = << >>
  /\ IF call.nul => Sees(o, Nul) THEN p' = [p EXCEPT !.pc = "tree", !.offset = o]
     ELSE p' = [p EXCEPT !.pc = "fail", !.offset = o]

ParseNext ==
  \/ ParseNothing \/ Begin \/ parse_value \/ Element \/ Member \/ Child \/ End
  \/ Unwind \/ GiveUp

-----------------------------------------------------------------------------
ParseDone == p.pc \in {"tree", "null"}

\* A call leaves the blocks of the tree it answers, and none when it answers
\* NULL, whatever was missing, malformed or out of memory, and at any depth.
NothingLeaks == ParseDone => p.mem = (IF p.pc = "tree" THEN p.item.size ELSE 0)

\* The recursion is never deeper than the limit, and depth counts it.
NestingBounded ==
  p.depth <= NestingLimit /\ (p.pc \notin {"fail", "null"} => Len(p.stack) = p.depth)

\* cJSON.h:151 and :176: a call that was given a text and answers NULL leaves
\* an error that points into the text, one that answers a tree leaves none, and
\* nothing is left of an earlier call's.
ErrorInText ==
  ParseDone /\ ~call.null =>
    IF p.pc = "tree" THEN p.error = NoError /\ p.offset <= Len(Text)
    ELSE p.error = 0 \/ p.error \in 0 .. Len(Text) - 1

\* Where parse_string is called next, for a value or a member's name.
StringCalled == \/ p.pc = "value" /\ Sees(p.offset, Quote)
                \/ p.pc = "element" /\ Frame.type = "object"
StringOffset == IF p.pc = "value" THEN p.offset ELSE buffer_skip_whitespace(p.offset + 1)

\* A text without a NUL that breaks off behind a comma.
EndsInComma == call.api # "Opts" /\ Last(Text) = Comma

\* parse_string looks at bytes of the text only, however a literal breaks off,
\* and at the byte behind the text only for a name after a last comma.
StringInText ==
  StringCalled =>
    \A i \in StringReads(Text, StringOffset) : i < Len(Text) \/ (i = Len(Text) /\ EndsInComma)

\* What parse_string writes, with its NUL, fits what it estimated, also when it
\* gives up in the middle of a literal.
StringFits ==
  LET s == parse_string(Text, StringOffset) IN
  StringCalled /\ s.opens => Len(s.bytes) + 1 <= s.room

\* A call has looked behind the text only if that is so.
OneStray == p.strays => EndsInComma

\* parse_string, the part of the parser that goes through the text by pointers,
\* neither reads outside the text nor writes outside its block, at any cut and
\* with any escapes, but for the one byte behind a comma that ends the text of an
\* object given by its length; all other reads follow a test of the offset.
ParserInBounds == StringInText /\ StringFits /\ OneStray
=============================================================================
