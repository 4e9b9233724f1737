------------------------------- MODULE Cjson --------------------------------
(* cJSON.c used from end to end: a text, minified or not, is parsed; the     *)
(* tree, or one built otherwise, is printed; what was printed is parsed      *)
(* again.                                                                    *)
EXTENDS CjsonParse, CjsonPrint

CONSTANTS
  Jobs,       \* the ways to print
  Trees,      \* trees the parser does not make, with all that are in them
  NewStrings, \* what the caller may put in the place of a string
  NewNumbers  \* or a number

ASSUME CallerAssumption ==
  /\ Jobs \subseteq JobTypes
  /\ Trees \subseteq ItemTypes(Trees)
  /\ NewStrings \subseteq Seq(0 .. 255) /\ NewNumbers \subseteq Int

VARIABLES
  stage,  \* "parse", "print", "again"
  tree    \* what is printed

vars == <<call, p, job, q, stage, tree>>

NoJob == [fun |-> "Print", format |-> FALSE, size |-> 0, hooks |-> {}, short |-> FALSE]

NoCall == [api |-> "Opts", text |-> << >>, null |-> TRUE, nul |-> FALSE, short |-> FALSE,
           source |-> << >>, use |-> "print"]

Init ==
  /\ job = NoJob /\ q = Idle
  /\ \/ ParseInit /\ stage = "parse" /\ tree = NoItem
     \/ call = NoCall /\ p = NoParse /\ stage = "print" /\ tree \in Trees

-----------------------------------------------------------------------------
\* cJSON_Minify.

\* A bug: an escaped quote ends the string.
StringEnd_Unescaped(t, i) ==
  LET quotes == {k \in i + 1 .. Len(t) - 1 : At(t, k) = Quote}
  IN  IF quotes = {} THEN Len(t) ELSE Min(quotes) + 1

\* minify_string: behind the quote that ends the literal at i.  A backslash
\* before a quote escapes it, be it escaped itself or not.
StringEnd(t, i) ==
  LET quotes == {k \in i + 1 .. Len(t) - 1 :
                   At(t, k) = Quote /\ (k > i + 1 => At(t, k - 1) # Backslash)}
  IN  IF quotes = {} THEN Len(t) ELSE Min(quotes) + 1

\* skip_oneline_comment, skip_multiline_comment: behind the comment at i.
CommentEnd(t, i, mark) ==
  LET ends == {k \in i + 2 .. Len(t) - Len(mark) : HasAt(t, k, mark)}
  IN  IF ends = {} THEN Len(t) ELSE Min(ends) + Len(mark)

cJSON_Minify(t) ==
  LET from[i \in 0 .. Len(t)] ==
        IF i = Len(t) THEN << >>
        ELSE LET c == At(t, i) IN
             IF c \in {Blank, Tab, Return, NewLine} THEN from[i + 1]
             ELSE IF HasAt(t, i, <<Slash, Slash>>) THEN from[CommentEnd(t, i, <<NewLine>>)]
             ELSE IF HasAt(t, i, <<Slash, Star>>) THEN from[CommentEnd(t, i, <<Star, Slash>>)]
             ELSE IF c = Slash THEN from[i + 1]
             ELSE IF c = Quote
             THEN Slice(t, i, StringEnd(t, i)) \o from[StringEnd(t, i)]
             ELSE <<c>> \o from[i + 1]
  IN  from[0]

-----------------------------------------------------------------------------
\* Reading and changing an item.

\* cJSON_IsNull and its like, which leave the flags of the type aside.
Is(v, type) == v.type = type

\* As a sequence of at most one.
cJSON_GetStringValue(v) == IF Is(v, "string") THEN <<v.str>> ELSE << >>
cJSON_GetNumberValue(v) == IF Is(v, "number") THEN <<v.num>> ELSE << >>

\* A shorter string is written over the old one, a longer one needs memory.
cJSON_SetValuestring(v, s, short) ==
  LET new == [v EXCEPT !.str = s] IN
  IF ~Is(v, "string") THEN {v}
  ELSE IF short /\ Len(s) > Len(CString(v.str)) THEN {v, new} ELSE {new}

cJSON_SetNumberHelper(v, x) == [v EXCEPT !.num = x, !.int = Saturated(x)]

\* What a caller may make of the item it parsed.
Changed(v) ==
  LET strings == {x \in NewStrings : cJSON_GetStringValue(v) \notin {<< >>, <<x>>}}
      numbers == {x \in NewNumbers : cJSON_GetNumberValue(v) \notin {<< >>, <<x>>}}
  IN  {v} \cup (UNION {cJSON_SetValuestring(v, s, call.short) : s \in strings})
          \cup {cJSON_SetNumberHelper(v, x) : x \in numbers}

-----------------------------------------------------------------------------

Minify ==
  /\ stage = "parse" /\ p.pc = "call" /\ call.use = "minify" /\ call.text = call.source
  /\ cJSON_Minify(call.text) # call.text
  /\ call' = [call EXCEPT !.text = cJSON_Minify(@)]
  /\ UNCHANGED <<p, job, q, stage, tree>>

Parse ==
  /\ stage \in {"parse", "again"}
  /\ ParseNext
  /\ UNCHANGED <<call, job, q, stage, tree>>

\* The caller prints what it parsed, or what it has made of it.
GoOn ==
  /\ stage = "parse" /\ p.pc = "tree" /\ call.use = "print"
  /\ stage' = "print" /\ tree' \in Changed(p.item)
  /\ UNCHANGED <<call, p, job, q>>

ChooseJob ==
  /\ stage = "print" /\ q = Idle /\ job = NoJob
  /\ job' \in Jobs
  /\ UNCHANGED <<call, p, q, stage, tree>>

PrintStep ==
  /\ stage = "print" /\ job # NoJob
  /\ StartPrint(tree) \/ PrintNext
  /\ UNCHANGED <<call, p, job, stage, tree>>

\* The printed text is parsed, whichever way it was printed.
ParseAgain ==
  /\ stage = "print" /\ q.pc = "printed"
  /\ stage' = "again"
  /\ call' = [call EXCEPT !.api = "Opts", !.text = Printed, !.source = Printed,
                          !.null = FALSE, !.nul = TRUE, !.short = FALSE, !.use = "parse"]
  /\ p' = NoParse
  /\ job' = NoJob /\ q' = Idle
  /\ UNCHANGED tree

Next == Minify \/ Parse \/ GoOn \/ ChooseJob \/ PrintStep \/ ParseAgain

Spec == Init /\ [][Next]_vars
=============================================================================
