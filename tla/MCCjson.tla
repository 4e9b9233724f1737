------------------------------ MODULE MCCjson -------------------------------
(* Cjson on texts: renderings of small trees in several styles, their        *)
(* prefixes, the renderings with a byte replaced, and texts of their own;    *)
(* and the reference the answers are held against.                           *)
EXTENDS Cjson, CjsonCompare

-----------------------------------------------------------------------------
\* The reference: what a text says, as a sequence of tokens.

Token(kind, bytes) == [kind |-> kind, bytes |-> bytes, num |-> 0, int |-> 0]
NumToken(v, i)     == [kind |-> "number", bytes |-> << >>, num |-> v, int |-> i]
Nearest(v)         == Max({Min({v, IntMax}), -IntMax - 1})

RECURSIVE Tokens(_, _)
Tokens(t, i) ==
  IF i >= Len(t) THEN << >>
  ELSE LET c     == At(t, i)
           quote == ClosingQuote(t, i + 1)
           n     == strtod(NumberAt(t, i))
       IN IF c <= Blank THEN Tokens(t, i + 1)
          ELSE IF HasAt(t, i, <<Slash, Slash>>) THEN Tokens(t, CommentEnd(t, i, <<NewLine>>))
          ELSE IF HasAt(t, i, <<Slash, Star>>) THEN Tokens(t, CommentEnd(t, i, <<Star, Slash>>))
          ELSE IF c = Quote THEN IF quote.end = -1 THEN <<Token("bad", << >>)>>
               ELSE <<Token("string", Unescape(t, i + 1, quote.end).bytes)>>
                    \o Tokens(t, quote.end + 1)
          ELSE IF c = Minus \/ IsDigit(c)
          THEN IF n.length = 0 THEN <<Token("bad", << >>)>>
               ELSE <<NumToken(n.value, Nearest(n.value))>> \o Tokens(t, i + n.length)
          ELSE <<Token("byte", <<c>>)>> \o Tokens(t, i + 1)

Bytes(s) == [i \in DOMAIN s |-> Token("byte", <<s[i]>>)]

NameOf(v) == IF v.name = << >> THEN << >> ELSE v.name[1]

\* The tokens of a tree.
RECURSIVE TreeTokens(_)
TreeTokens(v) ==
  LET Sep(i) == IF i < Len(v.kids) THEN Bytes(<<Comma>>) ELSE << >>
      Name(k) == IF v.type = "object" THEN <<Token("string", NameOf(k))>> \o Bytes(<<Colon>>)
                 ELSE << >>
  IN  CASE v.type \in {"null", "true", "false"} -> Bytes(Word(v))
        [] v.type = "number" -> <<NumToken(v.num, v.int)>>
        [] v.type = "string" -> <<Token("string", v.str)>>
        [] OTHER -> Bytes(<<Opening(v.type)>>)
                    \o FlattenSeq([i \in DOMAIN v.kids |->
                         Name(v.kids[i]) \o TreeTokens(v.kids[i]) \o Sep(i)])
                    \o Bytes(<<Closing(v.type)>>)

\* The text of a tree; a gap is put where blanks may stand.
RECURSIVE Render(_, _)
Render(v, gap) ==
  LET Sep(i) == IF i < Len(v.kids) THEN gap \o <<Comma>> ELSE << >>
      Name(k) == IF v.type = "object" THEN gap \o print_string_ptr(NameOf(k)) \o gap \o <<Colon>>
                 ELSE << >>
  IN  CASE v.type \in {"null", "true", "false", "number", "raw"} -> Word(v)
        [] v.type = "string" -> print_string_ptr(CString(v.str))
        [] OTHER -> <<Opening(v.type)>> \o FlattenSeq([i \in DOMAIN v.kids |->
                         Name(v.kids[i]) \o gap \o Render(v.kids[i], gap) \o Sep(i)])
                    \o gap \o <<Closing(v.type)>>

\* The text of a tree with format: a line for every member of an object, behind
\* as many tabs as objects and arrays are around it.
RECURSIVE Pretty(_, _)
Pretty(v, d) ==
  LET Line(n) == <<NewLine>> \o Tabs(n)
      Kid(i) == Pretty(v.kids[i], d + 1)
      Lines == [i \in DOMAIN v.kids |-> Line(d + 1) \o print_string_ptr(NameOf(v.kids[i]))
                  \o <<Colon, Tab>> \o Kid(i) \o (IF i < Len(v.kids) THEN <<Comma>> ELSE << >>)]
      Items == [i \in DOMAIN v.kids |-> Kid(i) \o (IF i < Len(v.kids) THEN <<Comma, Blank>>
                                                   ELSE << >>)]
  IN  CASE v.type = "object" -> <<OpenBrace>> \o FlattenSeq(Lines) \o Line(d) \o <<CloseBrace>>
        [] v.type = "array"  -> <<Open>> \o FlattenSeq(Items) \o <<Close>>
        [] OTHER             -> Render(v, << >>)

\* A tree as a text can say it: strings end at their NUL, numbers are finite.
RECURSIVE Sayable(_)
Sayable(v) ==
  LET w == [v EXCEPT !.str = CString(@), !.kids = [i \in DOMAIN @ |-> Sayable(@[i])],
                     !.name = [i \in DOMAIN @ |-> CString(@[i])]]
  IN  IF v.type = "number" /\ v.num \in {Infinity, -Infinity} THEN [NoItem EXCEPT !.type = "null"]
      ELSE w

\* What a tree says but for the order of members: names, as they are or in
\* lower case, go with what stands behind them.
RECURSIVE Meaning(_, _)
Meaning(v, lower) ==
  LET Name(k) == IF lower THEN Lowered(NameOf(k)) ELSE NameOf(k) IN
  CASE v.type = "object" -> <<"object", {<<Name(v.kids[i]), Meaning(v.kids[i], lower)>> :
                                          i \in DOMAIN v.kids}>>
    [] v.type = "array"  -> <<"array", [i \in DOMAIN v.kids |-> Meaning(v.kids[i], lower)]>>
    [] OTHER             -> <<v.type, v.str, v.num>>

RECURSIVE Items(_)
Items(v) == {v} \cup UNION {Items(v.kids[i]) : i \in DOMAIN v.kids}

RECURSIVE Depth(_)
Depth(v) == IF v.type \in {"array", "object"}
            THEN 1 + Max({0} \cup {Depth(v.kids[i]) : i \in DOMAIN v.kids}) ELSE 0

\* All members have names, no two of them the same but for case.
WellNamed(v) ==
  \A o \in {w \in Items(v) : w.type = "object"} :
    /\ \A i \in DOMAIN o.kids : o.kids[i].name # << >>
    /\ \A i, j \in DOMAIN o.kids : Lowered(NameOf(o.kids[i])) = Lowered(NameOf(o.kids[j])) => i = j

-----------------------------------------------------------------------------
\* Small trees.

N(v)       == [Item("number") EXCEPT !.num = v, !.int = Nearest(v)]
S(s)       == [Item("string") EXCEPT !.str = s]
Raw(s)     == [Item("raw") EXCEPT !.str = s]
Arr(kids)  == [Item("array") EXCEPT !.kids = kids]
Obj(kids)  == [Item("object") EXCEPT !.kids = kids]
Named(k, v) == [v EXCEPT !.name = <<<<k>>>>]
a          == 97
b          == 98
Null       == Item("null")
True       == Item("true")
Flat       == Arr(<< >>)
Deep       == Arr(<<Arr(<<Flat>>)>>)

Leaves == {Null, True, Item("false"), N(0), N(-50), N(41), S(<< >>), S(<<a>>),
           S(<<Quote, 31>>), S(<<a, Quote, Blank, b>>), S(<<a, Backslash>>), S(<<195, 169>>)}

Containers ==
  {Arr(<< >>), Obj(<< >>), Arr(<<N(1), N(-2)>>), Arr(<<Arr(<<Null>>), S(<<a>>)>>),
   Arr(<<S(<<Slash, Slash>>), S(<<Quote>>)>>), Obj(<<Named(a, True)>>),
   Obj(<<Named(a, Obj(<< >>)), Named(Quote, Arr(<<N(7)>>))>>),
   Obj(<<Named(a, Obj(<<Named(b, S(<<NewLine>>))>>))>>), Arr(<<Obj(<<Named(a, N(3))>>)>>),
   Obj(<<Named(a, Null), Named(b, True)>>), Obj(<<Named(b, True), Named(a, Null)>>),
   Obj(<<Named(65, True)>>), Obj(<<Named(a, True), Named(65, True)>>)}

MCTrees ==
  {Raw(<<a, Nul, b>>), Raw(<<Open, Close>>), Arr(<<NoItem>>), NoItem, S(<<a, Nul, b>>), S(<<Tab, Backslash>>),
   N(Infinity), N(-Infinity), N(1), True, Obj(<<N(1), True>>), Flat, Arr(<<Flat>>), Deep,
   Named(a, Deep), Obj(<<Named(a, Deep)>>), Arr([i \in 1 .. 18 |-> N(1)])}

-----------------------------------------------------------------------------
\* Texts.

Good == {Render(v, << >>) : v \in Leaves \cup Containers}
Wide == {Render(v, gap) : v \in Containers, gap \in {<<Blank>>, <<Return, NewLine>>}}

Replaced(t, bs) == {[t EXCEPT ![i] = c] : i \in DOMAIN t, c \in bs}

Lit(s)    == <<Quote>> \o s \o <<Quote>>
Code(ds)  == <<Backslash, LetterU>> \o ds
Digits4(w, x, y, z) == Code(<<w, x, y, z>>)
Euro      == Digits4(50, 48, 97, 67)       \* \u20aC
Accent    == Digits4(48, 48, 69, 57)       \* \u00E9
High      == Digits4(68, 56, 51, 52)       \* \uD834
Low       == Digits4(68, 68, 49, 69)       \* \uDD1E
NulCode   == Digits4(48, 48, 48, 48)       \* \u0000
NoHex     == Digits4(48, 48, 90, 57)       \* \u00Z9

Odd ==
  {Lit(Euro), Lit(Accent \o <<a>>), Lit(High \o Low), Lit(High), Lit(High \o High), Lit(Low),
   Lit(High \o <<a, a, a, a, a, a>>), Lit(<<a>> \o NulCode \o <<b>>), Lit(NoHex),
   Lit(<<Backslash, LetterU, 48, 48>>), Lit(<<a, Backslash, 120>>), Lit(<<Backslash, Slash>>),
   Lit(<<Backslash, b, Backslash, 116>>), Lit(Euro \o Euro \o <<Backslash, 120>>),
   <<239, 187, 191>> \o TrueWord, <<239, 187, 191, 49>>, <<Blank>>, <<Blank, Nul>>, <<Nul>>,
   <<49, Blank, a>>, <<49, Nul, a>>, <<49, Exp, 51>>, <<49, Exp, 49>>, <<49, Exp>>,
   <<49, Exp, Minus>>, <<49, 50, 51, 52, 53, 54, 55>>, <<Minus>>, <<Minus, Minus, 49>>,
   Render(Deep, << >>), Render(Obj(<<Named(a, Deep)>>), <<Blank>>),
   <<Open, 49, Comma>>, <<OpenBrace, Quote, a, Quote, Colon, 49, Comma>>,
   <<OpenBrace, Quote, a, Quote, Colon, 49, Comma, Blank>>, <<OpenBrace, 49, Colon, 49, CloseBrace>>}

Call(api, text, nul, short, use) ==
  [api |-> api, text |-> text, null |-> FALSE, nul |-> nul, short |-> short,
   source |-> text, use |-> use]

EveryWay(t) == {Call(api, t, nul, FALSE, "parse") : api \in {"Opts", "LengthOpts"},
                                                    nul \in BOOLEAN}

Spoilt == UNION {Replaced(t, {Quote, Backslash, Comma, Close, CloseBrace, Nul}) : t \in Good}

MinifyTexts ==
  {Render(v, gap) : v \in Leaves \cup Containers,
                    gap \in {<<Tab, Slash, Star, Quote, Star, Slash>>,
                             <<Slash, Slash, Quote, NewLine, Blank>>}}
  \cup {t \o <<Blank, Slash, c>> \o tail : t \in Good, c \in {Slash, Star},
                                          tail \in {<<Star>>, <<Star, Slash>>, <<NewLine>>}}

MCCalls ==
  UNION {EveryWay(t) : t \in Odd \cup UNION {Prefixes(t) : t \in Good \cup Wide}}
  \cup {Call("Opts", t, TRUE, FALSE, "parse") : t \in Spoilt}
  \cup {Call("LengthOpts", t, FALSE, TRUE, "parse") : t \in Spoilt \cup Odd}
  \cup {Call("Opts", t, TRUE, FALSE, "minify") : t \in MinifyTexts}
  \cup {Call("Opts", t, TRUE, short, "print") : t \in Good \cup Odd, short \in BOOLEAN}
  \cup {[c EXCEPT !.null = TRUE] : c \in EveryWay(<< >>)}

MCStrings == {<< >>, <<Quote, a>>}
MCNumbers == {7, 50}

MCJobs ==
  [fun : {"Print"}, format : BOOLEAN, size : {0}, hooks : SUBSET {"malloc", "free"},
   short : BOOLEAN]
  \cup [fun : {"Buffered"}, format : BOOLEAN, size : {-1, 0, 1, 4}, hooks : {{}, {"malloc", "free"}},
        short : BOOLEAN]
  \cup [fun : {"Preallocated"}, format : BOOLEAN, size : {-1, 0, 1, 2} \cup 6 .. 14,
        hooks : {{}}, short : {FALSE}]

-----------------------------------------------------------------------------
\* Properties of the parser against the reference.

\* minify_string takes the quote behind an escaped backslash for an escaped
\* quote: what follows is minified as if it were text and text as if it were not.
Misread == \E i \in 0 .. Len(call.source) - 3 :
             HasAt(call.source, i, <<Backslash, Backslash, Quote>>)

\* cJSON_Parse and its variants, with or without cJSON_Minify before, answer the
\* tree the text says, up to where they stopped reading; and answer it for every
\* rendering of a tree that is not too deep.
ParsesExactly ==
  stage = "parse" =>
    /\ p.pc = "tree" =>
         IF call.use # "minify" THEN Tokens(Slice(Text, 0, p.offset),
                                            IF HasAt(Text, 0, <<239, 187, 191>>) THEN 3 ELSE 0)
                                     = TreeTokens(p.item)
         ELSE Misread \/ Tokens(call.source, 0) = TreeTokens(p.item)
    /\ p.pc = "null" /\ ~call.null /\ ~call.short /\ (call.nul => call.api = "Opts")
         => call.source \notin Good \cup Wide

\* What was printed parses to the tree that was printed, with or without format,
\* however it was printed, unless the tree is too deep for the parser or holds
\* raw text; and cJSON_Compare tells the tree from every other of finite numbers.
RoundTrip ==
  stage = "again" /\ ParseDone =>
    \/ \E v \in Items(tree) : v.type = "raw"
    \/ p.pc = "null" /\ Depth(tree) > NestingLimit
    \/ /\ p.pc = "tree" /\ TreeTokens(p.item) = TreeTokens(Sayable(tree))
       /\ \A v \in {w \in Leaves \cup Containers \cup {Sayable(tree)} : WellNamed(w)}, cs \in BOOLEAN :
            WellNamed(p.item) =>
              (cJSON_Compare(p.item, v, cs) <=> Meaning(p.item, ~cs) = Meaning(v, ~cs))

WholeText == IF job.format THEN Pretty(tree, 0) ELSE Render(tree, << >>)

\* The text is that of the tree, byte for byte; there is none only when memory
\* is short, an item has no type, the text nears INT_MAX, prebuffer is negative,
\* or a caller's buffer has not the 5 bytes to spare cJSON.h:162 asks for.
PrintsExactly ==
  stage = "print" =>
    /\ q.pc = "printed" => Printed = WholeText
    /\ q.pc = "failed" =>
         \/ job.short \/ \E v \in Items(tree) : ~Printable(v)
         \/ Len(WholeText) + 6 > (IF noalloc THEN job.size ELSE IntMax)
         \/ job.size < 0
=============================================================================
