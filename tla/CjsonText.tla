----------------------------- MODULE CjsonText ------------------------------
(* cJSON.c: the conversions between text and values.  A text is a sequence   *)
(* of bytes, addressed from 0 as in C.  strtod and printf's %g are external: *)
(* they are modelled on integral numbers, with the exponent that overflows a *)
(* double scaled down.                                                       *)
EXTENDS Integers, Sequences, SequencesExt, FiniteSets, FiniteSetsExt

CONSTANTS
  IntMax,      \* INT_MAX, for sizes and for the values of numbers
  NumberBuf    \* sizeof(number_c_string)

ASSUME TextAssumption == IntMax \in Nat /\ NumberBuf \in Nat \ {0}

Nul        == 0
Backspace  == 8
Tab        == 9
NewLine    == 10
FormFeed   == 12
Return     == 13
Blank      == 32
Quote      == 34
Star       == 42
Plus       == 43
Comma      == 44
Minus      == 45
Dot        == 46
Slash      == 47
Zero       == 48
Colon      == 58
Open       == 91
Backslash  == 92
Close      == 93
Exp        == 101
LetterU    == 117
OpenBrace  == 123
CloseBrace == 125

At(t, i)       == t[i + 1]
Slice(t, i, j) == SubSeq(t, i + 1, j)              \* from i, before j
HasAt(t, i, word) == i + Len(word) <= Len(t) /\ Slice(t, i, i + Len(word)) = word

\* What strlen and its like see of a string.
CString(s) == LET z == SelectInSeq(s, LAMBDA c : c = Nul) IN
              IF z = 0 THEN s ELSE SubSeq(s, 1, z - 1)

-----------------------------------------------------------------------------
\* Numbers.

IsDigit(c) == c \in Zero .. Zero + 9

NumberBytes == {c \in 0 .. 127 : IsDigit(c) \/ c \in {Plus, Minus, Exp, Dot}}

\* The bytes parse_number copies for strtod.
NumberAt(t, o) ==
  LET n == Max({k \in 0 .. NumberBuf - 1 :
                  o + k <= Len(t) /\ \A i \in o .. o + k - 1 : At(t, i) \in NumberBytes})
  IN  Slice(t, o, o + n)

Infinity == 1000000000

DecimalValue(s) == FoldLeft(LAMBDA v, c : 10 * v + (c - Zero), 0, s)

\* The longest prefix that is a numeral, its length and value; 0 for none.
strtod(s) ==
  LET sign == IF s[1] = Minus THEN 1 ELSE 0
      Digits(i, j) == i < j /\ \A k \in i .. j - 1 : IsDigit(At(s, k))
      plain == {n \in 1 .. Len(s) : Digits(sign, n)}
      m     == Max(plain)
      power == {n \in m + 2 .. Len(s) : At(s, m) = Exp /\ Digits(m + 1, n)}
      e     == IF power = {} THEN 0 ELSE DecimalValue(Slice(s, m + 1, Max(power)))
      d     == DecimalValue(Slice(s, sign, m))
      v     == IF d = 0 THEN 0 ELSE IF e > 2 THEN Infinity ELSE d * 10 ^ e
  IN  IF plain = {} THEN [length |-> 0, value |-> 0]
      ELSE [length |-> IF power = {} THEN m ELSE Max(power),
            value  |-> IF sign = 1 THEN -v ELSE v]

\* valueint of a number.
Saturated(v) == IF v >= IntMax THEN IntMax
                ELSE IF v <= -IntMax - 1 THEN -IntMax - 1 ELSE v

\* printf's %g.
Decimal(v) ==
  LET digits[n \in Nat] == IF n < 10 THEN <<Zero + n>>
                           ELSE Append(digits[n \div 10], Zero + (n % 10))
  IN  IF v < 0 THEN <<Minus>> \o digits[-v] ELSE digits[v]

NullWord  == <<110, 117, 108, 108>>
TrueWord  == <<116, 114, 117, 101>>
FalseWord == <<102, 97, 108, 115, 101>>

print_number(v) == IF v \in {Infinity, -Infinity} THEN NullWord ELSE Decimal(v)

-----------------------------------------------------------------------------
\* Strings in.

HexValue(c) == IF IsDigit(c) THEN c - Zero
               ELSE IF c \in 65 .. 70 THEN c - 55
               ELSE IF c \in 97 .. 102 THEN c - 87 ELSE -1

\* Four hexadecimal digits; 0 when one of them is not.
parse_hex4(t, i) ==
  LET h == [k \in 0 .. 3 |-> HexValue(At(t, i + k))] IN
  IF \E k \in 0 .. 3 : h[k] = -1 THEN 0
  ELSE ((h[0] * 16 + h[1]) * 16 + h[2]) * 16 + h[3]

Utf8(code) ==
  LET Low(k) == 128 + ((code \div k) % 64) IN
  IF code < 128 THEN <<code>>
  ELSE IF code < 2048 THEN <<192 + (code \div 64), Low(1)>>
  ELSE IF code < 65536 THEN <<224 + (code \div 4096), Low(64), Low(1)>>
  ELSE <<240 + (code \div 262144), Low(4096), Low(64), Low(1)>>

NoPiece == [bytes |-> << >>, length |-> 0]

\* Fewer bytes than a literal of a code point has are left before end.
LiteralCut(i, end) == end - i < 6

\* The literal at i, before end: the bytes it stands for and how many it takes.
utf16_literal_to_utf8(t, i, end) ==
  LET first  == parse_hex4(t, i + 2)
      second == parse_hex4(t, i + 8)
      high   == first \in 55296 .. 56319
  IN  IF LiteralCut(i, end) \/ first \in 56320 .. 57343 THEN NoPiece
      ELSE IF ~high THEN [bytes |-> Utf8(first), length |-> 6]
      ELSE IF \/ LiteralCut(i + 6, end)
              \/ At(t, i + 6) # Backslash \/ At(t, i + 7) # LetterU
              \/ second \notin 56320 .. 57343 THEN NoPiece
      ELSE [bytes |-> Utf8(65536 + (first % 1024) * 1024 + (second % 1024)), length |-> 12]

ShortEscapes == {<<98, Backspace>>, <<102, FormFeed>>, <<110, NewLine>>, <<114, Return>>,
                 <<116, Tab>>, <<Quote, Quote>>, <<Backslash, Backslash>>, <<Slash, Slash>>}

\* What stands at i in a string literal that ends at end.
Piece(t, i, end) ==
  IF At(t, i) # Backslash THEN [bytes |-> <<At(t, i)>>, length |-> 1]
  ELSE IF At(t, i + 1) = LetterU THEN utf16_literal_to_utf8(t, i, end)
  ELSE LET hit == {e \in ShortEscapes : e[1] = At(t, i + 1)} IN
       IF hit = {} THEN NoPiece
       ELSE [bytes |-> <<(CHOOSE e \in hit : TRUE)[2]>>, length |-> 2]

\* The first pass over a string literal whose text begins at i: where its quote
\* is (-1: nowhere), and how many bytes only escape another.
ClosingQuote(t, i) ==
  LET scan[p \in i .. Len(t) + 1] ==
        IF p >= Len(t) THEN [end |-> -1, skipped |-> 0]
        ELSE IF At(t, p) = Quote THEN [end |-> p, skipped |-> 0]
        ELSE IF At(t, p) # Backslash THEN scan[p + 1]
        ELSE IF p + 1 >= Len(t) THEN [end |-> -1, skipped |-> 0]
        ELSE [scan[p + 2] EXCEPT !.skipped = @ + 1]
  IN  scan[i]

\* The second pass: the bytes written, and where it stopped.
Unescape(t, i, end) ==
  LET copy[p \in i .. end + 1] ==
        IF p >= end THEN [ok |-> TRUE, bytes |-> << >>, at |-> p]
        ELSE LET piece == Piece(t, p, end) IN
             IF piece.length = 0 THEN [ok |-> FALSE, bytes |-> << >>, at |-> p]
             ELSE LET rest == copy[p + piece.length]
                  IN  [rest EXCEPT !.bytes = piece.bytes \o @]
  IN  copy[i]

\* A bug: the room for the output counts escape sequences as one byte each.
StringRoom_Tight(t, o, q) ==
  q.end - o - 5 * Cardinality({i \in o .. q.end - 1 : At(t, i) = Backslash}) + 1

\* The bytes parse_string allocates for the literal that opens at o.
StringRoom(t, o, q) == q.end - o - q.skipped + 1

\* The string literal at o, as far as memory allows: whether there is one, its
\* bytes, the memory it takes, and the offset it leaves; opens is whether an
\* allocation is made.
parse_string(t, o) ==
  LET q == ClosingQuote(t, o + 1)
      u == Unescape(t, o + 1, q.end)
      Fails(at) == [ok |-> FALSE, opens |-> FALSE, bytes |-> << >>, room |-> 0, offset |-> at]
  IN  IF o >= Len(t) THEN Fails(o + 1)
      ELSE IF At(t, o) # Quote \/ q.end = -1 THEN Fails(o + 1)
      ELSE [ok |-> u.ok, opens |-> TRUE, bytes |-> u.bytes, room |-> StringRoom(t, o, q),
            offset |-> IF u.ok THEN q.end + 1 ELSE u.at]

\* Behind the last byte the second pass looks at for what stands at i.
PieceEnd(t, i, end) ==
  IF At(t, i) # Backslash THEN i + 1
  ELSE IF At(t, i + 1) # LetterU \/ LiteralCut(i, end) THEN i + 2
  ELSE IF parse_hex4(t, i + 2) \in 55296 .. 56319 /\ ~LiteralCut(i + 6, end) THEN i + 12
  ELSE i + 6

\* The offsets parse_string looks at, wherever the second pass stops.
StringReads(t, o) ==
  LET q == ClosingQuote(t, o + 1) IN
  IF o >= Len(t) \/ At(t, o) # Quote THEN {o}
  ELSE IF q.end = -1 THEN o .. Len(t) - 1
  ELSE (o .. q.end) \cup UNION {i .. PieceEnd(t, i, q.end) - 1 : i \in o + 1 .. q.end - 1}

-----------------------------------------------------------------------------
\* Strings out.

Hex(n) == IF n < 10 THEN Zero + n ELSE 87 + n

\* A bug: only quotes are escaped.
Escaped_QuoteOnly(c) == IF c = Quote THEN <<Backslash, Quote>> ELSE <<c>>

Escaped(c) ==
  LET hit == {e \in ShortEscapes : e[2] = c /\ c # Slash} IN
  IF hit # {} THEN <<Backslash, (CHOOSE e \in hit : TRUE)[1]>>
  ELSE IF c < 32 THEN <<Backslash, LetterU, Zero, Zero, Hex(c \div 16), Hex(c % 16)>>
  ELSE <<c>>

\* How many bytes escaping adds to c, the first pass of print_string_ptr.
EscapeBytes(c) ==
  IF c \in {e[2] : e \in ShortEscapes} \ {Slash} THEN 1 ELSE IF c < 32 THEN 5 ELSE 0

print_string_ptr(s) == <<Quote>> \o FlattenSeq([i \in DOMAIN s |-> Escaped(s[i])]) \o <<Quote>>

\* What print_string_ptr asks ensure for.
StringNeed(s) ==
  Len(s) + FoldLeft(LAMBDA n, c : n + EscapeBytes(c), 0, s) + 3
=============================================================================
