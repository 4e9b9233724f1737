-------------------------- MODULE CjsonTextProofs ---------------------------
(* What the operators of CjsonText, CjsonParse, CjsonPrint and Cjson make  *)
(* of every text, string and number: each pass of the code ends, stays in  *)
(* what it was given and writes no more than was allocated for it. Each    *)
(* result that is defined by recursion is shown to exist before anything   *)
(* is said of it.                                                          *)
EXTENDS Cjson, SequenceTheorems, WellFoundedInduction, TLAPS

-----------------------------------------------------------------------------
\* Induction without a property for a parameter: over sets of naturals.

\* A set of naturals with an element has a least one.
LEMMA Least ==
  ASSUME NEW T \in SUBSET Nat, T # {}
  PROVE  \E m \in T : \A k \in T : m <= k
<1>1. PICK m \in T : \A k \in T : ~(<<k, m>> \in OpToRel(<, Nat))
  BY NatLessThanWellFounded, WFMin
<1>2. \A k \in T : ~(k < m)
  BY <1>1 DEF OpToRel
<1> QED
  BY <1>2

\* Induction over the naturals, for a set in the place of a property.
LEMMA Upwards ==
  ASSUME NEW S, \A n \in Nat : (\A m \in Nat : m < n => m \in S) => n \in S
  PROVE  Nat \subseteq S
<1> DEFINE T == Nat \ S
<1>1. ASSUME T # {} PROVE FALSE
  <2>1. T \in SUBSET Nat
    OBVIOUS
  <2>2. PICK n \in T : \A k \in T : n <= k
    <3> HIDE DEF T
    <3> QED
      BY <1>1, <2>1, Least
  <2> QED
    BY <2>2
<1> QED
  BY <1>1

\* Induction from the end of an interval.
LEMMA Backwards ==
  ASSUME NEW lo \in Int, NEW hi \in Int, NEW S,
         \A i \in lo .. hi : (\A j \in lo .. hi : j > i => j \in S) => i \in S
  PROVE  \A i \in lo .. hi : i \in S
<1> DEFINE D == {n \in Nat : hi - n \in lo .. hi => hi - n \in S}
<1>1. ASSUME NEW n \in Nat, \A m \in Nat : m < n => m \in D
      PROVE  n \in D
  <2>1. ASSUME hi - n \in lo .. hi PROVE hi - n \in S
    <3>1. ASSUME NEW j \in lo .. hi, j > hi - n PROVE j \in S
      <4>1. hi - j \in Nat /\ hi - j < n /\ hi - (hi - j) = j
        BY <3>1
      <4> QED
        BY <1>1, <4>1
    <3> QED
      BY <2>1, <3>1
  <2> QED
    BY <2>1
<1>2. Nat \subseteq D
  <2> HIDE DEF D
  <2> QED
    BY <1>1, Upwards
<1>3. ASSUME NEW i \in lo .. hi PROVE i \in S
  <2>1. hi - i \in Nat /\ hi - (hi - i) = i
    OBVIOUS
  <2> QED
    BY <1>2, <2>1
<1> QED
  BY <1>3

\* A definition of a function on an interval, with values in V: leaf are the
\* arguments where base is its value; elsewhere it is comb of the value at jump.
WellDefined(lo, hi, V, leaf, base, jump, comb) ==
  \A i \in lo .. hi :
    IF i \in leaf THEN base[i] \in V
    ELSE jump[i] \in i + 1 .. hi /\ \A v \in V : comb[i][v] \in V

\* A function that is defined from its values further on exists.
LEMMA Recursion ==
  ASSUME NEW lo \in Int, NEW hi \in Int, NEW V, NEW leaf, NEW base, NEW jump, NEW comb,
         WellDefined(lo, hi, V, leaf, base, jump, comb)
  PROVE  \E f \in [lo .. hi -> V] : \A i \in lo .. hi :
           f[i] = IF i \in leaf THEN base[i] ELSE comb[i][f[jump[i]]]
<1> DEFINE Good(a, f) == /\ f \in [a .. hi -> V]
                         /\ \A i \in a .. hi :
                              f[i] = IF i \in leaf THEN base[i] ELSE comb[i][f[jump[i]]]
           S == {a \in lo .. hi : \E f : Good(a, f)}
<1>0. \A i \in lo .. hi :
        IF i \in leaf THEN base[i] \in V
        ELSE jump[i] \in i + 1 .. hi /\ \A v \in V : comb[i][v] \in V
  BY DEF WellDefined
<1>1. \E f : Good(hi + 1, f)
  <2>1. Good(hi + 1, [i \in {} |-> hi])
    <3>1. hi + 1 .. hi = {}
      OBVIOUS
    <3> QED
      BY <3>1
  <2> QED
    BY <2>1
<1>2. ASSUME NEW a \in lo .. hi, NEW f, Good(a + 1, f) PROVE \E g : Good(a, g)
  <2> DEFINE new == IF a \in leaf THEN base[a] ELSE comb[a][f[jump[a]]]
             g == [i \in a .. hi |-> IF i = a THEN new ELSE f[i]]
  <2>1. new \in V
    BY <1>0, <1>2
  <2>2. g \in [a .. hi -> V]
    <3> HIDE DEF new
    <3>1. \A i \in a .. hi : i # a => i \in a + 1 .. hi
      OBVIOUS
    <3> QED
      BY <1>2, <2>1, <3>1
  <2>3. ASSUME NEW i \in a .. hi
        PROVE  g[i] = IF i \in leaf THEN base[i] ELSE comb[i][g[jump[i]]]
    <3>1. i \notin leaf => jump[i] \in a + 1 .. hi /\ g[jump[i]] = f[jump[i]]
      <4>1. i \notin leaf => jump[i] \in i + 1 .. hi
        BY <1>0, <1>2
      <4> HIDE DEF new
      <4> QED
        BY <4>1
    <3>2. CASE i = a
      <4>1. g[i] = new
        BY <3>2
      <4> HIDE DEF g
      <4> QED
        BY <3>1, <3>2, <4>1
    <3>3. CASE i # a
      <4>1. i \in a + 1 .. hi /\ g[i] = f[i]
        <5> HIDE DEF new
        <5> QED
          BY <3>3
      <4> HIDE DEF g
      <4> QED
        BY <1>2, <3>1, <4>1
    <3> QED
      BY <3>2, <3>3
  <2> HIDE DEF g
  <2> QED
    BY <2>2, <2>3
<1>3. \A a \in lo .. hi : a \in S
  <2>1. ASSUME NEW a \in lo .. hi, \A j \in lo .. hi : j > a => j \in S
        PROVE  a \in S
    <3>1. \E f : Good(a + 1, f)
      <4>1. CASE a = hi
        BY <1>1, <4>1
      <4>2. CASE a # hi
        <5>1. a + 1 \in lo .. hi /\ a + 1 > a
          BY <4>2
        <5> QED
          BY <2>1, <5>1
      <4> QED
        BY <4>1, <4>2
    <3> HIDE DEF Good
    <3> QED
      BY <1>2, <3>1
  <2> HIDE DEF S
  <2> QED
    BY <2>1, Backwards
<1>4. \E f : Good(lo, f)
  <2>1. CASE lo \in lo .. hi
    <3> HIDE DEF Good
    <3> QED
      BY <1>3, <2>1
  <2>2. CASE lo > hi
    <3>1. lo .. hi = {}
      BY <2>2
    <3>2. Good(lo, [i \in {} |-> hi])
      BY <3>1
    <3> QED
      BY <3>2
  <2> QED
    BY <2>1, <2>2
<1> QED
  BY <1>4

\* A bounded set of integers has a maximum and a minimum, the ones Max and Min
\* choose.
LEMMA MaxOf ==
  ASSUME NEW T \in SUBSET Int, T # {}, NEW b \in Int, \A x \in T : x <= b
  PROVE  Max(T) \in T /\ \A x \in T : x <= Max(T)
<1> DEFINE D == {b - x : x \in T}
<1>1. PICK d \in D : \A e \in D : d <= e
  <2>0. \A x \in T : x \in Int /\ b - x \in Nat
    OBVIOUS
  <2>1. D \in SUBSET Nat /\ D # {}
    BY <2>0
  <2> HIDE DEF D
  <2> QED
    BY <2>1, Least
<1>2. PICK m \in T : d = b - m
  OBVIOUS
<1>3. \A x \in T : m >= x
  <2>1. \A x \in T : b - m <= b - x
    BY <1>1, <1>2
  <2> QED
    BY <2>1
<1>4. \A x \in T : x <= m <=> m >= x
  OBVIOUS
<1>5. Max(T) \in T /\ \A y \in T : Max(T) >= y
  BY <1>3 DEF Max
<1> QED
  BY <1>5

LEMMA MinOf ==
  ASSUME NEW T \in SUBSET Int, T # {}, NEW b \in Int, \A x \in T : b <= x
  PROVE  Min(T) \in T /\ \A x \in T : Min(T) <= x
<1> DEFINE D == {x - b : x \in T}
<1>1. PICK d \in D : \A e \in D : d <= e
  <2>0. \A x \in T : x \in Int /\ x - b \in Nat
    OBVIOUS
  <2>1. D \in SUBSET Nat /\ D # {}
    BY <2>0
  <2> HIDE DEF D
  <2> QED
    BY <2>1, Least
<1>2. PICK m \in T : d = m - b
  OBVIOUS
<1>3. \A x \in T : m <= x
  <2>1. \A x \in T : m - b <= x - b
    BY <1>1, <1>2
  <2> QED
    BY <2>1
<1> QED
  BY <1>3 DEF Min

-----------------------------------------------------------------------------
\* The first pass of parse_string: the closing quote and the escapes before it.

\* What the first pass over a literal says of a place, and one step of it.
Scans == [end : Int, skipped : Nat]

ScanStep(t, f, i) ==
  IF i >= Len(t) THEN [end |-> -1, skipped |-> 0]
  ELSE IF At(t, i) = Quote THEN [end |-> i, skipped |-> 0]
  ELSE IF At(t, i) # Backslash THEN f[i + 1]
  ELSE IF i + 1 >= Len(t) THEN [end |-> -1, skipped |-> 0]
  ELSE [f[i + 2] EXCEPT !.skipped = @ + 1]

\* A step of the first pass is typed where the places behind it are.
LEMMA ScanStepType ==
  ASSUME NEW t, Len(t) \in Nat, NEW f, NEW i \in 0 .. Len(t) + 1,
         \A j \in 0 .. Len(t) + 1 : j > i => f[j] \in Scans
  PROVE  ScanStep(t, f, i) \in Scans
<1>1. CASE i < Len(t) /\ At(t, i) # Quote /\ At(t, i) # Backslash
  <2>1. f[i + 1] \in Scans
    BY <1>1
  <2> QED
    BY <1>1, <2>1 DEF ScanStep
<1>2. CASE i + 1 < Len(t) /\ At(t, i) # Quote /\ At(t, i) = Backslash
  <2>1. f[i + 2] \in Scans
    BY <1>2
  <2>2. ScanStep(t, f, i) = [f[i + 2] EXCEPT !.skipped = @ + 1]
    BY <1>2 DEF ScanStep
  <2> QED
    BY <2>1, <2>2 DEF Scans
<1>3. ScanStep(t, f, i) \in {[end |-> -1, skipped |-> 0], [end |-> i, skipped |-> 0]}
      \/ (i < Len(t) /\ At(t, i) # Quote /\ At(t, i) # Backslash)
      \/ (i + 1 < Len(t) /\ At(t, i) # Quote /\ At(t, i) = Backslash)
  BY DEF ScanStep
<1> QED
  BY <1>1, <1>2, <1>3 DEF Scans

\* The first pass of parse_string is defined: a function has the steps' values,
\* and at the place it starts from it is what ClosingQuote says.
LEMMA ScanExists ==
  ASSUME NEW t, Len(t) \in Nat, NEW o \in 0 .. Len(t)
  PROVE  \E f \in [o .. Len(t) + 1 -> Scans] :
           f[o] = ClosingQuote(t, o) /\ \A i \in o .. Len(t) + 1 : f[i] = ScanStep(t, f, i)
<1> DEFINE hi == Len(t) + 1
           leaf == {i \in o .. hi : i >= Len(t) \/ At(t, i) = Quote
                                     \/ (At(t, i) = Backslash /\ i + 1 >= Len(t))}
           base == [i \in o .. hi |-> IF i < Len(t) /\ At(t, i) = Quote
                                      THEN [end |-> i, skipped |-> 0]
                                      ELSE [end |-> -1, skipped |-> 0]]
           jump == [i \in o .. hi |-> IF At(t, i) = Backslash THEN i + 2 ELSE i + 1]
           comb == [i \in o .. hi |-> [v \in Scans |->
                     IF At(t, i) = Backslash THEN [v EXCEPT !.skipped = @ + 1] ELSE v]]
           Steps(g) == g = [i \in o .. hi |-> ScanStep(t, g, i)]
<1>0. Backslash # Quote /\ hi \in Int /\ o \in Int
  BY DEF Backslash, Quote
<1>1. \A i \in o .. hi : i \in leaf => base[i] \in Scans
  BY DEF Scans
<1>2. \A i \in o .. hi : i \notin leaf =>
        jump[i] \in i + 1 .. hi /\ \A v \in Scans : comb[i][v] \in Scans
  BY DEF Scans
<1>3. \E f \in [o .. hi -> Scans] : \A i \in o .. hi :
        f[i] = IF i \in leaf THEN base[i] ELSE comb[i][f[jump[i]]]
  <2> HIDE DEF hi, leaf, base, jump, comb
  <2>1. WellDefined(o, hi, Scans, leaf, base, jump, comb)
    BY <1>1, <1>2 DEF WellDefined
  <2> QED
    BY <1>0, <2>1, Recursion
<1>4. PICK f \in [o .. hi -> Scans] : \A i \in o .. hi :
        f[i] = IF i \in leaf THEN base[i] ELSE comb[i][f[jump[i]]]
  BY <1>3
<1>5. ASSUME NEW i \in o .. hi PROVE f[i] = ScanStep(t, f, i)
  <2>1. CASE i \in leaf
    <3>1. f[i] = base[i]
      BY <1>4, <2>1
    <3> QED
      BY <1>0, <2>1, <3>1 DEF ScanStep
  <2>2. CASE i \notin leaf
    <3>1. f[i] = comb[i][f[jump[i]]] /\ f[jump[i]] \in Scans
      <4>1. jump[i] \in o .. hi
        BY <1>2, <2>2
      <4> QED
        BY <1>4, <2>2, <4>1
    <3>2. f[i] = IF At(t, i) = Backslash THEN [f[jump[i]] EXCEPT !.skipped = @ + 1]
                 ELSE f[jump[i]]
      <4> HIDE DEF jump
      <4> QED
        BY <3>1
    <3> QED
      BY <1>0, <2>2, <3>2 DEF ScanStep
  <2> QED
    BY <2>1, <2>2
<1> DEFINE g == CHOOSE g : Steps(g)
<1>6. Steps(g)
  <2>1. Steps(f)
    <3> HIDE DEF hi
    <3> QED
      BY <1>5
  <2> HIDE DEF Steps
  <2> QED
    BY <2>1
<1>7. g[o] = ClosingQuote(t, o)
  BY DEF ClosingQuote, ScanStep
<1> HIDE DEF g
<1>8. \A i \in o .. hi : g[i] \in Scans
  <2> DEFINE S == {i \in o .. hi : g[i] \in Scans}
  <2>1. ASSUME NEW i \in o .. hi, \A j \in o .. hi : j > i => j \in S
        PROVE  i \in S
    <3>1. \A j \in o .. hi : j > i => g[j] \in Scans
      BY <2>1
    <3>2. \A j \in 0 .. hi : j > i => j \in o .. hi
      BY <1>0
    <3>3. ScanStep(t, g, i) \in Scans
      <4> HIDE DEF S, Steps
      <4>1. i \in 0 .. Len(t) + 1
        OBVIOUS
      <4> QED
        BY <3>1, <3>2, <4>1, ScanStepType
    <3> QED
      BY <1>6, <3>3
  <2> HIDE DEF S, hi
  <2>2. \A i \in o .. hi : i \in S
    BY <1>0, <2>1, Backwards
  <2> QED
    BY <2>2 DEF S
<1>9. g \in [o .. hi -> Scans] /\ \A i \in o .. hi : g[i] = ScanStep(t, g, i)
  <2> HIDE DEF hi
  <2> QED
    BY <1>6, <1>8
<1> QED
  BY <1>7, <1>9

-----------------------------------------------------------------------------
\* The second pass: code points and escapes.

\* Sequences of no more than four elements.
LEMMA ShortSequences ==
  ASSUME NEW S, NEW a \in S, NEW b \in S, NEW c \in S, NEW d \in S
  PROVE  /\ << >> \in Seq(S) /\ Len(<< >>) = 0
         /\ <<a>> \in Seq(S) /\ Len(<<a>>) = 1
         /\ <<a, b>> \in Seq(S) /\ Len(<<a, b>>) = 2
         /\ <<a, b, c>> \in Seq(S) /\ Len(<<a, b, c>>) = 3
         /\ <<a, b, c, d>> \in Seq(S) /\ Len(<<a, b, c, d>>) = 4
OBVIOUS

\* Behind the last code point that one literal can say.
Supplementary == 65536

\* A code point takes three bytes of UTF-8, and a fourth beyond the first plane.
LEMMA Utf8Bytes ==
  ASSUME NEW code \in Nat
  PROVE  Utf8(code) \in Seq(Nat) /\ Len(Utf8(code)) \in 1 .. (IF code < Supplementary THEN 3 ELSE 4)
<1> USE DEF Supplementary
<1> DEFINE Low(k) == 128 + ((code \div k) % 64)
           x == 192 + (code \div 64)
           y == 224 + (code \div 4096)
           z == 240 + (code \div 262144)
<1>1. Low(1) \in Nat /\ Low(64) \in Nat /\ Low(4096) \in Nat /\ x \in Nat /\ y \in Nat /\ z \in Nat
  <2>1. code \div 1 \in Nat /\ code \div 64 \in Nat /\ code \div 4096 \in Nat /\ code \div 262144 \in Nat
    OBVIOUS
  <2>2. \A n \in Nat : n % 64 \in Nat
    OBVIOUS
  <2> QED
    BY <2>1, <2>2
<1>2. Utf8(code) = IF code < 128 THEN <<code>>
                   ELSE IF code < 2048 THEN <<x, Low(1)>>
                   ELSE IF code < 65536 THEN <<y, Low(64), Low(1)>>
                   ELSE <<z, Low(4096), Low(64), Low(1)>>
  BY DEF Utf8
<1> HIDE DEF Low, x, y, z
<1>3. /\ <<code>> \in Seq(Nat) /\ Len(<<code>>) = 1
      /\ <<x, Low(1)>> \in Seq(Nat) /\ Len(<<x, Low(1)>>) = 2
      /\ <<y, Low(64), Low(1)>> \in Seq(Nat) /\ Len(<<y, Low(64), Low(1)>>) = 3
      /\ <<z, Low(4096), Low(64), Low(1)>> \in Seq(Nat)
      /\ Len(<<z, Low(4096), Low(64), Low(1)>>) = 4
  BY <1>1, ShortSequences
<1>4. CASE code < 128
  BY <1>2, <1>3, <1>4
<1>5. CASE ~(code < 128) /\ code < 2048
  BY <1>2, <1>3, <1>5
<1>6. CASE ~(code < 128) /\ ~(code < 2048) /\ code < 65536
  BY <1>2, <1>3, <1>6
<1>7. CASE ~(code < 128) /\ ~(code < 2048) /\ ~(code < 65536)
  BY <1>2, <1>3, <1>7
<1> QED
  BY <1>4, <1>5, <1>6, <1>7

\* A hexadecimal digit, or none.
LEMMA HexValueType == \A c : HexValue(c) \in -1 .. 15
BY DEF HexValue, IsDigit, Zero

\* Four of them are a number of two bytes.
LEMMA Hex4Type ==
  ASSUME NEW t, NEW i
  PROVE  parse_hex4(t, i) \in Nat /\ parse_hex4(t, i) < Supplementary
<1> DEFINE h == [k \in 0 .. 3 |-> HexValue(At(t, i + k))]
<1>1. parse_hex4(t, i) = IF \E k \in 0 .. 3 : h[k] = -1 THEN 0
                         ELSE ((h[0] * 16 + h[1]) * 16 + h[2]) * 16 + h[3]
  BY DEF parse_hex4
<1>2. ASSUME NEW k \in 0 .. 3 PROVE h[k] \in Int /\ -1 <= h[k] /\ h[k] <= 15
  <2>1. HexValue(At(t, i + k)) \in -1 .. 15
    BY HexValueType
  <2> QED
    BY <2>1
<1> HIDE DEF h
<1>4. CASE \E k \in 0 .. 3 : h[k] = -1
  BY <1>1, <1>4 DEF Supplementary
<1>5. CASE ~\E k \in 0 .. 3 : h[k] = -1
  <2>1. \A k \in 0 .. 3 : h[k] \in Int /\ 0 <= h[k] /\ h[k] <= 15
    BY <1>2, <1>5
  <2>2. PICK x \in Int, y \in Int, z \in Int, w \in Int : x = h[0] /\ y = h[1] /\ z = h[2] /\ w = h[3]
    BY <2>1
  <2>3. 0 <= x /\ x <= 15 /\ 0 <= y /\ y <= 15 /\ 0 <= z /\ z <= 15 /\ 0 <= w /\ w <= 15
    BY <2>1, <2>2
  <2>4. ((x * 16 + y) * 16 + z) * 16 + w \in Nat /\ ((x * 16 + y) * 16 + z) * 16 + w < Supplementary
    BY <2>3 DEF Supplementary
  <2> QED
    BY <1>1, <1>5, <2>2, <2>4
<1> QED
  BY <1>4, <1>5

\* A literal of a code point takes 6 or 12 bytes of the text, for 3 or 4 at most.
LEMMA LiteralFits ==
  ASSUME NEW t, NEW i \in Nat, NEW end \in Nat,
         NEW piece, piece = utf16_literal_to_utf8(t, i, end)
  PROVE  /\ piece.length \in {0, 6, 12} /\ piece.bytes \in Seq(Nat)
         /\ piece.length # 0 => i + piece.length <= end
         /\ 2 * Len(piece.bytes) <= piece.length
<1> DEFINE first == parse_hex4(t, i + 2)
           second == parse_hex4(t, i + 8)
           high == first \in 55296 .. 56319
           pair == 65536 + (first % 1024) * 1024 + (second % 1024)
<1>1. piece = IF end - i < 6 \/ first \in 56320 .. 57343 THEN NoPiece
              ELSE IF ~high THEN [bytes |-> Utf8(first), length |-> 6]
              ELSE IF \/ end - (i + 6) < 6
                      \/ At(t, i + 6) # Backslash \/ At(t, i + 7) # LetterU
                      \/ second \notin 56320 .. 57343 THEN NoPiece
              ELSE [bytes |-> Utf8(pair), length |-> 12]
  BY DEF utf16_literal_to_utf8, LiteralCut
<1>2. first \in Nat /\ first < Supplementary /\ second \in Nat
  BY Hex4Type
<1> HIDE DEF first, second, high
<1>3. pair \in Nat
  <2>1. first % 1024 \in Nat /\ second % 1024 \in Nat
    BY <1>2
  <2> QED
    BY <2>1
<1> HIDE DEF pair
<1>4. Utf8(first) \in Seq(Nat) /\ Len(Utf8(first)) \in 1 .. (IF first < Supplementary THEN 3 ELSE 4)
  BY <1>2, Utf8Bytes, Zenon
<1>5. Utf8(pair) \in Seq(Nat) /\ Len(Utf8(pair)) \in 1 .. (IF pair < Supplementary THEN 3 ELSE 4)
  BY <1>3, Utf8Bytes, Zenon
<1> DEFINE pairs == \/ end - (i + 6) < 6
                    \/ At(t, i + 6) # Backslash \/ At(t, i + 7) # LetterU
                    \/ second \notin 56320 .. 57343
           low == first \in 56320 .. 57343
           one == [bytes |-> Utf8(first), length |-> 6]
           two == [bytes |-> Utf8(pair), length |-> 12]
<1>6. \/ piece = NoPiece
      \/ end - i >= 6 /\ piece = [bytes |-> Utf8(first), length |-> 6]
      \/ end - (i + 6) >= 6 /\ piece = [bytes |-> Utf8(pair), length |-> 12]
  <2>1. piece = IF end - i < 6 \/ low THEN NoPiece ELSE IF ~high THEN one
                ELSE IF pairs THEN NoPiece ELSE two
    BY <1>1
  <2>2. ~pairs => end - (i + 6) >= 6
    OBVIOUS
  <2> HIDE DEF low, pairs
  <2> QED
    BY <2>1, <2>2
<1>7. CASE piece = NoPiece
  <2>1. piece.length = 0 /\ piece.bytes = << >>
    BY <1>7 DEF NoPiece
  <2> QED
    BY <2>1, EmptySeq
<1>8. CASE end - i >= 6 /\ piece = [bytes |-> Utf8(first), length |-> 6]
  <2>1. piece.length = 6 /\ piece.bytes = Utf8(first) /\ i + 6 <= end
    BY <1>8
  <2>2. Len(Utf8(first)) \in Nat /\ Len(Utf8(first)) <= 3
    BY <1>2, <1>4
  <2> QED
    BY <1>4, <2>1, <2>2
<1>9. CASE end - (i + 6) >= 6 /\ piece = [bytes |-> Utf8(pair), length |-> 12]
  <2>1. piece.length = 12 /\ piece.bytes = Utf8(pair) /\ i + 12 <= end
    BY <1>9
  <2>2. Len(Utf8(pair)) \in Nat /\ Len(Utf8(pair)) <= 4
    BY <1>5
  <2> QED
    BY <1>5, <2>1, <2>2
<1> QED
  BY <1>6, <1>7, <1>8, <1>9

\* What one piece of a literal is worth: nothing; a byte as it stands; an
\* escaped byte, which takes two; or a code point, with no more than half as
\* many bytes as it takes.
LEMMA PieceFits ==
  ASSUME NEW t \in Seq(Nat), NEW i \in Nat, NEW end \in Nat, i < end, end < Len(t),
         NEW piece, piece = Piece(t, i, end)
  PROVE  /\ piece.length \in {0, 1, 2, 6, 12} /\ piece.bytes \in Seq(Nat)
         /\ piece.length = 0 => piece.bytes = << >>
         /\ piece.length = 1 => Len(piece.bytes) = 1 /\ At(t, i) # Backslash
         /\ piece.length = 2 => Len(piece.bytes) = 1 /\ At(t, i) = Backslash
         /\ piece.length \in {6, 12} => i + piece.length <= end /\ 2 * Len(piece.bytes) <= piece.length
<1> DEFINE hit == {e \in ShortEscapes : e[1] = At(t, i + 1)}
           c == (CHOOSE e \in hit : TRUE)[2]
           literal == utf16_literal_to_utf8(t, i, end)
<1>1. piece = IF At(t, i) # Backslash THEN [bytes |-> <<At(t, i)>>, length |-> 1]
              ELSE IF At(t, i + 1) = LetterU THEN literal
              ELSE IF hit = {} THEN NoPiece ELSE [bytes |-> <<c>>, length |-> 2]
  BY DEF Piece
<1>2. At(t, i) \in Nat
  BY DEF At
<1>3. hit # {} => c \in Nat
  <2>1. \A e \in ShortEscapes : e[2] \in Nat
    BY DEF ShortEscapes, Backspace, FormFeed, NewLine, Return, Tab, Quote, Backslash, Slash
  <2>2. hit # {} => (CHOOSE e \in hit : TRUE) \in hit
    OBVIOUS
  <2> QED
    BY <2>1, <2>2
<1> HIDE DEF c, hit
<1>4. CASE At(t, i) # Backslash
  <2>1. piece.length = 1 /\ piece.bytes = <<At(t, i)>>
    BY <1>1, <1>4
  <2>2. <<At(t, i)>> \in Seq(Nat) /\ Len(<<At(t, i)>>) = 1
    BY <1>2
  <2> QED
    BY <1>4, <2>1, <2>2
<1>5. CASE At(t, i) = Backslash /\ At(t, i + 1) = LetterU
  <2>1. piece = literal
    BY <1>1, <1>5
  <2> HIDE DEF literal
  <2>2. /\ piece.length \in {0, 6, 12} /\ piece.bytes \in Seq(Nat)
        /\ piece.length # 0 => i + piece.length <= end
        /\ 2 * Len(piece.bytes) <= piece.length
    BY <2>1, LiteralFits DEF literal
  <2>3. piece.length = 0 => piece.bytes = << >>
    BY <2>2
  <2> QED
    BY <2>2, <2>3, SMTT(30)
<1>6. CASE At(t, i) = Backslash /\ At(t, i + 1) # LetterU /\ hit = {}
  BY <1>1, <1>6, EmptySeq DEF NoPiece
<1>7. CASE At(t, i) = Backslash /\ At(t, i + 1) # LetterU /\ hit # {}
  <2>1. piece.length = 2 /\ piece.bytes = <<c>>
    BY <1>1, <1>7
  <2>2. <<c>> \in Seq(Nat) /\ Len(<<c>>) = 1
    BY <1>3, <1>7
  <2> QED
    BY <1>7, <2>1, <2>2
<1> QED
  BY <1>4, <1>5, <1>6, <1>7

\* What the second pass over a literal says of a place, and one step of it.
Copies == [ok : BOOLEAN, bytes : Seq(Nat), at : Nat]

CopyStep(t, f, i, end) ==
  IF i >= end THEN [ok |-> TRUE, bytes |-> << >>, at |-> i]
  ELSE IF Piece(t, i, end).length = 0 THEN [ok |-> FALSE, bytes |-> << >>, at |-> i]
  ELSE [f[i + Piece(t, i, end).length] EXCEPT !.bytes = Piece(t, i, end).bytes \o @]

\* A piece ends in the literal, or on its closing quote.
LEMMA PieceStays ==
  ASSUME NEW t \in Seq(Nat), NEW i \in Nat, NEW end \in Nat, i < end, end < Len(t)
  PROVE  /\ Piece(t, i, end).length \in Nat /\ Piece(t, i, end).bytes \in Seq(Nat)
         /\ i + Piece(t, i, end).length <= end + 1
<1> DEFINE piece == Piece(t, i, end)
<1>1. /\ piece.length \in {0, 1, 2, 6, 12} /\ piece.bytes \in Seq(Nat)
      /\ piece.length \in {6, 12} => i + piece.length <= end
  BY PieceFits
<1> HIDE DEF piece
<1>2. piece.length \in Nat /\ i + piece.length <= end + 1
  BY <1>1, SMTT(30)
<1> QED
  BY <1>1, <1>2 DEF piece

\* A step of the second pass is typed where the places behind it are.
LEMMA CopyStepType ==
  ASSUME NEW t \in Seq(Nat), NEW end \in Nat, end < Len(t), NEW f, NEW i \in 0 .. end + 1,
         \A j \in 0 .. end + 1 : j > i => f[j] \in Copies
  PROVE  CopyStep(t, f, i, end) \in Copies
<1> DEFINE piece == Piece(t, i, end)
<1>1. CASE i >= end
  <2>1. CopyStep(t, f, i, end) = [ok |-> TRUE, bytes |-> << >>, at |-> i]
    BY <1>1 DEF CopyStep
  <2> QED
    BY <2>1, EmptySeq DEF Copies
<1>2. CASE i < end /\ piece.length = 0
  <2>1. CopyStep(t, f, i, end) = [ok |-> FALSE, bytes |-> << >>, at |-> i]
    BY <1>2 DEF CopyStep
  <2> QED
    BY <2>1, EmptySeq DEF Copies
<1>3. CASE i < end /\ piece.length # 0
  <2> DEFINE rest == f[i + piece.length]
  <2>1. CopyStep(t, f, i, end) = [rest EXCEPT !.bytes = piece.bytes \o @]
    BY <1>3 DEF CopyStep
  <2>2. piece.length \in Nat /\ piece.bytes \in Seq(Nat) /\ i + piece.length <= end + 1
    BY <1>3, PieceStays
  <2> HIDE DEF piece
  <2>3. rest \in Copies
    BY <1>3, <2>2
  <2> HIDE DEF rest
  <2>4. piece.bytes \o rest.bytes \in Seq(Nat)
    BY <2>2, <2>3, ConcatProperties DEF Copies
  <2> QED
    BY <2>1, <2>3, <2>4 DEF Copies
<1> QED
  BY <1>1, <1>2, <1>3

\* The second pass of parse_string is defined, as the first one is.
LEMMA CopyExists ==
  ASSUME NEW t \in Seq(Nat), NEW o \in Nat, NEW end \in Nat, o <= end, end < Len(t)
  PROVE  \E f \in [o .. end + 1 -> Copies] :
           f[o] = Unescape(t, o, end) /\ \A i \in o .. end + 1 : f[i] = CopyStep(t, f, i, end)
<1> DEFINE hi == end + 1
           piece(i) == Piece(t, i, end)
           leaf == {i \in o .. hi : i >= end \/ piece(i).length = 0}
           base == [i \in o .. hi |-> IF i >= end THEN [ok |-> TRUE, bytes |-> << >>, at |-> i]
                                      ELSE [ok |-> FALSE, bytes |-> << >>, at |-> i]]
           jump == [i \in o .. hi |-> i + piece(i).length]
           comb == [i \in o .. hi |-> [v \in Copies |->
                     [v EXCEPT !.bytes = piece(i).bytes \o @]]]
           Steps(g) == g = [i \in o .. hi |-> CopyStep(t, g, i, end)]
<1>0. hi \in Int /\ o \in Int /\ end \in Int
  OBVIOUS
<1>1. \A i \in o .. hi : i \in leaf => base[i] \in Copies
  BY EmptySeq DEF Copies
<1>2. ASSUME NEW i \in o .. hi, i \notin leaf
      PROVE  jump[i] \in i + 1 .. hi /\ \A v \in Copies : comb[i][v] \in Copies
  <2>1. i < end /\ piece(i).length # 0 /\ i \in Nat
    BY <1>2
  <2>2. piece(i).length \in Nat /\ piece(i).bytes \in Seq(Nat) /\ i + piece(i).length <= end + 1
    BY <2>1, PieceStays
  <2> DEFINE n == piece(i).length
             b == piece(i).bytes
  <2>3. jump[i] = i + n
    OBVIOUS
  <2>4. \A v \in Copies : comb[i][v] = [v EXCEPT !.bytes = b \o @]
    OBVIOUS
  <2> HIDE DEF piece, n, b, comb, jump
  <2>5. n \in Nat /\ n # 0 /\ b \in Seq(Nat) /\ i + n <= end + 1
    BY <2>1, <2>2 DEF n, b
  <2>6. i + n \in i + 1 .. hi
    BY <2>5
  <2>7. \A v \in Copies : b \o v.bytes \in Seq(Nat)
    BY <2>5, ConcatProperties DEF Copies
  <2>8. \A v \in Copies : [v EXCEPT !.bytes = b \o @] \in Copies
    BY <2>7 DEF Copies
  <2> QED
    BY <2>3, <2>4, <2>6, <2>8
<1>3. \E f \in [o .. hi -> Copies] : \A i \in o .. hi :
        f[i] = IF i \in leaf THEN base[i] ELSE comb[i][f[jump[i]]]
  <2> HIDE DEF hi, leaf, base, jump, comb
  <2>1. WellDefined(o, hi, Copies, leaf, base, jump, comb)
    BY <1>1, <1>2 DEF WellDefined
  <2> QED
    BY <1>0, <2>1, Recursion
<1>4. PICK f \in [o .. hi -> Copies] : \A i \in o .. hi :
        f[i] = IF i \in leaf THEN base[i] ELSE comb[i][f[jump[i]]]
  BY <1>3
<1>5. ASSUME NEW i \in o .. hi PROVE f[i] = CopyStep(t, f, i, end)
  <2>1. CASE i \in leaf
    <3>1. f[i] = IF i >= end THEN [ok |-> TRUE, bytes |-> << >>, at |-> i]
                 ELSE [ok |-> FALSE, bytes |-> << >>, at |-> i]
      BY <1>4, <2>1
    <3>2. CASE i >= end
      <4>1. f[i] = [ok |-> TRUE, bytes |-> << >>, at |-> i]
        BY <3>1, <3>2
      <4> QED
        BY <3>2, <4>1 DEF CopyStep
    <3>3. CASE ~(i >= end)
      <4>1. f[i] = [ok |-> FALSE, bytes |-> << >>, at |-> i]
        BY <3>1, <3>3
      <4>2. piece(i).length = 0
        BY <2>1, <3>3
      <4> QED
        BY <3>3, <4>1, <4>2 DEF CopyStep
    <3> QED
      BY <3>2, <3>3
  <2>2. CASE i \notin leaf
    <3>1. f[i] = comb[i][f[jump[i]]] /\ f[jump[i]] \in Copies
      <4>1. jump[i] \in o .. hi
        <5>1. jump[i] \in i + 1 .. hi
          BY <1>2, <2>2
        <5> HIDE DEF jump
        <5> QED
          BY <5>1
      <4> HIDE DEF jump, comb
      <4> QED
        BY <1>4, <2>2, <4>1
    <3>2. f[i] = [f[jump[i]] EXCEPT !.bytes = piece(i).bytes \o @]
      <4> HIDE DEF jump, piece
      <4> QED
        BY <3>1
    <3>3. i < end /\ piece(i).length # 0 /\ jump[i] = i + piece(i).length
      BY <2>2
    <3>4. ~(i >= end)
      BY <3>3
    <3>5. CopyStep(t, f, i, end) = [f[i + piece(i).length] EXCEPT !.bytes = piece(i).bytes \o @]
      BY <3>3, <3>4, Zenon DEF CopyStep
    <3> HIDE DEF jump, piece
    <3> QED
      BY <3>2, <3>3, <3>5
  <2> QED
    BY <2>1, <2>2
<1> DEFINE g == CHOOSE g : Steps(g)
<1>6. Steps(g)
  <2>1. Steps(f)
    <3> HIDE DEF hi
    <3> QED
      BY <1>5
  <2> HIDE DEF Steps
  <2> QED
    BY <2>1
<1>7. g[o] = Unescape(t, o, end)
  BY DEF Unescape, CopyStep
<1> HIDE DEF g
<1>8. \A i \in o .. hi : g[i] \in Copies
  <2> DEFINE S == {i \in o .. hi : g[i] \in Copies}
  <2>1. ASSUME NEW i \in o .. hi, \A j \in o .. hi : j > i => j \in S
        PROVE  i \in S
    <3>1. \A j \in 0 .. hi : j > i => j \in o .. hi /\ g[j] \in Copies
      BY <2>1
    <3>2. i \in 0 .. end + 1
      OBVIOUS
    <3>3. CopyStep(t, g, i, end) \in Copies
      <4> HIDE DEF S, Steps
      <4> QED
        BY <3>1, <3>2, CopyStepType
    <3> QED
      BY <1>6, <3>3
  <2> HIDE DEF S, hi
  <2>2. \A i \in o .. hi : i \in S
    BY <1>0, <2>1, Backwards
  <2> QED
    BY <2>2 DEF S
<1>9. g \in [o .. hi -> Copies] /\ \A i \in o .. hi : g[i] = CopyStep(t, g, i, end)
  <2> HIDE DEF hi
  <2> QED
    BY <1>6, <1>8
<1> QED
  BY <1>7, <1>9

\* What the first pass makes of every place of a literal that opens before o.
IsScan(t, o, f) ==
  /\ f \in [o .. Len(t) + 1 -> Scans]
  /\ \A i \in o .. Len(t) + 1 : f[i] = ScanStep(t, f, i)

\* Where the first pass stops there is a quote, behind the place it looks at.
LEMMA ScanRange ==
  ASSUME NEW t, Len(t) \in Nat, NEW o \in Nat, NEW f, IsScan(t, o, f)
  PROVE  \A i \in o .. Len(t) + 1 :
           f[i].end # -1 => f[i].end \in i .. Len(t) - 1 /\ At(t, f[i].end) = Quote
<1> DEFINE hi == Len(t) + 1
           Fine(i) == f[i].end # -1 => f[i].end \in i .. Len(t) - 1 /\ At(t, f[i].end) = Quote
           S == {i \in o .. hi : Fine(i)}
<1>1. ASSUME NEW i \in o .. hi, \A j \in o .. hi : j > i => j \in S
      PROVE  Fine(i)
  <2>1. f[i] = ScanStep(t, f, i) /\ f[i] \in Scans /\ i \in Nat
    BY DEF IsScan
  <2>2. CASE i >= Len(t)
    BY <2>1, <2>2 DEF ScanStep
  <2>3. CASE i < Len(t) /\ At(t, i) = Quote
    BY <2>1, <2>3 DEF ScanStep
  <2>4. CASE i < Len(t) /\ At(t, i) # Quote /\ At(t, i) # Backslash
    <3>1. f[i].end = f[i + 1].end
      BY <2>1, <2>4 DEF ScanStep
    <3>2. Fine(i + 1)
      BY <1>1, <2>1, <2>4
    <3> QED
      BY <2>1, <3>1, <3>2
  <2>5. CASE i < Len(t) /\ At(t, i) = Backslash /\ i + 1 >= Len(t)
    BY <2>1, <2>5 DEF ScanStep, Backslash, Quote
  <2>6. CASE i + 1 < Len(t) /\ At(t, i) = Backslash
    <3>1. f[i] = [f[i + 2] EXCEPT !.skipped = @ + 1]
      BY <2>1, <2>6 DEF ScanStep, Backslash, Quote
    <3>2. Fine(i + 2) /\ f[i + 2] \in Scans
      BY <1>1, <2>1, <2>6 DEF IsScan
    <3>3. f[i].end = f[i + 2].end
      BY <3>1, <3>2 DEF Scans
    <3> QED
      BY <2>1, <3>2, <3>3
  <2> QED
    BY <2>1, <2>2, <2>3, <2>4, <2>5, <2>6
<1>a. hi \in Int /\ o \in Int
  OBVIOUS
<1> HIDE DEF Fine, hi
<1>2. \A i \in o .. hi : i \in S
  <2>1. \A i \in o .. hi : (\A j \in o .. hi : j > i => j \in S) => i \in S
    BY <1>1
  <2> HIDE DEF S
  <2> QED
    BY <1>a, <2>1, Backwards
<1> QED
  BY <1>2 DEF Fine, hi

\* How many escapes the first pass sees from i on, if it stops at i, and from
\* the byte behind, if it stops there.
Counts(f, i, end) == {f[j].skipped : j \in {k \in {i, i + 1} : f[k].end = end}}

\* One step of the first pass.
LEMMA ScanOn ==
  ASSUME NEW t, Len(t) \in Nat, NEW o \in Nat, NEW f, IsScan(t, o, f),
         NEW end \in Nat, end < Len(t), NEW i \in Nat, o <= i, f[i].end = end, i <= Len(t)
  PROVE  /\ i <= end /\ f[i].skipped \in Nat
         /\ i = end => f[i].skipped = 0
         /\ i < end /\ At(t, i) # Backslash
              => f[i + 1].end = end /\ f[i].skipped = f[i + 1].skipped
         /\ i < end /\ At(t, i) = Backslash
              => i + 2 <= end /\ f[i + 2].end = end /\ f[i].skipped = f[i + 2].skipped + 1
<1>1. i \in o .. Len(t) + 1
  OBVIOUS
<1>2. f[i] = ScanStep(t, f, i) /\ f[i] \in Scans
  BY <1>1 DEF IsScan
<1>3. i <= end /\ At(t, end) = Quote
  BY <1>1, ScanRange
<1>4. f[i].skipped \in Nat
  BY <1>2 DEF Scans
<1>5. i = end => f[i].skipped = 0
  BY <1>2, <1>3 DEF ScanStep
<1>6. ASSUME i < end PROVE At(t, i) # Quote
  BY <1>2, <1>6 DEF ScanStep
<1>7. ASSUME i < end, At(t, i) # Backslash
      PROVE  f[i + 1].end = end /\ f[i].skipped = f[i + 1].skipped
  BY <1>2, <1>6, <1>7 DEF ScanStep
<1>8. ASSUME i < end, At(t, i) = Backslash
      PROVE  i + 2 <= end /\ f[i + 2].end = end /\ f[i].skipped = f[i + 2].skipped + 1
  <2>1. i + 1 < Len(t) /\ f[i] = [f[i + 2] EXCEPT !.skipped = @ + 1]
    BY <1>2, <1>6, <1>8 DEF ScanStep
  <2>2. i + 2 \in o .. Len(t) + 1 /\ f[i + 2] \in Scans
    BY <2>1 DEF IsScan
  <2>3. f[i + 2].end = end /\ f[i].skipped = f[i + 2].skipped + 1
    BY <2>1, <2>2 DEF Scans
  <2>4. f[i + 2].end \in i + 2 .. Len(t) - 1
    BY <2>2, <2>3, ScanRange
  <2> QED
    BY <2>3, <2>4
<1> QED
  BY <1>3, <1>4, <1>5, <1>7, <1>8

\* Two bytes of a literal hold at most one escape's backslash.
LEMMA CountTwo ==
  ASSUME NEW t, Len(t) \in Nat, NEW o \in Nat, NEW f, IsScan(t, o, f),
         NEW end \in Nat, end < Len(t), NEW i \in Nat, o <= i, i + 2 <= end,
         NEW k \in Counts(f, i, end)
  PROVE  \E m \in Counts(f, i + 2, end) : k <= m + 1
<1> DEFINE Step(j) == /\ f[j].skipped \in Nat
                      /\ j < end /\ At(t, j) # Backslash
                           => f[j + 1].end = end /\ f[j].skipped = f[j + 1].skipped
                      /\ j < end /\ At(t, j) = Backslash
                           => f[j + 2].end = end /\ f[j].skipped = f[j + 2].skipped + 1
<1>1. \A j \in Nat : o <= j /\ j <= end /\ f[j].end = end => Step(j)
  BY ScanOn
<1>2. ASSUME NEW n \in Nat, n \in {i + 2, i + 3}, f[n].end = end
      PROVE  f[n].skipped \in Counts(f, i + 2, end)
  <2>1. n = i + 2 \/ n = i + 2 + 1
    BY <1>2
  <2> QED
    BY <1>2, <2>1 DEF Counts
<1>3. f[i + 2].end = end => f[i + 2].skipped \in Nat
  BY <1>1
<1>a. f[i + 3].end = end => f[i + 3].skipped \in Nat
  <2>1. i + 3 <= Len(t)
    OBVIOUS
  <2> QED
    BY <2>1, ScanOn
<1>4. PICK j \in {i, i + 1} : f[j].end = end /\ k = f[j].skipped
  BY DEF Counts
<1>5. CASE j = i
  <2>1. Step(i) /\ i < end
    BY <1>1, <1>4, <1>5
  <2>2. CASE At(t, i) = Backslash
    <3>1. f[i + 2].end = end /\ k = f[i + 2].skipped + 1
      BY <1>4, <1>5, <2>1, <2>2
    <3> QED
      BY <1>2, <1>3, <3>1
  <2>3. CASE At(t, i) # Backslash
    <3>1. f[i + 1].end = end /\ k = f[i + 1].skipped
      BY <1>4, <1>5, <2>1, <2>3
    <3>2. Step(i + 1) /\ i + 1 < end
      BY <1>1, <3>1
    <3>3. (i + 1) + 1 = i + 2 /\ (i + 1) + 2 = i + 3
      OBVIOUS
    <3>4. \/ f[i + 2].end = end /\ k = f[i + 2].skipped
          \/ f[i + 3].end = end /\ k = f[i + 3].skipped + 1
      BY <3>1, <3>2, <3>3
    <3> QED
      BY <1>2, <1>3, <1>a, <3>4
  <2> QED
    BY <2>2, <2>3
<1>6. CASE j = i + 1
  <2>1. Step(i + 1) /\ i + 1 < end
    BY <1>1, <1>4, <1>6
  <2>2. (i + 1) + 1 = i + 2 /\ (i + 1) + 2 = i + 3
    OBVIOUS
  <2>3. \/ f[i + 2].end = end /\ k = f[i + 2].skipped
        \/ f[i + 3].end = end /\ k = f[i + 3].skipped + 1
    BY <1>4, <1>6, <2>1, <2>2
  <2> QED
    BY <1>2, <1>3, <1>a, <2>3
<1> QED
  BY <1>4, <1>5, <1>6

\* The escapes that are seen are as many bytes at most as there are.
LEMMA CountWithin ==
  ASSUME NEW t, Len(t) \in Nat, NEW o \in Nat, NEW f, IsScan(t, o, f),
         NEW end \in Nat, end < Len(t)
  PROVE  \A i \in o .. end : \A k \in Counts(f, i, end) : k \in Nat /\ k <= end - i
<1> DEFINE Fine(i) == f[i].end = end => f[i].skipped \in Nat /\ f[i].skipped <= end - i
           S == {i \in o .. end : Fine(i)}
<1>1. ASSUME NEW i \in o .. end, \A j \in o .. end : j > i => j \in S, f[i].end = end
      PROVE  f[i].skipped \in Nat /\ f[i].skipped <= end - i
  <2>1. /\ f[i].skipped \in Nat
        /\ i = end => f[i].skipped = 0
        /\ i < end /\ At(t, i) # Backslash
             => f[i + 1].end = end /\ f[i].skipped = f[i + 1].skipped
        /\ i < end /\ At(t, i) = Backslash
             => i + 2 <= end /\ f[i + 2].end = end /\ f[i].skipped = f[i + 2].skipped + 1
    BY <1>1, ScanOn
  <2>2. i < end => Fine(i + 1)
    BY <1>1
  <2>3. i + 2 <= end => Fine(i + 2)
    BY <1>1
  <2> QED
    BY <2>1, <2>2, <2>3
<1> HIDE DEF Fine
<1>2. \A i \in o .. end : i \in S
  <2>1. \A i \in o .. end : (\A j \in o .. end : j > i => j \in S) => i \in S
    BY <1>1 DEF Fine
  <2>2. o \in Int /\ end \in Int
    OBVIOUS
  <2> HIDE DEF S
  <2> QED
    BY <2>1, <2>2, Backwards
<1>3. ASSUME NEW i \in o .. end, NEW k \in Counts(f, i, end) PROVE k \in Nat /\ k <= end - i
  <2>1. PICK j \in {i, i + 1} : f[j].end = end /\ k = f[j].skipped
    BY DEF Counts
  <2>2. j \in Nat /\ o <= j /\ j <= Len(t) /\ i <= j
    BY <2>1
  <2>3. j <= end
    BY <2>1, <2>2, ScanOn
  <2> QED
    BY <1>2, <2>1, <2>2, <2>3 DEF Fine
<1> QED
  BY <1>3

\* The arithmetic of a piece and what follows it.
LEMMA Together ==
  ASSUME NEW all, NEW first \in Nat, NEW rest \in Nat, all = first + rest,
         NEW i \in Int, NEW end \in Int, NEW n \in Int, NEW k \in Int, NEW m \in Int,
         rest + m <= end - (i + n), first + k <= n + m
  PROVE  all + k <= end - i
OBVIOUS

\* What a literal says is not longer than the first pass takes it to be.
LEMMA CopyFits ==
  ASSUME NEW t \in Seq(Nat), NEW o \in Nat, NEW end \in Nat, o <= end, end < Len(t),
         NEW f, IsScan(t, o, f),
         NEW g \in [o .. end + 1 -> Copies], \A i \in o .. end + 1 : g[i] = CopyStep(t, g, i, end)
  PROVE  \A i \in o .. end : \A k \in Counts(f, i, end) : Len(g[i].bytes) + k <= end - i
<1> DEFINE Fine(i) == \A k \in Counts(f, i, end) : Len(g[i].bytes) + k <= end - i
           S == {i \in o .. end : Fine(i)}
<1>0. Len(t) \in Nat
  OBVIOUS
<1>l. \A i \in o .. end + 1 : Len(g[i].bytes) \in Nat
  <2>1. \A i \in o .. end + 1 : g[i].bytes \in Seq(Nat)
    BY DEF Copies
  <2> QED
    BY <2>1, LenProperties
<1>1. ASSUME NEW i \in o .. end, \A j \in o .. end : j > i => j \in S, NEW k \in Counts(f, i, end)
      PROVE  Len(g[i].bytes) + k <= end - i
  <2> DEFINE piece == Piece(t, i, end)
             n == piece.length
             rest == g[i + n]
  <2>0. i \in Nat /\ i <= end /\ o <= i
    OBVIOUS
  <2>1. PICK j \in {i, i + 1} : f[j].end = end /\ k = f[j].skipped
    BY DEF Counts
  <2>2. j \in Nat /\ o <= j /\ j <= Len(t)
    BY <2>0, <2>1
  <2>3. /\ j <= end /\ k \in Nat
        /\ j = end => k = 0
        /\ j < end /\ At(t, j) = Backslash => j + 2 <= end
    BY <1>0, <2>1, <2>2, ScanOn
  <2>c. g[i] = CopyStep(t, g, i, end)
    BY <2>0
  <2>k. k \in Nat /\ k <= end - i
    BY <1>0, CountWithin
  <2>4. CASE i = end
    <3>1. g[i] = [ok |-> TRUE, bytes |-> << >>, at |-> i]
      BY <2>0, <2>4, <2>c DEF CopyStep
    <3>2. k = 0 /\ Len(g[i].bytes) = 0
      BY <2>4, <2>k, <3>1
    <3> QED
      BY <2>4, <3>2
  <2>5. CASE i < end
    <3>1. /\ n \in {0, 1, 2, 6, 12} /\ piece.bytes \in Seq(Nat)
          /\ n = 1 => Len(piece.bytes) = 1 /\ At(t, i) # Backslash
          /\ n = 2 => Len(piece.bytes) = 1 /\ At(t, i) = Backslash
          /\ n \in {6, 12} => i + n <= end /\ 2 * Len(piece.bytes) <= n
      BY <2>0, <2>5, PieceFits
    <3>2. Len(piece.bytes) \in Nat
      BY <3>1
    <3>a. ~(i >= end)
      BY <2>5
    <3>3. n = 0 => g[i] = [ok |-> FALSE, bytes |-> << >>, at |-> i]
      BY <2>c, <3>a DEF CopyStep
    <3>4. n # 0 => g[i] = [rest EXCEPT !.bytes = piece.bytes \o @]
      BY <2>c, <3>a, Zenon DEF CopyStep
    <3>5. i + n \in o .. end + 1
      <4> HIDE DEF piece, n
      <4> QED
        BY <2>5, <3>1
    <3>6. rest \in Copies
      <4> HIDE DEF n
      <4> QED
        BY <3>5
    <3>8. Len(rest.bytes) \in Nat
      BY <1>l, <3>5
    <3>e. i + n >= end => rest.bytes = << >>
      <4>1. rest = CopyStep(t, g, i + n, end)
        BY <3>5
      <4> HIDE DEF n, rest
      <4> QED
        BY <4>1, Zenon DEF CopyStep
    <3> HIDE DEF piece, n, rest
    <3>7. n # 0 => Len(g[i].bytes) = Len(piece.bytes) + Len(rest.bytes)
      <4>1. rest.bytes \in Seq(Nat) /\ piece.bytes \in Seq(Nat)
        BY <3>1, <3>6 DEF Copies
      <4>2. Len(piece.bytes \o rest.bytes) = Len(piece.bytes) + Len(rest.bytes)
        BY <4>1, ConcatProperties
      <4>3. n # 0 => g[i].bytes = piece.bytes \o rest.bytes
        BY <3>4, <3>6 DEF Copies
      <4> QED
        BY <4>2, <4>3
    <3>9. ASSUME NEW m \in Counts(f, i + n, end), n # 0, i + n <= end
          PROVE  m \in Nat /\ Len(rest.bytes) + m <= end - (i + n)
      <4>1. i + n \in o .. end /\ i + n > i
        BY <3>1, <3>5, <3>9
      <4>2. Fine(i + n)
        BY <1>1, <4>1
      <4>3. m \in Nat
        BY <1>0, <4>1, CountWithin
      <4> QED
        BY <4>2, <4>3 DEF rest
    <3>t. ASSUME NEW x \in Nat, o <= x, x + 2 <= end, NEW y \in Counts(f, x, end)
          PROVE  \E m \in Counts(f, x + 2, end) : m \in Nat /\ y \in Nat /\ y <= m + 1
      <4>1. PICK m \in Counts(f, x + 2, end) : y <= m + 1
        BY <1>0, <3>t, CountTwo
      <4>2. x \in o .. end /\ x + 2 \in o .. end
        BY <3>t
      <4>3. y \in Nat /\ m \in Nat
        BY <1>0, <4>2, CountWithin
      <4> QED
        BY <4>1, <4>3
    <3>s. ASSUME NEW x \in Nat, o <= x, x + 6 <= end, NEW y \in Counts(f, x, end)
          PROVE  \E m \in Counts(f, x + 6, end) : m \in Nat /\ y \in Nat /\ y <= m + 3
      <4>1. PICK m1 \in Counts(f, x + 2, end) : m1 \in Nat /\ y \in Nat /\ y <= m1 + 1
        BY <3>s, <3>t
      <4>2. PICK m2 \in Counts(f, (x + 2) + 2, end) : m2 \in Nat /\ m1 <= m2 + 1
        <5>1. x + 2 \in Nat /\ o <= x + 2 /\ (x + 2) + 2 <= end
          BY <3>s
        <5> QED
          BY <3>t, <5>1
      <4>3. PICK m3 \in Counts(f, (x + 4) + 2, end) : m3 \in Nat /\ m2 <= m3 + 1
        <5>1. x + 4 \in Nat /\ o <= x + 4 /\ (x + 4) + 2 <= end /\ (x + 2) + 2 = x + 4
          BY <3>s
        <5> QED
          BY <3>t, <4>2, <5>1
      <4>4. (x + 4) + 2 = x + 6
        OBVIOUS
      <4> QED
        BY <4>1, <4>2, <4>3, <4>4
    <3>10. CASE n = 0
      BY <2>k, <3>3, <3>10
    <3>x. /\ n \in Int /\ i \in Int /\ end \in Int
          /\ Len(piece.bytes) \in Nat /\ Len(rest.bytes) \in Nat
      BY <2>0, <3>1, <3>2, <3>8
    <3>w. ASSUME NEW m \in Int, n # 0, Len(rest.bytes) + m <= end - (i + n),
                 Len(piece.bytes) + k <= n + m
          PROVE  Len(g[i].bytes) + k <= end - i
      <4>1. Len(g[i].bytes) = Len(piece.bytes) + Len(rest.bytes)
        BY <3>7, <3>w
      <4>2. k \in Int
        BY <2>k
      <4> QED
        BY <3>w, <3>x, <4>1, <4>2, Together
    <3>11. CASE n = 1
      <4>1. j = i => f[i + 1].end = end /\ k = f[i + 1].skipped
        BY <1>0, <2>0, <2>1, <2>2, <2>5, <3>1, <3>11, ScanOn
      <4>2. k \in Counts(f, i + n, end)
        BY <2>1, <3>11, <4>1 DEF Counts
      <4>3. i + n <= end /\ n # 0
        BY <2>5, <3>11
      <4>4. Len(rest.bytes) + k <= end - (i + n)
        BY <3>9, <4>2, <4>3
      <4>5. Len(piece.bytes) = 1
        BY <3>1, <3>11
      <4>6. Len(piece.bytes) + k <= n + k /\ k \in Int
        BY <2>k, <3>11, <4>5
      <4> QED
        BY <3>w, <4>3, <4>4, <4>6
    <3>12. CASE n = 2
      <4>0. Len(piece.bytes) = 1 /\ n # 0
        BY <3>1, <3>12
      <4>1. CASE i + 2 <= end
        <5>1. PICK m \in Counts(f, i + n, end) : m \in Nat /\ k <= m + 1
          BY <2>0, <3>t, <3>12, <4>1
        <5>2. Len(rest.bytes) + m <= end - (i + n)
          BY <3>9, <3>12, <4>1, <5>1
        <5>3. Len(piece.bytes) + k <= n + m /\ m \in Int
          BY <2>k, <3>12, <4>0, <5>1
        <5> QED
          BY <3>w, <4>0, <5>2, <5>3
      <4>2. CASE i + 2 > end
        <5>1. j = i + 1 /\ i + 1 = end
          BY <1>0, <2>0, <2>1, <2>2, <2>3, <2>5, <3>1, <3>12, <4>2
        <5>2. k = 0 /\ Len(rest.bytes) = 0
          BY <2>3, <3>12, <3>e, <4>2, <5>1
        <5>3. Len(rest.bytes) + (-1) <= end - (i + n)
          BY <2>0, <3>12, <5>1, <5>2
        <5>4. Len(piece.bytes) + k <= n + (-1)
          BY <3>12, <4>0, <5>2
        <5> QED
          BY <3>w, <4>0, <5>3, <5>4
      <4> QED
        BY <2>0, <4>1, <4>2
    <3>13. CASE n = 6
      <4>0. 2 * Len(piece.bytes) <= 6 /\ i + n <= end /\ n # 0
        BY <3>1, <3>13
      <4>1. PICK m \in Counts(f, i + n, end) : m \in Nat /\ k <= m + 3
        BY <2>0, <3>s, <3>13, <4>0
      <4>2. Len(rest.bytes) + m <= end - (i + n)
        BY <3>9, <4>0, <4>1
      <4>3. Len(piece.bytes) + k <= n + m /\ m \in Int
        BY <2>k, <3>2, <3>13, <4>0, <4>1
      <4> QED
        BY <3>w, <4>0, <4>2, <4>3
    <3>14. CASE n = 12
      <4>0. 2 * Len(piece.bytes) <= 12 /\ i + n <= end /\ n # 0
        BY <3>1, <3>14
      <4>1. PICK m1 \in Counts(f, i + 6, end) : m1 \in Nat /\ k <= m1 + 3
        <5>1. i + 6 <= end
          BY <2>0, <3>14, <4>0
        <5> QED
          BY <2>0, <3>s, <5>1
      <4>2. PICK m \in Counts(f, i + n, end) : m \in Nat /\ m1 <= m + 3
        <5>1. i + 6 \in Nat /\ o <= i + 6 /\ (i + 6) + 6 <= end /\ (i + 6) + 6 = i + n
          BY <2>0, <3>14, <4>0
        <5> QED
          BY <3>s, <4>1, <5>1
      <4>3. Len(rest.bytes) + m <= end - (i + n)
        BY <3>9, <4>0, <4>2
      <4>4. Len(piece.bytes) + k <= n + m /\ m \in Int
        BY <2>k, <3>2, <3>14, <4>0, <4>1, <4>2, SMTT(30)
      <4> QED
        BY <3>w, <4>0, <4>3, <4>4
    <3> QED
      BY <3>1, <3>10, <3>11, <3>12, <3>13, <3>14
  <2> QED
    BY <2>0, <2>4, <2>5
<1> HIDE DEF Fine
<1>2. \A i \in o .. end : i \in S
  <2>1. \A i \in o .. end : (\A j \in o .. end : j > i => j \in S) => i \in S
    BY <1>1 DEF Fine
  <2>2. o \in Int /\ end \in Int
    OBVIOUS
  <2> HIDE DEF S
  <2> QED
    BY <2>1, <2>2, Backwards
<1> QED
  BY <1>2 DEF Fine

\* A literal's quote, where there is one, is in the text behind the opening one.
LEMMA QuoteInText ==
  ASSUME NEW t \in Seq(Nat), NEW o \in Nat, o < Len(t), NEW end, end = ClosingQuote(t, o + 1).end,
         end # -1
  PROVE  end \in o + 1 .. Len(t) - 1
<1>1. Len(t) \in Nat /\ o + 1 \in 0 .. Len(t) /\ o + 1 \in o + 1 .. Len(t) + 1 /\ o + 1 \in Nat
  OBVIOUS
<1>2. PICK f \in [o + 1 .. Len(t) + 1 -> Scans] :
        f[o + 1] = ClosingQuote(t, o + 1) /\ \A i \in o + 1 .. Len(t) + 1 : f[i] = ScanStep(t, f, i)
  BY <1>1, ScanExists
<1>3. IsScan(t, o + 1, f)
  BY <1>2 DEF IsScan
<1> QED
  BY <1>1, <1>2, <1>3, ScanRange

\* The second pass looks no further than at the closing quote.
LEMMA PieceInText ==
  ASSUME NEW t, NEW end \in Nat, NEW i \in Nat, i < end
  PROVE  PieceEnd(t, i, end) \in Nat /\ PieceEnd(t, i, end) <= end + 1
BY DEF PieceEnd, LiteralCut

\* parse_string, wherever it is called, looks at bytes of the text; only without
\* a byte at its offset it looks at that.
THEOREM ReadsAt ==
  ASSUME NEW t \in Seq(Nat), NEW o \in Nat, NEW i \in StringReads(t, o)
  PROVE  i < Len(t) \/ (i = o /\ o >= Len(t))
<1> DEFINE end == ClosingQuote(t, o + 1).end
<1>1. Len(t) \in Nat
  OBVIOUS
<1>2. CASE o >= Len(t) \/ At(t, o) # Quote
  <2>1. i = o
    BY <1>2 DEF StringReads
  <2> QED
    BY <1>1, <2>1
<1>3. CASE o < Len(t) /\ At(t, o) = Quote /\ end = -1
  <2>1. i \in o .. Len(t) - 1
    BY <1>1, <1>3 DEF StringReads
  <2> QED
    BY <1>1, <2>1
<1>4. CASE o < Len(t) /\ At(t, o) = Quote /\ end # -1
  <2>1. end \in o + 1 .. Len(t) - 1
    BY <1>4, QuoteInText
  <2>2. i \in (o .. end) \cup UNION {j .. PieceEnd(t, j, end) - 1 : j \in o + 1 .. end - 1}
    BY <1>1, <1>4 DEF StringReads
  <2> HIDE DEF end
  <2>3. CASE i \in o .. end
    BY <1>1, <2>1, <2>3
  <2>4. ASSUME NEW j \in o + 1 .. end - 1, i \in j .. PieceEnd(t, j, end) - 1 PROVE i < Len(t)
    <3>1. PieceEnd(t, j, end) \in Nat /\ PieceEnd(t, j, end) <= end + 1
      BY <1>1, <2>1, <2>4, PieceInText
    <3> QED
      BY <1>1, <2>1, <2>4, <3>1
  <2> QED
    BY <2>2, <2>3, <2>4
<1> QED
  BY <1>1, <1>2, <1>3, <1>4

\* parse_string, wherever it is called: what it answers is typed, a literal ends
\* in the text, and what is written fits the block that is allocated for it.
THEOREM StringAt ==
  ASSUME NEW t \in Seq(Nat), NEW o \in Nat, NEW s, s = parse_string(t, o)
  PROVE  /\ s.ok \in BOOLEAN /\ s.opens \in BOOLEAN /\ s.bytes \in Seq(Nat) /\ s.offset \in Nat
         /\ s.ok => s.offset <= Len(t)
         /\ s.opens => Len(s.bytes) + 1 <= s.room
<1> DEFINE q1 == ClosingQuote(t, o + 1)
           u == Unescape(t, o + 1, q1.end)
           fails == [ok |-> FALSE, opens |-> FALSE, bytes |-> << >>, room |-> 0, offset |-> o + 1]
           none == o >= Len(t) \/ At(t, o) # Quote \/ q1.end = -1
           found == [ok |-> u.ok, opens |-> TRUE, bytes |-> u.bytes, room |-> StringRoom(t, o, q1),
                     offset |-> IF u.ok THEN q1.end + 1 ELSE u.at]
<1>1. s = IF o >= Len(t) THEN fails
          ELSE IF At(t, o) # Quote \/ q1.end = -1 THEN fails ELSE found
  BY DEF parse_string
<1>2. CASE none
  <2>1. s = fails
    <3> HIDE DEF fails, found, q1
    <3> QED
      BY <1>1, <1>2
  <2> QED
    BY <2>1, EmptySeq
<1>3. CASE ~none
  <2>0. Len(t) \in Nat /\ o < Len(t) /\ q1.end # -1
    BY <1>3
  <2>1. s = found
    <3> HIDE DEF fails, found, q1
    <3> QED
      BY <1>1, <1>3
  <2> HIDE DEF none, fails
  <2>2. PICK f \in [o + 1 .. Len(t) + 1 -> Scans] :
          f[o + 1] = q1 /\ \A i \in o + 1 .. Len(t) + 1 : f[i] = ScanStep(t, f, i)
    <3>1. o + 1 \in 0 .. Len(t)
      BY <2>0
    <3> HIDE DEF q1
    <3> QED
      BY <2>0, <3>1, ScanExists DEF q1
  <2> HIDE DEF q1
  <2>3. IsScan(t, o + 1, f) /\ o + 1 \in o + 1 .. Len(t) + 1 /\ o + 1 \in Nat
    BY <2>0, <2>2 DEF IsScan
  <2>4. q1.end \in o + 1 .. Len(t) - 1 /\ q1.skipped \in Nat
    <3>1. f[o + 1].end # -1 => f[o + 1].end \in o + 1 .. Len(t) - 1
      BY <2>0, <2>3, ScanRange
    <3>2. f[o + 1] \in Scans
      BY <2>2, <2>3
    <3> QED
      BY <2>0, <2>2, <3>1, <3>2 DEF Scans
  <2> DEFINE end == q1.end
  <2>5. end \in Nat /\ o + 1 <= end /\ end < Len(t) /\ end + 1 <= Len(t) /\ end + 1 \in Nat
    <3>1. \A n \in Nat : \A e \in o + 1 .. n - 1 :
            e \in Nat /\ o + 1 <= e /\ e < n /\ e + 1 <= n /\ e + 1 \in Nat
      OBVIOUS
    <3> QED
      BY <2>0, <2>4, <3>1
  <2>6. PICK g \in [o + 1 .. end + 1 -> Copies] :
          g[o + 1] = u /\ \A i \in o + 1 .. end + 1 : g[i] = CopyStep(t, g, i, end)
    <3> HIDE DEF end
    <3>1. \E g \in [o + 1 .. end + 1 -> Copies] :
            g[o + 1] = Unescape(t, o + 1, end) /\ \A i \in o + 1 .. end + 1 : g[i] = CopyStep(t, g, i, end)
      BY <2>3, <2>5, CopyExists
    <3> QED
      BY <3>1 DEF end
  <2> HIDE DEF u
  <2>7. u \in Copies
    BY <2>5, <2>6, SMTT(30)
  <2>8. u.ok \in BOOLEAN /\ u.bytes \in Seq(Nat) /\ u.at \in Nat /\ Len(u.bytes) \in Nat
    BY <2>7 DEF Copies
  <2>9. Len(u.bytes) + q1.skipped <= end - (o + 1)
    <3>1. q1.skipped \in Counts(f, o + 1, end)
      BY <2>2 DEF Counts
    <3>2. o + 1 \in o + 1 .. end
      BY <2>5
    <3> HIDE DEF end
    <3>3. \A i \in o + 1 .. end : \A k \in Counts(f, i, end) : Len(g[i].bytes) + k <= end - i
      BY <2>3, <2>5, <2>6, CopyFits
    <3> QED
      BY <2>6, <3>1, <3>2, <3>3
  <2>10. Len(u.bytes) + 1 <= StringRoom(t, o, q1)
    <3>1. StringRoom(t, o, q1) = q1.end - o - q1.skipped + 1
      BY DEF StringRoom
    <3>2. q1.skipped \in Int /\ q1.end \in Int
      BY <2>4
    <3>3. Len(u.bytes) \in Int /\ Len(u.bytes) + q1.skipped <= q1.end - (o + 1)
      BY <2>8, <2>9
    <3>4. \A x, y, z \in Int : x + y <= z - (o + 1) => x + 1 <= z - o - y + 1
      OBVIOUS
    <3>5. Len(u.bytes) + 1 <= q1.end - o - q1.skipped + 1
      BY <3>2, <3>3, <3>4
    <3> QED
      BY <3>1, <3>5
  <2>11. /\ s.ok = u.ok /\ s.opens = TRUE /\ s.bytes = u.bytes /\ s.room = StringRoom(t, o, q1)
         /\ s.offset = IF u.ok THEN end + 1 ELSE u.at
    BY <2>1
  <2> QED
    BY <2>5, <2>8, <2>10, <2>11
<1> QED
  BY <1>2, <1>3

-----------------------------------------------------------------------------
\* Folds over sequences, as running totals.

\* Induction over the naturals, one by one.
LEMMA OneByOne ==
  ASSUME NEW S, 0 \in S, \A n \in Nat : n \in S => n + 1 \in S
  PROVE  Nat \subseteq S
<1>1. ASSUME NEW n \in Nat, \A m \in Nat : m < n => m \in S PROVE n \in S
  <2>1. CASE n = 0
    BY <2>1
  <2>2. CASE n # 0
    <3>1. n - 1 \in Nat /\ n - 1 < n /\ (n - 1) + 1 = n
      BY <2>2
    <3> QED
      BY <1>1, <3>1
  <2> QED
    BY <2>1, <2>2
<1> QED
  BY <1>1, Upwards

\* The last element of a set of indices, and of all of them.
LEMMA MaxWithin ==
  ASSUME NEW n \in Nat, NEW s \in SUBSET (1 .. n), s # {}
  PROVE  Max(s) \in s /\ \A i \in s : i <= Max(s)
<1>1. s \in SUBSET Int /\ s # {} /\ n \in Int /\ \A i \in s : i <= n
  OBVIOUS
<1> QED
  BY ONLY <1>1, MaxOf

LEMMA MaxOfAll ==
  ASSUME NEW k \in Nat \ {0}
  PROVE  Max(1 .. k) = k
<1> DEFINE m == Max(1 .. k)
<1>1. 1 .. k # {} /\ k \in 1 .. k
  OBVIOUS
<1>2. m \in 1 .. k /\ \A i \in 1 .. k : i <= m
  BY <1>1, MaxWithin
<1> HIDE DEF m
<1>3. m = k
  BY <1>1, <1>2
<1> QED
  BY <1>3 DEF m

\* A running total of n steps, and a fold as FoldLeft makes it: from the last
\* element of a set of them down.
IsTotal(h, n, base, step) == h[0] = base /\ \A i \in 1 .. n : h[i] = step[i][h[i - 1]]

IsFold(F, n, V, base, step) ==
  /\ F[{}] = base
  /\ \A s \in SUBSET (1 .. n) :
       s # {} /\ F[s \ {Max(s)}] \in V => F[s] = step[Max(s)][F[s \ {Max(s)}]]

StepsIn(n, V, base, step) == base \in V /\ \A i \in 1 .. n : \A v \in V : step[i][v] \in V

\* The running total over the elements of s.
IsRun(h, s, n, V, base, step) ==
  /\ h \in [0 .. n -> V] /\ h[0] = base
  /\ \A i \in 1 .. n : h[i] = IF i \in s THEN step[i][h[i - 1]] ELSE h[i - 1]

\* Over every set of the indices there is a running total.
LEMMA RunExists ==
  ASSUME NEW n \in Nat, NEW V, NEW base, NEW step, StepsIn(n, V, base, step), NEW s
  PROVE  \E h : IsRun(h, s, n, V, base, step)
<1> DEFINE comb == [k \in 0 .. n |-> [v \in V |-> IF n - k \in s THEN step[n - k][v] ELSE v]]
           start == [k \in 0 .. n |-> base]
           jump == [k \in 0 .. n |-> k + 1]
           leaf == {n}
<1>1. WellDefined(0, n, V, leaf, start, jump, comb)
  <2>1. ASSUME NEW k \in 0 .. n, k \notin leaf
        PROVE  jump[k] \in k + 1 .. n /\ \A v \in V : comb[k][v] \in V
    <3>1. n - k \in 1 .. n
      BY <2>1
    <3>2. \A v \in V : step[n - k][v] \in V
      BY <3>1 DEF StepsIn
    <3>3. jump[k] \in k + 1 .. n
      BY <2>1
    <3> QED
      BY <3>2, <3>3
  <2>2. \A k \in 0 .. n : k \in leaf => start[k] \in V
    BY DEF StepsIn
  <2> HIDE DEF comb, start, jump, leaf
  <2> QED
    BY <2>1, <2>2 DEF WellDefined
<1>2. PICK f \in [0 .. n -> V] :
        \A k \in 0 .. n : f[k] = IF k \in leaf THEN start[k] ELSE comb[k][f[jump[k]]]
  <2> HIDE DEF comb, start, jump, leaf
  <2> QED
    BY <1>1, Recursion
<1> DEFINE h == [i \in 0 .. n |-> f[n - i]]
<1>3. h \in [0 .. n -> V]
  <2>1. \A i \in 0 .. n : n - i \in 0 .. n
    OBVIOUS
  <2> QED
    BY <2>1
<1>4. h[0] = base
  <2>1. h[0] = f[n] /\ n \in 0 .. n
    <3>1. n - 0 = n /\ 0 \in 0 .. n
      OBVIOUS
    <3>2. h[0] = f[n - 0]
      BY <3>1
    <3> QED
      BY <3>1, <3>2
  <2> QED
    BY <1>2, <2>1
<1>5. ASSUME NEW i \in 1 .. n
      PROVE  h[i] = IF i \in s THEN step[i][h[i - 1]] ELSE h[i - 1]
  <2>1. n - i \in 0 .. n /\ n - i \notin leaf /\ n - (n - i) = i /\ n - (i - 1) = (n - i) + 1
        /\ (n - i) + 1 \in 0 .. n /\ i - 1 \in 0 .. n /\ i \in 0 .. n
    OBVIOUS
  <2>2. f[n - i] = comb[n - i][f[jump[n - i]]] /\ jump[n - i] = (n - i) + 1
    BY <1>2, <2>1
  <2>3. f[(n - i) + 1] \in V
    BY <2>1
  <2>4. f[n - i] = IF i \in s THEN step[i][f[(n - i) + 1]] ELSE f[(n - i) + 1]
    BY <2>1, <2>2, <2>3
  <2>5. h[i] = f[n - i] /\ h[i - 1] = f[(n - i) + 1]
    BY <2>1
  <2> HIDE DEF h
  <2> QED
    BY <2>4, <2>5
<1> HIDE DEF h
<1> QED
  BY <1>3, <1>4, <1>5 DEF IsRun

\* Totals agree as far as they are over the same elements.
LEMMA RunsAgree ==
  ASSUME NEW n \in Nat, NEW V, NEW base, NEW step, NEW s, NEW r, NEW h, NEW g, NEW m \in 0 .. n,
         IsRun(h, s, n, V, base, step), IsRun(g, r, n, V, base, step),
         \A i \in 1 .. m : i \in s <=> i \in r
  PROVE  h[m] = g[m]
<1> DEFINE D == {k \in Nat : k <= m => h[k] = g[k]}
<1>1. 0 \in D
  BY DEF IsRun
<1>2. ASSUME NEW k \in Nat, k \in D PROVE k + 1 \in D
  <2>1. CASE k + 1 <= m
    <3>1. k + 1 \in 1 .. m /\ k + 1 \in 1 .. n /\ (k + 1) - 1 = k /\ h[k] = g[k]
      BY <1>2, <2>1
    <3> QED
      BY <3>1 DEF IsRun
  <2> QED
    BY <2>1
<1>3. Nat \subseteq D
  <2> HIDE DEF D
  <2> QED
    BY <1>1, <1>2, OneByOne
<1> QED
  BY <1>3

\* A total stays what it is behind the last element.
LEMMA RunStays ==
  ASSUME NEW n \in Nat, NEW V, NEW base, NEW step, NEW s, NEW h, NEW m \in 0 .. n,
         IsRun(h, s, n, V, base, step), \A i \in m + 1 .. n : i \notin s
  PROVE  h[n] = h[m]
<1> DEFINE D == {k \in Nat : m + k <= n => h[m + k] = h[m]}
<1>1. 0 \in D
  OBVIOUS
<1>2. ASSUME NEW k \in Nat, k \in D PROVE k + 1 \in D
  <2>1. CASE m + (k + 1) <= n
    <3>1. m + (k + 1) \in m + 1 .. n /\ m + (k + 1) \in 1 .. n /\ (m + (k + 1)) - 1 = m + k
          /\ h[m + k] = h[m]
      BY <1>2, <2>1
    <3> QED
      BY <3>1 DEF IsRun
  <2> QED
    BY <2>1
<1>3. Nat \subseteq D
  <2> HIDE DEF D
  <2> QED
    BY <1>1, <1>2, OneByOne
<1>4. n - m \in D /\ m + (n - m) = n
  BY <1>3
<1> QED
  BY <1>4

\* And so there is a fold.
LEMMA FoldExists ==
  ASSUME NEW n \in Nat, NEW V, NEW base, NEW step, StepsIn(n, V, base, step)
  PROVE  \E F \in [SUBSET (1 .. n) -> V] : IsFold(F, n, V, base, step)
<1> DEFINE Run(h, s) == IsRun(h, s, n, V, base, step)
           H(s) == CHOOSE h : Run(h, s)
           F == [s \in SUBSET (1 .. n) |-> H(s)[n]]
<1>1. \A s : Run(H(s), s)
  <2>1. \A s : \E h : Run(h, s)
    BY RunExists
  <2> HIDE DEF Run
  <2> QED
    BY <2>1
<1> HIDE DEF H
<1>2. F[{}] = base
  <2>1. {} \in SUBSET (1 .. n) /\ F[{}] = H({})[n]
    OBVIOUS
  <2>2. H({})[n] = H({})[0]
    <3>1. Run(H({}), {}) /\ 0 \in 0 .. n
      BY <1>1
    <3> QED
      BY <3>1, RunStays
  <2>3. H({})[0] = base
    BY <1>1 DEF IsRun
  <2> QED
    BY <2>1, <2>2, <2>3
<1>3. ASSUME NEW s \in SUBSET (1 .. n), s # {}
      PROVE  F[s] = step[Max(s)][F[s \ {Max(s)}]]
  <2> DEFINE m == Max(s)
             r == s \ {m}
  <2>1. m \in s /\ \A i \in s : i <= m
    BY <1>3, MaxWithin
  <2> HIDE DEF m
  <2>2. m \in 1 .. n /\ m \in 0 .. n /\ m - 1 \in 0 .. n
    BY <2>1
  <2>3. H(s)[n] = H(s)[m]
    <3>1. \A i \in m + 1 .. n : i \notin s
      BY <2>1, <2>2
    <3> QED
      BY <1>1, <2>2, <3>1, RunStays
  <2>4. H(r)[n] = H(r)[m - 1]
    <3>1. \A i \in (m - 1) + 1 .. n : i \notin r
      BY <2>1, <2>2
    <3>2. Run(H(r), r)
      BY <1>1
    <3> HIDE DEF r
    <3> QED
      BY <2>2, <3>1, <3>2, RunStays
  <2>5. H(s)[m - 1] = H(r)[m - 1]
    <3>1. \A i \in 1 .. m - 1 : i \in s <=> i \in r
      BY <2>2
    <3>2. Run(H(r), r) /\ Run(H(s), s)
      BY <1>1
    <3> HIDE DEF r
    <3> QED
      BY <2>2, <3>1, <3>2, RunsAgree
  <2>6. H(s)[m] = step[m][H(s)[m - 1]]
    BY <1>1, <2>1, <2>2 DEF IsRun
  <2>7. F[s] = H(s)[n] /\ F[r] = H(r)[n]
    OBVIOUS
  <2> HIDE DEF F
  <2> QED
    BY <2>3, <2>4, <2>5, <2>6, <2>7 DEF m
<1>4. F \in [SUBSET (1 .. n) -> V]
  <2>1. \A s : H(s)[n] \in V
    BY <1>1 DEF IsRun
  <2> QED
    BY <2>1
<1> HIDE DEF F
<1> QED
  BY <1>2, <1>3, <1>4 DEF IsFold

\* A fold is the running total.
LEMMA FoldTotal ==
  ASSUME NEW n \in Nat, NEW V, NEW base, NEW step, NEW F, IsFold(F, n, V, base, step),
         NEW h \in [0 .. n -> V], IsTotal(h, n, base, step)
  PROVE  F[1 .. n] = h[n]
<1> DEFINE D == {k \in Nat : k <= n => F[1 .. k] = h[k]}
<1>a. ASSUME NEW s \in SUBSET (1 .. n), s # {}, F[s \ {Max(s)}] \in V
      PROVE  F[s] = step[Max(s)][F[s \ {Max(s)}]]
  BY <1>a, Zenon DEF IsFold
<1>1. 0 \in D
  <2>1. 1 .. 0 = {} /\ {} \in SUBSET (1 .. n)
    OBVIOUS
  <2> QED
    BY <2>1 DEF IsTotal, IsFold
<1>2. ASSUME NEW k \in Nat, k \in D PROVE k + 1 \in D
  <2>1. CASE k + 1 <= n
    <3> DEFINE s == 1 .. k + 1
    <3>1. s \in SUBSET (1 .. n) /\ s # {}
      <4>1. 1 \in s /\ \A i \in s : i \in 1 .. n
        BY <2>1
      <4> QED
        BY <4>1
    <3>3. Max(s) = k + 1
      BY MaxOfAll
    <3>4. s \ {k + 1} = 1 .. k
      OBVIOUS
    <3>6. F[1 .. k] = h[k] /\ k + 1 \in 1 .. n /\ (k + 1) - 1 = k /\ k \in 0 .. n
      BY <1>2, <2>1
    <3>5. F[s] = step[k + 1][F[1 .. k]]
      <4> HIDE DEF s
      <4>1. F[1 .. k] \in V
        BY <3>6
      <4> QED
        BY <1>a, <3>1, <3>3, <3>4, <4>1
    <3> QED
      BY <3>5, <3>6 DEF IsTotal
  <2> QED
    BY <2>1
<1>3. Nat \subseteq D
  <2> HIDE DEF D
  <2> QED
    BY <1>1, <1>2, OneByOne
<1> QED
  BY <1>3

\* A running total exists.
LEMMA TotalExists ==
  ASSUME NEW n \in Nat, NEW V, NEW base, NEW step, StepsIn(n, V, base, step)
  PROVE  \E h \in [0 .. n -> V] : IsTotal(h, n, base, step)
<1>1. PICK h : IsRun(h, 1 .. n, n, V, base, step)
  BY RunExists
<1> QED
  BY <1>1 DEF IsRun, IsTotal

\* A sum over a sequence: FoldLeft's value is the last of its running totals.
LEMMA DecimalTotal ==
  ASSUME NEW s, NEW n \in Nat, DOMAIN s = 1 .. n, \A i \in 1 .. n : IsDigit(s[i])
  PROVE  DecimalValue(s) \in Nat
<1> DEFINE step == [i \in 1 .. n |-> [v \in Nat |-> 10 * v + (s[i] - Zero)]]
           Steps(F) == F = [x \in SUBSET (1 .. n) |-> IF x = {} THEN 0
                          ELSE 10 * F[x \ {Max(x)}] + (s[Max(x)] - Zero)]
           F == CHOOSE F : Steps(F)
<1>1. DecimalValue(s) = F[1 .. n]
  BY DEF DecimalValue, FoldLeft, MapThenFoldSet
<1>2. StepsIn(n, Nat, 0, step)
  <2>1. \A i \in 1 .. n : s[i] - Zero \in Nat
    BY DEF IsDigit, Zero
  <2>2. \A i \in 1 .. n : \A v \in Nat : 10 * v + (s[i] - Zero) \in Nat
    BY <2>1
  <2> QED
    BY <2>2 DEF StepsIn
<1>3. \A x \in SUBSET (1 .. n) : x # {} => Max(x) \in 1 .. n
  BY MaxWithin
<1>4. PICK G \in [SUBSET (1 .. n) -> Nat] : IsFold(G, n, Nat, 0, step)
  <2> HIDE DEF step
  <2> QED
    BY <1>2, FoldExists
<1>5. Steps(G)
  <2>1. ASSUME NEW x \in SUBSET (1 .. n), x # {}
        PROVE  G[x] = 10 * G[x \ {Max(x)}] + (s[Max(x)] - Zero)
    <3>1. x \ {Max(x)} \in SUBSET (1 .. n) /\ G[x \ {Max(x)}] \in Nat
      OBVIOUS
    <3>2. G[x] = step[Max(x)][G[x \ {Max(x)}]]
      <4> HIDE DEF step
      <4> QED
        BY <1>4, <2>1, <3>1 DEF IsFold
    <3>3. Max(x) \in 1 .. n
      BY <1>3, <2>1
    <3> QED
      BY <3>1, <3>2, <3>3
  <2>2. G[{}] = 0 /\ DOMAIN G = SUBSET (1 .. n)
    BY <1>4 DEF IsFold
  <2> QED
    BY <2>1, <2>2
<1>6. Steps(F)
  <2> HIDE DEF Steps
  <2> QED
    BY <1>5
<1> HIDE DEF F
<1>7. IsFold(F, n, Nat, 0, step)
  <2>1. F[{}] = 0
    BY <1>6
  <2>2. ASSUME NEW x \in SUBSET (1 .. n), x # {}, F[x \ {Max(x)}] \in Nat
        PROVE  F[x] = step[Max(x)][F[x \ {Max(x)}]]
    <3>1. Max(x) \in 1 .. n
      BY <1>3, <2>2
    <3>2. F[x] = 10 * F[x \ {Max(x)}] + (s[Max(x)] - Zero)
      BY <1>6, <2>2
    <3> QED
      BY <2>2, <3>1, <3>2
  <2> HIDE DEF step, Steps
  <2> QED
    BY <2>1, <2>2 DEF IsFold
<1>8. PICK h \in [0 .. n -> Nat] : IsTotal(h, n, 0, step)
  <2> HIDE DEF step
  <2> QED
    BY <1>2, TotalExists
<1>9. F[1 .. n] = h[n]
  <2> HIDE DEF step
  <2> QED
    BY <1>7, <1>8, FoldTotal
<1>10. h[n] \in Nat
  OBVIOUS
<1> QED
  BY <1>1, <1>9, <1>10

-----------------------------------------------------------------------------
\* Offsets and numbers in a text.

\* A slice of a text is a text of the bytes in between.
LEMMA SliceOf ==
  ASSUME NEW S, NEW t \in Seq(S), NEW i \in Nat, NEW j \in Nat, i <= j, j <= Len(t)
  PROVE  /\ Slice(t, i, j) \in Seq(S) /\ Len(Slice(t, i, j)) = j - i
         /\ \A k \in 1 .. j - i : Slice(t, i, j)[k] = t[i + k]
<1>1. Len(t) \in Nat /\ \A k \in 1 .. Len(t) : t[k] \in S
  OBVIOUS
<1>2. \A k \in i + 1 .. j : t[k] \in S
  BY <1>1
<1>3. /\ SubSeq(t, i + 1, j) \in Seq(S)
      /\ Len(SubSeq(t, i + 1, j)) = IF i + 1 <= j THEN j - (i + 1) + 1 ELSE 0
      /\ \A k \in 1 .. j - (i + 1) + 1 : SubSeq(t, i + 1, j)[k] = t[(i + 1) + k - 1]
  <2>1. i + 1 \in Int /\ j \in Int
    OBVIOUS
  <2> QED
    BY <1>2, <2>1, SubSeqProperties
<1>4. /\ j - (i + 1) + 1 = j - i /\ \A k \in Int : (i + 1) + k - 1 = i + k
      /\ (IF i + 1 <= j THEN j - (i + 1) + 1 ELSE 0) = j - i
  OBVIOUS
<1>5. /\ Len(SubSeq(t, i + 1, j)) = j - i
      /\ \A k \in 1 .. j - i : SubSeq(t, i + 1, j)[k] = t[i + k]
  <2>1. \A k \in 1 .. j - i : k \in Int
    OBVIOUS
  <2> QED
    BY <1>3, <1>4, <2>1
<1> QED
  BY <1>3, <1>5 DEF Slice

\* What buffer_skip_whitespace does to an offset.
LEMMA SkipAt ==
  ASSUME Text \in Seq(Nat), NEW o \in Nat, NEW r, r = buffer_skip_whitespace(o)
  PROVE  /\ r \in Nat /\ o <= r
         /\ CanRead(o) => CanRead(r)
         /\ ~CanRead(o) => r = o
<1> DEFINE ends == {i \in o .. Len(Text) : i = Len(Text) \/ At(Text, i) > Blank}
<1>1. Len(Text) \in Nat
  OBVIOUS
<1>2. CASE ~CanRead(o)
  BY <1>2 DEF buffer_skip_whitespace
<1>3. CASE CanRead(o)
  <2>1. o < Len(Text)
    BY <1>3 DEF CanRead
  <2>2. ends \in SUBSET Int /\ ends # {} /\ \A x \in ends : o <= x
    <3>1. Len(Text) \in ends
      BY <1>1, <2>1
    <3> QED
      BY <3>1
  <2> DEFINE m == Min(ends)
  <2>3. m \in ends
    <3> HIDE DEF ends
    <3> QED
      BY <2>2, MinOf
  <2>4. r = IF m = Len(Text) THEN Len(Text) - 1 ELSE m
    BY <1>3 DEF buffer_skip_whitespace
  <2>5. m \in o .. Len(Text)
    BY <2>3
  <2> HIDE DEF m
  <2>6. r \in Nat /\ o <= r /\ r < Len(Text)
    BY <1>1, <2>1, <2>4, <2>5
  <2> QED
    BY <1>3, <2>6 DEF CanRead
<1> QED
  BY <1>2, <1>3

\* A byte order mark is skipped inside the text.
LEMMA BomAt ==
  ASSUME Text \in Seq(Nat)
  PROVE  skip_utf8_bom(0) \in Nat
BY DEF skip_utf8_bom

\* The text that parse_number copies for strtod lies in the text.
LEMMA NumberText ==
  ASSUME NEW t \in Seq(Nat), NEW o \in Nat, o <= Len(t), NEW s, s = NumberAt(t, o)
  PROVE  s \in Seq(Nat) /\ o + Len(s) <= Len(t)
<1> DEFINE ks == {k \in 0 .. NumberBuf - 1 :
                    o + k <= Len(t) /\ \A i \in o .. o + k - 1 : At(t, i) \in NumberBytes}
           n == Max(ks)
<1>1. ks \in SUBSET Int /\ NumberBuf \in Int /\ \A k \in ks : k <= NumberBuf
  BY TextAssumption
<1>2. 0 \in ks
  <2>1. o .. o + 0 - 1 = {} /\ 0 \in 0 .. NumberBuf - 1 /\ o + 0 <= Len(t)
    BY TextAssumption
  <2> QED
    BY <2>1
<1>3. n \in ks
  <2> HIDE DEF ks
  <2> QED
    BY <1>1, <1>2, MaxOf
<1>4. n \in Nat /\ o + n <= Len(t)
  BY <1>3
<1>5. s = Slice(t, o, o + n)
  BY DEF NumberAt
<1> HIDE DEF n, ks
<1>6. Slice(t, o, o + n) \in Seq(Nat) /\ Len(Slice(t, o, o + n)) = (o + n) - o
  <2>1. o + n \in Nat /\ o <= o + n
    BY <1>4
  <2> QED
    BY <1>4, <2>1, SliceOf
<1> QED
  BY <1>4, <1>5, <1>6

\* What a literal of a number is worth is a number.
LEMMA PowerInt == \A e \in Nat : 10 ^ e \in Int
OBVIOUS

LEMMA DecimalOfSlice ==
  ASSUME NEW s \in Seq(Nat), NEW i \in Nat, NEW j \in Nat, i <= j, j <= Len(s),
         \A k \in i .. j - 1 : IsDigit(At(s, k))
  PROVE  DecimalValue(Slice(s, i, j)) \in Nat
<1> DEFINE u == Slice(s, i, j)
<1>1. u \in Seq(Nat) /\ Len(u) = j - i /\ \A k \in 1 .. j - i : u[k] = s[i + k]
  BY SliceOf
<1> HIDE DEF u
<1>2. ASSUME NEW k \in 1 .. j - i PROVE IsDigit(u[k])
  <2>1. i + k - 1 \in i .. j - 1 /\ (i + k - 1) + 1 = i + k
    OBVIOUS
  <2>2. IsDigit(s[(i + k - 1) + 1])
    BY <2>1 DEF At
  <2> QED
    BY <1>1, <2>1, <2>2
<1>3. j - i \in Nat /\ DOMAIN u = 1 .. j - i
  BY <1>1
<1>4. DecimalValue(u) \in Nat
  BY <1>2, <1>3, DecimalTotal
<1> QED
  BY <1>4 DEF u

\* strtod does not read behind the text it is given.
LEMMA StrtodFits ==
  ASSUME NEW s \in Seq(Nat), NEW n, n = strtod(s)
  PROVE  n.length \in Nat /\ n.length <= Len(s) /\ n.value \in Int
<1> DEFINE sign == IF s[1] = Minus THEN 1 ELSE 0
           Digits(i, j) == i < j /\ \A k \in i .. j - 1 : IsDigit(At(s, k))
           plain == {x \in 1 .. Len(s) : Digits(sign, x)}
           m     == Max(plain)
           power == {x \in m + 2 .. Len(s) : At(s, m) = Exp /\ Digits(m + 1, x)}
           e     == IF power = {} THEN 0 ELSE DecimalValue(Slice(s, m + 1, Max(power)))
           d     == DecimalValue(Slice(s, sign, m))
           v     == IF d = 0 THEN 0 ELSE IF e > 2 THEN Infinity ELSE d * 10 ^ e
           w     == IF sign = 1 THEN -v ELSE v
           len   == IF power = {} THEN m ELSE Max(power)
<1>0. Len(s) \in Nat /\ sign \in {0, 1}
  OBVIOUS
<1>1. n = IF plain = {} THEN [length |-> 0, value |-> 0] ELSE [length |-> len, value |-> w]
  BY DEF strtod
<1>2. CASE plain = {}
  <2>1. n.length = 0 /\ n.value = 0
    <3> HIDE DEF len, w, plain
    <3> QED
      BY <1>1, <1>2
  <2> QED
    BY <1>0, <2>1
<1>3. CASE plain # {}
  <2>1. m \in plain
    <3>1. plain \in SUBSET (1 .. Len(s))
      OBVIOUS
    <3> HIDE DEF plain
    <3> QED
      BY <1>0, <1>3, <3>1, MaxWithin
  <2>2. m \in Nat /\ 1 <= m /\ m <= Len(s) /\ sign < m
    BY <1>0, <2>1
  <2>a. \A k \in sign .. m - 1 : IsDigit(At(s, k))
    <3> HIDE DEF m
    <3> QED
      BY <2>1
  <2> HIDE DEF m, sign
  <2>3. power # {} => /\ Max(power) \in Nat /\ m + 2 <= Max(power) /\ Max(power) <= Len(s)
                      /\ \A k \in m + 1 .. Max(power) - 1 : IsDigit(At(s, k))
    <3>1. power \in SUBSET (1 .. Len(s))
      BY <2>2
    <3>2. power # {} => Max(power) \in power
      <4> HIDE DEF power
      <4> QED
        BY <1>0, <3>1, MaxWithin
    <3>3. \A x \in power : /\ x \in Nat /\ m + 2 <= x /\ x <= Len(s)
                           /\ \A k \in m + 1 .. x - 1 : IsDigit(At(s, k))
      BY <2>2
    <3> HIDE DEF power
    <3> QED
      BY <3>2, <3>3
  <2> HIDE DEF power
  <2>4. e \in Nat
    <3>1. CASE power # {}
      <4> DEFINE top == Max(power)
      <4>1. /\ m + 1 \in Nat /\ top \in Nat /\ m + 1 <= top /\ top <= Len(s)
            /\ \A k \in m + 1 .. top - 1 : IsDigit(At(s, k))
        BY <2>2, <2>3, <3>1
      <4> HIDE DEF top
      <4>2. DecimalValue(Slice(s, m + 1, top)) \in Nat
        BY <4>1, DecimalOfSlice
      <4> QED
        BY <3>1, <4>2 DEF top
    <3> QED
      BY <3>1
  <2>5. d \in Nat
    <3>1. sign \in Nat /\ sign <= m
      BY <1>0, <2>2
    <3> QED
      BY <2>2, <2>a, <3>1, DecimalOfSlice
  <2> HIDE DEF e, d
  <2>6. v \in Int
    <3>1. 10 ^ e \in Int /\ Infinity \in Int
      BY <2>4, PowerInt DEF Infinity
    <3> DEFINE x == 10 ^ e
    <3> HIDE DEF x
    <3>2. d * x \in Int
      BY <2>5, <3>1 DEF x
    <3> QED
      BY <3>1, <3>2 DEF x
  <2>7. w \in Int /\ len \in Nat /\ len <= Len(s)
    <3> HIDE DEF v
    <3> QED
      BY <2>2, <2>3, <2>6
  <2>8. n.length = len /\ n.value = w
    <3> HIDE DEF len, w
    <3> QED
      BY <1>1, <1>3
  <2> QED
    BY <2>7, <2>8
<1> QED
  BY <1>2, <1>3

-----------------------------------------------------------------------------
\* Numbers and strings as they are printed.

\* A definition of a function on the naturals from its values below.
DefinedBelow(V, leaf, base, jump, comb) ==
  \A i \in Nat : IF i \in leaf THEN base[i] \in V
                 ELSE jump[i] \in 0 .. i - 1 /\ \A v \in V : comb[i][v] \in V

\* Such a function exists.
LEMMA RecursionBelow ==
  ASSUME NEW V, NEW leaf, NEW base, NEW jump, NEW comb, DefinedBelow(V, leaf, base, jump, comb)
  PROVE  \E f \in [Nat -> V] : \A i \in Nat :
           f[i] = IF i \in leaf THEN base[i] ELSE comb[i][f[jump[i]]]
<1> DEFINE Good(n, f) == /\ f \in [0 .. n -> V]
                         /\ \A i \in 0 .. n :
                              f[i] = IF i \in leaf THEN base[i] ELSE comb[i][f[jump[i]]]
           S == {n \in Nat : \E f : Good(n, f)}
<1>0. \A i \in Nat : IF i \in leaf THEN base[i] \in V
                     ELSE jump[i] \in 0 .. i - 1 /\ \A v \in V : comb[i][v] \in V
  BY DEF DefinedBelow
<1>1. 0 \in S
  <2>1. 0 \in leaf /\ base[0] \in V
    <3>1. 0 .. 0 - 1 = {}
      OBVIOUS
    <3> QED
      BY <1>0, <3>1
  <2>2. Good(0, [i \in 0 .. 0 |-> base[0]])
    <3>1. 0 .. 0 = {0}
      OBVIOUS
    <3> QED
      BY <2>1, <3>1
  <2> HIDE DEF Good
  <2> QED
    BY <2>2
<1>2. ASSUME NEW n \in Nat, NEW f, Good(n, f) PROVE \E g : Good(n + 1, g)
  <2> DEFINE new == IF n + 1 \in leaf THEN base[n + 1] ELSE comb[n + 1][f[jump[n + 1]]]
             g == [i \in 0 .. n + 1 |-> IF i = n + 1 THEN new ELSE f[i]]
  <2>1. new \in V
    <3>1. n + 1 \in Nat /\ (n + 1) - 1 = n
      OBVIOUS
    <3> QED
      BY <1>0, <1>2, <3>1
  <2>2. g \in [0 .. n + 1 -> V]
    <3> HIDE DEF new
    <3>1. \A i \in 0 .. n + 1 : i # n + 1 => i \in 0 .. n
      OBVIOUS
    <3> QED
      BY <1>2, <2>1, <3>1
  <2>3. ASSUME NEW i \in 0 .. n + 1
        PROVE  g[i] = IF i \in leaf THEN base[i] ELSE comb[i][g[jump[i]]]
    <3>1. i \notin leaf => jump[i] \in 0 .. n /\ g[jump[i]] = f[jump[i]]
      <4>1. i \notin leaf => jump[i] \in 0 .. i - 1
        BY <1>0, <1>2
      <4> HIDE DEF new
      <4> QED
        BY <4>1
    <3>2. CASE i = n + 1
      <4>1. g[i] = new
        BY <3>2
      <4> HIDE DEF g
      <4> QED
        BY <3>1, <3>2, <4>1
    <3>3. CASE i # n + 1
      <4>1. i \in 0 .. n /\ g[i] = f[i]
        <5> HIDE DEF new
        <5> QED
          BY <3>3
      <4> HIDE DEF g
      <4> QED
        BY <1>2, <3>1, <4>1
    <3> QED
      BY <3>2, <3>3
  <2> HIDE DEF g
  <2> QED
    BY <2>2, <2>3
<1> HIDE DEF Good
<1>3. Nat \subseteq S
  <2>1. \A n \in Nat : n \in S => n + 1 \in S
    BY <1>2
  <2> HIDE DEF S
  <2> QED
    BY <1>1, <2>1, OneByOne
<1>4. ASSUME NEW n \in Nat, NEW m \in Nat, NEW f, NEW g, Good(n, f), Good(m, g)
      PROVE  \A k \in Nat : k <= n /\ k <= m => f[k] = g[k]
  <2> DEFINE D == {k \in Nat : k <= n /\ k <= m => f[k] = g[k]}
  <2>1. ASSUME NEW k \in Nat, \A j \in Nat : j < k => j \in D, k <= n, k <= m
        PROVE  f[k] = g[k]
    <3>1. /\ f[k] = IF k \in leaf THEN base[k] ELSE comb[k][f[jump[k]]]
          /\ g[k] = IF k \in leaf THEN base[k] ELSE comb[k][g[jump[k]]]
      <4>1. k \in 0 .. n /\ k \in 0 .. m
        BY <2>1
      <4> QED
        BY <1>4, <4>1 DEF Good
    <3>2. k \notin leaf => f[jump[k]] = g[jump[k]]
      <4>1. k \notin leaf => jump[k] \in 0 .. k - 1
        BY <1>0
      <4> QED
        BY <2>1, <4>1
    <3> QED
      BY <3>1, <3>2
  <2>2. \A k \in Nat : (\A j \in Nat : j < k => j \in D) => k \in D
    BY <2>1
  <2>3. Nat \subseteq D
    <3> HIDE DEF D
    <3> QED
      BY <2>2, Upwards
  <2> QED
    BY <2>3
<1> DEFINE H(n) == CHOOSE f : Good(n, f)
           F == [n \in Nat |-> H(n)[n]]
<1>5. \A n \in Nat : Good(n, H(n))
  BY <1>3
<1> HIDE DEF H
<1>6. F \in [Nat -> V]
  <2>1. ASSUME NEW n \in Nat PROVE H(n)[n] \in V
    <3>1. n \in 0 .. n
      OBVIOUS
    <3> QED
      BY <1>5, <3>1 DEF Good
  <2> QED
    BY <2>1
<1>7. ASSUME NEW n \in Nat PROVE F[n] = IF n \in leaf THEN base[n] ELSE comb[n][F[jump[n]]]
  <2>1. F[n] = H(n)[n]
    OBVIOUS
  <2>2. H(n)[n] = IF n \in leaf THEN base[n] ELSE comb[n][H(n)[jump[n]]]
    <3>1. n \in 0 .. n
      OBVIOUS
    <3> QED
      BY <1>5, <3>1 DEF Good
  <2>3. ASSUME n \notin leaf PROVE F[jump[n]] = H(n)[jump[n]]
    <3> DEFINE k == jump[n]
    <3>1. k \in 0 .. n - 1
      BY <1>0, <2>3
    <3> HIDE DEF k
    <3>2. k \in Nat /\ k <= n /\ k <= k
      BY <3>1
    <3>3. H(k)[k] = H(n)[k]
      BY <1>4, <1>5, <3>2
    <3> QED
      BY <3>2, <3>3 DEF k
  <2> HIDE DEF F
  <2> QED
    BY <2>1, <2>2, <2>3
<1> HIDE DEF F
<1> QED
  BY <1>6, <1>7

\* The bytes a C string is made of.
Visible == Nat \ {Nul}

\* The decimal digits of a number, and its sign, are bytes other than NUL.
LEMMA DecimalType ==
  ASSUME NEW v \in Int
  PROVE  Decimal(v) \in Seq(Visible)
<1> DEFINE V == Seq(Visible)
           leaf == {n \in Nat : n < 10}
           base == [n \in Nat |-> <<Zero + n>>]
           jump == [n \in Nat |-> n \div 10]
           comb == [n \in Nat |-> [w \in V |-> Append(w, Zero + (n % 10))]]
           Step(f, n) == IF n < 10 THEN <<Zero + n>> ELSE Append(f[n \div 10], Zero + (n % 10))
           Steps(g) == g = [n \in Nat |-> Step(g, n)]
           g == CHOOSE g : Steps(g)
<1>0. Zero \in Nat \ {0}
  BY DEF Zero
<1>1. \A n \in Nat : <<Zero + n>> \in V /\ \A w \in V : Append(w, Zero + (n % 10)) \in V
  <2>1. \A n \in Nat : Zero + n \in Visible /\ Zero + (n % 10) \in Visible
    BY <1>0 DEF Visible, Nul
  <2>2. \A x \in Visible : <<x>> \in Seq(Visible) /\ \A w \in Seq(Visible) : Append(w, x) \in Seq(Visible)
    BY AppendProperties
  <2> QED
    BY <2>1, <2>2
<1>2. \A n \in Nat : ~(n < 10) => n \div 10 \in 0 .. n - 1
  OBVIOUS
<1>3. PICK f \in [Nat -> V] : \A n \in Nat :
        f[n] = IF n \in leaf THEN base[n] ELSE comb[n][f[jump[n]]]
  <2>1. DefinedBelow(V, leaf, base, jump, comb)
    <3>1. ASSUME NEW n \in Nat
          PROVE  IF n \in leaf THEN base[n] \in V
                 ELSE jump[n] \in 0 .. n - 1 /\ \A w \in V : comb[n][w] \in V
      <4> HIDE DEF V
      <4> QED
        BY <1>1, <1>2
    <3> HIDE DEF V, leaf, base, jump, comb
    <3> QED
      BY <3>1 DEF DefinedBelow
  <2> HIDE DEF V, leaf, base, jump, comb
  <2> QED
    BY <2>1, RecursionBelow
<1>4. Steps(f)
  <2>1. ASSUME NEW n \in Nat PROVE f[n] = Step(f, n)
    <3>1. CASE n < 10
      BY <1>3, <3>1
    <3>2. CASE ~(n < 10)
      <4>1. f[n] = comb[n][f[jump[n]]] /\ jump[n] = n \div 10
        BY <1>3, <3>2
      <4>2. f[n \div 10] \in V
        BY <1>2, <3>2
      <4> HIDE DEF V
      <4> QED
        BY <3>2, <4>1, <4>2
    <3> QED
      BY <3>1, <3>2
  <2> HIDE DEF Step
  <2> QED
    BY <2>1
<1>5. Steps(g)
  <2> HIDE DEF Steps
  <2> QED
    BY <1>4
<1>6. Decimal(v) = IF v < 0 THEN <<Minus>> \o g[-v] ELSE g[v]
  BY DEF Decimal
<1> HIDE DEF g
<1>7. \A n \in Nat : g[n] \in V
  <2> DEFINE D == {n \in Nat : g[n] \in V}
  <2>1. ASSUME NEW n \in Nat, \A m \in Nat : m < n => m \in D PROVE g[n] \in V
    <3>1. g[n] = Step(g, n)
      <4> HIDE DEF Step
      <4> QED
        BY <1>5
    <3>2. CASE n < 10
      BY <1>1, <3>1, <3>2
    <3>3. CASE ~(n < 10)
      <4>1. g[n \div 10] \in V
        BY <1>2, <2>1, <3>3
      <4> HIDE DEF V
      <4> QED
        BY <1>1, <3>1, <3>3, <4>1
    <3> QED
      BY <3>2, <3>3
  <2>2. Nat \subseteq D
    <3>1. \A n \in Nat : (\A m \in Nat : m < n => m \in D) => n \in D
      BY <2>1
    <3> HIDE DEF D
    <3> QED
      BY <3>1, Upwards
  <2> QED
    BY <2>2
<1>8. CASE v < 0
  <2>1. g[-v] \in Seq(Visible) /\ <<Minus>> \in Seq(Visible)
    BY <1>7, <1>8 DEF Minus, Visible, Nul
  <2> QED
    BY <1>6, <1>8, <2>1, ConcatProperties
<1>9. CASE ~(v < 0)
  BY <1>6, <1>7, <1>9
<1> QED
  BY <1>8, <1>9

\* What strlen sees of a string is a string, as long at most and without a NUL.
LEMMA CStringOf ==
  ASSUME NEW s \in Seq(Nat), NEW c, c = CString(s)
  PROVE  /\ c \in Seq(Visible) /\ Len(c) \in Nat /\ Len(c) <= Len(s)
         /\ Len(c) < Len(s) => s[Len(c) + 1] = Nul
         /\ (\E i \in 1 .. Len(s) : s[i] = Nul) => Len(c) < Len(s)
<1> DEFINE I == {i \in 1 .. Len(s) : s[i] = Nul}
           z == IF I # {} THEN Min(I) ELSE 0
<1>1. c = IF z = 0 THEN s ELSE SubSeq(s, 1, z - 1)
  BY DEF CString, SelectInSeq
<1>2. Len(s) \in Nat
  OBVIOUS
<1>3. CASE I = {}
  <2>1. c = s
    BY <1>1, <1>3
  <2>2. s \in Seq(Visible)
    <3>1. \A i \in 1 .. Len(s) : s[i] \in Visible
      BY <1>3 DEF Visible
    <3>2. s = [i \in 1 .. Len(s) |-> s[i]]
      OBVIOUS
    <3> QED
      BY <1>2, <3>1, <3>2
  <2> QED
    BY <1>2, <1>3, <2>1, <2>2
<1>4. CASE I # {}
  <2>1. Min(I) \in I /\ \A x \in I : Min(I) <= x
    <3>1. I \in SUBSET Int /\ \A x \in I : 1 <= x
      BY <1>2
    <3> HIDE DEF I
    <3> QED
      BY <1>4, <3>1, MinOf
  <2>2. z \in 1 .. Len(s) /\ s[z] = Nul
    BY <1>4, <2>1
  <2>a. \A i \in 1 .. z - 1 : s[i] \in Visible
    BY <1>4, <2>1, SMTT(30) DEF Visible
  <2> HIDE DEF z
  <2>3. c = SubSeq(s, 1, z - 1)
    BY <1>1, <2>2
  <2>4. /\ SubSeq(s, 1, z - 1) \in Seq(Visible)
        /\ Len(SubSeq(s, 1, z - 1)) = IF 1 <= z - 1 THEN z - 1 - 1 + 1 ELSE 0
    <3>2. 1 \in Int /\ z - 1 \in Int
      BY <2>2
    <3> QED
      BY <2>a, <3>2, SubSeqProperties
  <2>5. Len(c) = z - 1 /\ Len(c) + 1 = z
    BY <2>2, <2>3, <2>4
  <2> QED
    BY <1>2, <2>2, <2>3, <2>4, <2>5
<1> QED
  BY <1>3, <1>4

\* A hexadecimal digit is printed as a byte other than NUL.
LEMMA HexNat == \A n \in Nat : Hex(n) \in Visible
BY DEF Hex, Zero, Visible, Nul

\* What print_string_ptr makes of a byte has the length its first pass counted.
LEMMA EscapedOf ==
  ASSUME NEW c \in Nat
  PROVE  Escaped(c) \in Seq(Visible) /\ EscapeBytes(c) \in Nat /\ Len(Escaped(c)) = 1 + EscapeBytes(c)
<1> DEFINE hit == {e \in ShortEscapes : e[2] = c /\ c # Slash}
           x == (CHOOSE e \in hit : TRUE)[1]
           h1 == Hex(c \div 16)
           h2 == Hex(c % 16)
<1>0. Backslash \in Visible /\ LetterU \in Visible /\ Zero \in Visible
  BY DEF Backslash, LetterU, Zero, Visible, Nul
<1>1. h1 \in Visible /\ h2 \in Visible
  <2>1. c \div 16 \in Nat /\ c % 16 \in Nat
    OBVIOUS
  <2> QED
    BY <2>1, HexNat
<1>2. Escaped(c) = IF hit # {} THEN <<Backslash, x>>
                   ELSE IF c < 32 THEN <<Backslash, LetterU, Zero, Zero, h1, h2>> ELSE <<c>>
  BY DEF Escaped
<1>3. hit # {} => x \in Visible
  <2>1. \A e \in ShortEscapes : e[1] \in Visible
    BY DEF ShortEscapes, Quote, Backslash, Slash, Visible, Nul
  <2>2. hit # {} => (CHOOSE e \in hit : TRUE) \in hit
    OBVIOUS
  <2> QED
    BY <2>1, <2>2
<1>4. EscapeBytes(c) = IF hit # {} THEN 1 ELSE IF c < 32 THEN 5 ELSE 0
  <2>1. hit # {} <=> c \in {e[2] : e \in ShortEscapes} \ {Slash}
    <3> HIDE DEF x
    <3> QED
      OBVIOUS
  <2> QED
    BY <2>1 DEF EscapeBytes
<1> HIDE DEF h1, h2, x, hit
<1>5. CASE hit # {}
  <2>1. <<Backslash, x>> \in Seq(Visible) /\ Len(<<Backslash, x>>) = 2
    BY <1>0, <1>3, <1>5
  <2> QED
    BY <1>2, <1>4, <1>5, <2>1
<1>6. CASE hit = {} /\ c < 32
  <2>1. /\ <<Backslash, LetterU, Zero, Zero, h1, h2>> \in Seq(Visible)
        /\ Len(<<Backslash, LetterU, Zero, Zero, h1, h2>>) = 6
    BY <1>0, <1>1
  <2> QED
    BY <1>2, <1>4, <1>6, <2>1
<1>7. CASE hit = {} /\ ~(c < 32)
  <2>1. <<c>> \in Seq(Visible) /\ Len(<<c>>) = 1
    <3>1. c \in Visible
      BY <1>7 DEF Visible, Nul
    <3> QED
      BY <3>1
  <2> QED
    BY <1>2, <1>4, <1>7, <2>1
<1> QED
  BY <1>5, <1>6, <1>7

\* The concatenations of the first elements of a sequence of sequences.
IsConcat(h, ss) ==
  \A i \in 1 .. Len(ss) : h[i] = IF i = 1 THEN ss[i] ELSE h[i - 1] \o ss[i]

\* A sequence of sequences is flattened from the left.
LEMMA FlattenTotal ==
  ASSUME NEW V, NEW ss \in Seq(V), ss # << >>, NEW h, IsConcat(h, ss)
  PROVE  FlattenSeq(ss) = h[Len(ss)]
<1> DEFINE n == Len(ss)
           Step(f, i) == IF i = 1 THEN ss[i] ELSE f[i - 1] \o ss[i]
           Steps(f) == f = [i \in 1 .. n |-> Step(f, i)]
           g == CHOOSE f : Steps(f)
<1>0. n \in Nat /\ n # 0
  OBVIOUS
<1>1. FlattenSeq(ss) = g[n]
  BY <1>0 DEF FlattenSeq
<1>a. \A i \in 1 .. n : h[i] = Step(h, i)
  BY Zenon DEF IsConcat
<1> DEFINE f == [i \in 1 .. n |-> h[i]]
<1>2. Steps(f)
  <2>1. ASSUME NEW i \in 1 .. n PROVE f[i] = Step(f, i)
    <3>1. f[i] = Step(h, i)
      BY <1>a
    <3>2. CASE i = 1
      BY <3>1, <3>2
    <3>3. CASE i # 1
      <4>1. i - 1 \in 1 .. n
        BY <3>3
      <4>2. f[i - 1] = h[i - 1]
        BY <4>1
      <4>3. Step(f, i) = f[i - 1] \o ss[i] /\ Step(h, i) = h[i - 1] \o ss[i]
        BY <3>3, Zenon
      <4> HIDE DEF f, Step
      <4> QED
        BY <3>1, <4>2, <4>3
    <3> QED
      BY <3>2, <3>3
  <2>2. f = [i \in 1 .. n |-> f[i]]
    OBVIOUS
  <2> HIDE DEF f, Step, n
  <2> QED
    BY <2>1, <2>2
<1>3. Steps(g)
  <2> HIDE DEF Steps
  <2> QED
    BY <1>2
<1> HIDE DEF g
<1> DEFINE D == {k \in Nat : k + 1 <= n => g[k + 1] = h[k + 1]}
<1>b. ASSUME NEW i \in 1 .. n PROVE g[i] = Step(g, i) /\ h[i] = Step(h, i)
  <2> HIDE DEF Step
  <2> QED
    BY <1>3, <1>a
<1>4. 0 \in D
  <2>1. 1 \in 1 .. n
    BY <1>0
  <2> QED
    BY <1>b, <2>1
<1>5. ASSUME NEW k \in Nat, k \in D, (k + 1) + 1 <= n PROVE g[(k + 1) + 1] = h[(k + 1) + 1]
  <2>1. (k + 1) + 1 \in 1 .. n /\ (k + 1) + 1 # 1 /\ ((k + 1) + 1) - 1 = k + 1 /\ k + 1 <= n
    BY <1>5
  <2>2. g[k + 1] = h[k + 1]
    BY <1>5, <2>1
  <2> DEFINE i == (k + 1) + 1
  <2>3. i \in 1 .. n /\ i # 1 /\ i - 1 = k + 1
    BY <2>1
  <2> HIDE DEF i
  <2>4. Step(g, i) = g[i - 1] \o ss[i] /\ Step(h, i) = h[i - 1] \o ss[i]
    BY <2>3, Zenon
  <2> HIDE DEF Step
  <2>5. g[i] = h[i]
    BY <1>b, <2>2, <2>3, <2>4
  <2> QED
    BY <2>5 DEF i
<1>6. Nat \subseteq D
  <2>1. \A k \in Nat : k \in D => k + 1 \in D
    BY <1>5
  <2> HIDE DEF D
  <2> QED
    BY <1>4, <2>1, OneByOne
<1>7. n - 1 \in D /\ (n - 1) + 1 = n
  BY <1>0, <1>6
<1> QED
  BY <1>1, <1>7

-----------------------------------------------------------------------------
\* Sums over sequences.

\* Flattening stays in a set that is closed under concatenation.
LEMMA FlattenIn ==
  ASSUME NEW V, NEW ss \in Seq(V), ss # << >>, \A v, w \in V : v \o w \in V
  PROVE  \E h \in [0 .. Len(ss) -> V] : IsConcat(h, ss) /\ FlattenSeq(ss) = h[Len(ss)]
<1> DEFINE n == Len(ss)
           step == [i \in 1 .. n |-> [v \in V |-> IF i = 1 THEN ss[i] ELSE v \o ss[i]]]
<1>0. n \in Nat /\ n # 0 /\ 1 \in 1 .. n /\ \A i \in 1 .. n : ss[i] \in V
  OBVIOUS
<1>1. StepsIn(n, V, ss[1], step)
  BY <1>0 DEF StepsIn
<1>2. PICK h \in [0 .. n -> V] : IsTotal(h, n, ss[1], step)
  <2> HIDE DEF n, step
  <2> QED
    BY <1>0, <1>1, TotalExists
<1>3. ASSUME NEW i \in 1 .. n PROVE h[i] = IF i = 1 THEN ss[i] ELSE h[i - 1] \o ss[i]
  <2>1. i - 1 \in 0 .. n /\ h[i] = step[i][h[i - 1]]
    <3> HIDE DEF step
    <3> QED
      BY <1>2 DEF IsTotal
  <2>2. h[i - 1] \in V
    BY <2>1
  <2>3. step[i][h[i - 1]] = IF i = 1 THEN ss[i] ELSE h[i - 1] \o ss[i]
    BY <2>2
  <2> HIDE DEF step
  <2> QED
    BY <2>1, <2>3
<1>4. IsConcat(h, ss)
  <2> HIDE DEF step
  <2> QED
    BY <1>3 DEF IsConcat
<1>5. FlattenSeq(ss) = h[Len(ss)]
  BY <1>4, FlattenTotal
<1> QED
  BY <1>4, <1>5

\* The sum of a sequence of n numbers and base, as FoldLeft makes it.
SumOf(w, n, base) ==
  LET iter[s \in SUBSET (1 .. n)] == IF s = {} THEN base ELSE iter[s \ {Max(s)}] + w[Max(s)]
  IN  iter[1 .. n]

IsSum(h, w, n, base) == h[0] = base /\ \A i \in 1 .. n : h[i] = h[i - 1] + w[i]

\* The running sums exist, and the last of them is the sum.
LEMMA SumExists ==
  ASSUME NEW n \in Nat, NEW w \in [1 .. n -> Int], NEW base \in Int
  PROVE  \E h \in [0 .. n -> Int] : IsSum(h, w, n, base)
<1> DEFINE step == [i \in 1 .. n |-> [v \in Int |-> v + w[i]]]
<1>1. StepsIn(n, Int, base, step)
  BY DEF StepsIn
<1>2. PICK h \in [0 .. n -> Int] : IsTotal(h, n, base, step)
  <2> HIDE DEF step
  <2> QED
    BY <1>1, TotalExists
<1>3. ASSUME NEW i \in 1 .. n PROVE h[i] = h[i - 1] + w[i]
  <2>1. i - 1 \in 0 .. n /\ h[i] = step[i][h[i - 1]]
    <3> HIDE DEF step
    <3> QED
      BY <1>2 DEF IsTotal
  <2>2. h[i - 1] \in Int
    BY <2>1
  <2> QED
    BY <2>1, <2>2
<1> QED
  BY <1>2, <1>3 DEF IsSum, IsTotal

LEMMA SumIs ==
  ASSUME NEW n \in Nat, NEW w \in [1 .. n -> Int], NEW base \in Int,
         NEW h \in [0 .. n -> Int], IsSum(h, w, n, base)
  PROVE  SumOf(w, n, base) = h[n]
<1> DEFINE step == [i \in 1 .. n |-> [v \in Int |-> v + w[i]]]
           Steps(F) == F = [x \in SUBSET (1 .. n) |-> IF x = {} THEN base
                          ELSE F[x \ {Max(x)}] + w[Max(x)]]
           F == CHOOSE F : Steps(F)
<1>1. SumOf(w, n, base) = F[1 .. n]
  BY DEF SumOf
<1>2. StepsIn(n, Int, base, step)
  BY DEF StepsIn
<1>3. \A x \in SUBSET (1 .. n) : x # {} => Max(x) \in 1 .. n
  BY MaxWithin
<1>4. PICK G \in [SUBSET (1 .. n) -> Int] : IsFold(G, n, Int, base, step)
  <2> HIDE DEF step
  <2> QED
    BY <1>2, FoldExists
<1>5. Steps(G)
  <2>1. ASSUME NEW x \in SUBSET (1 .. n), x # {}
        PROVE  G[x] = G[x \ {Max(x)}] + w[Max(x)]
    <3>1. x \ {Max(x)} \in SUBSET (1 .. n) /\ G[x \ {Max(x)}] \in Int
      OBVIOUS
    <3>2. G[x] = step[Max(x)][G[x \ {Max(x)}]]
      <4> HIDE DEF step
      <4> QED
        BY <1>4, <2>1, <3>1 DEF IsFold
    <3>3. Max(x) \in 1 .. n
      BY <1>3, <2>1
    <3> QED
      BY <3>1, <3>2, <3>3
  <2>2. G[{}] = base /\ DOMAIN G = SUBSET (1 .. n)
    BY <1>4 DEF IsFold
  <2> QED
    BY <2>1, <2>2
<1>6. Steps(F)
  <2> HIDE DEF Steps
  <2> QED
    BY <1>5
<1> HIDE DEF F
<1>7. IsFold(F, n, Int, base, step)
  <2>1. F[{}] = base
    BY <1>6
  <2>2. ASSUME NEW x \in SUBSET (1 .. n), x # {}, F[x \ {Max(x)}] \in Int
        PROVE  F[x] = step[Max(x)][F[x \ {Max(x)}]]
    <3>1. Max(x) \in 1 .. n
      BY <1>3, <2>2
    <3>2. F[x] = F[x \ {Max(x)}] + w[Max(x)]
      BY <1>6, <2>2
    <3> QED
      BY <2>2, <3>1, <3>2
  <2> HIDE DEF step, Steps
  <2> QED
    BY <2>1, <2>2 DEF IsFold
<1>8. IsTotal(h, n, base, step)
  <2>1. ASSUME NEW i \in 1 .. n PROVE h[i] = step[i][h[i - 1]]
    <3>1. i - 1 \in 0 .. n /\ h[i] = h[i - 1] + w[i]
      BY DEF IsSum
    <3>2. h[i - 1] \in Int
      BY <3>1
    <3> QED
      BY <3>1, <3>2
  <2> HIDE DEF step
  <2> QED
    BY <2>1 DEF IsTotal, IsSum
<1> HIDE DEF step
<1>9. F[1 .. n] = h[n]
  BY <1>7, <1>8, FoldTotal
<1> QED
  BY <1>1, <1>9

\* Sums of nothing, of one more, and from another base.
LEMMA SumNone ==
  ASSUME NEW w, NEW base \in Int
  PROVE  SumOf(w, 0, base) = base
<1> DEFINE u == [i \in 1 .. 0 |-> 0]
<1>1. SumOf(w, 0, base) = SumOf(u, 0, base)
  <2>1. \A s \in SUBSET (1 .. 0) : s = {}
    OBVIOUS
  <2> DEFINE P(f) == f = [s \in SUBSET (1 .. 0) |-> IF s = {} THEN base ELSE f[s \ {Max(s)}] + w[Max(s)]]
             Q(f) == f = [s \in SUBSET (1 .. 0) |-> IF s = {} THEN base ELSE f[s \ {Max(s)}] + u[Max(s)]]
  <2>2. \A f : P(f) <=> Q(f)
    BY <2>1
  <2>3. (CHOOSE f : P(f)) = (CHOOSE f : Q(f))
    <3> HIDE DEF P, Q
    <3> QED
      BY <2>2, Zenon
  <2> QED
    BY <2>3 DEF SumOf
<1>2. PICK h \in [0 .. 0 -> Int] : IsSum(h, u, 0, base)
  <2>1. u \in [1 .. 0 -> Int]
    OBVIOUS
  <2> HIDE DEF u
  <2> QED
    BY <2>1, SumExists
<1>3. SumOf(u, 0, base) = h[0]
  <2>1. u \in [1 .. 0 -> Int]
    OBVIOUS
  <2> HIDE DEF u
  <2> QED
    BY <1>2, <2>1, SumIs
<1> QED
  BY <1>1, <1>2, <1>3 DEF IsSum

LEMMA SumMore ==
  ASSUME NEW n \in Nat, NEW w \in [1 .. n -> Int], NEW u \in [1 .. n + 1 -> Int],
         NEW base \in Int, \A i \in 1 .. n : u[i] = w[i]
  PROVE  SumOf(u, n + 1, base) = SumOf(w, n, base) + u[n + 1]
<1>0. n + 1 \in Nat
  OBVIOUS
<1>1. PICK h \in [0 .. n + 1 -> Int] : IsSum(h, u, n + 1, base)
  BY <1>0, SumExists
<1>2. SumOf(u, n + 1, base) = h[n + 1]
  BY <1>0, <1>1, SumIs
<1> DEFINE g == [i \in 0 .. n |-> h[i]]
<1>3. g \in [0 .. n -> Int]
  OBVIOUS
<1>4. IsSum(g, w, n, base)
  <2>1. ASSUME NEW i \in 1 .. n PROVE g[i] = g[i - 1] + w[i]
    <3>1. i \in 1 .. n + 1 /\ i - 1 \in 0 .. n /\ i \in 0 .. n
      OBVIOUS
    <3>2. h[i] = h[i - 1] + u[i]
      BY <1>1, <3>1 DEF IsSum
    <3> QED
      BY <3>1, <3>2
  <2>2. g[0] = base
    BY <1>1 DEF IsSum
  <2> HIDE DEF g
  <2> QED
    BY <2>1, <2>2 DEF IsSum
<1>5. SumOf(w, n, base) = g[n] /\ g[n] = h[n]
  <2>1. g[n] = h[n]
    OBVIOUS
  <2> HIDE DEF g
  <2> QED
    BY <1>3, <1>4, <2>1, SumIs
<1>6. h[n + 1] = h[n] + u[n + 1]
  <2>1. n + 1 \in 1 .. n + 1 /\ (n + 1) - 1 = n
    OBVIOUS
  <2> QED
    BY <1>1, <2>1 DEF IsSum
<1> HIDE DEF g
<1> QED
  BY <1>2, <1>5, <1>6

LEMMA SumBase ==
  ASSUME NEW n \in Nat, NEW w \in [1 .. n -> Int], NEW base \in Int, NEW more \in Int
  PROVE  SumOf(w, n, base + more) = SumOf(w, n, base) + more
<1>1. PICK h \in [0 .. n -> Int] : IsSum(h, w, n, base)
  BY SumExists
<1>2. SumOf(w, n, base) = h[n]
  BY <1>1, SumIs
<1> DEFINE g == [i \in 0 .. n |-> h[i] + more]
<1>3. g \in [0 .. n -> Int]
  OBVIOUS
<1>4. IsSum(g, w, n, base + more)
  <2>1. ASSUME NEW i \in 1 .. n PROVE g[i] = g[i - 1] + w[i]
    <3>1. i - 1 \in 0 .. n /\ i \in 0 .. n
      OBVIOUS
    <3>2. h[i] = h[i - 1] + w[i]
      BY <1>1, <3>1 DEF IsSum
    <3>3. h[i] \in Int /\ h[i - 1] \in Int /\ w[i] \in Int
      BY <3>1
    <3> QED
      BY <3>1, <3>2, <3>3
  <2>2. g[0] = base + more
    BY <1>1 DEF IsSum
  <2> HIDE DEF g
  <2> QED
    BY <2>1, <2>2 DEF IsSum
<1>5. g[n] = h[n] + more
  OBVIOUS
<1>6. base + more \in Int
  OBVIOUS
<1> HIDE DEF g
<1>7. SumOf(w, n, base + more) = g[n]
  BY <1>3, <1>4, <1>6, SumIs
<1> QED
  BY <1>2, <1>5, <1>7

LEMMA SumInt ==
  ASSUME NEW n \in Nat, NEW w \in [1 .. n -> Int], NEW base \in Int
  PROVE  SumOf(w, n, base) \in Int
<1>1. PICK h \in [0 .. n -> Int] : IsSum(h, w, n, base)
  BY SumExists
<1>2. SumOf(w, n, base) = h[n]
  BY <1>1, SumIs
<1> QED
  BY <1>2

-----------------------------------------------------------------------------
\* The length of what print_string_ptr writes.

\* Nothing is flattened to nothing.
LEMMA FlattenNone == FlattenSeq(<< >>) = << >>
BY DEF FlattenSeq

\* What escaping adds to a string.
LEMMA AddedBytes ==
  ASSUME NEW s \in Seq(Nat), NEW w, w = [i \in 1 .. Len(s) |-> EscapeBytes(s[i])]
  PROVE  StringNeed(s) = Len(s) + SumOf(w, Len(s), 0) + 3
<1> DEFINE n == Len(s)
           P(f) == f = [x \in SUBSET (1 .. n) |-> IF x = {} THEN 0
                          ELSE f[x \ {Max(x)}] + w[Max(x)]]
           Q(f) == f = [x \in SUBSET DOMAIN s |-> IF x = {} THEN 0
                          ELSE f[x \ {Max(x)}] + EscapeBytes(s[Max(x)])]
<1>1. \A x \in SUBSET (1 .. n) : x # {} => Max(x) \in 1 .. n
  <2>1. n \in Nat
    OBVIOUS
  <2> HIDE DEF n
  <2> QED
    BY <2>1, MaxWithin
<1>2. DOMAIN s = 1 .. n
  OBVIOUS
<1>3. ASSUME NEW f PROVE P(f) <=> Q(f)
  <2> DEFINE a == [x \in SUBSET (1 .. n) |-> IF x = {} THEN 0 ELSE f[x \ {Max(x)}] + w[Max(x)]]
             b == [x \in SUBSET (1 .. n) |-> IF x = {} THEN 0
                    ELSE f[x \ {Max(x)}] + EscapeBytes(s[Max(x)])]
  <2>1. \A i \in 1 .. n : w[i] = EscapeBytes(s[i])
    OBVIOUS
  <2> HIDE DEF n
  <2>2. a = b
    BY <1>1, <2>1
  <2>3. P(f) <=> f = a
    OBVIOUS
  <2>4. Q(f) <=> f = b
    BY <1>2
  <2> HIDE DEF a, b, P, Q
  <2> QED
    BY <2>2, <2>3, <2>4
<1>4. (CHOOSE f : P(f)) = (CHOOSE f : Q(f))
  <2> HIDE DEF P, Q
  <2> QED
    BY <1>3, Zenon
<1>5. SumOf(w, Len(s), 0) = (CHOOSE f : P(f))[1 .. n]
  BY DEF SumOf
<1>6. StringNeed(s) = Len(s) + (CHOOSE f : Q(f))[DOMAIN s] + 3
  BY DEF StringNeed, FoldLeft, MapThenFoldSet
<1> HIDE DEF P, Q
<1> QED
  BY <1>2, <1>4, <1>5, <1>6

\* print_string_ptr writes, with its NUL, what it asked room for.
THEOREM QuotedLength ==
  ASSUME NEW s \in Seq(Nat)
  PROVE  /\ print_string_ptr(s) \in Seq(Visible) /\ StringNeed(s) \in Nat
         /\ Len(print_string_ptr(s)) + 1 = StringNeed(s)
<1> DEFINE n == Len(s)
           w == [i \in 1 .. n |-> EscapeBytes(s[i])]
           ss == [i \in DOMAIN s |-> Escaped(s[i])]
           flat == FlattenSeq(ss)
<1>0. n \in Nat /\ 0 \in Int /\ DOMAIN s = 1 .. n /\ \A i \in 1 .. n : s[i] \in Nat
  OBVIOUS
<1>1. \A i \in 1 .. n : /\ Escaped(s[i]) \in Seq(Visible) /\ EscapeBytes(s[i]) \in Nat
                        /\ Len(Escaped(s[i])) = 1 + EscapeBytes(s[i])
  BY <1>0, EscapedOf
<1>2. w \in [1 .. n -> Int]
  BY <1>1
<1>3. ss \in Seq(Seq(Visible)) /\ Len(ss) = n
  <2>1. ss \in [1 .. n -> Seq(Visible)]
    BY <1>0, <1>1
  <2> HIDE DEF ss, n
  <2> QED
    BY <1>0, <2>1
<1>4. PICK g \in [0 .. n -> Int] : IsSum(g, w, n, 0)
  <2> HIDE DEF w, n
  <2> QED
    BY <1>0, <1>2, SumExists
<1>5. SumOf(w, n, 0) = g[n]
  <2> HIDE DEF w, n
  <2> QED
    BY <1>0, <1>2, <1>4, SumIs
<1>6. flat \in Seq(Visible) /\ Len(flat) = n + g[n]
  <2>1. CASE n = 0
    <3>1. ss = << >>
      BY <1>3, <2>1
    <3>2. flat = << >>
      BY <3>1, FlattenNone
    <3>3. g[n] = 0
      BY <1>4, <2>1 DEF IsSum
    <3> QED
      BY <2>1, <3>2, <3>3, EmptySeq
  <2>2. CASE n # 0
    <3>1. PICK h \in [0 .. Len(ss) -> Seq(Visible)] : IsConcat(h, ss) /\ flat = h[Len(ss)]
      <4>1. ss # << >> /\ \A v, x \in Seq(Visible) : v \o x \in Seq(Visible)
        BY <1>3, <2>2, ConcatProperties
      <4> HIDE DEF ss
      <4> QED
        BY <1>3, <4>1, FlattenIn
    <3> DEFINE D == {k \in Nat : k + 1 <= n => Len(h[k + 1]) = (k + 1) + g[k + 1]}
    <3>2. ASSUME NEW i \in 1 .. n
          PROVE  /\ i # 1 => /\ h[i] = h[i - 1] \o Escaped(s[i])
                             /\ h[i - 1] \in Seq(Visible) /\ g[i - 1] \in Int
                 /\ i = 1 => h[i] = Escaped(s[i]) /\ g[i - 1] = 0
                 /\ g[i] = g[i - 1] + EscapeBytes(s[i])
                 /\ Escaped(s[i]) \in Seq(Visible) /\ EscapeBytes(s[i]) \in Nat
                 /\ Len(Escaped(s[i])) = 1 + EscapeBytes(s[i])
      <4>1. h[i] = IF i = 1 THEN ss[i] ELSE h[i - 1] \o ss[i]
        <5> HIDE DEF ss
        <5> QED
          BY <1>3, <3>1 DEF IsConcat
      <4>2. ss[i] = Escaped(s[i]) /\ w[i] = EscapeBytes(s[i])
        BY <1>0
      <4>3. g[i] = g[i - 1] + w[i] /\ (i = 1 => g[i - 1] = 0)
        <5> HIDE DEF w
        <5> QED
          BY <1>4 DEF IsSum
      <4>4. i # 1 => h[i - 1] \in Seq(Visible) /\ g[i - 1] \in Int
        <5>1. i - 1 \in 0 .. n
          OBVIOUS
        <5> QED
          BY <1>3, <5>1
      <4>5. i = 1 => h[i] = ss[i]
        BY <4>1
      <4>6. i # 1 => h[i] = h[i - 1] \o ss[i]
        BY <4>1
      <4> HIDE DEF ss, w
      <4> QED
        BY <1>1, <4>2, <4>3, <4>4, <4>5, <4>6
    <3>3. 0 \in D
      <4>1. 1 \in 1 .. n
        BY <1>0, <2>2
      <4>2. 1 - 1 = 0
        OBVIOUS
      <4>3. h[1] = Escaped(s[1]) /\ g[1 - 1] = 0 /\ g[1] = g[1 - 1] + EscapeBytes(s[1])
            /\ EscapeBytes(s[1]) \in Nat /\ Len(Escaped(s[1])) = 1 + EscapeBytes(s[1])
        <5> HIDE DEF n
        <5> QED
          BY <3>2, <4>1
      <4>4. Len(h[1]) = 1 + g[1]
        BY <4>2, <4>3
      <4>5. 0 + 1 = 1
        OBVIOUS
      <4> QED
        BY <4>4, <4>5
    <3>4. ASSUME NEW k \in Nat, k \in D, (k + 1) + 1 <= n
          PROVE  Len(h[(k + 1) + 1]) = ((k + 1) + 1) + g[(k + 1) + 1]
      <4> DEFINE i == (k + 1) + 1
      <4>1. i \in 1 .. n /\ i # 1 /\ i - 1 = k + 1 /\ i \in Int /\ k + 1 <= n
        BY <3>4
      <4>2. Len(h[i - 1]) = (i - 1) + g[i - 1]
        BY <3>4, <4>1
      <4> HIDE DEF i
      <4>3. /\ h[i] = h[i - 1] \o Escaped(s[i]) /\ g[i] = g[i - 1] + EscapeBytes(s[i])
            /\ h[i - 1] \in Seq(Visible) /\ g[i - 1] \in Int
            /\ Escaped(s[i]) \in Seq(Visible) /\ EscapeBytes(s[i]) \in Nat
            /\ Len(Escaped(s[i])) = 1 + EscapeBytes(s[i])
        BY <3>2, <4>1
      <4>4. Len(h[i]) = Len(h[i - 1]) + Len(Escaped(s[i]))
        BY <4>3, ConcatProperties, SMTT(30)
      <4>5. Len(h[i]) = i + g[i]
        BY <4>1, <4>2, <4>3, <4>4
      <4> QED
        BY <4>5 DEF i
    <3>5. Nat \subseteq D
      <4>1. \A k \in Nat : k \in D => k + 1 \in D
        BY <3>4
      <4> HIDE DEF D
      <4> QED
        BY <3>3, <4>1, OneByOne
    <3>6. n - 1 \in Nat /\ (n - 1) + 1 = n
      BY <1>0, <2>2
    <3>a. n - 1 \in D
      <4> HIDE DEF D, n
      <4> QED
        BY <3>5, <3>6
    <3>b. (n - 1) + 1 <= n => Len(h[(n - 1) + 1]) = ((n - 1) + 1) + g[(n - 1) + 1]
      BY <3>a
    <3>7. Len(h[n]) = n + g[n]
      <4> HIDE DEF n
      <4> QED
        BY <1>0, <3>6, <3>b
    <3> HIDE DEF D, ss
    <3>8. h[n] \in Seq(Visible) /\ flat = h[n]
      BY <1>0, <1>3, <3>1
    <3> HIDE DEF flat, n
    <3> QED
      BY <3>7, <3>8
  <2> QED
    BY <2>1, <2>2
<1>7. StringNeed(s) = n + SumOf(w, n, 0) + 3
  <2> HIDE DEF w
  <2>1. w = [i \in 1 .. Len(s) |-> EscapeBytes(s[i])]
    BY DEF w
  <2> QED
    BY <2>1, AddedBytes
<1>8. print_string_ptr(s) = <<Quote>> \o flat \o <<Quote>>
  BY DEF print_string_ptr
<1>9. <<Quote>> \in Seq(Visible) /\ Len(<<Quote>>) = 1
  BY DEF Quote, Visible, Nul
<1> HIDE DEF flat, w, ss
<1>10. /\ <<Quote>> \o flat \in Seq(Visible) /\ Len(<<Quote>> \o flat) = 1 + Len(flat)
  BY <1>6, <1>9, ConcatProperties
<1>11. /\ (<<Quote>> \o flat) \o <<Quote>> \in Seq(Visible)
       /\ Len((<<Quote>> \o flat) \o <<Quote>>) = (1 + Len(flat)) + 1
  BY <1>9, <1>10, ConcatProperties
<1>12. g[n] \in Int /\ Len(flat) \in Nat
  BY <1>0, <1>6
<1> DEFINE m == Len(print_string_ptr(s))
           need == StringNeed(s)
<1>13. m = (1 + (n + g[n])) + 1 /\ need = n + g[n] + 3 /\ n + g[n] \in Nat
  BY <1>5, <1>6, <1>7, <1>8, <1>11, <1>12
<1> HIDE DEF m, need, n
<1>14. m + 1 = need /\ need \in Nat
  BY <1>0, <1>12, <1>13
<1> QED
  BY <1>8, <1>11, <1>14 DEF m, need

-----------------------------------------------------------------------------
\* cJSON_Minify.

\* One step of cJSON_Minify: what is skipped at i, what is kept, where it goes on.
MinStep(t, f, i) ==
  IF i = Len(t) THEN << >>
  ELSE LET c == At(t, i) IN
       IF c \in {Blank, Tab, Return, NewLine} THEN f[i + 1]
       ELSE IF HasAt(t, i, <<Slash, Slash>>) THEN f[CommentEnd(t, i, <<NewLine>>)]
       ELSE IF HasAt(t, i, <<Slash, Star>>) THEN f[CommentEnd(t, i, <<Star, Slash>>)]
       ELSE IF c = Slash THEN f[i + 1]
       ELSE IF c = Quote
       THEN Slice(t, i, StringEnd(t, i)) \o f[StringEnd(t, i)]
       ELSE <<c>> \o f[i + 1]

\* What cJSON_Minify skips, what it keeps, and where it goes on.
Skips(t, i) ==
  \/ At(t, i) \in {Blank, Tab, Return, NewLine, Slash}
  \/ HasAt(t, i, <<Slash, Slash>>) \/ HasAt(t, i, <<Slash, Star>>)

Keeps(t, i) == IF At(t, i) = Quote THEN Slice(t, i, StringEnd(t, i)) ELSE <<At(t, i)>>

Behind(t, i) ==
  IF At(t, i) \in {Blank, Tab, Return, NewLine} THEN i + 1
  ELSE IF HasAt(t, i, <<Slash, Slash>>) THEN CommentEnd(t, i, <<NewLine>>)
  ELSE IF HasAt(t, i, <<Slash, Star>>) THEN CommentEnd(t, i, <<Star, Slash>>)
  ELSE IF At(t, i) = Quote THEN StringEnd(t, i) ELSE i + 1

\* The step in these terms.
LEMMA MinStepIs ==
  ASSUME NEW t, NEW f, NEW i
  PROVE  MinStep(t, f, i) = IF i = Len(t) THEN << >>
                            ELSE IF Skips(t, i) THEN f[Behind(t, i)]
                            ELSE Keeps(t, i) \o f[Behind(t, i)]
<1>1. Slash # Quote
  BY DEF Slash, Quote
<1> DEFINE c == At(t, i)
           a == c \in {Blank, Tab, Return, NewLine}
           b == HasAt(t, i, <<Slash, Slash>>)
           d == HasAt(t, i, <<Slash, Star>>)
           x == CommentEnd(t, i, <<NewLine>>)
           y == CommentEnd(t, i, <<Star, Slash>>)
           z == StringEnd(t, i)
           s == Slice(t, i, z)
<1>2. MinStep(t, f, i) =
        IF i = Len(t) THEN << >>
        ELSE IF a THEN f[i + 1] ELSE IF b THEN f[x] ELSE IF d THEN f[y]
        ELSE IF c = Slash THEN f[i + 1] ELSE IF c = Quote THEN s \o f[z] ELSE <<c>> \o f[i + 1]
  BY DEF MinStep
<1>3. Behind(t, i) = IF a THEN i + 1 ELSE IF b THEN x ELSE IF d THEN y
                     ELSE IF c = Quote THEN z ELSE i + 1
  BY DEF Behind
<1>4. Keeps(t, i) = IF c = Quote THEN s ELSE <<c>>
  BY DEF Keeps
<1>5. Skips(t, i) <=> a \/ b \/ d \/ c = Slash
  BY DEF Skips
<1> HIDE DEF c, a, b, d, x, y, z, s
<1>6. CASE i = Len(t)
  BY <1>2, <1>6
<1>7. CASE i # Len(t) /\ Skips(t, i)
  <2>1. MinStep(t, f, i) = f[Behind(t, i)]
    BY <1>1, <1>2, <1>3, <1>5, <1>7, Zenon
  <2> QED
    BY <1>7, <2>1
<1>8. CASE i # Len(t) /\ ~Skips(t, i)
  <2>1. MinStep(t, f, i) = Keeps(t, i) \o f[Behind(t, i)]
    BY <1>1, <1>2, <1>3, <1>4, <1>5, <1>8, Zenon
  <2> QED
    BY <1>8, <2>1
<1> QED
  BY <1>6, <1>7, <1>8

\* Comments and strings end behind their beginning and in the text.
LEMMA CommentEndAt ==
  ASSUME NEW t \in Seq(Nat), NEW i \in Nat, i < Len(t), NEW mark, Len(mark) \in Nat \ {0}
  PROVE  CommentEnd(t, i, mark) \in i + 1 .. Len(t)
<1> DEFINE ends == {k \in i + 2 .. Len(t) - Len(mark) : HasAt(t, k, mark)}
<1>1. CommentEnd(t, i, mark) = IF ends = {} THEN Len(t) ELSE Min(ends) + Len(mark)
  BY DEF CommentEnd
<1>2. ends \in SUBSET Int /\ \A x \in ends : i + 2 <= x
  OBVIOUS
<1>3. \A x \in ends : x + Len(mark) \in i + 1 .. Len(t)
  OBVIOUS
<1> HIDE DEF ends
<1>4. ends # {} => Min(ends) \in ends
  <2>1. i + 2 \in Int
    OBVIOUS
  <2> QED
    BY <1>2, <2>1, MinOf
<1>5. Len(t) \in i + 1 .. Len(t)
  OBVIOUS
<1> QED
  BY <1>1, <1>3, <1>4, <1>5

LEMMA StringEndAt ==
  ASSUME NEW t \in Seq(Nat), NEW i \in Nat, i < Len(t)
  PROVE  StringEnd(t, i) \in i + 1 .. Len(t)
<1> DEFINE quotes == {k \in i + 1 .. Len(t) - 1 :
                        At(t, k) = Quote /\ (k > i + 1 => At(t, k - 1) # Backslash)}
<1>1. StringEnd(t, i) = IF quotes = {} THEN Len(t) ELSE Min(quotes) + 1
  BY DEF StringEnd
<1>2. quotes \in SUBSET Int /\ \A x \in quotes : i + 1 <= x
  OBVIOUS
<1>3. \A x \in quotes : x + 1 \in i + 1 .. Len(t)
  OBVIOUS
<1> HIDE DEF quotes
<1>4. quotes # {} => Min(quotes) \in quotes
  <2>1. i + 1 \in Int
    OBVIOUS
  <2> QED
    BY <1>2, <2>1, MinOf
<1>5. Len(t) \in i + 1 .. Len(t)
  OBVIOUS
<1> QED
  BY <1>1, <1>3, <1>4, <1>5

\* cJSON_Minify always gets on, and never behind the text.
LEMMA BehindAt ==
  ASSUME NEW t \in Seq(Nat), NEW i \in Nat, i < Len(t)
  PROVE  Behind(t, i) \in i + 1 .. Len(t) /\ (~Skips(t, i) => Keeps(t, i) \in Seq(Nat))
<1>1. i + 1 \in i + 1 .. Len(t)
  OBVIOUS
<1>2. /\ CommentEnd(t, i, <<NewLine>>) \in i + 1 .. Len(t)
      /\ CommentEnd(t, i, <<Star, Slash>>) \in i + 1 .. Len(t)
  <2>1. Len(<<NewLine>>) \in Nat \ {0} /\ Len(<<Star, Slash>>) \in Nat \ {0}
    OBVIOUS
  <2> QED
    BY <2>1, CommentEndAt
<1>3. StringEnd(t, i) \in i + 1 .. Len(t)
  BY StringEndAt
<1>4. Slice(t, i, StringEnd(t, i)) \in Seq(Nat)
  BY <1>3, SliceOf
<1>5. <<At(t, i)>> \in Seq(Nat)
  <2>1. t[i + 1] \in Nat
    OBVIOUS
  <2> QED
    BY <2>1 DEF At
<1>6. Keeps(t, i) \in Seq(Nat)
  BY <1>4, <1>5 DEF Keeps
<1> QED
  BY <1>1, <1>2, <1>3, <1>6 DEF Behind

\* What cJSON_Minify leaves of a text is a text.
THEOREM MinifyType ==
  ASSUME NEW t \in Seq(Nat)
  PROVE  cJSON_Minify(t) \in Seq(Nat)
<1> DEFINE n == Len(t)
           V == Seq(Nat)
           leaf == {n}
           base == [i \in 0 .. n |-> << >>]
           jump == [i \in 0 .. n |-> Behind(t, i)]
           comb == [i \in 0 .. n |-> [v \in V |-> IF Skips(t, i) THEN v ELSE Keeps(t, i) \o v]]
           Steps(g) == g = [i \in 0 .. n |-> MinStep(t, g, i)]
           g == CHOOSE g : Steps(g)
<1>0. n \in Nat /\ 0 \in Int
  OBVIOUS
<1>1. ASSUME NEW i \in 0 .. n, i # n
      PROVE  Behind(t, i) \in i + 1 .. n /\ (~Skips(t, i) => Keeps(t, i) \in V)
  <2>1. i \in Nat /\ i < Len(t)
    BY <1>1
  <2> QED
    BY <2>1, BehindAt
<1>2. ASSUME NEW i \in 0 .. n, NEW f, i # n => f[Behind(t, i)] \in V PROVE MinStep(t, f, i) \in V
  <2>1. MinStep(t, f, i) = IF i = n THEN << >> ELSE IF Skips(t, i) THEN f[Behind(t, i)]
                           ELSE Keeps(t, i) \o f[Behind(t, i)]
    BY MinStepIs
  <2>2. << >> \in V /\ \A v, w \in V : v \o w \in V
    BY ConcatProperties, EmptySeq
  <2> HIDE DEF V, n
  <2> QED
    BY <1>1, <1>2, <2>1, <2>2
<1>3. PICK f \in [0 .. n -> V] : \A i \in 0 .. n :
        f[i] = IF i \in leaf THEN base[i] ELSE comb[i][f[jump[i]]]
  <2>1. ASSUME NEW i \in 0 .. n
        PROVE  IF i \in leaf THEN base[i] \in V
               ELSE jump[i] \in i + 1 .. n /\ \A v \in V : comb[i][v] \in V
    <3>1. << >> \in V /\ \A v, w \in V : v \o w \in V
      BY ConcatProperties, EmptySeq
    <3> HIDE DEF V, n
    <3> QED
      BY <1>1, <3>1
  <2> HIDE DEF V, n, leaf, base, jump, comb
  <2>2. WellDefined(0, n, V, leaf, base, jump, comb)
    BY <2>1 DEF WellDefined
  <2> QED
    BY <1>0, <2>2, Recursion
<1>4. Steps(f)
  <2>1. ASSUME NEW i \in 0 .. n PROVE f[i] = MinStep(t, f, i)
    <3>1. MinStep(t, f, i) = IF i = n THEN << >> ELSE IF Skips(t, i) THEN f[Behind(t, i)]
                             ELSE Keeps(t, i) \o f[Behind(t, i)]
      BY MinStepIs
    <3>2. CASE i = n
      BY <1>3, <3>1, <3>2
    <3>3. CASE i # n
      <4>1. f[i] = comb[i][f[jump[i]]] /\ jump[i] = Behind(t, i)
        BY <1>3, <3>3
      <4>2. f[Behind(t, i)] \in V
        <5>1. Behind(t, i) \in 0 .. n
          BY <1>1, <3>3
        <5> HIDE DEF V
        <5> QED
          BY <1>3, <5>1
      <4>3. f[i] = IF Skips(t, i) THEN f[Behind(t, i)] ELSE Keeps(t, i) \o f[Behind(t, i)]
        <5> HIDE DEF V, jump
        <5> QED
          BY <4>1, <4>2
      <4> QED
        BY <3>1, <3>3, <4>3, Zenon
    <3> QED
      BY <3>2, <3>3
  <2> HIDE DEF n
  <2> QED
    BY <2>1
<1>5. Steps(g)
  <2> HIDE DEF Steps
  <2> QED
    BY <1>4
<1>6. cJSON_Minify(t) = g[0]
  BY DEF cJSON_Minify, MinStep
<1> HIDE DEF g
<1> DEFINE S == {i \in 0 .. n : g[i] \in V}
<1>7. ASSUME NEW i \in 0 .. n, \A j \in 0 .. n : j > i => j \in S PROVE i \in S
  <2>1. i # n => g[Behind(t, i)] \in V
    <3>1. i # n => Behind(t, i) \in 0 .. n /\ Behind(t, i) > i
      BY <1>1
    <3> HIDE DEF V
    <3> QED
      BY <1>7, <3>1
  <2>2. MinStep(t, g, i) \in V
    <3> HIDE DEF V, Steps
    <3> QED
      BY <1>2, <2>1
  <2>3. g[i] = MinStep(t, g, i)
    BY <1>5
  <2> QED
    BY <2>2, <2>3
<1>8. \A i \in 0 .. n : i \in S
  <2> HIDE DEF S, n
  <2>1. n \in Int
    BY <1>0
  <2>2. \A i \in 0 .. n : (\A j \in 0 .. n : j > i => j \in S) => i \in S
    BY <1>7
  <2> QED
    BY <1>0, <2>1, <2>2, Backwards
<1>9. 0 \in 0 .. n
  BY <1>0
<1> QED
  BY <1>6, <1>8, <1>9
=============================================================================
