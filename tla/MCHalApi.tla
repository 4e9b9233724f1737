------------------------------ MODULE MCHalApi ------------------------------
(* HalApi with one thread that may call every wrapper.                       *)
EXTENDS HalApi

CONSTANT t1

MCThreads == {t1}
MCBufLens == {0, 1, 15, 16}

\* Error codes, zero, the limits of the signal range and of the dBm error test;
\* empty texts, texts around the buffer sizes, JSON that fits and that does not.
MCInts  == {-1001, -1000, -999, -113, -51, -1, 0, 1, 2, 4, 85}
MCTexts ==
  {TextAnswer(n, b) : n \in {0, 1, 14, 15, 16, 255, 256}, b \in {"plain", "expected"}}
    \cup {TextAnswer(n, b) : n \in {30, 255, 256}, b \in {"pair", "long"}}

\* A JSON text with both fields, as getCellid answers.
JsonAnswers == {TextAnswer(30, "pair")}

MCJavaAnswers == {IntAnswer(n) : n \in MCInts} \cup MCTexts
=============================================================================
