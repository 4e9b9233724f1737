---------------------------- MODULE CjsonCompare ----------------------------
(* cJSON.c: cJSON_Compare, of two items apart from each other.               *)
EXTENDS CjsonText

ToLower(c) == IF c \in 65 .. 90 THEN c + 32 ELSE c
Lowered(s) == [i \in DOMAIN s |-> ToLower(s[i])]

\* |x - y| <= DBL_EPSILON * Max(|x|, |y|): an infinity "equals" every number but
\* itself, from which it differs by NaN.
compare_double(x, y) ==
  IF {x, y} \cap {Infinity, -Infinity} = {} THEN x = y ELSE x # y

\* The member get_object_item finds, as a sequence of at most one.
get_object_item(v, name, case_sensitive) ==
  LET Same(n) == IF case_sensitive THEN n = name ELSE Lowered(n) = Lowered(name)
      i == SelectInSeq(v.kids, LAMBDA k : k.name # << >> /\ Same(k.name[1]))
      nameless == SelectInSeq(v.kids, LAMBDA k : k.name = << >>)
  IN  IF i = 0 \/ (case_sensitive /\ nameless \in 1 .. i - 1) THEN << >> ELSE <<v.kids[i]>>

RECURSIVE cJSON_Compare(_, _, _)
cJSON_Compare(v, w, case_sensitive) ==
  LET FoundIn(x, y) ==
        \A i \in DOMAIN x.kids :
          LET k == x.kids[i]
              m == IF k.name = << >> THEN << >>
                   ELSE get_object_item(y, k.name[1], case_sensitive)
          IN  m # << >> /\ cJSON_Compare(k, m[1], case_sensitive)
  IN  /\ v.type = w.type
      /\ CASE v.type \in {"null", "true", "false"} -> TRUE
           [] v.type = "number" -> compare_double(v.num, w.num)
           [] v.type \in {"string", "raw"} -> CString(v.str) = CString(w.str)
           [] v.type = "array" ->
                /\ Len(v.kids) = Len(w.kids)
                /\ \A i \in DOMAIN v.kids : cJSON_Compare(v.kids[i], w.kids[i], case_sensitive)
           [] v.type = "object" -> FoundIn(v, w) /\ FoundIn(w, v)
           [] OTHER -> FALSE
=============================================================================
