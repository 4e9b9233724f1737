------------------------------- MODULE Reach --------------------------------
(* The nodes met from one of them, breadth first.                            *)
EXTENDS Integers, FiniteSets

\* The nodes met from root on, where to gives those next to each.
Met(Nodes, root, to) ==
  LET met[i \in 0 .. Cardinality(Nodes)] ==
        LET S == met[i - 1] IN IF i = 0 THEN {root} ELSE S \cup UNION {to[n] : n \in S}
  IN  met[Cardinality(Nodes)]
=============================================================================
