---------------------------- MODULE MCCjsonTree -----------------------------
(* CjsonTree with four items: a parent with a first, a middle and a last     *)
(* child, or a tree of some depth with a reference in it.                    *)
EXTENDS CjsonTree, TLC

CONSTANTS n1, n2, n3, n4

MCNodes == {n1, n2, n3, n4}
MCKeys  == {"k", "K"}
MCLower == [k \in MCKeys |-> "k"]
Sym     == Permutations(MCNodes)
=============================================================================
