----------------------------- MODULE MCLiteList -----------------------------
(* LiteList with two heads, so that entries move between lists, and three    *)
(* entries: a first, a middle and a last one.                                *)
EXTENDS LiteList, TLC

CONSTANTS h1, h2, e1, e2, e3

MCHeads   == {h1, h2}
MCEntries == {e1, e2, e3}
Sym       == Permutations(MCHeads) \cup Permutations(MCEntries)
=============================================================================
