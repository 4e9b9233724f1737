----------------------------- MODULE MCModemHal -----------------------------
(* ModemHal with two SDK threads, a weak, a strong and the unknown signal.   *)
EXTENDS ModemHal, TLC

CONSTANTS t1, t2

MCThreads == {t1, t2}
Sym       == Permutations(MCThreads)
=============================================================================
