--------------------------- MODULE MCSignalCache ---------------------------
(***************************************************************************)
(* A small instance of SignalCache: one peer with a PN and a LID address.  *)
(***************************************************************************)
EXTENDS SignalCache, TLC

CONSTANTS pn, lid, k1, m1, w1, w2

MCAddrs == {pn, lid}
MCPreKeys == {k1}
MCSteps == {m1}
MCWorkers == {w1, w2}
MCSymmetry == Permutations(MCWorkers)

============================================================================
