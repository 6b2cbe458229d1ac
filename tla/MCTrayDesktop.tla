---------------------------- MODULE MCTrayDesktop ----------------------------
(* Model values and symmetry for the TrayDesktop runs.                       *)
EXTENDS TrayDesktop, TLC

CONSTANTS v, w, f, g

TwoWorkers == {v, w}
TwoFetchers == {f, g}

Symmetry == Permutations(TwoWorkers) \cup Permutations(TwoFetchers)
=============================================================================
