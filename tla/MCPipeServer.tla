----------------------------- MODULE MCPipeServer -----------------------------
(* Model values and symmetry for the PipeServer runs.                        *)
EXTENDS PipeServer, TLC

CONSTANTS a, b, d

TwoClients == {a, b}
ThreeClients == {a, b, d}

Symmetry == Permutations({a, b, d})
=============================================================================
