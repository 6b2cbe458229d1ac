---------------------------- MODULE MCAttribution ----------------------------
(* Model values for the Attribution run.                                     *)
EXTENDS Attribution

CONSTANTS a, b, f, x, y

MCProcs == {a, b, f}
MCForeign == {f}
MCHasHost == {b}
MCRows == {<<4, x>>, <<6, y>>}
=============================================================================
