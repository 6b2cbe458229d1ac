----------------------------- MODULE MCLifecycle -----------------------------
(* Model values for the Lifecycle runs. The processes are alike but for their *)
(* command lines, so one order of the command lines stands for all.           *)
EXTENDS Lifecycle

CONSTANTS x, y, z

TwoProcs == {x, y}
ThreeProcs == {x, y, z}

ShowTwice == {[p \in TwoProcs |-> "show"]}

\* A bridge, and another one or two that meet it or end it.
Encounters == {[p \in ThreeProcs |-> IF p = x THEN "start"
                                     ELSE IF p = y THEN a ELSE b] :
                 a \in {"start", "show"}, b \in {"show", "exit"}}
=============================================================================
