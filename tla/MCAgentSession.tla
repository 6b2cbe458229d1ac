---------------------------- MODULE MCAgentSession ----------------------------
(* Model values for the AgentSession run.                                    *)
EXTENDS AgentSession, TLC

CONSTANTS c1, c2, x1, x2, q1, q2, q3, bad, k1, k2

MCCallers == {c1, c2}
MCClosers == {x1, x2}
MCMoreRequests == {q1, q2, q3, bad}
MCMalformed == {bad}
MCConns == {k1, k2}
=============================================================================
