----------------------------- MODULE SessionState -----------------------------
(***************************************************************************)
(* The state of an openssh.Session as its callers see it: whether it is    *)
(* retired (Session.closed) and which request holds it (Session.queryMu    *)
(* with the request of its holder). SessionContract and PipeServer share   *)
(* these operators.                                                        *)
(***************************************************************************)

CONSTANTS Requests,     \* the request frames callers hand to Query
          None          \* "no request", not a member of Requests

Sessions == [retired : BOOLEAN, current : Requests \cup {None}]

\* NewSession: lazily connected, not closed, queryMu free.
NewSession == [retired |-> FALSE, current |-> None]

\* Query passes its closed check with queryMu held.
MayStart(s) == ~s.retired /\ s.current = None
Started(s, q) == [s EXCEPT !.current = q]

InService(s) == s.current # None

\* Query returns and releases queryMu.
Finished(s) == [s EXCEPT !.current = None]

\* Close.
Retired(s) == [s EXCEPT !.retired = TRUE]
=============================================================================
