--------------------------- MODULE SessionContract ---------------------------
(***************************************************************************)
(* What openssh.Session promises to its callers, without connections,      *)
(* mutexes, dialling or deadlines (openssh/agent.go):                      *)
(*   - requests are served one at a time;                                  *)
(*   - a served request is either answered with its own reply or fails;    *)
(*   - it fails only because the session has been retired, by the failure  *)
(*     itself or by Close;                                                 *)
(*   - a retired session never starts another request, so it never loses   *)
(*     the security state of its connection silently.                      *)
(* AgentSession is shown to implement this module, and PipeServer builds   *)
(* its workers on the same session state (SessionState).                   *)
(***************************************************************************)
EXTENDS SessionState

CONSTANT Unacceptable   \* requests Query refuses before it looks at the session

VARIABLES session,      \* the state every caller shares
          outcome,      \* what each call of Query has returned so far
          replyTo       \* the request whose reply a successful call returned

vars == <<session, outcome, replyTo>>

Outcomes == {"new", "pending", "reply", "error"}

TypeOK ==
  /\ session \in Sessions
  /\ outcome \in [Requests -> Outcomes]
  /\ replyTo \in [Requests -> Requests \cup {None}]

Init ==
  /\ session = NewSession
  /\ outcome = [q \in Requests |-> "new"]
  /\ replyTo = [q \in Requests |-> None]

\* A goroutine calls Query.
Submit(q) ==
  /\ outcome[q] = "new"
  /\ outcome' = [outcome EXCEPT ![q] = "pending"]
  /\ UNCHANGED <<session, replyTo>>

\* Query returns an error without touching the agent.
Refuse(q) ==
  /\ outcome[q] = "pending"
  /\ q # session.current
  /\ q \in Unacceptable \/ session.retired
  /\ outcome' = [outcome EXCEPT ![q] = "error"]
  /\ UNCHANGED <<session, replyTo>>

\* Query takes the session for a request.
Start(q) ==
  /\ outcome[q] = "pending"
  /\ q \notin Unacceptable
  /\ MayStart(session)
  /\ session' = Started(session, q)
  /\ UNCHANGED <<outcome, replyTo>>

\* The agent answers the request in service.
Answer ==
  /\ InService(session)
  /\ outcome' = [outcome EXCEPT ![session.current] = "reply"]
  /\ replyTo' = [replyTo EXCEPT ![session.current] = session.current]
  /\ session' = Finished(session)

\* The request in service fails: the session is retired by then.
Fail ==
  /\ InService(session)
  /\ session.retired
  /\ outcome' = [outcome EXCEPT ![session.current] = "error"]
  /\ session' = Finished(session)
  /\ UNCHANGED replyTo

\* Close, called by an owner or by Query itself after a transport error.
Retire ==
  /\ ~session.retired
  /\ session' = Retired(session)
  /\ UNCHANGED <<outcome, replyTo>>

Next ==
  \/ \E q \in Requests : Submit(q) \/ Refuse(q) \/ Start(q)
  \/ Answer \/ Fail \/ Retire

Spec == Init /\ [][Next]_vars
=============================================================================
