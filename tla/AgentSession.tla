----------------------------- MODULE AgentSession -----------------------------
(***************************************************************************)
(* One openssh.Session (openssh/agent.go): goroutines that call Query,     *)
(* goroutines that call Close, and the OpenSSH agent at the other end of   *)
(* the pipes the session dials.                                            *)
(*                                                                         *)
(* Every section under stateMu is short and does no I/O, so each is one    *)
(* action; queryMu is held across I/O and is a variable. A frame is one    *)
(* unit on the wire: exchange's partial writes and reads end either in the *)
(* whole frame or in an error, and every error takes the same path.        *)
(***************************************************************************)
EXTENDS Naturals, Sequences

CONSTANTS Callers,     \* goroutines that call Query
          Closers,     \* goroutines that call Close (shutdown, deferred Close)
          Requests,    \* one per call of Query: bounds the number of calls
          Malformed,   \* requests ValidateRequest refuses
          LocalPipe,   \* localPipeName(s.pipeName); pipeName never changes
          Conns,       \* pipe instances the agent can hand out
          None

ASSUME SessionAssumption ==
  /\ Callers \cap Closers = {}
  /\ Malformed \subseteq Requests
  /\ LocalPipe \in BOOLEAN
  /\ None \notin Requests \cup Conns \cup Callers

Procs == Callers \cup Closers

VARIABLES queryMu,   \* holder of Session.queryMu
          closed,    \* Session.closed; also "Session.ctx is cancelled"
          conn,      \* Session.conn
          pc,        \* where each goroutine is
          arg,       \* Query's parameter
          local,     \* the local variable conn of Query and of Close
          pipe,      \* each pipe instance as the bridge holds it
          inbox,     \* requests the agent has received and not answered
          outbox,    \* replies the agent has written and nobody has read
          outcome,   \* what the Query call for each request has returned
          replyTo    \* the request a returned reply belongs to

sessionVars == <<queryMu, closed, conn>>
wireVars    == <<inbox, outbox>>
resultVars  == <<outcome, replyTo>>
vars == <<queryMu, closed, conn, pc, arg, local, pipe, inbox, outbox,
          outcome, replyTo>>

\* A reply frame: the request it answers, and whether exchange's length checks
\* and ValidateResponse accept it.
Frames == [to : Requests, valid : BOOLEAN]

\* Points inside Query with queryMu held. "fail" is a call of s.Close() on an
\* error path; "release" is conn.Close() in Close, outside stateMu.
Busy == {"dial", "adopt", "write", "read", "fail", "release"}

Init ==
  /\ queryMu = None
  /\ closed = FALSE
  /\ conn = None
  /\ pc = [p \in Procs |-> "idle"]
  /\ arg = [c \in Callers |-> None]
  /\ local = [p \in Procs |-> None]
  /\ pipe = [k \in Conns |-> "free"]
  /\ inbox = [k \in Conns |-> <<>>]
  /\ outbox = [k \in Conns |-> <<>>]
  /\ outcome = [q \in Requests |-> "new"]
  /\ replyTo = [q \in Requests |-> None]

Goto(p, label) == pc' = [pc EXCEPT ![p] = label]

\* Mutant: an error path without the unlock.
ReturnKeepsMutex(c, how, reply) ==
  /\ Goto(c, "idle")
  /\ queryMu' = queryMu
  /\ local' = [local EXCEPT ![c] = None]
  /\ outcome' = [outcome EXCEPT ![arg[c]] = how]
  /\ replyTo' = [replyTo EXCEPT ![arg[c]] = reply]

\* Query returns with the deferred unlock of queryMu.
Return(c, how, reply) ==
  /\ Goto(c, "idle")
  /\ queryMu' = None
  /\ local' = [local EXCEPT ![c] = None]
  /\ outcome' = [outcome EXCEPT ![arg[c]] = how]
  /\ replyTo' = [replyTo EXCEPT ![arg[c]] = reply]

-----------------------------------------------------------------------------
(* Query *)

Call(c, q) ==
  /\ pc[c] = "idle"
  /\ outcome[q] = "new"
  /\ Goto(c, "lock")
  /\ arg' = [arg EXCEPT ![c] = q]
  /\ outcome' = [outcome EXCEPT ![q] = "pending"]
  /\ UNCHANGED <<sessionVars, local, pipe, wireVars, replyTo>>

Unacceptable == IF LocalPipe THEN Malformed ELSE Requests

\* queryMu, then the two checks on arguments and the closed check.
RejectQuery(c) ==
  /\ pc[c] = "lock"
  /\ queryMu = None
  /\ arg[c] \in Unacceptable \/ closed
  /\ Return(c, "error", None)
  /\ UNCHANGED <<closed, conn, arg, pipe, wireVars>>

\* Mutant: the closed check is missing, so a retired session dials again.
BeginQueryIgnoresClosed(c) ==
  /\ pc[c] = "lock"
  /\ queryMu = None
  /\ arg[c] \notin Unacceptable
  /\ queryMu' = c
  /\ local' = [local EXCEPT ![c] = conn]
  /\ Goto(c, IF conn = None THEN "dial" ELSE "write")
  /\ UNCHANGED <<closed, conn, arg, pipe, wireVars, resultVars>>

BeginQuery(c) ==
  /\ pc[c] = "lock"
  /\ queryMu = None
  /\ arg[c] \notin Unacceptable
  /\ ~closed
  /\ queryMu' = c
  /\ local' = [local EXCEPT ![c] = conn]
  /\ Goto(c, IF conn = None THEN "dial" ELSE "write")
  /\ UNCHANGED <<closed, conn, arg, pipe, wireVars, resultVars>>

\* DialPipeContext succeeds; a cancellation may come too late to stop it.
Dial(c) ==
  /\ pc[c] = "dial"
  /\ \E k \in Conns :
       /\ pipe[k] = "free"
       /\ pipe' = [pipe EXCEPT ![k] = "open"]
       /\ local' = [local EXCEPT ![c] = k]
  /\ Goto(c, "adopt")
  /\ UNCHANGED <<sessionVars, arg, wireVars, resultVars>>

\* DialPipeContext fails: no agent, agentConnectTimeout, or s.ctx cancelled.
DialFail(c) ==
  /\ pc[c] = "dial"
  /\ Goto(c, "fail")
  /\ UNCHANGED <<sessionVars, arg, local, pipe, wireVars, resultVars>>

\* Mutant: the connection is published whatever happened during the dial.
AdoptUnchecked(c) ==
  /\ pc[c] = "adopt"
  /\ conn' = local[c]
  /\ Goto(c, "write")
  /\ UNCHANGED <<queryMu, local, pipe, resultVars, closed, arg, wireVars>>

\* The second closed check: a session closed during the dial drops the new
\* connection instead of publishing it.
Adopt(c) ==
  /\ pc[c] = "adopt"
  /\ \/ /\ closed
        /\ pipe' = [pipe EXCEPT ![local[c]] = "closed"]
        /\ Return(c, "error", None)
        /\ UNCHANGED conn
     \/ /\ ~closed
        /\ conn' = local[c]
        /\ Goto(c, "write")
        /\ UNCHANGED <<queryMu, local, pipe, resultVars>>
  /\ UNCHANGED <<closed, arg, wireVars>>

-----------------------------------------------------------------------------
(* exchange *)

Write(c) ==
  /\ pc[c] = "write"
  /\ pipe[local[c]] = "open"
  /\ inbox' = [inbox EXCEPT ![local[c]] = Append(@, arg[c])]
  /\ Goto(c, "read")
  /\ UNCHANGED <<sessionVars, arg, local, pipe, outbox, resultVars>>

\* An error of SetWriteDeadline, Write or SetReadDeadline, agentWriteTimeout
\* included. The agent may have the complete request all the same.
WriteFail(c) ==
  /\ pc[c] = "write"
  /\ \/ UNCHANGED inbox
     \/ /\ pipe[local[c]] = "open"
        /\ inbox' = [inbox EXCEPT ![local[c]] = Append(@, arg[c])]
  /\ Goto(c, "fail")
  /\ UNCHANGED <<sessionVars, arg, local, pipe, outbox, resultVars>>

\* A complete reply is read: a valid one is returned, another is an error.
Read(c) ==
  /\ pc[c] = "read"
  /\ pipe[local[c]] = "open"
  /\ outbox[local[c]] # <<>>
  /\ outbox' = [outbox EXCEPT ![local[c]] = Tail(@)]
  /\ \/ /\ Head(outbox[local[c]]).valid
        /\ Return(c, "reply", Head(outbox[local[c]]).to)
     \/ /\ ~Head(outbox[local[c]]).valid
        /\ Goto(c, "fail")
        /\ UNCHANGED <<queryMu, local, resultVars>>
  /\ UNCHANGED <<closed, conn, arg, pipe, inbox>>

\* Mutant: a read error is reported but the session stays in use.
ReadFailKeepsSession(c) ==
  /\ pc[c] = "read"
  /\ Return(c, "error", None)
  /\ UNCHANGED <<closed, conn, arg, pipe, wireVars>>

\* agentResponseTimeout, end of file, or a pipe closed by Close.
ReadFail(c) ==
  /\ pc[c] = "read"
  /\ Goto(c, "fail")
  /\ UNCHANGED <<sessionVars, arg, local, pipe, wireVars, resultVars>>

-----------------------------------------------------------------------------
(* Close, called by an owner ("idle") or by Query on an error ("fail") *)

\* Mutant: an error path drops the connection but leaves the session usable.
CloseReopens(p) ==
  /\ \/ p \in Closers /\ pc[p] = "idle"
     \/ p \in Callers /\ pc[p] = "fail"
  /\ ~closed
  /\ closed' = (p \in Closers)
  /\ local' = [local EXCEPT ![p] = conn]
  /\ conn' = None
  /\ Goto(p, "release")
  /\ UNCHANGED <<queryMu, arg, pipe, wireVars, resultVars>>

\* The section under stateMu. A second Close returns at once.
Close(p) ==
  /\ \/ p \in Closers /\ pc[p] = "idle"
     \/ p \in Callers /\ pc[p] = "fail"
  /\ ~closed
  /\ closed' = TRUE
  /\ local' = [local EXCEPT ![p] = conn]
  /\ conn' = None
  /\ Goto(p, "release")
  /\ UNCHANGED <<queryMu, arg, pipe, wireVars, resultVars>>

CloseAgain(p) ==
  /\ closed
  /\ \/ /\ p \in Closers /\ pc[p] = "idle"
        /\ Goto(p, "done")
        /\ UNCHANGED <<queryMu, local, resultVars>>
     \/ /\ p \in Callers /\ pc[p] = "fail"
        /\ Return(p, "error", None)
  /\ UNCHANGED <<closed, conn, arg, pipe, wireVars>>

\* Mutant: Close forgets the connection without closing it.
ReleaseNothing(p) ==
  /\ pc[p] = "release"
  /\ \/ /\ p \in Closers
        /\ Goto(p, "done")
        /\ local' = [local EXCEPT ![p] = None]
        /\ UNCHANGED <<queryMu, resultVars>>
     \/ /\ p \in Callers
        /\ Return(p, "error", None)
  /\ UNCHANGED <<closed, conn, arg, pipe, wireVars>>

\* conn.Close() when there is a connection, and Close returns.
ReleaseConn(p) ==
  /\ pc[p] = "release"
  /\ pipe' = [k \in Conns |-> IF k = local[p] THEN "closed" ELSE pipe[k]]
  /\ \/ /\ p \in Closers
        /\ Goto(p, "done")
        /\ local' = [local EXCEPT ![p] = None]
        /\ UNCHANGED <<queryMu, resultVars>>
     \/ /\ p \in Callers
        /\ Return(p, "error", None)
  /\ UNCHANGED <<closed, conn, arg, wireVars>>

-----------------------------------------------------------------------------
(* The OpenSSH agent: answers the requests of a connection in order, when  *)
(* it likes, with a frame that may be malformed.                           *)

AgentReply(k) ==
  /\ pipe[k] = "open"
  /\ inbox[k] # <<>>
  /\ \E ok \in BOOLEAN :
       outbox' = [outbox EXCEPT ![k] = Append(@, [to |-> Head(inbox[k]), valid |-> ok])]
  /\ inbox' = [inbox EXCEPT ![k] = Tail(@)]
  /\ UNCHANGED <<sessionVars, pc, arg, local, pipe, resultVars>>

Next ==
  \/ \E c \in Callers :
       \/ \E q \in Requests : Call(c, q)
       \/ RejectQuery(c) \/ BeginQuery(c)
       \/ Dial(c) \/ DialFail(c) \/ Adopt(c)
       \/ Write(c) \/ WriteFail(c) \/ Read(c) \/ ReadFail(c)
  \/ \E p \in Procs : Close(p) \/ CloseAgain(p) \/ ReleaseConn(p)
  \/ \E k \in Conns : AgentReply(k)

Spec == Init /\ [][Next]_vars

-----------------------------------------------------------------------------
(* Fairness *)

\* Everything a goroutine inside Query does, its deadlines included. The two
\* outcomes of an I/O step are one action: a deadline bounds the wait, whatever
\* the agent does. The agent itself owes nothing.
QueryStep(c) ==
  \/ RejectQuery(c) \/ BeginQuery(c)
  \/ Dial(c) \/ DialFail(c) \/ Adopt(c)
  \/ Write(c) \/ WriteFail(c) \/ Read(c) \/ ReadFail(c)
  \/ Close(c) \/ CloseAgain(c) \/ ReleaseConn(c)

Timed == \A c \in Callers : WF_vars(QueryStep(c))

\* Without counting on a deadline: steps that never block, the end of a dial
\* whose context is cancelled, and I/O errors on a pipe that has been closed.
PromptStep(p) ==
  \/ /\ p \in Callers
     /\ RejectQuery(p) \/ BeginQuery(p) \/ Adopt(p) \/ Close(p) \/ CloseAgain(p)
  \/ ReleaseConn(p)

Interrupted(c) ==
  \/ closed /\ DialFail(c)
  \/ /\ local[c] \in Conns
     /\ pipe[local[c]] = "closed"
     /\ WriteFail(c) \/ ReadFail(c)

Prompt ==
  /\ \A p \in Procs : WF_vars(PromptStep(p))
  /\ \A c \in Callers : WF_vars(Interrupted(c))

-----------------------------------------------------------------------------
(* Properties *)

VarTypes ==
  /\ queryMu \in Callers \cup {None}
  /\ closed \in BOOLEAN
  /\ conn \in Conns \cup {None}
  /\ pc \in [Procs -> {"idle", "lock", "done"} \cup Busy]
  /\ arg \in [Callers -> Requests \cup {None}]
  /\ local \in [Procs -> Conns \cup {None}]
  /\ pipe \in [Conns -> {"free", "open", "closed"}]
  /\ inbox \in [Conns -> Seq(Requests)]
  /\ outbox \in [Conns -> Seq(Frames)]
  /\ outcome \in [Requests -> {"new", "pending", "reply", "error"}]
  /\ replyTo \in [Requests -> Requests \cup {None}]

Control ==
  /\ \A c \in Callers :
       /\ pc[c] \in Busy <=> queryMu = c
       /\ pc[c] \in Busy \cup {"idle", "lock"}
       /\ pc[c] # "idle" => arg[c] \in Requests
       /\ pc[c] \in {"adopt", "write", "read"} => local[c] \in Conns
  /\ \A p \in Closers : pc[p] \in {"idle", "release", "done"}

\* Only the holder of queryMu is inside Query, with a request to forward and a
\* connection wherever the code uses one (agent.go 69-110).
TypeOK == VarTypes /\ Control

\* A call of Query that succeeds returns the reply to its own request, however
\* timeouts, late replies and Close interleave: "Calls are serialized in wire
\* order" (agent.go 69).
ReplyMatchesRequest ==
  \A q \in Requests : outcome[q] = "reply" => replyTo[q] = q

\* "A failed connection is never silently reconnected" (agent.go 52): whatever
\* happens, one Session uses at most one pipe instance in its life.
NeverReconnects ==
  \A j, k \in Conns : pipe[j] # "free" /\ pipe[k] # "free" => j = k

\* Every open pipe belongs to a live session or to the one goroutine that is
\* about to publish or to close it, so no interleaving of a dial with Close
\* leaks it (agent.go 96-103, 119-126).
NoLeakedPipe ==
  \A k \in Conns : pipe[k] = "open" =>
    \/ ~closed /\ conn = k
    \/ \E p \in Procs : pc[p] \in {"adopt", "release"} /\ local[p] = k

\* Query starts to write only on a connection with nothing of an earlier
\* request in flight in either direction (agent.go 105-108).
SerialWire ==
  \A c \in Callers : pc[c] = "write" =>
    inbox[local[c]] = <<>> /\ outbox[local[c]] = <<>>

\* The session as its callers see it: queryMu's holder is being served.
InServiceRequest == IF queryMu = None THEN None ELSE arg[queryMu]

Contract == INSTANCE SessionContract WITH
  session <- [retired |-> closed, current |-> InServiceRequest]

\* Dialling, mutexes, deadlines and Close together implement the contract.
ImplementsContract == Contract!Spec

\* Every call of Query returns, with an agent that never answers: the deadlines
\* of dial, write and reply bound it (agent.go 27-29).
QueryReturns ==
  Timed => \A q \in Requests :
             outcome[q] = "pending" ~> outcome[q] \in {"reply", "error"}

\* "Close may run concurrently and interrupts an in-progress connect or read"
\* (agent.go 70): no deadline has to expire.
CloseInterrupts ==
  Prompt => \A c \in Callers : (closed /\ queryMu = c) ~> (queryMu # c)

\* "Close prevents further queries and releases the upstream pipe"
\* (agent.go 112), for good, even when it races a dial.
PipesReleased ==
  Prompt => (closed ~> [](\A k \in Conns : pipe[k] # "open"))
=============================================================================
