------------------------------ MODULE PipeServer ------------------------------
(***************************************************************************)
(* The Pageant pipe of the bridge (pageant/run_windows.go): pipeProxy      *)
(* accepts clients, one goroutine per client runs pipeListen, and          *)
(* closeConnections shuts everything down when Run returns.                *)
(*                                                                         *)
(* runtimeState.mu protects the two registries. The sections under it in   *)
(* pipeProxy and pipeListen are short and are one action each;             *)
(* closeConnections does I/O under it and is a sequence of actions. The    *)
(* upstream session of a client is the one SessionContract describes.      *)
(***************************************************************************)
EXTENDS Naturals, Sequences, FiniteSets

CONSTANTS Clients,         \* connections clients make, each used once
          MaxClients,      \* maxClients
          MaxFrames,       \* bound: frames one client sends
          Handlers         \* the kinds of request handler looked at, see builtin

ASSUME ServerAssumption ==
  /\ IsFiniteSet(Clients)
  /\ {"accept", "returned"} \cap Clients = {}
  /\ MaxClients \in Nat \ {0}
  /\ MaxFrames \in Nat
  /\ Handlers \subseteq BOOLEAN

\* openssh.Session, with the frames of one client numbered.
Upstream == INSTANCE SessionState WITH Requests <- 1..MaxFrames, None <- 0

VARIABLES builtin,    \* PageantRequestHandler is defaultHandlerFunc: never changes
          shut,       \* where closeConnections is
          acceptor,   \* pipeProxy: "accept", "returned", or the client in c
          clients,    \* runtimeState.clients
          upstreams,  \* runtimeState.upstreams, by the client of the session
          conn,       \* the server end of each connection
          gone,       \* the client has closed its end
          sent,       \* what the client has sent and the worker has not read
          worker,     \* where the goroutine of each client is
          session,    \* the upstream session of each client
          answers     \* the results each client has received

clientVars   == <<gone, sent>>
registryVars == <<clients, upstreams>>
vars == <<builtin, shut, acceptor, clients, upstreams, conn, gone, sent, worker,
          session, answers>>

closing   == shut # "running"
listening == shut \in {"running", "listener"}
muFree    == shut \in {"running", "done"}

\* "reply" and "failure": writing that result. The last four are pipeListen's
\* deferred calls and the goroutine's own.
Leaving == {"unregister", "closeUpstream", "closeConn", "release"}
Serving == {"idle", "frame", "query", "reply", "failure"}
Live    == {"spawned"} \cup Serving \cup Leaving

Init ==
  /\ builtin \in Handlers
  /\ shut = "running"
  /\ acceptor = "accept"
  /\ clients = {} /\ upstreams = {}
  /\ conn = [c \in Clients |-> "new"]
  /\ gone = [c \in Clients |-> FALSE]
  /\ sent = [c \in Clients |-> "nothing"]
  /\ worker = [c \in Clients |-> "none"]
  /\ session = [c \in Clients |-> Upstream!NewSession]
  /\ answers = [c \in Clients |-> <<>>]

Goto(c, label) == worker' = [worker EXCEPT ![c] = label]

\* pipeListen returns: its deferred calls run next.
Return(c) == Goto(c, IF builtin THEN "unregister" ELSE "closeConn")

-----------------------------------------------------------------------------
(* pipeProxy *)

Accept(c) ==
  /\ acceptor = "accept"
  /\ listening
  /\ conn[c] = "new"
  /\ acceptor' = c
  /\ conn' = [conn EXCEPT ![c] = "open"]
  /\ UNCHANGED <<builtin, shut, registryVars, clientVars, worker, session,
                 answers>>

\* Accept fails for good when the listener is closed, and any error of an open one
\* ends the loop as well: no client is accepted any more, those there are stay.
AcceptFail ==
  /\ acceptor = "accept"
  /\ acceptor' = "returned"
  /\ UNCHANGED <<builtin, shut, registryVars, conn, clientVars, worker,
                 session, answers>>

Full == Cardinality(clients) >= MaxClients

\* Mutant: the limit is off by one.
AdmitOneMore(c) ==
  /\ acceptor = c
  /\ muFree
  /\ ~closing /\ Cardinality(clients) <= MaxClients
  /\ clients' = clients \cup {c}
  /\ Goto(c, "spawned")
  /\ acceptor' = "accept"
  /\ UNCHANGED <<builtin, shut, upstreams, conn, clientVars, session, answers>>

Admit(c) ==
  /\ acceptor = c
  /\ muFree
  /\ ~closing /\ ~Full
  /\ clients' = clients \cup {c}
  /\ Goto(c, "spawned")
  /\ acceptor' = "accept"
  /\ UNCHANGED <<builtin, shut, upstreams, conn, clientVars, session, answers>>

\* Mutant: the refused connection is dropped without Close.
TurnAwayOpen(c) ==
  /\ acceptor = c
  /\ muFree
  /\ closing \/ Full
  /\ acceptor' = "accept"
  /\ UNCHANGED <<builtin, shut, registryVars, conn, clientVars, worker,
                 session, answers>>

TurnAway(c) ==
  /\ acceptor = c
  /\ muFree
  /\ closing \/ Full
  /\ conn' = [conn EXCEPT ![c] = "closed"]
  /\ acceptor' = "accept"
  /\ UNCHANGED <<builtin, shut, registryVars, clientVars, worker, session,
                 answers>>

-----------------------------------------------------------------------------
(* pipeListen *)

\* Mutant: registration does not look at closing.
RegisterLate(c) ==
  /\ worker[c] = "spawned"
  /\ builtin = TRUE
  /\ muFree
  /\ upstreams' = upstreams \cup {c}
  /\ Goto(c, "idle")
  /\ UNCHANGED <<builtin, shut, acceptor, clients, conn, clientVars,
                 session, answers>>

\* NewSession and its registration, refused during shutdown.
Register(c) ==
  /\ worker[c] = "spawned"
  /\ builtin = TRUE
  /\ muFree
  /\ \/ /\ closing
        /\ Goto(c, "closeUpstream")
        /\ UNCHANGED upstreams
     \/ /\ ~closing
        /\ upstreams' = upstreams \cup {c}
        /\ Goto(c, "idle")
  /\ UNCHANGED <<builtin, shut, acceptor, clients, conn, clientVars,
                 session, answers>>

\* A custom handler has no session.
StartCustom(c) ==
  /\ worker[c] = "spawned"
  /\ ~builtin
  /\ Goto(c, "idle")
  /\ UNCHANGED <<builtin, shut, acceptor, registryVars, conn, clientVars,
                 session, answers>>

\* The first byte of a frame: from here clientTimeout runs.
FirstByte(c) ==
  /\ worker[c] = "idle"
  /\ conn[c] = "open"
  /\ sent[c] # "nothing"
  /\ Goto(c, "frame")
  /\ UNCHANGED <<builtin, shut, acceptor, registryVars, conn, clientVars,
                 session, answers>>

\* Mutant: only a close on our own side is noticed.
IdleFailClosedOnly(c) ==
  /\ worker[c] = "idle"
  /\ conn[c] = "closed"
  /\ Return(c)
  /\ UNCHANGED <<builtin, shut, acceptor, registryVars, conn, clientVars,
                 session, answers>>

\* An idle connection has no deadline: only a close at either end is an error.
IdleFail(c) ==
  /\ worker[c] = "idle"
  /\ conn[c] = "closed" \/ gone[c]
  /\ Return(c)
  /\ UNCHANGED <<builtin, shut, acceptor, registryVars, conn, clientVars,
                 session, answers>>

\* The rest of the frame is read in time.
ReadFrame(c) ==
  /\ worker[c] = "frame"
  /\ conn[c] = "open"
  /\ sent[c] = "frame"
  /\ sent' = [sent EXCEPT ![c] = "nothing"]
  /\ Goto(c, "query")
  /\ UNCHANGED <<builtin, shut, acceptor, registryVars, conn, gone,
                 session, answers>>

\* Mutant: no deadline on an incomplete frame.
FrameFailNoDeadline(c) ==
  /\ worker[c] = "frame"
  /\ conn[c] = "closed" \/ gone[c] \/ sent[c] = "badLength"
  /\ Return(c)
  /\ UNCHANGED <<builtin, shut, acceptor, registryVars, conn, clientVars,
                 session, answers>>

\* clientTimeout, a close at either end, or a length out of bounds.
FrameFail(c) ==
  /\ worker[c] = "frame"
  /\ Return(c)
  /\ UNCHANGED <<builtin, shut, acceptor, registryVars, conn, clientVars,
                 session, answers>>

-----------------------------------------------------------------------------
(* queryUsing with the session's Query as its handler *)

FrameNumber(c) == Len(answers[c]) + 1

\* Query takes the session, or fails at once because it is retired.
BeginQuery(c) ==
  /\ worker[c] = "query"
  /\ builtin = TRUE
  /\ ~Upstream!InService(session[c])
  /\ \/ /\ Upstream!MayStart(session[c])
        /\ session' = [session EXCEPT ![c] = Upstream!Started(@, FrameNumber(c))]
        /\ UNCHANGED worker
     \/ /\ session[c].retired
        /\ Goto(c, "failure")
        /\ UNCHANGED session
  /\ UNCHANGED <<builtin, shut, acceptor, registryVars, conn, clientVars,
                 answers>>

Answered(c) ==
  /\ worker[c] = "query"
  /\ Upstream!InService(session[c])
  /\ session' = [session EXCEPT ![c] = Upstream!Finished(@)]
  /\ Goto(c, "reply")
  /\ UNCHANGED <<builtin, shut, acceptor, registryVars, conn, clientVars,
                 answers>>

\* Mutant: a transport error fails the request and leaves the session usable.
SessionKept(c) ==
  /\ worker[c] = "query"
  /\ Upstream!InService(session[c])
  /\ session' = [session EXCEPT ![c] = Upstream!Finished(@)]
  /\ Goto(c, "failure")
  /\ UNCHANGED <<builtin, shut, acceptor, registryVars, conn, clientVars,
                 answers>>

\* Query's transport error retires the session ...
SessionBreaks(c) ==
  /\ worker[c] = "query"
  /\ Upstream!InService(session[c])
  /\ ~session[c].retired
  /\ session' = [session EXCEPT ![c] = Upstream!Retired(@)]
  /\ UNCHANGED <<builtin, shut, acceptor, registryVars, conn, clientVars,
                 worker, answers>>

\* ... and a request in service on a retired session fails.
Failed(c) ==
  /\ worker[c] = "query"
  /\ Upstream!InService(session[c])
  /\ session[c].retired
  /\ session' = [session EXCEPT ![c] = Upstream!Finished(@)]
  /\ Goto(c, "failure")
  /\ UNCHANGED <<builtin, shut, acceptor, registryVars, conn, clientVars,
                 answers>>

\* A custom handler returns a reply or an error, or an invalid reply.
CustomResult(c) ==
  /\ worker[c] = "query"
  /\ ~builtin
  /\ \E result \in {"reply", "failure"} : Goto(c, result)
  /\ UNCHANGED <<builtin, shut, acceptor, registryVars, conn, clientVars,
                 session, answers>>

\* The client has the whole result.
Write(c) ==
  /\ worker[c] \in {"reply", "failure"}
  /\ conn[c] = "open" /\ ~gone[c]
  /\ answers' = [answers EXCEPT ![c] = Append(@, worker[c])]
  /\ Goto(c, "idle")
  /\ UNCHANGED <<builtin, shut, acceptor, registryVars, conn, clientVars,
                 session>>

\* The five-second deadline, or a close at either end.
WriteFail(c) ==
  /\ worker[c] \in {"reply", "failure"}
  /\ Return(c)
  /\ UNCHANGED <<builtin, shut, acceptor, registryVars, conn, clientVars,
                 session, answers>>

-----------------------------------------------------------------------------
(* The deferred calls, last deferred first *)

Unregister(c) ==
  /\ worker[c] = "unregister"
  /\ muFree
  /\ upstreams' = upstreams \ {c}
  /\ Goto(c, "closeUpstream")
  /\ UNCHANGED <<builtin, shut, acceptor, clients, conn, clientVars,
                 session, answers>>

CloseUpstream(c) ==
  /\ worker[c] = "closeUpstream"
  /\ session' = [session EXCEPT ![c] = Upstream!Retired(@)]
  /\ Goto(c, "closeConn")
  /\ UNCHANGED <<builtin, shut, acceptor, registryVars, conn, clientVars,
                 answers>>

CloseConn(c) ==
  /\ worker[c] = "closeConn"
  /\ conn' = [conn EXCEPT ![c] = "closed"]
  /\ Goto(c, "release")
  /\ UNCHANGED <<builtin, shut, acceptor, registryVars, clientVars,
                 session, answers>>

\* The slot is free only now, when the goroutine is about to end.
Release(c) ==
  /\ worker[c] = "release"
  /\ muFree
  /\ clients' = clients \ {c}
  /\ Goto(c, "exited")
  /\ UNCHANGED <<builtin, shut, acceptor, upstreams, conn, clientVars,
                 session, answers>>

-----------------------------------------------------------------------------
(* closeConnections: mu is held from the first of these to the last *)

BeginShutdown ==
  /\ shut = "running"
  /\ shut' = "listener"
  /\ UNCHANGED <<builtin, acceptor, registryVars, conn, clientVars, worker,
                 session, answers>>

CloseListener ==
  /\ shut = "listener"
  /\ shut' = "clients"
  /\ UNCHANGED <<builtin, acceptor, registryVars, conn, clientVars, worker,
                 session, answers>>

CloseClient(c) ==
  /\ shut = "clients"
  /\ c \in clients /\ conn[c] = "open"
  /\ conn' = [conn EXCEPT ![c] = "closed"]
  /\ UNCHANGED <<builtin, shut, acceptor, registryVars, clientVars, worker,
                 session, answers>>

ClientsClosed ==
  /\ shut = "clients"
  /\ \A c \in clients : conn[c] = "closed"
  /\ shut' = "upstreams"
  /\ UNCHANGED <<builtin, acceptor, registryVars, conn, clientVars, worker,
                 session, answers>>

RetireUpstream(c) ==
  /\ shut = "upstreams"
  /\ c \in upstreams /\ ~session[c].retired
  /\ session' = [session EXCEPT ![c] = Upstream!Retired(@)]
  /\ UNCHANGED <<builtin, shut, acceptor, registryVars, conn, clientVars,
                 worker, answers>>

\* Mutant: mu is kept until every client goroutine has ended.
EndShutdownAfterClients ==
  /\ shut = "upstreams"
  /\ \A c \in upstreams : session[c].retired
  /\ clients = {}
  /\ shut' = "done"
  /\ UNCHANGED <<builtin, acceptor, registryVars, conn, clientVars, worker,
                 session, answers>>

EndShutdown ==
  /\ shut = "upstreams"
  /\ \A c \in upstreams : session[c].retired
  /\ shut' = "done"
  /\ UNCHANGED <<builtin, acceptor, registryVars, conn, clientVars, worker,
                 session, answers>>

-----------------------------------------------------------------------------
(* A client writes frames, one ahead of the worker at most, may stall in   *)
(* the middle of one, and may leave at any time.                           *)

Unanswered(c) == IF worker[c] \in {"query", "reply", "failure"} THEN 1 ELSE 0

SendFirstByte(c) ==
  /\ conn[c] = "open" /\ ~gone[c]
  /\ sent[c] = "nothing"
  /\ Len(answers[c]) + Unanswered(c) < MaxFrames
  /\ sent' = [sent EXCEPT ![c] = "part"]
  /\ UNCHANGED <<builtin, shut, acceptor, registryVars, conn, gone, worker,
                 session, answers>>

SendRest(c) ==
  /\ conn[c] = "open" /\ ~gone[c]
  /\ sent[c] = "part"
  /\ \E what \in {"frame", "badLength"} : sent' = [sent EXCEPT ![c] = what]
  /\ UNCHANGED <<builtin, shut, acceptor, registryVars, conn, gone, worker,
                 session, answers>>

Leave(c) ==
  /\ conn[c] = "open" /\ ~gone[c]
  /\ gone' = [gone EXCEPT ![c] = TRUE]
  /\ UNCHANGED <<builtin, shut, acceptor, registryVars, conn, sent, worker,
                 session, answers>>

AcceptorStep ==
  \/ AcceptFail
  \/ \E c \in Clients : Admit(c) \/ TurnAway(c)

ShutdownStep ==
  \/ CloseListener \/ ClientsClosed \/ EndShutdown
  \/ \E c \in Clients : CloseClient(c) \/ RetireUpstream(c)

WorkerStep(c) ==
  \/ Register(c) \/ StartCustom(c)
  \/ FirstByte(c) \/ IdleFail(c) \/ ReadFrame(c) \/ FrameFail(c)
  \/ BeginQuery(c) \/ Answered(c) \/ SessionBreaks(c) \/ Failed(c)
  \/ Write(c) \/ WriteFail(c)
  \/ Unregister(c) \/ CloseUpstream(c) \/ CloseConn(c) \/ Release(c)

ClientStep(c) == Accept(c) \/ SendFirstByte(c) \/ SendRest(c) \/ Leave(c)

Next ==
  \/ AcceptorStep
  \/ BeginShutdown \/ ShutdownStep
  \/ \E c \in Clients : WorkerStep(c) \/ CustomResult(c) \/ ClientStep(c)

Spec == Init /\ [][Next]_vars

\* Goroutines run, and every wait but the one for a first byte ends: frames and
\* writes have deadlines, and so has a query of the built-in handler
\* (AgentSession's QueryReturns). A custom handler owes nothing, a client neither,
\* nor does an open listener, which may wait or fail.
FairSpec ==
  /\ Spec
  /\ WF_vars(AcceptorStep /\ (acceptor = "accept" => ~listening))
  /\ WF_vars(ShutdownStep)
  /\ \A c \in Clients : WF_vars(WorkerStep(c))

-----------------------------------------------------------------------------
(* Properties *)

TypeOK ==
  /\ builtin \in BOOLEAN
  /\ shut \in {"running", "listener", "clients", "upstreams", "done"}
  /\ acceptor \in {"accept", "returned"} \cup Clients
  /\ clients \subseteq Clients
  /\ upstreams \subseteq clients
  /\ conn \in [Clients -> {"new", "open", "closed"}]
  /\ gone \in [Clients -> BOOLEAN]
  /\ sent \in [Clients -> {"nothing", "part", "frame", "badLength"}]
  /\ worker \in [Clients -> {"none", "exited"} \cup Live]
  /\ session \in [Clients -> Upstream!Sessions]
  /\ answers \in [Clients -> Seq({"reply", "failure"})]

LiveClients == {c \in Clients : worker[c] \in Live}

\* At most maxClients goroutines serve clients, those in their deferred calls
\* included, whatever accepts, failures and shutdown do (run_windows.go 402, 410).
ClientLimit == Cardinality(LiveClients) <= MaxClients

\* Every open connection is in the acceptor's hands or has a goroutine that
\* will close it, and every session of a goroutine that ended is retired.
NothingLeaks ==
  \A c \in Clients :
    /\ conn[c] = "open" => c = acceptor \/ worker[c] \in Live
    /\ builtin /\ worker[c] = "exited" => session[c].retired

\* Once closeConnections has returned no client is connected through the
\* registry, and no goroutine has a session that could still start a request:
\* accepts and registrations that raced it change nothing (run_windows.go 402,
\* 427, 377-393).
ShutdownCutsOff ==
  shut = "done" =>
    /\ \A c \in clients : conn[c] = "closed"
    /\ builtin => \A c \in Clients : worker[c] \in Serving => session[c].retired

\* A client whose session has failed gets failures only: the session is never
\* replaced behind its back (agent.go 52, run_windows.go 416-440).
FailuresAreFinal ==
  builtin =>
    \A c \in Clients : \A i, j \in DOMAIN answers[c] :
      i < j /\ answers[c][i] = "failure" => answers[c][j] = "failure"

\* A goroutine waits without a bound only for the first byte of a frame:
\* "Bound incomplete frames after their first byte, not the idle connection"
\* (run_windows.go 441-442).
OnlyIdleWaits ==
  \A c \in Clients : worker[c] \in Live \ {"idle"} ~> worker[c] \notin Live \ {"idle"}

\* The slot of a client that has gone comes back.
SlotsComeBack ==
  \A c \in Clients : (gone[c] /\ c \in clients) ~> (c \notin clients)

Drained ==
  /\ shut = "done"
  /\ acceptor = "returned"
  /\ clients = {} /\ upstreams = {} /\ LiveClients = {}
  /\ \A c \in Clients : conn[c] # "open"

\* Shutdown ends and takes every goroutine with it: closeConnections holds mu
\* while it closes what goroutines that need mu are using (run_windows.go 377-393).
ShutdownDrains == closing ~> []Drained
=============================================================================
