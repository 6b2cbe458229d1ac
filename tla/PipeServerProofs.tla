--------------------------- MODULE PipeServerProofs ---------------------------
(***************************************************************************)
(* TLAPS proofs about PipeServer, for any number of connections and any    *)
(* limit. The inductive invariant adds to the types what the registries    *)
(* hold at each point of a goroutine (RegistryInv), what is closed by when *)
(* (ClosedInv), the bound itself, and what a failure means (FailureInv).   *)
(***************************************************************************)
EXTENDS PipeServer, FiniteSetTheorems, TLAPS

Unread(c) == IF sent[c] = "nothing" THEN 0 ELSE 1

\* The frames a client has sent fit its budget (the bound of the model).
FrameBound ==
  \A c \in Clients :
    Len(answers[c]) + Unanswered(c) + Unread(c) <= MaxFrames

\* The registries hold exactly the goroutines that have registered and have not
\* run the deferred deletion, and the acceptor's connection has no goroutine.
RegistryInv ==
  /\ clients = LiveClients
  /\ upstreams = {c \in Clients : builtin /\ worker[c] \in Serving \cup {"unregister"}}
  /\ \A c \in Clients :
       /\ acceptor = c => conn[c] = "open" /\ worker[c] = "none"
       /\ conn[c] = "new" => worker[c] = "none"

\* What has been closed by when.
ClosedInv ==
  /\ \A c \in Clients :
       /\ conn[c] = "open" => c = acceptor \/ worker[c] \in Live \ {"release"}
       /\ builtin /\ worker[c] \in {"closeConn", "release", "exited"} => session[c].retired
  /\ shut \in {"upstreams", "done"} => \A c \in clients : conn[c] = "closed"
  /\ shut = "done" => \A c \in upstreams : session[c].retired

\* A client that has got a failure, or is about to, has a retired session with
\* nothing in service.
FailureInv ==
  \A c \in Clients :
    /\ builtin /\ (worker[c] = "failure" \/ \E i \in DOMAIN answers[c] : answers[c][i] = "failure")
         => session[c].retired /\ ~Upstream!InService(session[c])
    /\ builtin /\ worker[c] = "reply"
         => \A i \in DOMAIN answers[c] : answers[c][i] # "failure"
    /\ Upstream!InService(session[c]) => builtin /\ worker[c] = "query"

IInv ==
  /\ TypeOK /\ FrameBound /\ RegistryInv /\ ClosedInv
  /\ ClientLimit
  /\ FailureInv /\ FailuresAreFinal

-----------------------------------------------------------------------------
LEMMA InitIInv == Init => IInv
<1> SUFFICES ASSUME Init PROVE IInv
    OBVIOUS
<1> USE ServerAssumption DEF Init
<1>1. TypeOK
  BY DEF TypeOK, Live, Upstream!NewSession, Upstream!Sessions
<1>2. FrameBound
  BY DEF FrameBound, Unanswered, Unread
<1>3. RegistryInv
  BY DEF RegistryInv, LiveClients, Live, Serving, Leaving
<1>4. ClosedInv
  BY DEF ClosedInv
<1>5. ClientLimit
  <2>1. LiveClients = {}
    BY DEF LiveClients, Live, Serving, Leaving
  <2>2. QED
    BY <2>1, FS_EmptySet DEF ClientLimit
<1>6. FailureInv
  BY DEF FailureInv, Upstream!NewSession, Upstream!InService
<1>7. FailuresAreFinal
  BY DEF FailuresAreFinal
<1>8. QED
  BY <1>1, <1>2, <1>3, <1>4, <1>5, <1>6, <1>7 DEF IInv

\* What the operations of SessionState do to the two fields of a session.
LEMMA SessionOps ==
  ASSUME NEW s \in Upstream!Sessions
  PROVE  /\ \A q \in 1..MaxFrames :
              /\ Upstream!Started(s, q) \in Upstream!Sessions
              /\ Upstream!Started(s, q).retired = s.retired
         /\ Upstream!Finished(s) \in Upstream!Sessions
         /\ Upstream!Finished(s).retired = s.retired
         /\ ~Upstream!InService(Upstream!Finished(s))
         /\ Upstream!Retired(s) \in Upstream!Sessions
         /\ Upstream!Retired(s).retired
         /\ Upstream!InService(Upstream!Retired(s)) <=> Upstream!InService(s)
BY DEF Upstream!Sessions, Upstream!Started, Upstream!Finished, Upstream!Retired,
       Upstream!InService

LEMMA TypeStep == TypeOK /\ FrameBound /\ RegistryInv /\ [Next]_vars => TypeOK'
<1> SUFFICES ASSUME TypeOK, FrameBound, RegistryInv, [Next]_vars PROVE TypeOK'
    OBVIOUS
<1> USE ServerAssumption DEF TypeOK, FrameBound, RegistryInv, Live, Serving, Leaving,
        Goto, Return, registryVars, clientVars, LiveClients
<1>1. ASSUME AcceptFail PROVE TypeOK'
  BY <1>1 DEF AcceptFail
<1>2. ASSUME NEW c \in Clients, Admit(c) PROVE TypeOK'
  BY <1>2 DEF Admit
<1>3. ASSUME NEW c \in Clients, TurnAway(c) PROVE TypeOK'
  BY <1>3 DEF TurnAway
<1>4. ASSUME BeginShutdown PROVE TypeOK'
  BY <1>4 DEF BeginShutdown
<1>5. ASSUME CloseListener PROVE TypeOK'
  BY <1>5 DEF CloseListener
<1>6. ASSUME ClientsClosed PROVE TypeOK'
  BY <1>6 DEF ClientsClosed
<1>7. ASSUME EndShutdown PROVE TypeOK'
  BY <1>7 DEF EndShutdown
<1>8. ASSUME NEW c \in Clients, CloseClient(c) PROVE TypeOK'
  BY <1>8 DEF CloseClient
<1>9. ASSUME NEW c \in Clients, RetireUpstream(c) PROVE TypeOK'
  <2>1. session' \in [Clients -> Upstream!Sessions]
    BY <1>9, SessionOps DEF RetireUpstream
  <2>2. QED
    BY <1>9, <2>1 DEF RetireUpstream
<1>10. ASSUME NEW c \in Clients, Register(c) PROVE TypeOK'
  <2>1. c \in clients
    BY <1>10 DEF Register
  <2>2. \/ worker' = [worker EXCEPT ![c] = "closeUpstream"] /\ upstreams' = upstreams
        \/ worker' = [worker EXCEPT ![c] = "idle"] /\ upstreams' = upstreams \cup {c}
    BY <1>10 DEF Register
  <2>3. UNCHANGED <<builtin, shut, acceptor, clients, conn, clientVars, session, answers>>
    BY <1>10 DEF Register
  <2>4. CASE worker' = [worker EXCEPT ![c] = "closeUpstream"] /\ upstreams' = upstreams
    BY <2>3, <2>4
  <2>5. CASE worker' = [worker EXCEPT ![c] = "idle"] /\ upstreams' = upstreams \cup {c}
    BY <2>1, <2>3, <2>5
  <2>6. QED
    BY <2>2, <2>4, <2>5
<1>11. ASSUME NEW c \in Clients, StartCustom(c) PROVE TypeOK'
  BY <1>11 DEF StartCustom
<1>12. ASSUME NEW c \in Clients, FirstByte(c) PROVE TypeOK'
  BY <1>12 DEF FirstByte
<1>13. ASSUME NEW c \in Clients, IdleFail(c) PROVE TypeOK'
  BY <1>13 DEF IdleFail
<1>14. ASSUME NEW c \in Clients, ReadFrame(c) PROVE TypeOK'
  BY <1>14 DEF ReadFrame
<1>15. ASSUME NEW c \in Clients, FrameFail(c) PROVE TypeOK'
  BY <1>15 DEF FrameFail
<1>16. ASSUME NEW c \in Clients, BeginQuery(c) PROVE TypeOK'
  <2>1. CASE session' = [session EXCEPT ![c] = Upstream!Started(@, FrameNumber(c))] /\ UNCHANGED worker
    <3>1. FrameNumber(c) \in 1..MaxFrames
      <4>1. Len(answers[c]) \in Nat /\ Unread(c) \in {0, 1} /\ Unanswered(c) = 1
        BY <1>16 DEF BeginQuery, Unanswered, Unread
      <4>2. QED
        BY <4>1 DEF FrameNumber
    <3>2. session' \in [Clients -> Upstream!Sessions]
      BY <2>1, <3>1, SessionOps
    <3>3. QED
      BY <1>16, <2>1, <3>2 DEF BeginQuery
  <2>2. CASE Goto(c, "failure") /\ UNCHANGED session
    BY <1>16, <2>2 DEF BeginQuery
  <2>3. QED
    BY <1>16, <2>1, <2>2 DEF BeginQuery
<1>17. ASSUME NEW c \in Clients, Answered(c) PROVE TypeOK'
  <2>1. session' \in [Clients -> Upstream!Sessions]
    BY <1>17, SessionOps DEF Answered
  <2>2. QED
    BY <1>17, <2>1 DEF Answered
<1>18. ASSUME NEW c \in Clients, SessionBreaks(c) PROVE TypeOK'
  <2>1. session' \in [Clients -> Upstream!Sessions]
    BY <1>18, SessionOps DEF SessionBreaks
  <2>2. QED
    BY <1>18, <2>1 DEF SessionBreaks
<1>19. ASSUME NEW c \in Clients, Failed(c) PROVE TypeOK'
  <2>1. session' \in [Clients -> Upstream!Sessions]
    BY <1>19, SessionOps DEF Failed
  <2>2. QED
    BY <1>19, <2>1 DEF Failed
<1>20. ASSUME NEW c \in Clients, Write(c) PROVE TypeOK'
  <2>1. answers' \in [Clients -> Seq({"reply", "failure"})]
    BY <1>20 DEF Write
  <2>2. QED
    BY <1>20, <2>1 DEF Write
<1>21. ASSUME NEW c \in Clients, WriteFail(c) PROVE TypeOK'
  BY <1>21 DEF WriteFail
<1>22. ASSUME NEW c \in Clients, Unregister(c) PROVE TypeOK'
  BY <1>22 DEF Unregister
<1>23. ASSUME NEW c \in Clients, CloseUpstream(c) PROVE TypeOK'
  <2>1. session' \in [Clients -> Upstream!Sessions]
    BY <1>23, SessionOps DEF CloseUpstream
  <2>2. QED
    BY <1>23, <2>1 DEF CloseUpstream
<1>24. ASSUME NEW c \in Clients, CloseConn(c) PROVE TypeOK'
  BY <1>24 DEF CloseConn
<1>25. ASSUME NEW c \in Clients, Release(c) PROVE TypeOK'
  BY <1>25 DEF Release
<1>26. ASSUME NEW c \in Clients, CustomResult(c) PROVE TypeOK'
  BY <1>26 DEF CustomResult
<1>27. ASSUME NEW c \in Clients, Accept(c) PROVE TypeOK'
  BY <1>27 DEF Accept
<1>28. ASSUME NEW c \in Clients, SendFirstByte(c) PROVE TypeOK'
  BY <1>28 DEF SendFirstByte
<1>29. ASSUME NEW c \in Clients, SendRest(c) PROVE TypeOK'
  BY <1>29 DEF SendRest
<1>30. ASSUME NEW c \in Clients, Leave(c) PROVE TypeOK'
  BY <1>30 DEF Leave
<1>31. CASE UNCHANGED vars
  BY <1>31 DEF vars
<1>32. QED
  BY <1>1, <1>2, <1>3, <1>4, <1>5, <1>6, <1>7, <1>8, <1>9, <1>10,
     <1>11, <1>12, <1>13, <1>14, <1>15, <1>16, <1>17, <1>18, <1>19, <1>20,
     <1>21, <1>22, <1>23, <1>24, <1>25, <1>26, <1>27, <1>28, <1>29, <1>30,
     <1>31
     DEF Next, AcceptorStep, ShutdownStep, WorkerStep, ClientStep

\* One client's counts decide the bound when the others' do not change.
LEMMA FrameStepOf ==
  ASSUME FrameBound, NEW c \in Clients,
         \A d \in Clients \ {c} : /\ answers'[d] = answers[d]
                                 /\ worker'[d] = worker[d]
                                 /\ sent'[d] = sent[d],
         Len(answers'[c]) + Unanswered(c)' + Unread(c)' <= MaxFrames
  PROVE  FrameBound'
<1>1. ASSUME NEW d \in Clients \ {c}
      PROVE  Len(answers'[d]) + Unanswered(d)' + Unread(d)' <= MaxFrames
  BY <1>1 DEF FrameBound, Unanswered, Unread
<1>2. QED
  BY <1>1 DEF FrameBound

LEMMA FrameCount ==
  ASSUME TypeOK, FrameBound, NEW c \in Clients
  PROVE  /\ Len(answers[c]) \in Nat
         /\ Unanswered(c) \in {0, 1}
         /\ Unread(c) \in {0, 1}
         /\ Len(answers[c]) + Unanswered(c) + Unread(c) <= MaxFrames
<1>1. Len(answers[c]) \in Nat
  BY DEF TypeOK
<1>2. Unanswered(c) \in {0, 1} /\ Unread(c) \in {0, 1}
  BY DEF Unanswered, Unread
<1>3. QED
  BY <1>1, <1>2 DEF FrameBound

LEMMA FrameStep == TypeOK /\ FrameBound /\ RegistryInv /\ [Next]_vars => FrameBound'
<1> SUFFICES ASSUME TypeOK, FrameBound, RegistryInv, [Next]_vars PROVE FrameBound'
    OBVIOUS
<1> USE ServerAssumption DEF TypeOK, FrameBound, RegistryInv, Live, Serving, Leaving,
        Goto, Return, registryVars, clientVars
<1>1. ASSUME AcceptFail PROVE FrameBound'
  BY <1>1 DEF AcceptFail, Unanswered, Unread
<1>2. ASSUME NEW c \in Clients, Admit(c) PROVE FrameBound'
  BY <1>2 DEF Admit, Unanswered, Unread
<1>3. ASSUME NEW c \in Clients, TurnAway(c) PROVE FrameBound'
  BY <1>3 DEF TurnAway, Unanswered, Unread
<1>4. ASSUME BeginShutdown PROVE FrameBound'
  BY <1>4 DEF BeginShutdown, Unanswered, Unread
<1>5. ASSUME CloseListener PROVE FrameBound'
  BY <1>5 DEF CloseListener, Unanswered, Unread
<1>6. ASSUME ClientsClosed PROVE FrameBound'
  BY <1>6 DEF ClientsClosed, Unanswered, Unread
<1>7. ASSUME EndShutdown PROVE FrameBound'
  BY <1>7 DEF EndShutdown, Unanswered, Unread
<1>8. ASSUME NEW c \in Clients, CloseClient(c) PROVE FrameBound'
  BY <1>8 DEF CloseClient, Unanswered, Unread
<1>9. ASSUME NEW c \in Clients, RetireUpstream(c) PROVE FrameBound'
  BY <1>9 DEF RetireUpstream, Unanswered, Unread
<1>10. ASSUME NEW c \in Clients, Register(c) PROVE FrameBound'
  <2>1. \/ worker' = [worker EXCEPT ![c] = "closeUpstream"]
        \/ worker' = [worker EXCEPT ![c] = "idle"]
    BY <1>10 DEF Register
  <2>2. worker[c] = "spawned" /\ answers' = answers /\ sent' = sent
    BY <1>10 DEF Register
  <2>3. CASE worker' = [worker EXCEPT ![c] = "closeUpstream"]
    BY <2>2, <2>3 DEF Unanswered, Unread
  <2>4. CASE worker' = [worker EXCEPT ![c] = "idle"]
    BY <2>2, <2>4 DEF Unanswered, Unread
  <2>5. QED
    BY <2>1, <2>3, <2>4
<1>11. ASSUME NEW c \in Clients, StartCustom(c) PROVE FrameBound'
  BY <1>11 DEF StartCustom, Unanswered, Unread
<1>12. ASSUME NEW c \in Clients, FirstByte(c) PROVE FrameBound'
  BY <1>12 DEF FirstByte, Unanswered, Unread
<1>13. ASSUME NEW c \in Clients, IdleFail(c) PROVE FrameBound'
  BY <1>13 DEF IdleFail, Unanswered, Unread
<1>14. ASSUME NEW c \in Clients, ReadFrame(c) PROVE FrameBound'
  <2>1. /\ Len(answers[c]) \in Nat /\ Unread(c) \in {0, 1}
        /\ Len(answers[c]) + Unanswered(c) + Unread(c) <= MaxFrames
    BY FrameCount
  <2>2. /\ Unanswered(c) = 0 /\ Unread(c) = 1
        /\ Unanswered(c)' = 1 /\ Unread(c)' = 0 /\ answers'[c] = answers[c]
    BY <1>14 DEF ReadFrame, Unanswered, Unread
  <2>3. Len(answers'[c]) + Unanswered(c)' + Unread(c)' <= MaxFrames
    BY <2>1, <2>2
  <2>4. QED
    BY <1>14, <2>3, FrameStepOf DEF ReadFrame
<1>15. ASSUME NEW c \in Clients, FrameFail(c) PROVE FrameBound'
  BY <1>15 DEF FrameFail, Unanswered, Unread
<1>16. ASSUME NEW c \in Clients, BeginQuery(c) PROVE FrameBound'
  <2>1. worker' = worker \/ worker' = [worker EXCEPT ![c] = "failure"]
    BY <1>16 DEF BeginQuery
  <2>2. \A d \in Clients : Unanswered(d)' = Unanswered(d) /\ Unread(d)' = Unread(d)
    BY <1>16, <2>1 DEF BeginQuery, Unanswered, Unread
  <2>3. answers' = answers
    BY <1>16 DEF BeginQuery
  <2>4. QED
    BY <2>2, <2>3
<1>17. ASSUME NEW c \in Clients, Answered(c) PROVE FrameBound'
  BY <1>17 DEF Answered, Unanswered, Unread
<1>18. ASSUME NEW c \in Clients, SessionBreaks(c) PROVE FrameBound'
  BY <1>18 DEF SessionBreaks, Unanswered, Unread
<1>19. ASSUME NEW c \in Clients, Failed(c) PROVE FrameBound'
  BY <1>19 DEF Failed, Unanswered, Unread
<1>20. ASSUME NEW c \in Clients, Write(c) PROVE FrameBound'
  <2>1. /\ Len(answers[c]) \in Nat /\ Unread(c) \in {0, 1}
        /\ Len(answers[c]) + Unanswered(c) + Unread(c) <= MaxFrames
    BY FrameCount
  <2>2. /\ Unanswered(c) = 1 /\ Unanswered(c)' = 0 /\ Unread(c)' = Unread(c)
        /\ Len(answers'[c]) = Len(answers[c]) + 1
    BY <1>20 DEF Write, Unanswered, Unread
  <2>3. Len(answers'[c]) + Unanswered(c)' + Unread(c)' <= MaxFrames
    BY <2>1, <2>2
  <2>4. QED
    BY <1>20, <2>3, FrameStepOf DEF Write
<1>21. ASSUME NEW c \in Clients, WriteFail(c) PROVE FrameBound'
  <2>1. /\ Len(answers[c]) \in Nat /\ Unread(c) \in {0, 1}
        /\ Len(answers[c]) + Unanswered(c) + Unread(c) <= MaxFrames
    BY FrameCount
  <2>2. /\ Unanswered(c) = 1 /\ Unanswered(c)' = 0 /\ Unread(c)' = Unread(c)
        /\ answers'[c] = answers[c]
    BY <1>21 DEF WriteFail, Unanswered, Unread
  <2>3. Len(answers'[c]) + Unanswered(c)' + Unread(c)' <= MaxFrames
    BY <2>1, <2>2
  <2>4. QED
    BY <1>21, <2>3, FrameStepOf DEF WriteFail
<1>22. ASSUME NEW c \in Clients, Unregister(c) PROVE FrameBound'
  BY <1>22 DEF Unregister, Unanswered, Unread
<1>23. ASSUME NEW c \in Clients, CloseUpstream(c) PROVE FrameBound'
  BY <1>23 DEF CloseUpstream, Unanswered, Unread
<1>24. ASSUME NEW c \in Clients, CloseConn(c) PROVE FrameBound'
  BY <1>24 DEF CloseConn, Unanswered, Unread
<1>25. ASSUME NEW c \in Clients, Release(c) PROVE FrameBound'
  BY <1>25 DEF Release, Unanswered, Unread
<1>26. ASSUME NEW c \in Clients, CustomResult(c) PROVE FrameBound'
  BY <1>26 DEF CustomResult, Unanswered, Unread
<1>27. ASSUME NEW c \in Clients, Accept(c) PROVE FrameBound'
  BY <1>27 DEF Accept, Unanswered, Unread
<1>28. ASSUME NEW c \in Clients, SendFirstByte(c) PROVE FrameBound'
  <2>1. /\ Len(answers[c]) \in Nat /\ Unread(c) \in {0, 1}
        /\ Len(answers[c]) + Unanswered(c) + Unread(c) <= MaxFrames
    BY FrameCount
  <2>2. /\ Unread(c)' = 1 /\ Unanswered(c)' = Unanswered(c) /\ answers'[c] = answers[c]
        /\ Len(answers[c]) + Unanswered(c) < MaxFrames /\ Unanswered(c) \in {0, 1}
    BY <1>28, FrameCount DEF SendFirstByte, Unanswered, Unread
  <2>3. Len(answers'[c]) + Unanswered(c)' + Unread(c)' <= MaxFrames
    BY <2>1, <2>2
  <2>4. QED
    BY <1>28, <2>3, FrameStepOf DEF SendFirstByte
<1>29. ASSUME NEW c \in Clients, SendRest(c) PROVE FrameBound'
  BY <1>29 DEF SendRest, Unanswered, Unread
<1>30. ASSUME NEW c \in Clients, Leave(c) PROVE FrameBound'
  BY <1>30 DEF Leave, Unanswered, Unread
<1>31. CASE UNCHANGED vars
  BY <1>31 DEF vars, Unanswered, Unread
<1>32. QED
  BY <1>1, <1>2, <1>3, <1>4, <1>5, <1>6, <1>7, <1>8, <1>9, <1>10,
     <1>11, <1>12, <1>13, <1>14, <1>15, <1>16, <1>17, <1>18, <1>19, <1>20,
     <1>21, <1>22, <1>23, <1>24, <1>25, <1>26, <1>27, <1>28, <1>29, <1>30,
     <1>31
     DEF Next, AcceptorStep, ShutdownStep, WorkerStep, ClientStep

LEMMA RegistryStep == TypeOK /\ RegistryInv /\ [Next]_vars => RegistryInv'
<1> SUFFICES ASSUME TypeOK, RegistryInv, [Next]_vars PROVE RegistryInv'
    OBVIOUS
<1> USE ServerAssumption DEF TypeOK, RegistryInv, Live, Serving, Leaving,
        Goto, Return, registryVars, clientVars, LiveClients
<1>1. ASSUME AcceptFail PROVE RegistryInv'
  BY <1>1 DEF AcceptFail
<1>2. ASSUME NEW c \in Clients, Admit(c) PROVE RegistryInv'
  BY <1>2 DEF Admit
<1>3. ASSUME NEW c \in Clients, TurnAway(c) PROVE RegistryInv'
  BY <1>3 DEF TurnAway
<1>4. ASSUME BeginShutdown PROVE RegistryInv'
  BY <1>4 DEF BeginShutdown
<1>5. ASSUME CloseListener PROVE RegistryInv'
  BY <1>5 DEF CloseListener
<1>6. ASSUME ClientsClosed PROVE RegistryInv'
  BY <1>6 DEF ClientsClosed
<1>7. ASSUME EndShutdown PROVE RegistryInv'
  BY <1>7 DEF EndShutdown
<1>8. ASSUME NEW c \in Clients, CloseClient(c) PROVE RegistryInv'
  BY <1>8 DEF CloseClient
<1>9. ASSUME NEW c \in Clients, RetireUpstream(c) PROVE RegistryInv'
  BY <1>9 DEF RetireUpstream
<1>10. ASSUME NEW c \in Clients, Register(c) PROVE RegistryInv'
  BY <1>10 DEF Register
<1>11. ASSUME NEW c \in Clients, StartCustom(c) PROVE RegistryInv'
  BY <1>11 DEF StartCustom
<1>12. ASSUME NEW c \in Clients, FirstByte(c) PROVE RegistryInv'
  BY <1>12 DEF FirstByte
<1>13. ASSUME NEW c \in Clients, IdleFail(c) PROVE RegistryInv'
  BY <1>13 DEF IdleFail
<1>14. ASSUME NEW c \in Clients, ReadFrame(c) PROVE RegistryInv'
  BY <1>14 DEF ReadFrame
<1>15. ASSUME NEW c \in Clients, FrameFail(c) PROVE RegistryInv'
  BY <1>15 DEF FrameFail
<1>16. ASSUME NEW c \in Clients, BeginQuery(c) PROVE RegistryInv'
  BY <1>16 DEF BeginQuery
<1>17. ASSUME NEW c \in Clients, Answered(c) PROVE RegistryInv'
  BY <1>17 DEF Answered
<1>18. ASSUME NEW c \in Clients, SessionBreaks(c) PROVE RegistryInv'
  BY <1>18 DEF SessionBreaks
<1>19. ASSUME NEW c \in Clients, Failed(c) PROVE RegistryInv'
  BY <1>19 DEF Failed
<1>20. ASSUME NEW c \in Clients, Write(c) PROVE RegistryInv'
  BY <1>20 DEF Write
<1>21. ASSUME NEW c \in Clients, WriteFail(c) PROVE RegistryInv'
  BY <1>21 DEF WriteFail
<1>22. ASSUME NEW c \in Clients, Unregister(c) PROVE RegistryInv'
  BY <1>22 DEF Unregister
<1>23. ASSUME NEW c \in Clients, CloseUpstream(c) PROVE RegistryInv'
  BY <1>23 DEF CloseUpstream
<1>24. ASSUME NEW c \in Clients, CloseConn(c) PROVE RegistryInv'
  BY <1>24 DEF CloseConn
<1>25. ASSUME NEW c \in Clients, Release(c) PROVE RegistryInv'
  BY <1>25 DEF Release
<1>26. ASSUME NEW c \in Clients, CustomResult(c) PROVE RegistryInv'
  BY <1>26 DEF CustomResult
<1>27. ASSUME NEW c \in Clients, Accept(c) PROVE RegistryInv'
  BY <1>27 DEF Accept
<1>28. ASSUME NEW c \in Clients, SendFirstByte(c) PROVE RegistryInv'
  BY <1>28 DEF SendFirstByte
<1>29. ASSUME NEW c \in Clients, SendRest(c) PROVE RegistryInv'
  BY <1>29 DEF SendRest
<1>30. ASSUME NEW c \in Clients, Leave(c) PROVE RegistryInv'
  BY <1>30 DEF Leave
<1>31. CASE UNCHANGED vars
  BY <1>31 DEF vars
<1>32. QED
  BY <1>1, <1>2, <1>3, <1>4, <1>5, <1>6, <1>7, <1>8, <1>9, <1>10, <1>11, <1>12, <1>13, <1>14, <1>15, <1>16, <1>17, <1>18, <1>19, <1>20, <1>21, <1>22, <1>23, <1>24, <1>25, <1>26, <1>27, <1>28, <1>29, <1>30, <1>31
     DEF Next, AcceptorStep, ShutdownStep, WorkerStep, ClientStep

LEMMA ClosedStep == TypeOK /\ RegistryInv /\ ClosedInv /\ [Next]_vars => ClosedInv'
<1> SUFFICES ASSUME TypeOK, RegistryInv, ClosedInv, [Next]_vars PROVE ClosedInv'
    OBVIOUS
<1> USE ServerAssumption, SessionOps DEF TypeOK, RegistryInv, ClosedInv, Live, Serving,
        Leaving, Goto, Return, registryVars, clientVars, LiveClients
<1>1. ASSUME AcceptFail PROVE ClosedInv'
  BY <1>1 DEF AcceptFail
<1>2. ASSUME NEW c \in Clients, Admit(c) PROVE ClosedInv'
  <2>1. /\ ~closing /\ acceptor = c /\ acceptor' = "accept"
        /\ worker' = [worker EXCEPT ![c] = "spawned"]
        /\ clients' = clients \cup {c}
        /\ UNCHANGED <<builtin, shut, conn, session, upstreams>>
    BY <1>2 DEF Admit
  <2>2. QED
    BY <2>1 DEF closing
<1>3. ASSUME NEW c \in Clients, TurnAway(c) PROVE ClosedInv'
  BY <1>3 DEF TurnAway
<1>4. ASSUME BeginShutdown PROVE ClosedInv'
  BY <1>4 DEF BeginShutdown
<1>5. ASSUME CloseListener PROVE ClosedInv'
  BY <1>5 DEF CloseListener
<1>6. ASSUME ClientsClosed PROVE ClosedInv'
  BY <1>6 DEF ClientsClosed
<1>7. ASSUME EndShutdown PROVE ClosedInv'
  BY <1>7 DEF EndShutdown
<1>8. ASSUME NEW c \in Clients, CloseClient(c) PROVE ClosedInv'
  BY <1>8 DEF CloseClient
<1>9. ASSUME NEW c \in Clients, RetireUpstream(c) PROVE ClosedInv'
  BY <1>9 DEF RetireUpstream
<1>10. ASSUME NEW c \in Clients, Register(c) PROVE ClosedInv'
  <2>1. CASE closing
    <3>1. /\ worker' = [worker EXCEPT ![c] = "closeUpstream"] /\ worker[c] = "spawned"
          /\ UNCHANGED <<builtin, shut, conn, session, upstreams, clients, acceptor>>
      BY <1>10, <2>1 DEF Register
    <3>2. QED
      BY <3>1
  <2>2. CASE ~closing
    <3>1. /\ worker' = [worker EXCEPT ![c] = "idle"] /\ worker[c] = "spawned"
          /\ UNCHANGED <<builtin, shut, conn, session, clients, acceptor>>
      BY <1>10, <2>2 DEF Register
    <3>2. QED
      BY <2>2, <3>1 DEF closing
  <2>3. QED
    BY <2>1, <2>2
<1>11. ASSUME NEW c \in Clients, StartCustom(c) PROVE ClosedInv'
  BY <1>11 DEF StartCustom
<1>12. ASSUME NEW c \in Clients, FirstByte(c) PROVE ClosedInv'
  BY <1>12 DEF FirstByte
<1>13. ASSUME NEW c \in Clients, IdleFail(c) PROVE ClosedInv'
  BY <1>13 DEF IdleFail
<1>14. ASSUME NEW c \in Clients, ReadFrame(c) PROVE ClosedInv'
  BY <1>14 DEF ReadFrame
<1>15. ASSUME NEW c \in Clients, FrameFail(c) PROVE ClosedInv'
  BY <1>15 DEF FrameFail
<1>16. ASSUME NEW c \in Clients, BeginQuery(c) PROVE ClosedInv'
  <2>1. /\ worker[c] = "query"
        /\ \E label \in {"query", "failure"} : worker' = [worker EXCEPT ![c] = label]
        /\ UNCHANGED <<builtin, shut, acceptor, clients, upstreams, conn>>
    BY <1>16 DEF BeginQuery
  <2>2. ASSUME NEW d \in Clients, session[d].retired PROVE session'[d].retired
    <3>1. CASE UNCHANGED session
      BY <2>2, <3>1
    <3>2. CASE Upstream!MayStart(session[c]) /\ \E s : session' = [session EXCEPT ![c] = s]
      <4>1. d # c
        BY <2>2, <3>2 DEF Upstream!MayStart
      <4>2. QED
        BY <2>2, <3>2, <4>1
    <3>3. QED
      BY <1>16, <3>1, <3>2 DEF BeginQuery
  <2>3. QED
    BY <2>1, <2>2
<1>17. ASSUME NEW c \in Clients, Answered(c) PROVE ClosedInv'
  BY <1>17 DEF Answered
<1>18. ASSUME NEW c \in Clients, SessionBreaks(c) PROVE ClosedInv'
  BY <1>18 DEF SessionBreaks
<1>19. ASSUME NEW c \in Clients, Failed(c) PROVE ClosedInv'
  BY <1>19 DEF Failed
<1>20. ASSUME NEW c \in Clients, Write(c) PROVE ClosedInv'
  BY <1>20 DEF Write
<1>21. ASSUME NEW c \in Clients, WriteFail(c) PROVE ClosedInv'
  BY <1>21 DEF WriteFail
<1>22. ASSUME NEW c \in Clients, Unregister(c) PROVE ClosedInv'
  BY <1>22 DEF Unregister
<1>23. ASSUME NEW c \in Clients, CloseUpstream(c) PROVE ClosedInv'
  BY <1>23 DEF CloseUpstream
<1>24. ASSUME NEW c \in Clients, CloseConn(c) PROVE ClosedInv'
  BY <1>24 DEF CloseConn
<1>25. ASSUME NEW c \in Clients, Release(c) PROVE ClosedInv'
  BY <1>25 DEF Release
<1>26. ASSUME NEW c \in Clients, CustomResult(c) PROVE ClosedInv'
  BY <1>26 DEF CustomResult
<1>27. ASSUME NEW c \in Clients, Accept(c) PROVE ClosedInv'
  BY <1>27 DEF Accept
<1>28. ASSUME NEW c \in Clients, SendFirstByte(c) PROVE ClosedInv'
  BY <1>28 DEF SendFirstByte
<1>29. ASSUME NEW c \in Clients, SendRest(c) PROVE ClosedInv'
  BY <1>29 DEF SendRest
<1>30. ASSUME NEW c \in Clients, Leave(c) PROVE ClosedInv'
  BY <1>30 DEF Leave
<1>31. CASE UNCHANGED vars
  BY <1>31 DEF vars
<1>32. QED
  BY <1>1, <1>2, <1>3, <1>4, <1>5, <1>6, <1>7, <1>8, <1>9, <1>10,
     <1>11, <1>12, <1>13, <1>14, <1>15, <1>16, <1>17, <1>18, <1>19, <1>20,
     <1>21, <1>22, <1>23, <1>24, <1>25, <1>26, <1>27, <1>28, <1>29, <1>30,
     <1>31
     DEF Next, AcceptorStep, ShutdownStep, WorkerStep, ClientStep

\* Only Admit adds a client, and only below the limit.
LEMMA LimitStep ==
  TypeOK /\ RegistryInv /\ RegistryInv' /\ ClientLimit /\ [Next]_vars => ClientLimit'
<1> SUFFICES ASSUME TypeOK, RegistryInv, RegistryInv', ClientLimit, [Next]_vars
             PROVE  ClientLimit'
    OBVIOUS
<1> USE ServerAssumption
<1>1. /\ IsFiniteSet(clients) /\ Cardinality(clients) \in Nat
      /\ Cardinality(clients) <= MaxClients
      /\ clients' = LiveClients'
  <2>1. IsFiniteSet(clients)
    BY FS_Subset DEF TypeOK
  <2>2. QED
    BY <2>1, FS_CardinalityType DEF RegistryInv, ClientLimit
<1>2. ASSUME NEW c \in Clients, Admit(c) PROVE ClientLimit'
  <2>1. Cardinality(clients) < MaxClients /\ clients' = clients \cup {c}
    BY <1>1, <1>2 DEF Admit, Full, ServerAssumption
  <2>2. \/ Cardinality(clients \cup {c}) = Cardinality(clients)
        \/ Cardinality(clients \cup {c}) = Cardinality(clients) + 1
    BY <1>1, FS_AddElement
  <2>3. Cardinality(clients') <= MaxClients
    BY <1>1, <2>1, <2>2 DEF ServerAssumption
  <2>4. QED
    BY <1>1, <2>3 DEF ClientLimit
<1>3. ASSUME NEW c \in Clients, Release(c) PROVE ClientLimit'
  <2>1. clients' \subseteq clients
    BY <1>3 DEF Release
  <2>2. Cardinality(clients') <= Cardinality(clients)
    BY <1>1, <2>1, FS_Subset
  <2>3. Cardinality(clients') \in Nat
    BY <1>1, <2>1, FS_Subset, FS_CardinalityType
  <2>4. QED
    BY <1>1, <2>2, <2>3 DEF ClientLimit
<1>4. CASE UNCHANGED clients
  BY <1>1, <1>4 DEF ClientLimit
<1>5. (\E c \in Clients : Admit(c) \/ Release(c)) \/ UNCHANGED clients
  BY DEF Next, AcceptorStep, ShutdownStep, WorkerStep, ClientStep, vars, registryVars,
         AcceptFail, TurnAway, BeginShutdown, CloseListener, ClientsClosed, EndShutdown,
         CloseClient, RetireUpstream, Register, StartCustom, FirstByte, IdleFail,
         ReadFrame, FrameFail, BeginQuery, Answered, SessionBreaks, Failed,
         Write, WriteFail, Unregister, CloseUpstream, CloseConn, CustomResult,
         Accept, SendFirstByte, SendRest, Leave
<1>6. QED
  BY <1>2, <1>3, <1>4, <1>5

LEMMA FailureStep == TypeOK /\ RegistryInv /\ FailureInv /\ [Next]_vars => FailureInv'
<1> SUFFICES ASSUME TypeOK, RegistryInv, FailureInv, [Next]_vars PROVE FailureInv'
    OBVIOUS
<1> USE ServerAssumption, SessionOps DEF TypeOK, FailureInv, Live, Serving,
        Leaving, Goto, Return, registryVars, clientVars
<1>1. ASSUME AcceptFail PROVE FailureInv'
  BY <1>1 DEF AcceptFail
<1>2. ASSUME NEW c \in Clients, Admit(c) PROVE FailureInv'
  BY <1>2 DEF Admit, RegistryInv
<1>3. ASSUME NEW c \in Clients, TurnAway(c) PROVE FailureInv'
  BY <1>3 DEF TurnAway
<1>4. ASSUME BeginShutdown PROVE FailureInv'
  BY <1>4 DEF BeginShutdown
<1>5. ASSUME CloseListener PROVE FailureInv'
  BY <1>5 DEF CloseListener
<1>6. ASSUME ClientsClosed PROVE FailureInv'
  BY <1>6 DEF ClientsClosed
<1>7. ASSUME EndShutdown PROVE FailureInv'
  BY <1>7 DEF EndShutdown
<1>8. ASSUME NEW c \in Clients, CloseClient(c) PROVE FailureInv'
  BY <1>8 DEF CloseClient
<1>9. ASSUME NEW c \in Clients, RetireUpstream(c) PROVE FailureInv'
  BY <1>9 DEF RetireUpstream
<1>10. ASSUME NEW c \in Clients, Register(c) PROVE FailureInv'
  BY <1>10 DEF Register
<1>11. ASSUME NEW c \in Clients, StartCustom(c) PROVE FailureInv'
  BY <1>11 DEF StartCustom
<1>12. ASSUME NEW c \in Clients, FirstByte(c) PROVE FailureInv'
  BY <1>12 DEF FirstByte
<1>13. ASSUME NEW c \in Clients, IdleFail(c) PROVE FailureInv'
  BY <1>13 DEF IdleFail
<1>14. ASSUME NEW c \in Clients, ReadFrame(c) PROVE FailureInv'
  BY <1>14 DEF ReadFrame
<1>15. ASSUME NEW c \in Clients, FrameFail(c) PROVE FailureInv'
  BY <1>15 DEF FrameFail
<1>16. ASSUME NEW c \in Clients, BeginQuery(c) PROVE FailureInv'
  <2>1. worker[c] = "query" /\ builtin /\ UNCHANGED <<builtin, answers>>
    BY <1>16 DEF BeginQuery
  <2>2. CASE Goto(c, "failure") /\ session[c].retired /\ UNCHANGED session
    BY <1>16, <2>1, <2>2 DEF BeginQuery
  <2>3. CASE /\ Upstream!MayStart(session[c]) /\ UNCHANGED worker
             /\ session' = [session EXCEPT ![c] = Upstream!Started(@, FrameNumber(c))]
    <3>1. ~session[c].retired
      BY <2>3 DEF Upstream!MayStart
    <3>2. \A i \in DOMAIN answers[c] : answers[c][i] # "failure"
      BY <2>1, <3>1
    <3>3. QED
      BY <2>1, <2>3, <3>2
  <2>4. QED
    BY <1>16, <2>2, <2>3 DEF BeginQuery
<1>17. ASSUME NEW c \in Clients, Answered(c) PROVE FailureInv'
  BY <1>17 DEF Answered
<1>18. ASSUME NEW c \in Clients, SessionBreaks(c) PROVE FailureInv'
  BY <1>18 DEF SessionBreaks
<1>19. ASSUME NEW c \in Clients, Failed(c) PROVE FailureInv'
  BY <1>19 DEF Failed
<1>20. ASSUME NEW c \in Clients, Write(c) PROVE FailureInv'
  BY <1>20 DEF Write
<1>21. ASSUME NEW c \in Clients, WriteFail(c) PROVE FailureInv'
  BY <1>21 DEF WriteFail
<1>22. ASSUME NEW c \in Clients, Unregister(c) PROVE FailureInv'
  BY <1>22 DEF Unregister
<1>23. ASSUME NEW c \in Clients, CloseUpstream(c) PROVE FailureInv'
  BY <1>23 DEF CloseUpstream
<1>24. ASSUME NEW c \in Clients, CloseConn(c) PROVE FailureInv'
  BY <1>24 DEF CloseConn
<1>25. ASSUME NEW c \in Clients, Release(c) PROVE FailureInv'
  BY <1>25 DEF Release
<1>26. ASSUME NEW c \in Clients, CustomResult(c) PROVE FailureInv'
  BY <1>26 DEF CustomResult
<1>27. ASSUME NEW c \in Clients, Accept(c) PROVE FailureInv'
  BY <1>27 DEF Accept
<1>28. ASSUME NEW c \in Clients, SendFirstByte(c) PROVE FailureInv'
  BY <1>28 DEF SendFirstByte
<1>29. ASSUME NEW c \in Clients, SendRest(c) PROVE FailureInv'
  BY <1>29 DEF SendRest
<1>30. ASSUME NEW c \in Clients, Leave(c) PROVE FailureInv'
  BY <1>30 DEF Leave
<1>31. CASE UNCHANGED vars
  BY <1>31 DEF vars
<1>32. QED
  BY <1>1, <1>2, <1>3, <1>4, <1>5, <1>6, <1>7, <1>8, <1>9, <1>10,
     <1>11, <1>12, <1>13, <1>14, <1>15, <1>16, <1>17, <1>18, <1>19, <1>20,
     <1>21, <1>22, <1>23, <1>24, <1>25, <1>26, <1>27, <1>28, <1>29, <1>30,
     <1>31
     DEF Next, AcceptorStep, ShutdownStep, WorkerStep, ClientStep

\* Answers only grow, and a reply is appended to a list without failures.
LEMMA FinalStep ==
  TypeOK /\ FailureInv /\ FailuresAreFinal /\ [Next]_vars => FailuresAreFinal'
<1> SUFFICES ASSUME TypeOK, FailureInv, FailuresAreFinal, [Next]_vars
             PROVE  FailuresAreFinal'
    OBVIOUS
<1>1. ASSUME NEW c \in Clients, Write(c) PROVE FailuresAreFinal'
  <2> DEFINE s == answers[c]
  <2>1. /\ s \in Seq({"reply", "failure"})
        /\ worker[c] \in {"reply", "failure"}
        /\ builtin' = builtin
        /\ answers' = [answers EXCEPT ![c] = Append(answers[c], worker[c])]
    BY <1>1 DEF Write, TypeOK
  <2>2. SUFFICES ASSUME builtin, NEW d \in Clients, NEW i \in DOMAIN answers'[d],
                        NEW j \in DOMAIN answers'[d], i < j, answers'[d][i] = "failure"
                 PROVE  answers'[d][j] = "failure"
    BY <2>1 DEF FailuresAreFinal
  <2>3. CASE d # c
    <3>1. answers'[d] = answers[d]
      BY <2>1, <2>3 DEF TypeOK
    <3>2. QED
      BY <2>2, <3>1 DEF FailuresAreFinal
  <2>4. CASE d = c
    <3>1. answers'[d] = Append(s, worker[c])
      BY <2>1, <2>4 DEF TypeOK
    <3>2. DOMAIN answers'[d] = 1..(Len(s) + 1) /\ Len(s) \in Nat /\ DOMAIN s = 1..Len(s)
      BY <2>1, <3>1
    <3>3. i \in DOMAIN s /\ s[i] = "failure"
      BY <2>1, <2>2, <3>1, <3>2
    <3>4. CASE j \in DOMAIN s
      <4>1. s[j] = "failure"
        BY <2>2, <3>3, <3>4 DEF FailuresAreFinal
      <4>2. QED
        BY <2>1, <3>1, <3>2, <3>4, <4>1
    <3>5. CASE j = Len(s) + 1
      <4>1. worker[c] # "reply"
        BY <2>2, <3>3 DEF FailureInv
      <4>2. QED
        BY <2>1, <3>1, <3>5, <4>1
    <3>6. QED
      BY <3>2, <3>4, <3>5
  <2>5. QED
    BY <2>3, <2>4
<1>2. CASE UNCHANGED <<builtin, answers>>
  BY <1>2 DEF FailuresAreFinal
<1>3. (\E c \in Clients : Write(c)) \/ UNCHANGED <<builtin, answers>>
  BY DEF Next, AcceptorStep, ShutdownStep, WorkerStep, ClientStep, vars,
         AcceptFail, Admit, TurnAway, BeginShutdown, CloseListener, ClientsClosed,
         EndShutdown, CloseClient, RetireUpstream, Register, StartCustom, FirstByte,
         IdleFail, ReadFrame, FrameFail, BeginQuery, Answered, SessionBreaks, Failed,
         WriteFail, Unregister, CloseUpstream, CloseConn, Release, CustomResult,
         Accept, SendFirstByte, SendRest, Leave
<1>4. QED
  BY <1>1, <1>2, <1>3

-----------------------------------------------------------------------------
LEMMA IInvStep == IInv /\ [Next]_vars => IInv'
  BY TypeStep, FrameStep, RegistryStep, ClosedStep, LimitStep, FailureStep, FinalStep
     DEF IInv

THEOREM Invariance == Spec => []IInv
  BY InitIInv, IInvStep, PTL DEF Spec

\* "TypeOK" holds in every behavior of the server.
THEOREM TypeCorrect == Spec => []TypeOK
<1>1. IInv => TypeOK
  BY DEF IInv
<1>2. QED
  BY <1>1, Invariance, PTL

\* "ClientLimit" in every behavior: maxClients bounds the goroutines that serve
\* clients, however accepts, returns and shutdown interleave (run_windows.go 402-411).
THEOREM LimitHolds == Spec => []ClientLimit
<1>1. IInv => ClientLimit
  BY DEF IInv
<1>2. QED
  BY <1>1, Invariance, PTL

\* "NothingLeaks" in every behavior: every open connection has a goroutine that
\* will close it, every finished one a retired session (run_windows.go 403-437).
THEOREM LeakFree == Spec => []NothingLeaks
<1>1. IInv => NothingLeaks
  BY DEF IInv, ClosedInv, NothingLeaks
<1>2. QED
  BY <1>1, Invariance, PTL

\* "ShutdownCutsOff" in every behavior: when closeConnections returns, no accept
\* or registration that raced it has left a client connected or a session usable
\* (run_windows.go 377-393, 402, 427).
THEOREM ShutdownIsComplete == Spec => []ShutdownCutsOff
<1>1. IInv => ShutdownCutsOff
  BY DEF IInv, TypeOK, RegistryInv, ClosedInv, ShutdownCutsOff
<1>2. QED
  BY <1>1, Invariance, PTL

\* "FailuresAreFinal" in every behavior: after a transport failure a client gets
\* no reply from another agent connection (run_windows.go 416-440, agent.go 52).
THEOREM FailuresStay == Spec => []FailuresAreFinal
<1>1. IInv => FailuresAreFinal
  BY DEF IInv
<1>2. QED
  BY <1>1, Invariance, PTL
=============================================================================
