--------------------------- MODULE LifecycleProofs ---------------------------
(***************************************************************************)
(* Proofs about Lifecycle, for any processes and command lines.            *)
(***************************************************************************)
EXTENDS Lifecycle, FiniteSetTheorems, TLAPS

\* Where a process is that created the mutex, and where it is past Check.
Bridge == {"check", "listen", "windows", "ipc", "loop", "destroy", "connections"}
PastCheck == Bridge \ {"check"}

Labels ==
  {"new", "look", "look_again", "post", "post_again", "mutex", "release", "exit", "ended",
   "seek", "seek_old", "close", "close_old", "wait"} \cup Bridge
Results ==
  {"none", "other_installation", "error", "shown", "deferred", "refused", "ok", "crashed",
   "exited", "nothing_to_exit"}

Types ==
  /\ TypeOK
  /\ pc \in [Procs -> Labels]
  /\ result \in [Procs -> Results]

\* What a process owns where it is.
OwnInv ==
  \A p \in Procs :
    /\ pc[p] \in Bridge => "mutex" \in own[p]
    /\ "control" \in own[p] => pc[p] \in {"ipc", "loop", "destroy"}
    /\ pc[p] \in {"ipc", "loop"} => "control" \in own[p]
    /\ "pipe" \in own[p] => pc[p] \in PastCheck \ {"listen"}
    /\ pc[p] \in {"windows", "ipc", "loop"} /\ p \in PageantPipe => "pipe" \in own[p]
    /\ pc[p] = "ended" => own[p] = {}

\* Of two processes one has no part in the bridge.
PairInv ==
  \A p, q \in Procs : p # q =>
    /\ ~(pc[p] \in Bridge /\ pc[q] \in Bridge)
    /\ pc[q] \in PastCheck => "pageant" \notin own[p]
    /\ ~("pageant" \in own[p] /\ "pageant" \in own[q])

\* What "--exit" has found.
TargetInv ==
  \A p \in Procs :
    /\ pc[p] \in {"seek", "close", "seek_old", "close_old", "wait"} => mode[p] = "exit"
    /\ pc[p] \in {"post", "post_again", "close", "close_old", "wait"} => target[p] \in Procs
    /\ result[p] = "exited" =>
         /\ pc[p] \in {"exit", "ended"}
         /\ target[p] \in Procs /\ pc[target[p]] = "ended"

LifecycleInv == Types /\ OwnInv /\ PairInv /\ TargetInv

LEMMA InitInv == Init => LifecycleInv
  BY LifecycleAssumption
  DEF Init, LifecycleInv, Types, TypeOK, OwnInv, PairInv, TargetInv,
      Bridge, PastCheck, Objects, Modes, Labels, Results

\* Where main goes by its command line.
LEMMA LaunchTo ==
  ASSUME NEW p \in Procs, mode[p] \in Modes, Launch(p)
  PROVE  \E l \in {"look", "seek", "mutex"} : Goto(p, l) /\ (l = "seek" => mode[p] = "exit")
<1>1. CASE mode[p] = "show"
  BY <1>1, SMT DEF Launch
<1>2. CASE mode[p] = "exit"
  BY <1>2, SMT DEF Launch
<1>3. CASE mode[p] = "start"
  BY <1>3, SMT DEF Launch
<1>4. QED
  BY <1>1, <1>2, <1>3 DEF Modes

\* Types.
LEMMA TypesKept == LifecycleInv /\ [Next]_vars => Types'
<1> SUFFICES ASSUME LifecycleInv, [Next]_vars PROVE Types'
  OBVIOUS
<1> USE DEF LifecycleInv, Types, TypeOK, OwnInv, Objects, Modes, Labels, Results, Bridge
<1>1. ASSUME NEW p \in Procs, Launch(p) PROVE Types'
  <2>1. PICK l \in {"look", "seek", "mutex"} : Goto(p, l) /\ (l = "seek" => mode[p] = "exit")
    BY <1>1, LaunchTo DEF Types, TypeOK
  <2> QED BY <1>1, <2>1 DEF Launch, Goto
<1>2. ASSUME NEW p \in Procs, FindControl(p) PROVE Types'
  BY <1>2, SMTT(20) DEF FindControl, NotShown, Holders, Leave, Goto
<1>3. ASSUME NEW p \in Procs, PostShow(p) PROVE Types'
  BY <1>3, SMTT(20) DEF PostShow, NotShown, Returning, Leave, Goto
<1>4. ASSUME NEW p \in Procs, CreateMutex(p) PROVE Types'
  BY <1>4, SMTT(20) DEF CreateMutex, Holders, Take, Leave, Goto
<1>5. ASSUME NEW p \in Procs, Check(p) PROVE Types'
  BY <1>5, SMTT(20) DEF Check, Holders, Leave, Goto
<1>6. ASSUME NEW p \in Procs, Listen(p) PROVE Types'
  BY <1>6, SMTT(20) DEF Listen, Holders, Take, Leave, Goto
<1>7. ASSUME NEW p \in Procs, OpenControl(p) PROVE Types'
  BY <1>7, SMTT(20) DEF OpenControl, Take, Leave, Goto
<1>8. ASSUME NEW p \in Procs, OpenPageant(p) PROVE Types'
  BY <1>8, SMTT(20) DEF OpenPageant, Take, Leave, Goto
<1>9. ASSUME NEW p \in Procs, HandleShow(p) PROVE Types'
  BY <1>9, SMTT(20) DEF HandleShow
<1>10. ASSUME NEW p \in Procs, HandleClose(p) PROVE Types'
  BY <1>10, SMTT(20) DEF HandleClose, Give, Leave, Goto
<1>11. ASSUME NEW p \in Procs, DestroyControl(p) PROVE Types'
  BY <1>11, SMTT(20) DEF DestroyControl, Give, Goto
<1>12. ASSUME NEW p \in Procs, CloseConnections(p) PROVE Types'
  BY <1>12, SMTT(20) DEF CloseConnections, Give, Goto
<1>13. ASSUME NEW p \in Procs, ReleaseMutex(p) PROVE Types'
  BY <1>13, SMTT(20) DEF ReleaseMutex, Give, Goto
<1>14. ASSUME NEW p \in Procs, Exit(p) PROVE Types'
  BY <1>14, SMTT(20) DEF Exit, Ends, Goto
<1>15. ASSUME NEW p \in Procs, Seek(p) PROVE Types'
  BY <1>15, SMTT(20) DEF Seek, Holders, Class, NotFound, Leave, Goto
<1>16. ASSUME NEW p \in Procs, PostClose(p) PROVE Types'
  BY <1>16, SMTT(20) DEF PostClose, Class, NotFound, Leave, Goto
<1>17. ASSUME NEW p \in Procs, Wait(p) PROVE Types'
  BY <1>17, SMTT(20) DEF Wait, Leave, Goto
<1>18. ASSUME NEW p \in Procs, MenuExit(p) PROVE Types'
  BY <1>18, SMTT(20) DEF MenuExit
<1>19. ASSUME NEW p \in Procs, SessionEnds(p) PROVE Types'
  BY <1>19, SMTT(20) DEF SessionEnds, Leave, Goto
<1>20. ASSUME NEW p \in Procs, ClosePageant(p) PROVE Types'
  BY <1>20, SMTT(20) DEF ClosePageant, Give
<1>21. ASSUME NEW p \in Procs, Crash(p) PROVE Types'
  BY <1>21, SMTT(20) DEF Crash, Ends, Leave, Goto
<1>22. CASE UNCHANGED vars
  BY <1>22 DEF vars
<1>23. QED
  BY <1>1, <1>2, <1>3, <1>4, <1>5, <1>6, <1>7, <1>8, <1>9, <1>10, <1>11, <1>12, <1>13, <1>14, <1>15, <1>16, <1>17, <1>18, <1>19, <1>20, <1>21, <1>22, Zenon DEF Next, Step

\* What a process owns.
LEMMA OwnKept == LifecycleInv /\ [Next]_vars => OwnInv'
<1> SUFFICES ASSUME LifecycleInv, [Next]_vars PROVE OwnInv'
  OBVIOUS
<1> USE DEF LifecycleInv, Types, TypeOK, OwnInv, Bridge, PastCheck, Objects
<1>1. ASSUME NEW p \in Procs, Launch(p) PROVE OwnInv'
  <2>1. PICK l \in {"look", "seek", "mutex"} : Goto(p, l) /\ (l = "seek" => mode[p] = "exit")
    BY <1>1, LaunchTo DEF Types, TypeOK
  <2> QED BY <1>1, <2>1 DEF Launch, Goto
<1>2. ASSUME NEW p \in Procs, FindControl(p) PROVE OwnInv'
  BY <1>2, SMTT(20) DEF FindControl, NotShown, Holders, Leave, Goto
<1>3. ASSUME NEW p \in Procs, PostShow(p) PROVE OwnInv'
  BY <1>3, SMTT(20) DEF PostShow, NotShown, Returning, Leave, Goto
<1>4. ASSUME NEW p \in Procs, CreateMutex(p) PROVE OwnInv'
  BY <1>4, SMTT(20) DEF CreateMutex, Holders, Take, Leave, Goto
<1>5. ASSUME NEW p \in Procs, Check(p) PROVE OwnInv'
  BY <1>5, SMTT(20) DEF Check, Holders, Leave, Goto
<1>6. ASSUME NEW p \in Procs, Listen(p) PROVE OwnInv'
  BY <1>6, SMTT(20) DEF Listen, Holders, Take, Leave, Goto
<1>7. ASSUME NEW p \in Procs, OpenControl(p) PROVE OwnInv'
  BY <1>7, SMTT(20) DEF OpenControl, Take, Leave, Goto
<1>8. ASSUME NEW p \in Procs, OpenPageant(p) PROVE OwnInv'
  BY <1>8, SMTT(20) DEF OpenPageant, Take, Leave, Goto
<1>9. ASSUME NEW p \in Procs, HandleShow(p) PROVE OwnInv'
  BY <1>9, SMTT(20) DEF HandleShow
<1>10. ASSUME NEW p \in Procs, HandleClose(p) PROVE OwnInv'
  BY <1>10, SMTT(20) DEF HandleClose, Give, Leave, Goto
<1>11. ASSUME NEW p \in Procs, DestroyControl(p) PROVE OwnInv'
  BY <1>11, SMTT(20) DEF DestroyControl, Give, Goto
<1>12. ASSUME NEW p \in Procs, CloseConnections(p) PROVE OwnInv'
  BY <1>12, SMTT(20) DEF CloseConnections, Give, Goto
<1>13. ASSUME NEW p \in Procs, ReleaseMutex(p) PROVE OwnInv'
  BY <1>13, SMTT(20) DEF ReleaseMutex, Give, Goto
<1>14. ASSUME NEW p \in Procs, Exit(p) PROVE OwnInv'
  BY <1>14, SMTT(20) DEF Exit, Ends, Goto
<1>15. ASSUME NEW p \in Procs, Seek(p) PROVE OwnInv'
  BY <1>15, SMTT(20) DEF Seek, Holders, Class, NotFound, Leave, Goto
<1>16. ASSUME NEW p \in Procs, PostClose(p) PROVE OwnInv'
  BY <1>16, SMTT(20) DEF PostClose, Class, NotFound, Leave, Goto
<1>17. ASSUME NEW p \in Procs, Wait(p) PROVE OwnInv'
  BY <1>17, SMTT(20) DEF Wait, Leave, Goto
<1>18. ASSUME NEW p \in Procs, MenuExit(p) PROVE OwnInv'
  BY <1>18, SMTT(20) DEF MenuExit
<1>19. ASSUME NEW p \in Procs, SessionEnds(p) PROVE OwnInv'
  BY <1>19, SMTT(20) DEF SessionEnds, Leave, Goto
<1>20. ASSUME NEW p \in Procs, ClosePageant(p) PROVE OwnInv'
  BY <1>20, SMTT(20) DEF ClosePageant, Give
<1>21. ASSUME NEW p \in Procs, Crash(p) PROVE OwnInv'
  BY <1>21, SMTT(20) DEF Crash, Ends, Leave, Goto
<1>22. CASE UNCHANGED vars
  BY <1>22 DEF vars
<1>23. QED
  BY <1>1, <1>2, <1>3, <1>4, <1>5, <1>6, <1>7, <1>8, <1>9, <1>10, <1>11, <1>12, <1>13, <1>14, <1>15, <1>16, <1>17, <1>18, <1>19, <1>20, <1>21, <1>22, Zenon DEF Next, Step

\* Of two processes one has no part in the bridge.
LEMMA PairKept == LifecycleInv /\ [Next]_vars => PairInv'
<1> SUFFICES ASSUME LifecycleInv, [Next]_vars PROVE PairInv'
  OBVIOUS
<1> USE DEF LifecycleInv, Types, TypeOK, OwnInv, PairInv, Bridge, PastCheck, Objects
<1>1. ASSUME NEW p \in Procs, Launch(p) PROVE PairInv'
  <2>1. PICK l \in {"look", "seek", "mutex"} : Goto(p, l) /\ (l = "seek" => mode[p] = "exit")
    BY <1>1, LaunchTo DEF Types, TypeOK
  <2> QED BY <1>1, <2>1 DEF Launch, Goto
<1>2. ASSUME NEW p \in Procs, FindControl(p) PROVE PairInv'
  BY <1>2, SMTT(20) DEF FindControl, NotShown, Holders, Leave, Goto
<1>3. ASSUME NEW p \in Procs, PostShow(p) PROVE PairInv'
  BY <1>3, SMTT(20) DEF PostShow, NotShown, Returning, Leave, Goto
<1>4. ASSUME NEW p \in Procs, CreateMutex(p) PROVE PairInv'
  BY <1>4, SMTT(20) DEF CreateMutex, Holders, Take, Leave, Goto
<1>5. ASSUME NEW p \in Procs, Check(p) PROVE PairInv'
  BY <1>5, SMTT(20) DEF Check, Holders, Leave, Goto
<1>6. ASSUME NEW p \in Procs, Listen(p) PROVE PairInv'
  BY <1>6, SMTT(20) DEF Listen, Holders, Take, Leave, Goto
<1>7. ASSUME NEW p \in Procs, OpenControl(p) PROVE PairInv'
  BY <1>7, SMTT(20) DEF OpenControl, Take, Leave, Goto
<1>8. ASSUME NEW p \in Procs, OpenPageant(p) PROVE PairInv'
  BY <1>8, SMTT(20) DEF OpenPageant, Take, Leave, Goto
<1>9. ASSUME NEW p \in Procs, HandleShow(p) PROVE PairInv'
  BY <1>9, SMTT(20) DEF HandleShow
<1>10. ASSUME NEW p \in Procs, HandleClose(p) PROVE PairInv'
  BY <1>10, SMTT(20) DEF HandleClose, Give, Leave, Goto
<1>11. ASSUME NEW p \in Procs, DestroyControl(p) PROVE PairInv'
  BY <1>11, SMTT(20) DEF DestroyControl, Give, Goto
<1>12. ASSUME NEW p \in Procs, CloseConnections(p) PROVE PairInv'
  BY <1>12, SMTT(20) DEF CloseConnections, Give, Goto
<1>13. ASSUME NEW p \in Procs, ReleaseMutex(p) PROVE PairInv'
  BY <1>13, SMTT(20) DEF ReleaseMutex, Give, Goto
<1>14. ASSUME NEW p \in Procs, Exit(p) PROVE PairInv'
  BY <1>14, SMTT(20) DEF Exit, Ends, Goto
<1>15. ASSUME NEW p \in Procs, Seek(p) PROVE PairInv'
  BY <1>15, SMTT(20) DEF Seek, Holders, Class, NotFound, Leave, Goto
<1>16. ASSUME NEW p \in Procs, PostClose(p) PROVE PairInv'
  BY <1>16, SMTT(20) DEF PostClose, Class, NotFound, Leave, Goto
<1>17. ASSUME NEW p \in Procs, Wait(p) PROVE PairInv'
  BY <1>17, SMTT(20) DEF Wait, Leave, Goto
<1>18. ASSUME NEW p \in Procs, MenuExit(p) PROVE PairInv'
  BY <1>18, SMTT(20) DEF MenuExit
<1>19. ASSUME NEW p \in Procs, SessionEnds(p) PROVE PairInv'
  BY <1>19, SMTT(20) DEF SessionEnds, Leave, Goto
<1>20. ASSUME NEW p \in Procs, ClosePageant(p) PROVE PairInv'
  BY <1>20, SMTT(20) DEF ClosePageant, Give
<1>21. ASSUME NEW p \in Procs, Crash(p) PROVE PairInv'
  BY <1>21, SMTT(20) DEF Crash, Ends, Leave, Goto
<1>22. CASE UNCHANGED vars
  BY <1>22 DEF vars
<1>23. QED
  BY <1>1, <1>2, <1>3, <1>4, <1>5, <1>6, <1>7, <1>8, <1>9, <1>10, <1>11, <1>12, <1>13, <1>14, <1>15, <1>16, <1>17, <1>18, <1>19, <1>20, <1>21, <1>22, Zenon DEF Next, Step

\* What --exit has found.
LEMMA TargetKept == LifecycleInv /\ [Next]_vars => TargetInv'
<1> SUFFICES ASSUME LifecycleInv, [Next]_vars PROVE TargetInv'
  OBVIOUS
<1> USE DEF LifecycleInv, Types, TypeOK, OwnInv, TargetInv, Modes, Objects
<1>1. ASSUME NEW p \in Procs, Launch(p) PROVE TargetInv'
  <2>1. PICK l \in {"look", "seek", "mutex"} : Goto(p, l) /\ (l = "seek" => mode[p] = "exit")
    BY <1>1, LaunchTo DEF Types, TypeOK
  <2> QED BY <1>1, <2>1 DEF Launch, Goto
<1>2. ASSUME NEW p \in Procs, FindControl(p) PROVE TargetInv'
  BY <1>2, SMTT(20) DEF FindControl, NotShown, Holders, Leave, Goto
<1>3. ASSUME NEW p \in Procs, PostShow(p) PROVE TargetInv'
  BY <1>3, SMTT(20) DEF PostShow, NotShown, Returning, Leave, Goto
<1>4. ASSUME NEW p \in Procs, CreateMutex(p) PROVE TargetInv'
  BY <1>4, SMTT(20) DEF CreateMutex, Holders, Take, Leave, Goto
<1>5. ASSUME NEW p \in Procs, Check(p) PROVE TargetInv'
  BY <1>5, SMTT(20) DEF Check, Holders, Leave, Goto
<1>6. ASSUME NEW p \in Procs, Listen(p) PROVE TargetInv'
  BY <1>6, SMTT(20) DEF Listen, Holders, Take, Leave, Goto
<1>7. ASSUME NEW p \in Procs, OpenControl(p) PROVE TargetInv'
  BY <1>7, SMTT(20) DEF OpenControl, Take, Leave, Goto
<1>8. ASSUME NEW p \in Procs, OpenPageant(p) PROVE TargetInv'
  BY <1>8, SMTT(20) DEF OpenPageant, Take, Leave, Goto
<1>9. ASSUME NEW p \in Procs, HandleShow(p) PROVE TargetInv'
  BY <1>9, SMTT(20) DEF HandleShow
<1>10. ASSUME NEW p \in Procs, HandleClose(p) PROVE TargetInv'
  BY <1>10, SMTT(20) DEF HandleClose, Give, Leave, Goto
<1>11. ASSUME NEW p \in Procs, DestroyControl(p) PROVE TargetInv'
  BY <1>11, SMTT(20) DEF DestroyControl, Give, Goto
<1>12. ASSUME NEW p \in Procs, CloseConnections(p) PROVE TargetInv'
  BY <1>12, SMTT(20) DEF CloseConnections, Give, Goto
<1>13. ASSUME NEW p \in Procs, ReleaseMutex(p) PROVE TargetInv'
  BY <1>13, SMTT(20) DEF ReleaseMutex, Give, Goto
<1>14. ASSUME NEW p \in Procs, Exit(p) PROVE TargetInv'
  BY <1>14, SMTT(20) DEF Exit, Ends, Goto
<1>15. ASSUME NEW p \in Procs, Seek(p) PROVE TargetInv'
  BY <1>15, SMTT(20) DEF Seek, Holders, Class, NotFound, Leave, Goto
<1>16. ASSUME NEW p \in Procs, PostClose(p) PROVE TargetInv'
  BY <1>16, SMTT(20) DEF PostClose, Class, NotFound, Leave, Goto
<1>17. ASSUME NEW p \in Procs, Wait(p) PROVE TargetInv'
  BY <1>17, SMTT(20) DEF Wait, Leave, Goto
<1>18. ASSUME NEW p \in Procs, MenuExit(p) PROVE TargetInv'
  BY <1>18, SMTT(20) DEF MenuExit
<1>19. ASSUME NEW p \in Procs, SessionEnds(p) PROVE TargetInv'
  BY <1>19, SMTT(20) DEF SessionEnds, Leave, Goto
<1>20. ASSUME NEW p \in Procs, ClosePageant(p) PROVE TargetInv'
  BY <1>20, SMTT(20) DEF ClosePageant, Give
<1>21. ASSUME NEW p \in Procs, Crash(p) PROVE TargetInv'
  BY <1>21, SMTT(20) DEF Crash, Ends, Leave, Goto
<1>22. CASE UNCHANGED vars
  BY <1>22 DEF vars
<1>23. QED
  BY <1>1, <1>2, <1>3, <1>4, <1>5, <1>6, <1>7, <1>8, <1>9, <1>10, <1>11, <1>12, <1>13, <1>14, <1>15, <1>16, <1>17, <1>18, <1>19, <1>20, <1>21, <1>22, Zenon DEF Next, Step

LEMMA InvHolds == Spec => []LifecycleInv
<1>1. LifecycleInv /\ [Next]_vars => LifecycleInv'
  BY TypesKept, OwnKept, PairKept, TargetKept DEF LifecycleInv
<1>2. QED
  BY InitInv, <1>1, PTL DEF Spec

\* Types; messages are for control windows that exist.
THEOREM TypeCorrect == Spec => []TypeOK
<1>1. LifecycleInv => TypeOK
  BY DEF LifecycleInv, Types
<1>2. QED
  BY InvHolds, <1>1, PTL

\* However many processes start, end and crash, the windows and the pipe of the
\* bridge belong to one of them at most (Run).
THEOREM OneBridgeAtATime == Spec => []OneBridge
<1>1. ASSUME LifecycleInv PROVE OneBridge
  <2> DEFINE S == {p \in Procs : own[p] \cap {"control", "pageant", "pipe"} # {}}
  <2>1. ASSUME NEW p \in S PROVE p \in Procs /\ (pc[p] \in PastCheck \/ "pageant" \in own[p])
    BY <1>1 DEF LifecycleInv, OwnInv, PastCheck, Bridge
  <2>2. ASSUME NEW p \in S, NEW q \in S PROVE p = q
    BY <1>1, <2>1 DEF LifecycleInv, PairInv, PastCheck
  <2>3. CASE S = {}
    BY <2>3, FS_EmptySet DEF OneBridge
  <2>4. CASE S # {}
    <3>1. PICK p \in S : TRUE
      BY <2>4
    <3>2. S = {p}
      BY <2>2, <3>1
    <3>3. Cardinality(S) = 1
      BY <3>2, FS_Singleton, Zenon
    <3>4. QED
      BY <3>3 DEF OneBridge
  <2>5. QED
    BY <2>3, <2>4
<1>2. QED
  BY InvHolds, <1>1, PTL

\* What "--exit" reports as exited has nothing left (ExitRunning).
THEOREM ExitedIsGone == Spec => []ExitMeansGone
<1>1. LifecycleInv => ExitMeansGone
  BY DEF LifecycleInv, TargetInv, OwnInv, ExitMeansGone
<1>2. QED
  BY InvHolds, <1>1, PTL

\* Who looks for the control window while a bridge runs finds that very bridge,
\* whatever has become of its Pageant window: "--show-keys" and "--exit" do not
\* take it for absent or for an older version, nor another process for it.
BridgeFound ==
  \A p, q \in Procs : pc[q] = "loop" =>
    /\ FindControl(p) => target'[p] = q /\ pc'[p] \in {"post", "post_again"}
    /\ Seek(p) /\ pc[p] = "seek" => target'[p] = q /\ pc'[p] = "close"

\* A bridge that runs is found by its control window (ShowRunningKeys, ExitRunning).
THEOREM RunningBridgeFound == Spec => [][BridgeFound]_vars
<1>1. ASSUME LifecycleInv, NEW q \in Procs, pc[q] = "loop"
      PROVE  Holders("control") = {q}
  <2>1. "control" \in own[q] /\ pc[q] \in Bridge
    BY <1>1 DEF LifecycleInv, OwnInv, Bridge
  <2>2. ASSUME NEW r \in Procs, "control" \in own[r] PROVE r = q
    <3>1. pc[r] \in Bridge
      BY <1>1, <2>2 DEF LifecycleInv, OwnInv, Bridge
    <3>2. QED
      BY <1>1, <2>1, <3>1 DEF LifecycleInv, PairInv
  <2>3. QED
    BY <2>1, <2>2 DEF Holders
<1>2. ASSUME LifecycleInv, NEW p \in Procs, NEW q \in Procs, pc[q] = "loop", FindControl(p)
      PROVE  target'[p] = q /\ pc'[p] \in {"post", "post_again"}
  <2>1. Holders("control") = {q}
    BY <1>1, <1>2
  <2>2. target' = [target EXCEPT ![p] = q]
    BY <1>2, <2>1 DEF FindControl
  <2>3. Goto(p, IF pc[p] = "look" THEN "post" ELSE "post_again")
    BY <1>2, <2>1 DEF FindControl
  <2>4. QED
    BY <1>2, <2>2, <2>3 DEF Goto, LifecycleInv, Types, TypeOK
<1>3. ASSUME LifecycleInv, NEW p \in Procs, NEW q \in Procs, pc[q] = "loop",
             Seek(p), pc[p] = "seek"
      PROVE  target'[p] = q /\ pc'[p] = "close"
  <2>1. Holders(Class(p)) = {q} /\ Class(p) = "control"
    BY <1>1, <1>3 DEF Class
  <2>2. target' = [target EXCEPT ![p] = q]
    BY <1>3, <2>1 DEF Seek
  <2>3. Goto(p, "close")
    BY <1>3, <2>1 DEF Seek
  <2>4. QED
    BY <1>3, <2>2, <2>3 DEF Goto, LifecycleInv, Types, TypeOK
<1>4. LifecycleInv => BridgeFound
  BY <1>2, <1>3 DEF BridgeFound
<1>5. QED
  BY InvHolds, <1>4, PTL
==============================================================================
