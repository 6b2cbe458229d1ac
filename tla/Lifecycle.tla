------------------------------ MODULE Lifecycle ------------------------------
(***************************************************************************)
(* Processes of one installation of winssh-pageant (main.go): some start   *)
(* the bridge (Pageant.Run), some have it show its keys or end it          *)
(* (control_windows.go). They meet in objects of Windows: the              *)
(* single-instance mutex, the control window, the Pageant window and the   *)
(* Pageant pipe. Other Pageant agents have a Pageant window, too.          *)
(*                                                                         *)
(* A call of Windows is one action. A process that ends, in whatever way,  *)
(* gives up everything it owns.                                            *)
(***************************************************************************)
EXTENDS Naturals, FiniteSets

CONSTANTS Procs,        \* processes, each of which runs once
          CommandLines, \* bound: which processes start, show and exit
          PageantPipe,  \* those without --no-pageant-pipe
          NoProc

Objects == {"mutex", "control", "pageant", "pipe"}
Modes == {"start", "show", "exit"}

ASSUME LifecycleAssumption ==
  /\ IsFiniteSet(Procs) /\ NoProc \notin Procs /\ PageantPipe \subseteq Procs
  /\ CommandLines \subseteq [Procs -> Modes]

VARIABLES mode,     \* "--show-keys", "--exit" or neither
          pc,       \* where its main thread is
          own,      \* the objects of Windows it has
          inbox,    \* messages posted to its control window
          target,   \* the process whose window it found
          result    \* how its main function returns

vars == <<mode, pc, own, inbox, target, result>>

Holders(o) == {p \in Procs : o \in own[p]}
Goto(p, l) == pc' = [pc EXCEPT ![p] = l]
Take(p, o) == own' = [own EXCEPT ![p] = @ \cup {o}]
Give(p, o) == own' = [own EXCEPT ![p] = @ \ {o}]
\* The result is v, and what is left of the function starts at l.
Leave(p, v, l) == result' = [result EXCEPT ![p] = v] /\ Goto(p, l)

Init ==
  /\ mode \in CommandLines /\ pc = [p \in Procs |-> "new"]
  /\ own = [p \in Procs |-> {}] /\ inbox = [p \in Procs |-> {}]
  /\ target = [p \in Procs |-> NoProc] /\ result = [p \in Procs |-> "none"]

\* main: "look" is ShowRunningKeys, "seek" ExitRunning, "mutex" Run.
Launch(p) ==
  /\ pc[p] = "new"
  /\ Goto(p, [show |-> "look", exit |-> "seek", start |-> "mutex"][mode[p]])
  /\ UNCHANGED <<mode, own, inbox, target, result>>

-----------------------------------------------------------------------------
(* ShowRunningKeys, called by main ("look", "post") and by Run once more   *)
(* when the mutex exists ("look_again", "post_again").                     *)

NotShown(p) ==
  \/ /\ pc[p] \in {"look", "post"}
     /\ Goto(p, "mutex") /\ UNCHANGED result
  \/ /\ pc[p] \in {"look_again", "post_again"}
     /\ Leave(p, "other_installation", "release")

Returning(p) == IF pc[p] \in {"look", "post"} THEN "exit" ELSE "release"

FindControl(p) ==
  /\ pc[p] \in {"look", "look_again"}
  /\ \/ \E q \in Holders("control") :
          /\ target' = [target EXCEPT ![p] = q]
          /\ Goto(p, IF pc[p] = "look" THEN "post" ELSE "post_again")
          /\ UNCHANGED result
     \/ Holders("control") = {} /\ NotShown(p) /\ UNCHANGED target
  /\ UNCHANGED <<mode, own, inbox>>

\* matchingProcess and PostMessage, each of which can fail. A window that is gone
\* meanwhile has no process.
PostShow(p) ==
  /\ pc[p] \in {"post", "post_again"}
  /\ \/ /\ "control" \in own[target[p]]
        /\ inbox' = [inbox EXCEPT ![target[p]] = @ \cup {"show"}]
        /\ Leave(p, "shown", Returning(p))
     \/ /\ \/ Leave(p, "error", Returning(p))
           \/ "control" \notin own[target[p]] /\ NotShown(p)
        /\ UNCHANGED inbox
  /\ UNCHANGED <<mode, own, target>>

-----------------------------------------------------------------------------
(* Run                                                                     *)

\* CreateMutex opens a mutex that exists.
CreateMutex(p) ==
  /\ pc[p] = "mutex"
  /\ Take(p, "mutex")
  /\ \/ Holders("mutex") = {} /\ Goto(p, "check") /\ UNCHANGED result
     \/ /\ Holders("mutex") # {} /\ mode[p] = "show"
        /\ Goto(p, "look_again") /\ UNCHANGED result
     \/ /\ Holders("mutex") # {} /\ mode[p] = "start"
        /\ Leave(p, "deferred", "release")
  /\ UNCHANGED <<mode, inbox, target>>

\* Mutant: the mutex is enough.
CheckNothing(p) ==
  /\ pc[p] = "check" /\ Goto(p, "listen")
  /\ UNCHANGED <<mode, own, inbox, target, result>>

\* doesPageantWindowExist: a window of these processes or of another program.
Check(p) ==
  /\ pc[p] = "check"
  /\ \/ Leave(p, "refused", "release")
     \/ Holders("pageant") = {} /\ Goto(p, "listen") /\ UNCHANGED result
  /\ UNCHANGED <<mode, own, inbox, target>>

\* newPageantListener reserves the first instance of the pipe.
Listen(p) ==
  /\ pc[p] = "listen"
  /\ \/ p \notin PageantPipe /\ Goto(p, "windows") /\ UNCHANGED <<own, result>>
     \/ /\ p \in PageantPipe /\ Holders("pipe") = {}
        /\ Take(p, "pipe") /\ Goto(p, "windows") /\ UNCHANGED result
     \/ p \in PageantPipe /\ Leave(p, "error", "release") /\ UNCHANGED own
  /\ UNCHANGED <<mode, inbox, target>>

\* createWindow, and newDesktop with a window already there.
OpenControl(p) ==
  /\ pc[p] = "windows"
  /\ \/ Leave(p, "error", "connections") /\ UNCHANGED own
     \/ Take(p, "control") /\ Leave(p, "error", "destroy")
     \/ Take(p, "control") /\ Goto(p, "ipc") /\ UNCHANGED result
  /\ UNCHANGED <<mode, inbox, target>>

\* Mutant: a thread that cannot create its window does not report it.
OpenPageantSilently(p) ==
  /\ pc[p] = "ipc"
  /\ \/ Take(p, "pageant") /\ Goto(p, "loop") /\ UNCHANGED result
     \/ Leave(p, "error", "no_answer") /\ UNCHANGED own
  /\ UNCHANGED <<mode, inbox, target>>

\* runIPCWindow up to its report on ready, for which Run waits.
OpenPageant(p) ==
  /\ pc[p] = "ipc"
  /\ \/ Take(p, "pageant") /\ Goto(p, "loop") /\ UNCHANGED result
     \/ Leave(p, "error", "destroy") /\ UNCHANGED own
  /\ UNCHANGED <<mode, inbox, target>>

\* The user chooses Exit from the menu, or another program sends WM_CLOSE.
MenuExit(p) ==
  /\ pc[p] = "loop" /\ inbox' = [inbox EXCEPT ![p] = @ \cup {"close"}]
  /\ UNCHANGED <<mode, pc, own, target, result>>

\* The message loop: showKeysMessage.
HandleShow(p) ==
  /\ pc[p] = "loop" /\ "show" \in inbox[p]
  /\ inbox' = [inbox EXCEPT ![p] = @ \ {"show"}]
  /\ UNCHANGED <<mode, pc, own, target, result>>

\* Mutant: the window goes and the loop stays.
HandleCloseNoQuit(p) ==
  /\ pc[p] = "loop" /\ "close" \in inbox[p]
  /\ Give(p, "control") /\ inbox' = [inbox EXCEPT ![p] = {}]
  /\ UNCHANGED <<mode, pc, target, result>>

\* WM_CLOSE destroys the control window, and WM_DESTROY ends the loop.
HandleClose(p) ==
  /\ pc[p] = "loop" /\ "close" \in inbox[p]
  /\ Give(p, "control") /\ inbox' = [inbox EXCEPT ![p] = {}]
  /\ Leave(p, "ok", "destroy")
  /\ UNCHANGED <<mode, target>>

\* WM_ENDSESSION, or GetMessage fails (an error like any other from there on):
\* the window outlives the loop.
SessionEnds(p) ==
  /\ pc[p] = "loop"
  /\ Leave(p, "ok", "destroy")
  /\ UNCHANGED <<mode, own, inbox, target>>

\* Run's deferred calls, last one first: close(stopIPC), which ClosePageant may answer
\* from now on as before, desktop.close and the control window's cleanup,
DestroyControl(p) ==
  /\ pc[p] = "destroy" /\ Goto(p, "connections")
  /\ Give(p, "control") /\ inbox' = [inbox EXCEPT ![p] = {}]
  /\ UNCHANGED <<mode, target, result>>

\* closeConnections,
CloseConnections(p) ==
  /\ pc[p] = "connections" /\ Goto(p, "release")
  /\ Give(p, "pipe")
  /\ UNCHANGED <<mode, inbox, target, result>>

\* and the mutex, also on the early returns.
ReleaseMutex(p) ==
  /\ pc[p] = "release" /\ Goto(p, "exit")
  /\ Give(p, "mutex")
  /\ UNCHANGED <<mode, inbox, target, result>>

\* The IPC thread's loop ends, and its window with it: close(stopIPC), the end of a
\* session, or WM_CLOSE from whomever. The bridge's own loop takes no notice.
ClosePageant(p) ==
  /\ "pageant" \in own[p]
  /\ Give(p, "pageant")
  /\ UNCHANGED <<mode, pc, inbox, target, result>>

Ends(p) ==
  /\ own' = [own EXCEPT ![p] = {}] /\ inbox' = [inbox EXCEPT ![p] = {}]
  /\ UNCHANGED <<mode, target>>

\* main returns, after a message box for an error.
Exit(p) == pc[p] = "exit" /\ Goto(p, "ended") /\ Ends(p) /\ UNCHANGED result

\* A crash, or a user who kills the process.
Crash(p) ==
  pc[p] \notin {"new", "ended"} /\ Leave(p, "crashed", "ended") /\ Ends(p)

-----------------------------------------------------------------------------
(* ExitRunning: the control window ("seek", "close"), and the Pageant      *)
(* window that an older version has only ("seek_old", "close_old").        *)

\* Mutant: only the Pageant window is looked for, as if every bridge had one.
ClassPageant(p) == "pageant"

Class(p) == IF pc[p] \in {"seek", "close"} THEN "control" ELSE "pageant"

\* No window of this class belongs to this installation.
NotFound(p) ==
  \/ Class(p) = "control" /\ Goto(p, "seek_old") /\ UNCHANGED result
  \/ Class(p) = "pageant" /\ Leave(p, "nothing_to_exit", "exit")

\* FindWindow takes any Pageant window, another program's one as well.
Seek(p) ==
  /\ pc[p] \in {"seek", "seek_old"}
  /\ \/ \E q \in Holders(Class(p)) :
          /\ target' = [target EXCEPT ![p] = q]
          /\ Goto(p, IF pc[p] = "seek" THEN "close" ELSE "close_old")
          /\ UNCHANGED result
     \/ /\ Class(p) = "control" => Holders("control") = {}
        /\ NotFound(p) /\ UNCHANGED target
  /\ UNCHANGED <<mode, own, inbox>>

\* matchingProcess and PostMessage. WM_CLOSE is handled later, by HandleClose or,
\* for the window taken for an older version's, by ClosePageant.
PostClose(p) ==
  /\ pc[p] \in {"close", "close_old"}
  /\ LET q == target[p]
     IN  \/ /\ Class(p) \in own[q]
            /\ inbox' = IF Class(p) = "control"
                          THEN [inbox EXCEPT ![q] = @ \cup {"close"}] ELSE inbox
            /\ Goto(p, "wait") /\ UNCHANGED result
         \/ /\ Leave(p, "error", "exit") \/ (Class(p) \notin own[q] /\ NotFound(p))
            /\ UNCHANGED inbox
  /\ UNCHANGED <<mode, own, target>>

\* Mutant: the window's end is taken for the process's.
WaitForWindow(p) ==
  /\ pc[p] = "wait"
  /\ \/ "control" \notin own[target[p]] /\ Leave(p, "exited", "exit")
     \/ Leave(p, "error", "exit")
  /\ UNCHANGED <<mode, own, inbox, target>>

\* The end of the process, or ten seconds. The handle pins the process.
Wait(p) ==
  /\ pc[p] = "wait"
  /\ \/ pc[target[p]] = "ended" /\ Leave(p, "exited", "exit")
     \/ Leave(p, "error", "exit")
  /\ UNCHANGED <<mode, own, inbox, target>>

-----------------------------------------------------------------------------

\* What the main thread does next.
Step(p) ==
  \/ FindControl(p) \/ PostShow(p) \/ CreateMutex(p) \/ Check(p) \/ Listen(p)
  \/ OpenControl(p) \/ OpenPageant(p) \/ HandleShow(p) \/ HandleClose(p)
  \/ DestroyControl(p) \/ CloseConnections(p) \/ ReleaseMutex(p)
  \/ Exit(p) \/ Seek(p) \/ PostClose(p) \/ Wait(p)

Next ==
  \E p \in Procs :
    Launch(p) \/ Step(p) \/ MenuExit(p) \/ SessionEnds(p)
    \/ ClosePageant(p) \/ Crash(p)

Spec == Init /\ [][Next]_vars

\* Main threads go on, users close message boxes, and WM_CLOSE is not left behind
\* for later messages. Nothing is assumed of the IPC thread and other programs.
FairSpec ==
  Spec /\ \A p \in Procs : WF_vars(Step(p)) /\ WF_vars(HandleClose(p))

-----------------------------------------------------------------------------
(* Properties                                                              *)

\* Types.
TypeOK ==
  /\ mode \in [Procs -> Modes]
  /\ own \in [Procs -> SUBSET Objects]
  /\ inbox \in [Procs -> SUBSET {"show", "close"}]
  /\ \A p \in Procs : inbox[p] # {} => "control" \in own[p]
  /\ target \in [Procs -> Procs \cup {NoProc}]

\* The objects of the bridge never belong to two processes, also while one
\* starts when another is on its way out or killed (Run).
OneBridge ==
  Cardinality({p \in Procs : own[p] \cap {"control", "pageant", "pipe"} # {}}) <= 1

\* When "--exit" reports that the instance has exited, nothing of it is left
\* for the next one to stumble over (ExitRunning).
ExitMeansGone ==
  \A p \in Procs : result[p] = "exited" =>
    pc[target[p]] = "ended" /\ own[target[p]] = {}

\* Every process gets to its message loop or to its end (main, Run).
Settles == \A p \in Procs : pc[p] # "new" ~> pc[p] \in {"loop", "ended"}

\* WM_CLOSE on the control window ends the process (lifecycleWndProc, Run).
CloseEnds == \A p \in Procs : "close" \in inbox[p] ~> pc[p] = "ended"

\* A bridge that runs is within reach of "--exit" also when an ended session, a
\* foreign WM_CLOSE or an earlier "--exit" has taken its Pageant window: it ends, or
\* "--exit" reports an error. It is not passed over, and left to run on without
\* its legacy transport, as if there were nothing to exit (ExitRunning).
ExitReaches ==
  \A p, q \in Procs :
    pc[p] = "seek" /\ pc[q] = "loop"
      ~> pc[q] = "ended" \/ result[p] \in {"error", "crashed"}

\* "--show-keys opens the existing instance's window, or starts the application
\* and opens it" (README.md:49): it never gives up because of "another
\* WinSSH-Pageant installation", when all processes are of one installation.
ShowKeysOpens == \A p \in Procs : result[p] # "other_installation"

=============================================================================
