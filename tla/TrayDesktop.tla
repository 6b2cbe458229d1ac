----------------------------- MODULE TrayDesktop -----------------------------
(***************************************************************************)
(* The tray icon, the signing notices and the key window of the bridge     *)
(* (pageant/desktop_windows.go), with the part of Run and lifecycleWndProc *)
(* that drives and ends its message loop.                                  *)
(*                                                                         *)
(* All handlers run on the UI thread, one at a time: a handler is one      *)
(* action. Inside TrackPopupMenu a nested loop dispatches messages, so a   *)
(* menu is open from one action to another. Goroutines hand their data     *)
(* over in two steps, into a bounded channel and by PostMessage.           *)
(*                                                                         *)
(* The check of closed and the push that follows it are one step: nobody   *)
(* reads the channels once closed is set. What a notice says, whether      *)
(* notices are switched on, and layout are left out.                       *)
(***************************************************************************)
EXTENDS Naturals, Sequences, FiniteSets

CONSTANTS Workers,        \* goroutines and threads that call notify
          Fetchers,       \* identities for the goroutines of refreshKeys
          NoticeCapacity, \* capacity of the channel notices
          MaxKeySets,     \* bound: successive sets of keys the agent holds
          MaxStarts,      \* bound: times Explorer ends and starts again
          MaxInput        \* bound: user and control messages waiting

ASSUME DesktopAssumption ==
  /\ NoticeCapacity \in Nat \ {0}
  /\ {MaxKeySets, MaxStarts, MaxInput} \subseteq Nat

NoKeys == 0          \* an empty list control, a failed ListKeys

VARIABLES loop,        \* "running", "ending" (WM_QUIT posted), "destroyed"
                       \* (that, and the window is gone) or "closed"
          queue,       \* messages posted to the window, oldest first
          menu,        \* the UI thread is in TrackPopupMenu
          taskbar,     \* Explorer's taskbar: "down", "busy" or "up"
          icon,        \* our icon is in the taskbar
          announced,   \* TaskbarCreated messages not yet delivered
          starts,      \* times Explorer ended
          trayAdded,   \* desktop.trayAdded
          timer,       \* the timer trayRetryTimer is set
          notices,     \* length of desktop.notices
          posting,     \* workers between their push and their post
          agentKeys,   \* number of the set of keys the agent holds
          keyWindow,   \* the key window exists
          loadingKeys, \* desktop.loadingKeys
          fetch,       \* the goroutines of refreshKeys
          keysReady,   \* desktop.keysReady
          shown,       \* the set of keys in the list control, or NoKeys
          openedAt,    \* history: agentKeys when the key window opened
          loadedAt     \* history: agentKeys when the last load began

trayVars   == <<taskbar, icon, announced, starts, trayAdded, timer>>
noticeVars == <<notices, posting>>
windowVars == <<keyWindow, shown, openedAt>>
loadVars   == <<loadingKeys, fetch, keysReady, loadedAt>>
keyVars    == <<windowVars, loadVars, agentKeys>>
vars == <<loop, queue, menu, trayVars, noticeVars, keyVars>>

Input == {"show", "menu", "close"}
hwnd  == loop \in {"running", "ending"}   \* the control window exists

\* PostMessage, which fails once the window is gone.
Posted(m) == IF hwnd THEN Append(queue, m) ELSE queue
Inputs == Cardinality({i \in DOMAIN queue : queue[i] \in Input})
Count(m) == Cardinality({i \in DOMAIN queue : queue[i] = m})
\* The oldest message is m and is dispatched.
Dispatch(m) == hwnd /\ queue # <<>> /\ Head(queue) = m

-----------------------------------------------------------------------------
(* The tray icon                                                           *)

Accepts == taskbar = "up" /\ ~icon       \* NIM_ADD succeeds

\* addTrayIcon, when trayAdded is added.
AddTrayIcon(added) ==
  IF added THEN trayAdded' = TRUE /\ UNCHANGED <<icon, timer>>
  ELSE /\ icon' = (icon \/ Accepts)
       /\ trayAdded' = Accepts
       /\ timer' = ~Accepts

Init ==
  /\ loop = "running" /\ queue \in {<<>>, <<"show">>} /\ menu = FALSE
  /\ taskbar \in {"down", "busy", "up"}
  /\ icon = (taskbar = "up") /\ trayAdded = icon /\ timer = ~icon
  /\ announced \in IF taskbar = "down" THEN {0} ELSE {0, 1}
  /\ starts = 0
  /\ notices = 0 /\ posting = {}
  /\ agentKeys = 1
  /\ keyWindow = FALSE /\ shown = NoKeys /\ openedAt = 0
  /\ loadingKeys = FALSE /\ keysReady = <<>> /\ loadedAt = 0
  /\ fetch = [f \in Fetchers |-> [at |-> "idle", keys |-> NoKeys]]

\* Mutant: the handler believes in the icon it had before.
TaskbarCreatedTrusting ==
  /\ hwnd /\ announced > 0
  /\ announced' = announced - 1
  /\ AddTrayIcon(trayAdded)
  /\ UNCHANGED <<loop, queue, menu, taskbar, starts, noticeVars, keyVars>>

\* onMessage, taskbarReady. The message is sent, not posted: it is delivered
\* ahead of the queue, but not ahead of one that GetMessage returned before.
TaskbarCreated ==
  /\ hwnd /\ announced > 0
  /\ announced' = announced - 1
  /\ AddTrayIcon(FALSE)
  /\ UNCHANGED <<loop, queue, menu, taskbar, starts, noticeVars, keyVars>>

\* Mutant: a one-shot retry.
TrayTimerOnce ==
  /\ loop = "running" /\ timer /\ queue = <<>>
  /\ icon' = (icon \/ Accepts) /\ trayAdded' = Accepts /\ timer' = FALSE
  /\ UNCHANGED <<loop, queue, menu, taskbar, announced, starts, noticeVars,
                 keyVars>>

\* WM_TIMER, which GetMessage returns only when no other message waits.
TrayTimer ==
  /\ loop = "running" /\ timer /\ queue = <<>>
  /\ AddTrayIcon(trayAdded)
  /\ UNCHANGED <<loop, queue, menu, taskbar, announced, starts, noticeVars,
                 keyVars>>

\* Explorer, outside the program: it ends and takes the icons with it, starts
\* and announces its taskbar, and answers some time later.
ExplorerEnds ==
  /\ taskbar # "down" /\ starts < MaxStarts
  /\ taskbar' = "down" /\ icon' = FALSE /\ starts' = starts + 1
  /\ UNCHANGED <<loop, queue, menu, announced, trayAdded, timer, noticeVars,
                 keyVars>>

ExplorerStarts ==
  /\ taskbar = "down"
  /\ taskbar' \in {"busy", "up"} /\ announced' = announced + 1
  /\ UNCHANGED <<loop, queue, menu, icon, starts, trayAdded, timer,
                 noticeVars, keyVars>>

ExplorerAnswers ==
  /\ taskbar = "busy" /\ taskbar' = "up"
  /\ UNCHANGED <<loop, queue, menu, icon, announced, starts, trayAdded, timer,
                 noticeVars, keyVars>>

-----------------------------------------------------------------------------
(* Notices                                                                 *)

\* notify, up to the push. With the channel full the notice is dropped, which
\* is no step.
Notify(w) ==
  /\ loop # "closed" /\ w \notin posting
  /\ notices < NoticeCapacity
  /\ notices' = notices + 1 /\ posting' = posting \cup {w}
  /\ UNCHANGED <<loop, queue, menu, trayVars, keyVars>>

PostNotice(w) ==
  /\ w \in posting
  /\ posting' = posting \ {w} /\ queue' = Posted("notice")
  /\ UNCHANGED <<loop, menu, trayVars, notices, keyVars>>

\* Mutant: with no icon to show it on, the notice is left in the channel.
HandleNoticeIfTray ==
  /\ Dispatch("notice")
  /\ queue' = Tail(queue)
  /\ notices' = IF notices > 0 /\ trayAdded THEN notices - 1 ELSE notices
  /\ UNCHANGED <<loop, menu, trayVars, posting, keyVars>>

\* onMessage, wmTrayNotice.
HandleNotice ==
  /\ Dispatch("notice")
  /\ queue' = Tail(queue)
  /\ notices' = IF notices > 0 THEN notices - 1 ELSE notices
  /\ UNCHANGED <<loop, menu, trayVars, posting, keyVars>>

-----------------------------------------------------------------------------
(* The key window                                                          *)

\* Mutant: every call starts a goroutine.
RefreshKeysAlways ==
  /\ loadingKeys' = TRUE /\ shown' = NoKeys /\ loadedAt' = agentKeys
  /\ \E f \in Fetchers :
       /\ fetch[f].at = "idle"
       /\ fetch' = [fetch EXCEPT ![f].at = "listing"]
  /\ UNCHANGED keysReady

\* refreshKeys: a load in progress is not started again.
RefreshKeys ==
  \/ loadingKeys /\ UNCHANGED <<loadVars, shown>>
  \/ /\ ~loadingKeys
     /\ loadingKeys' = TRUE /\ shown' = NoKeys /\ loadedAt' = agentKeys
     /\ \E f \in Fetchers :
          /\ fetch[f].at = "idle"
          /\ fetch' = [fetch EXCEPT ![f].at = "listing"]
     /\ UNCHANGED keysReady

\* showKeys: an open window is restored, and creating one can fail.
ShowKeys ==
  \/ UNCHANGED <<windowVars, loadVars>>
  \/ /\ ~keyWindow
     /\ keyWindow' = TRUE /\ openedAt' = agentKeys
     /\ RefreshKeys

\* showKeysMessage of a second instance, or a double click on the icon.
HandleShow ==
  /\ Dispatch("show")
  /\ queue' = Tail(queue)
  /\ ShowKeys
  /\ UNCHANGED <<loop, menu, trayVars, noticeVars, agentKeys>>

\* keysWndProc: Refresh; Close, Escape and WM_CLOSE, up to WM_NCDESTROY.
Refresh ==
  /\ loop = "running" /\ keyWindow /\ ~menu
  /\ RefreshKeys
  /\ UNCHANGED <<loop, queue, menu, trayVars, noticeVars, keyWindow, openedAt,
                 agentKeys>>

CloseKeyWindow ==
  /\ loop = "running" /\ keyWindow /\ ~menu
  /\ keyWindow' = FALSE /\ shown' = NoKeys
  /\ UNCHANGED <<loop, queue, menu, trayVars, noticeVars, openedAt, loadVars,
                 agentKeys>>

\* refreshKeys's goroutine: ListKeys ends with the keys the agent held when it
\* answered, or with an error.
ListKeys(f) ==
  /\ fetch[f].at = "listing"
  /\ \E k \in {NoKeys, agentKeys} :
       fetch' = [fetch EXCEPT ![f] = [at |-> "listed", keys |-> k]]
  /\ UNCHANGED <<loop, queue, menu, trayVars, noticeVars, windowVars,
                 agentKeys, loadingKeys, keysReady, loadedAt>>

\* Mutant: a failed ListKeys sends no result.
PushKeysOnSuccess(f) ==
  /\ fetch[f].at = "listed"
  /\ IF loop # "closed" /\ keysReady = <<>> /\ fetch[f].keys # NoKeys
       THEN /\ keysReady' = <<fetch[f].keys>>
            /\ fetch' = [fetch EXCEPT ![f] = [at |-> "pushed", keys |-> NoKeys]]
       ELSE /\ fetch' = [fetch EXCEPT ![f] = [at |-> "idle", keys |-> NoKeys]]
            /\ UNCHANGED keysReady
  /\ UNCHANGED <<loop, queue, menu, trayVars, noticeVars, windowVars,
                 agentKeys, loadingKeys, loadedAt>>

\* The push into keysReady, of capacity one; a full channel drops the result.
PushKeys(f) ==
  /\ fetch[f].at = "listed"
  /\ IF loop # "closed" /\ keysReady = <<>>
       THEN /\ keysReady' = <<fetch[f].keys>>
            /\ fetch' = [fetch EXCEPT ![f] = [at |-> "pushed", keys |-> NoKeys]]
       ELSE /\ fetch' = [fetch EXCEPT ![f] = [at |-> "idle", keys |-> NoKeys]]
            /\ UNCHANGED keysReady
  /\ UNCHANGED <<loop, queue, menu, trayVars, noticeVars, windowVars,
                 agentKeys, loadingKeys, loadedAt>>

PostKeys(f) ==
  /\ fetch[f].at = "pushed"
  /\ fetch' = [fetch EXCEPT ![f].at = "idle"]
  /\ queue' = Posted("keys")
  /\ UNCHANGED <<loop, menu, trayVars, noticeVars, windowVars, agentKeys,
                 loadingKeys, keysReady, loadedAt>>

\* Mutant: without a window there is nothing to do.
HandleKeysIfOpen ==
  /\ Dispatch("keys")
  /\ queue' = Tail(queue)
  /\ IF keysReady = <<>> \/ ~keyWindow THEN UNCHANGED <<keysReady, loadingKeys, shown>>
     ELSE keysReady' = <<>> /\ loadingKeys' = FALSE /\ shown' = Head(keysReady)
  /\ UNCHANGED <<loop, menu, trayVars, noticeVars, keyWindow, openedAt,
                 agentKeys, fetch, loadedAt>>

\* onMessage, wmKeysReady, and displayKeys.
HandleKeys ==
  /\ Dispatch("keys")
  /\ queue' = Tail(queue)
  /\ IF keysReady = <<>> THEN UNCHANGED <<keysReady, loadingKeys, shown>>
     ELSE /\ keysReady' = <<>> /\ loadingKeys' = FALSE
          /\ shown' = IF keyWindow THEN Head(keysReady) ELSE shown
  /\ UNCHANGED <<loop, menu, trayVars, noticeVars, keyWindow, openedAt,
                 agentKeys, fetch, loadedAt>>

\* ssh-add, outside the program.
ChangeKeys ==
  /\ agentKeys < MaxKeySets
  /\ agentKeys' = agentKeys + 1
  /\ UNCHANGED <<loop, queue, menu, trayVars, noticeVars, windowVars, loadVars>>

-----------------------------------------------------------------------------
(* The menu, the control messages and the end of the loop                  *)

\* A click on the icon, "winssh-pageant --show-keys" and "--exit".
Click ==
  /\ hwnd /\ icon /\ Inputs < MaxInput
  /\ \E m \in {"show", "menu"} : queue' = Append(queue, m)
  /\ UNCHANGED <<loop, menu, trayVars, noticeVars, keyVars>>

Control ==
  /\ hwnd /\ Inputs < MaxInput
  /\ \E m \in {"show", "close"} : queue' = Append(queue, m)
  /\ UNCHANGED <<loop, menu, trayVars, noticeVars, keyVars>>

\* showTrayMenu, up to TrackPopupMenu; that fails while a menu is open, and
\* CreatePopupMenu can fail.
HandleMenu ==
  /\ Dispatch("menu")
  /\ queue' = Tail(queue)
  /\ menu' \in {menu, TRUE}
  /\ UNCHANGED <<loop, trayVars, noticeVars, keyVars>>

\* The rest of showTrayMenu, for each selection.
MenuDismissed ==
  /\ menu /\ menu' = FALSE
  /\ UNCHANGED <<loop, queue, trayVars, noticeVars, keyVars>>

MenuShowKeys ==
  /\ loop = "running" /\ menu /\ menu' = FALSE
  /\ ShowKeys
  /\ UNCHANGED <<loop, queue, trayVars, noticeVars, agentKeys>>

MenuExit ==
  /\ loop = "running" /\ menu /\ menu' = FALSE
  /\ queue' = Posted("close")
  /\ UNCHANGED <<loop, trayVars, noticeVars, keyVars>>

\* Mutant: WM_DESTROY does not post WM_QUIT.
HandleCloseNoQuit ==
  /\ Dispatch("close")
  /\ loop' = "no loop exit"
  /\ queue' = <<>> /\ menu' = FALSE /\ timer' = FALSE
  /\ UNCHANGED <<taskbar, icon, announced, starts, trayAdded, noticeVars,
                 keyVars>>

\* lifecycleWndProc, WM_CLOSE and WM_DESTROY: the window goes, and with it its
\* posted messages, its timer and a menu it owns.
HandleClose ==
  /\ Dispatch("close")
  /\ loop' = "destroyed"
  /\ queue' = <<>> /\ menu' = FALSE /\ timer' = FALSE
  /\ UNCHANGED <<taskbar, icon, announced, starts, trayAdded, noticeVars,
                 keyVars>>

\* lifecycleWndProc, WM_ENDSESSION of a session that does end.
EndSession ==
  /\ loop = "running" /\ loop' = "ending"
  /\ UNCHANGED <<queue, menu, trayVars, noticeVars, keyVars>>

\* Run returns on WM_QUIT, which GetMessage returns after every posted message,
\* and its deferred calls run close and destroy the window.
Return ==
  /\ loop \in {"ending", "destroyed"} /\ queue = <<>> /\ ~menu
  /\ loop' = "closed"
  /\ timer' = FALSE /\ trayAdded' = FALSE
  /\ icon' = (icon /\ ~trayAdded)
  /\ keyWindow' = FALSE /\ shown' = NoKeys
  /\ UNCHANGED <<queue, menu, taskbar, announced, starts, noticeVars, openedAt,
                 loadVars, agentKeys>>

-----------------------------------------------------------------------------

HandleMessage ==
  HandleNotice \/ HandleKeys \/ HandleShow \/ HandleMenu \/ HandleClose

Explorer == ExplorerEnds \/ ExplorerStarts \/ ExplorerAnswers
User == Click \/ Control \/ Refresh \/ CloseKeyWindow \/ MenuShowKeys
        \/ MenuExit \/ ChangeKeys

Next ==
  \/ HandleMessage \/ TaskbarCreated \/ TrayTimer \/ MenuDismissed
  \/ EndSession \/ Return \/ Explorer \/ User
  \/ \E w \in Workers : Notify(w) \/ PostNotice(w)
  \/ \E f \in Fetchers : ListKeys(f) \/ PushKeys(f) \/ PostKeys(f)

Spec == Init /\ [][Next]_vars

\* The UI thread takes the next message and WM_QUIT. WM_TIMER waits for an
\* empty queue, which need not last: strong fairness says that GetMessage
\* returns it rather than block. Goroutines run and ListKeys has deadlines.
\* Nothing is assumed of the user; a menu ends at the latest with the loop.
FairSpec ==
  /\ Spec
  /\ WF_vars(HandleMessage) /\ WF_vars(TaskbarCreated) /\ SF_vars(TrayTimer)
  /\ WF_vars(loop = "ending" /\ MenuDismissed) /\ WF_vars(Return)
  /\ \A w \in Workers : WF_vars(PostNotice(w))
  /\ \A f \in Fetchers : WF_vars(ListKeys(f) \/ PushKeys(f) \/ PostKeys(f))

-----------------------------------------------------------------------------
(* Properties                                                              *)

\* The type of every variable.
TypeOK ==
  /\ loop \in {"running", "ending", "destroyed", "closed"}
  /\ queue \in Seq(Input \cup {"notice", "keys"})
  /\ {menu, icon, trayAdded, timer, keyWindow, loadingKeys} \subseteq BOOLEAN
  /\ taskbar \in {"down", "busy", "up"}
  /\ {announced, starts, agentKeys, shown, openedAt, loadedAt} \subseteq Nat
  /\ notices \in 0..NoticeCapacity /\ posting \subseteq Workers
  /\ fetch \in [Fetchers -> [at : {"idle", "listing", "listed", "pushed"},
                             keys : Nat]]
  /\ keysReady \in Seq(Nat) /\ Len(keysReady) <= 1

\* Every notice in the channel has a message under way, waiting or about to be
\* posted, and every message finds its notice: a notice left behind without
\* one would take up room for good (notify, onMessage wmTrayNotice).
NoticesHaveMessages ==
  hwnd => notices = Count("notice") + Cardinality(posting)

\* While keys are loading one goroutine or one message is under way, and no
\* result finds the channel full: losing it would leave loadingKeys set and
\* Refresh dead (refreshKeys, onMessage wmKeysReady).
OneLoadAtATime ==
  hwnd => LET at(p) == {f \in Fetchers : fetch[f].at = p}
          IN  /\ Cardinality(at("listing") \cup at("listed") \cup at("pushed"))
                   + Count("keys") = IF loadingKeys THEN 1 ELSE 0
              /\ Len(keysReady) = Cardinality(at("pushed")) + Count("keys")

\* The code acts on trayAdded for an icon that is gone only until Explorer
\* announces its new taskbar (onMessage taskbarReady).
TrayBelief == hwnd /\ trayAdded /\ ~icon => taskbar = "down" \/ announced > 0

\* What Refresh puts on display was read from the agent after it was pressed
\* (README.md:28, refreshKeys).
RefreshIsCurrent == shown # NoKeys => shown >= loadedAt

\* What the window shows when it is opened was read from the agent after that:
\* "lists ... every key currently loaded in the configured agent"
\* (README.md:28, showKeys and refreshKeys).
OpenIsCurrent == shown # NoKeys => shown >= openedAt

\* A load of keys ends, whatever the agent and the user do, unless the program
\* does (refreshKeys).
LoadsEnd == loadingKeys ~> ~loadingKeys \/ loop # "running"

\* A full channel of notices does not stay full: notices are not dropped for
\* good after a flood (notify, onMessage wmTrayNotice).
NoticesDrain == notices = NoticeCapacity ~> notices < NoticeCapacity
                                            \/ loop # "running"

\* Unless messages keep the UI thread busy for ever, the icon comes back after
\* Explorer was gone or would not answer (addTrayIcon, onMessage).
IconReturns ==
  []<>(queue = <<>>) =>
    (taskbar = "up" /\ ~icon ~> icon \/ taskbar # "up" \/ loop # "running")

\* "Explorer restart recovery": once Explorer stays up, the code knows again
\* that it has an icon, and shows notices on it (REVIEW.md:37, addTrayIcon).
TrayRecovers ==
  []<>(queue = <<>>) =>
    (taskbar = "up" ~> trayAdded \/ taskbar # "up" \/ loop # "running")

\* Exit, from the menu or "--exit", ends the loop and close runs, whatever the
\* menu, the key window and the goroutines are doing (Run, lifecycleWndProc).
ExitEnds == Count("close") > 0 ~> loop = "closed"

=============================================================================
