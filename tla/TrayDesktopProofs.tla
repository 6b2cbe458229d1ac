-------------------------- MODULE TrayDesktopProofs --------------------------
(***************************************************************************)
(* Proofs about TrayDesktop, for any goroutines, capacity and bounds: what *)
(* the code believes of its icon, types, notices with their messages, and  *)
(* loads of keys.                                                          *)
(***************************************************************************)
EXTENDS TrayDesktop, FiniteSetTheorems, TLAPS

\* What TypeOK says of the variables of the icon, and of loop.
TrayTypes ==
  /\ loop \in {"running", "ending", "destroyed", "closed"}
  /\ icon \in BOOLEAN /\ trayAdded \in BOOLEAN
  /\ taskbar \in {"down", "busy", "up"}
  /\ announced \in Nat

TrayInv == TrayTypes /\ TrayBelief

LEMMA TrayInit == Init => TrayInv
BY DEF Init, TrayInv, TrayTypes, TrayBelief, hwnd

\* A call of addTrayIcon leaves trayAdded set only with the icon there, unless
\* it was set before.
LEMMA AddTruthful ==
  ASSUME TrayTypes, NEW added \in BOOLEAN, AddTrayIcon(added)
  PROVE  /\ icon' \in BOOLEAN /\ trayAdded' \in BOOLEAN
         /\ icon => icon'
         /\ trayAdded' => icon' \/ added
BY DEF TrayTypes, AddTrayIcon, Accepts

LEMMA TrayStep == TrayInv /\ [Next]_vars => TrayInv'
<1> SUFFICES ASSUME TrayInv, [Next]_vars PROVE TrayInv' OBVIOUS
<1> USE DEF TrayInv, TrayTypes, TrayBelief, hwnd
<1>1. CASE TaskbarCreated
  <2>1. /\ icon' \in BOOLEAN /\ trayAdded' \in BOOLEAN
        /\ trayAdded' => icon'
    BY <1>1 DEF TaskbarCreated, AddTrayIcon, Accepts
  <2> QED BY <1>1, <2>1 DEF TaskbarCreated
<1>2. CASE TrayTimer
  BY <1>2, AddTruthful DEF TrayTimer
<1>3. CASE Explorer
  <2>1. CASE ExplorerEnds BY <2>1 DEF ExplorerEnds
  <2>2. CASE ExplorerStarts BY <2>2 DEF ExplorerStarts
  <2>3. CASE ExplorerAnswers
    <3>1. announced' = announced /\ trayAdded' = trayAdded /\ icon' = icon
      BY <2>3 DEF ExplorerAnswers
    <3>2. loop' = loop /\ taskbar = "busy" /\ taskbar' = "up"
      BY <2>3 DEF ExplorerAnswers
    <3> QED BY <3>1, <3>2
  <2> QED BY <1>3, <2>1, <2>2, <2>3 DEF Explorer
<1>4. CASE Return
  BY <1>4 DEF Return
<1>5. CASE HandleClose
  BY <1>5 DEF HandleClose
<1>6. CASE EndSession
  BY <1>6 DEF EndSession, trayVars
<1>7. ASSUME UNCHANGED <<loop, trayVars>> PROVE TrayInv'
  BY <1>7 DEF trayVars
<1>8. CASE HandleNotice \/ HandleKeys \/ HandleShow \/ HandleMenu
  BY <1>7, <1>8 DEF HandleNotice, HandleKeys, HandleShow, HandleMenu
<1>9. CASE MenuDismissed \/ User
  BY <1>7, <1>9 DEF MenuDismissed, User, Click, Control, Refresh,
     CloseKeyWindow, MenuShowKeys, MenuExit, ChangeKeys
<1>10. ASSUME NEW w \in Workers, Notify(w) \/ PostNotice(w) PROVE TrayInv'
  BY <1>7, <1>10 DEF Notify, PostNotice
<1>11. ASSUME NEW f \in Fetchers, ListKeys(f) \/ PushKeys(f) \/ PostKeys(f)
       PROVE  TrayInv'
  BY <1>7, <1>11 DEF ListKeys, PushKeys, PostKeys
<1>12. CASE UNCHANGED vars
  BY <1>7, <1>12 DEF vars
<1> QED
  BY <1>1, <1>2, <1>3, <1>4, <1>5, <1>6, <1>8, <1>9, <1>10, <1>11, <1>12
  DEF Next, HandleMessage

\* The code acts on an icon that is gone only until Explorer announces its new
\* taskbar (addTrayIcon, onMessage taskbarReady).
THEOREM BeliefHolds == Spec => []TrayBelief
<1>1. TrayInv => TrayBelief BY DEF TrayInv
<1> QED BY <1>1, TrayInit, TrayStep, PTL DEF Spec

-----------------------------------------------------------------------------
(* Messages in the queue                                                   *)

Messages == Input \cup {"notice", "keys"}
Places(q, m) == {i \in DOMAIN q : q[i] = m}

LEMMA PlacesFinite ==
  ASSUME NEW q \in Seq(Messages), NEW m
  PROVE  IsFiniteSet(Places(q, m)) /\ Cardinality(Places(q, m)) \in Nat
<1>1. IsFiniteSet(1..Len(q))
  BY FS_Interval
<1>2. Places(q, m) \in SUBSET (1..Len(q))
  BY DEF Places
<1> QED
  BY <1>1, <1>2, FS_Subset, FS_CardinalityType

\* Posting a message.
LEMMA PlacesAppend ==
  ASSUME NEW q \in Seq(Messages), NEW x \in Messages, NEW m
  PROVE  /\ x # m => Places(Append(q, x), m) = Places(q, m)
         /\ x = m => /\ Places(Append(q, x), m) = Places(q, m) \cup {Len(q) + 1}
                     /\ Len(q) + 1 \notin Places(q, m)
BY DEF Places

LEMMA CountAppend ==
  ASSUME NEW q \in Seq(Messages), NEW x \in Messages, NEW m
  PROVE  Cardinality(Places(Append(q, x), m))
           = Cardinality(Places(q, m)) + IF x = m THEN 1 ELSE 0
<1>1. CASE x # m
  BY <1>1, PlacesAppend, PlacesFinite
<1>2. CASE x = m
  BY <1>2, PlacesAppend, PlacesFinite, FS_AddElement
<1> QED
  BY <1>1, <1>2

\* Dispatching the oldest one.
LEMMA CountTail ==
  ASSUME NEW q \in Seq(Messages), q # <<>>, NEW m
  PROVE  Cardinality(Places(q, m))
           = Cardinality(Places(Tail(q), m)) + IF Head(q) = m THEN 1 ELSE 0
<1> DEFINE rest == Places(q, m) \ {1}
           f == [i \in Places(Tail(q), m) |-> i + 1]
<1>1. Tail(q) \in Seq(Messages) /\ Len(q) \in Nat \ {0}
  BY DEF Messages
<1>2. f \in Bijection(Places(Tail(q), m), rest)
  <2>1. ASSUME NEW i \in Places(Tail(q), m) PROVE i \in Nat /\ i + 1 \in rest
    BY <1>1, <2>1 DEF Places
  <2>2. ASSUME NEW j \in rest PROVE j - 1 \in Places(Tail(q), m) /\ (j - 1) + 1 = j
    BY <1>1, <2>2 DEF Places
  <2>3. \A i, j \in Places(Tail(q), m) : f[i] = f[j] => i = j
    BY <2>1
  <2>4. \A j \in rest : \E i \in Places(Tail(q), m) : f[i] = j
    BY <2>2
  <2> QED
    BY <2>1, <2>3, <2>4 DEF Bijection, Injection, Surjection, IsInjective
<1>3. Cardinality(rest) = Cardinality(Places(Tail(q), m))
  <2>1. IsFiniteSet(Places(Tail(q), m))
    BY <1>1, PlacesFinite
  <2>2. ExistsBijection(Places(Tail(q), m), rest)
    BY <1>2, Zenon DEF ExistsBijection
  <2> HIDE DEF rest
  <2> QED
    BY <2>1, <2>2, FS_Bijection, Zenon
<1>4. /\ IsFiniteSet(Places(q, m)) /\ Cardinality(Places(q, m)) \in Nat
      /\ Cardinality(Places(Tail(q), m)) \in Nat
  BY <1>1, PlacesFinite
<1>5. Cardinality(rest) = IF 1 \in Places(q, m) THEN Cardinality(Places(q, m)) - 1
                                                ELSE Cardinality(Places(q, m))
  BY <1>4, FS_RemoveElement, Zenon
<1> HIDE DEF rest
<1>6. 1 \in Places(q, m) <=> Head(q) = m
  BY <1>1 DEF Places
<1> QED
  BY <1>3, <1>4, <1>5, <1>6


\* Channels and queues of at most one element.
LEMMA Short ==
  ASSUME NEW S, NEW x \in S
  PROVE  /\ <<>> \in Seq(S) /\ Len(<<>>) <= 1
         /\ <<x>> \in Seq(S) /\ Len(<<x>>) <= 1
OBVIOUS

LEMMA One == ASSUME NEW n \in Nat, n # 0, n <= 1 PROVE n = 1
OBVIOUS

LEMMA LenShort ==
  ASSUME NEW S, NEW q \in Seq(S), Len(q) <= 1
  PROVE  Len(q) = IF q = <<>> THEN 0 ELSE 1
<1>1. CASE q = <<>>
  BY <1>1
<1>2. CASE q # <<>>
  <2>1. Len(q) \in Nat /\ Len(q) # 0
    BY <1>2
  <2>2. Len(q) = 1
    BY <2>1, One
  <2> QED
    BY <1>2, <2>2, Zenon
<1> QED
  BY <1>1, <1>2

-----------------------------------------------------------------------------
(* Notices and loads of keys                                               *)

\* TypeOK, by what the variables belong to.
IconTypes ==
  /\ taskbar \in {"down", "busy", "up"} /\ announced \in Nat /\ starts \in Nat
  /\ icon \in BOOLEAN /\ trayAdded \in BOOLEAN /\ timer \in BOOLEAN

QueueTypes ==
  /\ loop \in {"running", "ending", "destroyed", "closed"}
  /\ queue \in Seq(Messages) /\ menu \in BOOLEAN
  /\ notices \in 0..NoticeCapacity /\ posting \subseteq Workers

KeyTypes ==
  /\ keyWindow \in BOOLEAN /\ loadingKeys \in BOOLEAN
  /\ agentKeys \in Nat /\ shown \in Nat /\ openedAt \in Nat /\ loadedAt \in Nat
  /\ fetch \in [Fetchers -> [at : {"idle", "listing", "listed", "pushed"}, keys : Nat]]
  /\ keysReady \in Seq(Nat) /\ Len(keysReady) <= 1

DesktopTypes == IconTypes /\ QueueTypes /\ KeyTypes

\* A message under way for every notice (NoticesHaveMessages), of finitely many
\* goroutines.
NoticeInv ==
  /\ IsFiniteSet(posting)
  /\ hwnd => notices = Cardinality(Places(queue, "notice")) + Cardinality(posting)

Active(f) == fetch[f].at # "idle"

\* Of goroutines and messages one is under way while keys are loading.
LoadInv ==
  hwnd =>
    /\ \A f, g \in Fetchers : Active(f) /\ Active(g) => f = g
    /\ \A i, j \in Places(queue, "keys") : i = j
    /\ \A f \in Fetchers : Active(f) => Places(queue, "keys") = {}
    /\ loadingKeys <=> (\E f \in Fetchers : Active(f)) \/ Places(queue, "keys") # {}
    /\ keysReady # <<>> <=>
         (\E f \in Fetchers : fetch[f].at = "pushed") \/ Places(queue, "keys") # {}

\* Whatever the last load has read so far was read after it began.
FreshInv ==
  /\ loadedAt <= agentKeys
  /\ shown # NoKeys => shown >= loadedAt
  /\ \A f \in Fetchers :
       fetch[f].at = "listed" /\ fetch[f].keys # NoKeys => fetch[f].keys >= loadedAt
  /\ keysReady # <<>> /\ Head(keysReady) # NoKeys => Head(keysReady) >= loadedAt

DesktopInv == DesktopTypes /\ NoticeInv /\ LoadInv /\ FreshInv

LEMMA DesktopInit == Init => DesktopInv
<1> SUFFICES ASSUME Init PROVE DesktopInv
  OBVIOUS
<1>1. DesktopTypes
  <2>1. IconTypes
    BY DEF Init, IconTypes
  <2>2. QueueTypes
    <3>1. queue \in Seq(Messages)
      <4>1. queue = <<>> \/ queue = <<"show">>
        BY Zenon DEF Init
      <4>2. "show" \in Messages
        BY DEF Messages, Input
      <4> QED
        BY <4>1, <4>2, Short, Zenon
    <3>2. menu \in BOOLEAN
      BY Zenon DEF Init
    <3> QED
      BY <3>1, <3>2, DesktopAssumption DEF Init, QueueTypes
  <2>3. KeyTypes
    <3>1. keyWindow \in BOOLEAN /\ loadingKeys \in BOOLEAN
      BY Zenon DEF Init
    <3> QED
      BY <3>1 DEF Init, KeyTypes, NoKeys
  <2> QED
    BY <2>1, <2>2, <2>3 DEF DesktopTypes
<1>2. Places(queue, "notice") = {} /\ Places(queue, "keys") = {}
  BY DEF Init, Places
<1>3. NoticeInv
  BY <1>2, FS_EmptySet DEF Init, NoticeInv
<1>4. LoadInv
  BY <1>2 DEF Init, LoadInv, Active
<1>5. FreshInv
  BY DEF Init, FreshInv, NoKeys
<1> QED
  BY <1>1, <1>3, <1>4, <1>5 DEF DesktopInv

\* The icon: addTrayIcon and Explorer.
LEMMA IconTypesKept == IconTypes /\ [Next]_vars => IconTypes'
<1> SUFFICES ASSUME IconTypes, [Next]_vars PROVE IconTypes'
  OBVIOUS
<1> USE DEF IconTypes, trayVars, noticeVars, windowVars, loadVars, keyVars
<1>1. ASSUME UNCHANGED trayVars PROVE IconTypes'
  BY <1>1
<1>2. CASE HandleClose
  BY <1>2 DEF HandleClose, Dispatch, hwnd
<1>3. CASE TaskbarCreated
  BY <1>3 DEF TaskbarCreated, AddTrayIcon, Accepts
<1>4. CASE TrayTimer
  BY <1>4 DEF TrayTimer, AddTrayIcon, Accepts
<1>5. CASE Return
  BY <1>5 DEF Return
<1>6. CASE ExplorerEnds
  <2>1. icon' \in BOOLEAN /\ trayAdded' \in BOOLEAN /\ timer' \in BOOLEAN
    BY <1>6, Zenon DEF ExplorerEnds
  <2> QED
    BY <1>6, <2>1 DEF ExplorerEnds
<1>7. CASE ExplorerStarts
  BY <1>7 DEF ExplorerStarts
<1>8. CASE ExplorerAnswers
  BY <1>8 DEF ExplorerAnswers
<1>9. CASE HandleNotice \/ HandleKeys \/ HandleShow \/ HandleMenu \/
          MenuDismissed \/ EndSession \/ Click \/ Control \/ Refresh \/
          CloseKeyWindow \/ MenuShowKeys \/ MenuExit \/ ChangeKeys
  BY <1>1, <1>9
  DEF HandleNotice, Dispatch, hwnd, HandleKeys, HandleShow, HandleMenu,
      MenuDismissed, EndSession, Click, Control, Refresh, CloseKeyWindow,
      MenuShowKeys, MenuExit, Posted, ChangeKeys
<1>10. ASSUME NEW w \in Workers, Notify(w) \/ PostNotice(w)
      PROVE  IconTypes'
  BY <1>1, <1>10 DEF Notify, PostNotice
<1>11. ASSUME NEW f \in Fetchers, ListKeys(f) \/ PushKeys(f) \/ PostKeys(f)
      PROVE  IconTypes'
  BY <1>1, <1>11 DEF ListKeys, PushKeys, PostKeys
<1>12. CASE UNCHANGED vars
  BY <1>1, <1>12 DEF vars
<1> QED
  BY <1>2, <1>3, <1>4, <1>5, <1>6, <1>7, <1>8, <1>9, <1>10, <1>11, <1>12,
     Zenon DEF Next, HandleMessage, Explorer, User

\* Messages and notices.
LEMMA QueueTypesKept == QueueTypes /\ [Next]_vars => QueueTypes'
<1> SUFFICES ASSUME QueueTypes, [Next]_vars PROVE QueueTypes'
  OBVIOUS
<1> USE DesktopAssumption
    DEF QueueTypes, Messages, Input, hwnd, trayVars, noticeVars, windowVars, loadVars, keyVars
<1>1. ASSUME UNCHANGED <<loop, queue, menu, noticeVars>> PROVE QueueTypes'
  BY <1>1
<1>2. CASE HandleNotice
  BY <1>2 DEF HandleNotice, Dispatch
<1>3. CASE HandleKeys
  BY <1>3 DEF HandleKeys, Dispatch
<1>4. CASE HandleShow
  BY <1>4 DEF HandleShow, Dispatch, ShowKeys, RefreshKeys
<1>5. CASE HandleMenu
  <2>1. menu' \in BOOLEAN
    BY <1>5, Zenon DEF HandleMenu, Dispatch
  <2> QED
    BY <1>5, <2>1 DEF HandleMenu, Dispatch
<1>6. CASE HandleClose
  <2>1. menu' \in BOOLEAN
    BY <1>6, Zenon DEF HandleClose, Dispatch
  <2> QED
    BY <1>6, <2>1 DEF HandleClose, Dispatch
<1>7. CASE MenuDismissed
  BY <1>7 DEF MenuDismissed
<1>8. CASE EndSession
  BY <1>8 DEF EndSession
<1>9. CASE Return
  BY <1>9 DEF Return
<1>10. CASE Click
  BY <1>10 DEF Click
<1>11. CASE Control
  BY <1>11 DEF Control
<1>12. CASE MenuShowKeys
  BY <1>12 DEF MenuShowKeys, ShowKeys, RefreshKeys
<1>13. CASE MenuExit
  <2>1. menu' \in BOOLEAN
    BY <1>13, Zenon DEF MenuExit, Posted
  <2> QED
    BY <1>13, <2>1 DEF MenuExit, Posted
<1>14. ASSUME NEW w \in Workers, Notify(w) PROVE QueueTypes'
  BY <1>14 DEF Notify
<1>15. ASSUME NEW w \in Workers, PostNotice(w) PROVE QueueTypes'
  BY <1>15 DEF PostNotice, Posted
<1>16. ASSUME NEW f \in Fetchers, PostKeys(f) PROVE QueueTypes'
  BY <1>16 DEF PostKeys, Posted
<1>17. CASE TaskbarCreated \/ TrayTimer \/ ExplorerEnds \/ ExplorerStarts \/
          ExplorerAnswers \/ Refresh \/ CloseKeyWindow \/ ChangeKeys
  BY <1>1, <1>17
  DEF TaskbarCreated, TrayTimer, ExplorerEnds, ExplorerStarts,
      ExplorerAnswers, Refresh, CloseKeyWindow, ChangeKeys
<1>18. ASSUME NEW f \in Fetchers, ListKeys(f) \/ PushKeys(f)
      PROVE  QueueTypes'
  BY <1>1, <1>18 DEF ListKeys, PushKeys
<1>19. CASE UNCHANGED vars
  BY <1>1, <1>19 DEF vars
<1> QED
  BY <1>2, <1>3, <1>4, <1>5, <1>6, <1>7, <1>8, <1>9, <1>10, <1>11, <1>12,
     <1>13, <1>14, <1>15, <1>16, <1>17, <1>18, <1>19,
     Zenon DEF Next, HandleMessage, Explorer, User

\* Keys.
LEMMA KeyTypesKept == KeyTypes /\ [Next]_vars => KeyTypes'
<1> SUFFICES ASSUME KeyTypes, [Next]_vars PROVE KeyTypes'
  OBVIOUS
<1> USE DEF KeyTypes, NoKeys, trayVars, noticeVars, windowVars, loadVars, keyVars
<1>1. ASSUME UNCHANGED keyVars PROVE KeyTypes'
  BY <1>1
<1>2. CASE HandleKeys
  <2>1. keyWindow' \in BOOLEAN /\ loadingKeys' \in BOOLEAN
    BY <1>2, Zenon DEF HandleKeys
  <2>2. keysReady # <<>> => Head(keysReady) \in Nat
    OBVIOUS
  <2>3. shown' \in Nat /\ (keysReady' = keysReady \/ keysReady' = <<>>)
    BY <1>2, <2>2 DEF HandleKeys
  <2>4. UNCHANGED <<agentKeys, openedAt, loadedAt, fetch>>
    BY <1>2 DEF HandleKeys
  <2>5. keysReady' \in Seq(Nat) /\ Len(keysReady') <= 1
    BY <2>3, 0 \in Nat, Short, Zenon
  <2> QED
    BY <2>1, <2>3, <2>4, <2>5
<1>3. CASE HandleShow
  <2>1. keyWindow' \in BOOLEAN /\ loadingKeys' \in BOOLEAN
    BY <1>3, Zenon DEF HandleShow, ShowKeys, RefreshKeys
  <2>2. shown' \in Nat /\ openedAt' \in Nat /\ loadedAt' \in Nat
    BY <1>3 DEF HandleShow, ShowKeys, RefreshKeys
  <2>3. keysReady' = keysReady /\ agentKeys' = agentKeys
    BY <1>3 DEF HandleShow, ShowKeys, RefreshKeys
  <2>4. fetch' = fetch \/ \E f \in Fetchers : fetch' = [fetch EXCEPT ![f].at = "listing"]
    BY <1>3 DEF HandleShow, ShowKeys, RefreshKeys
  <2> QED
    BY <2>1, <2>2, <2>3, <2>4
<1>4. CASE Return
  BY <1>4 DEF Return
<1>5. CASE Refresh
  <2>1. keyWindow' \in BOOLEAN /\ loadingKeys' \in BOOLEAN
    BY <1>5, Zenon DEF Refresh, RefreshKeys
  <2> QED
    BY <1>5, <2>1 DEF Refresh, RefreshKeys
<1>6. CASE CloseKeyWindow
  BY <1>6 DEF CloseKeyWindow
<1>7. CASE MenuShowKeys
  <2>1. keyWindow' \in BOOLEAN /\ loadingKeys' \in BOOLEAN
    BY <1>7, Zenon DEF MenuShowKeys, ShowKeys, RefreshKeys
  <2> QED
    BY <1>7, <2>1 DEF MenuShowKeys, ShowKeys, RefreshKeys
<1>8. CASE ChangeKeys
  BY <1>8 DEF ChangeKeys
<1>9. ASSUME NEW f \in Fetchers, ListKeys(f) PROVE KeyTypes'
  BY <1>9 DEF ListKeys
<1>10. ASSUME NEW f \in Fetchers, PushKeys(f) PROVE KeyTypes'
  <2>1. keyWindow' \in BOOLEAN /\ loadingKeys' \in BOOLEAN
    BY <1>10, Zenon DEF PushKeys
  <2>2. UNCHANGED <<agentKeys, shown, openedAt, loadedAt>>
    BY <1>10 DEF PushKeys
  <2>3. keysReady' = <<fetch[f].keys>> \/ keysReady' = keysReady
    BY <1>10 DEF PushKeys
  <2>4. \/ fetch' = [fetch EXCEPT ![f] = [at |-> "pushed", keys |-> NoKeys]]
        \/ fetch' = [fetch EXCEPT ![f] = [at |-> "idle", keys |-> NoKeys]]
    BY <1>10 DEF PushKeys
  <2>5. keysReady' \in Seq(Nat) /\ Len(keysReady') <= 1
    BY <2>3, fetch[f].keys \in Nat, Short, Zenon
  <2>6. fetch' \in [Fetchers -> [at : {"idle", "listing", "listed", "pushed"}, keys : Nat]]
    BY <2>4
  <2> QED
    BY <2>1, <2>2, <2>5, <2>6
<1>11. ASSUME NEW f \in Fetchers, PostKeys(f) PROVE KeyTypes'
  BY <1>11 DEF PostKeys, Posted
<1>12. CASE HandleNotice \/ HandleMenu \/ HandleClose \/ TaskbarCreated \/
          TrayTimer \/ MenuDismissed \/ EndSession \/ ExplorerEnds \/
          ExplorerStarts \/ ExplorerAnswers \/ Click \/ Control \/ MenuExit
  BY <1>1, <1>12
  DEF HandleNotice, Dispatch, hwnd, HandleMenu, HandleClose,
      TaskbarCreated, TrayTimer, MenuDismissed, EndSession, ExplorerEnds,
      ExplorerStarts, ExplorerAnswers, Click, Control, MenuExit, Posted
<1>13. ASSUME NEW w \in Workers, Notify(w) \/ PostNotice(w)
      PROVE  KeyTypes'
  BY <1>1, <1>13 DEF Notify, PostNotice
<1>14. CASE UNCHANGED vars
  BY <1>1, <1>14 DEF vars
<1> QED
  BY <1>2, <1>3, <1>4, <1>5, <1>6, <1>7, <1>8, <1>9, <1>10, <1>11, <1>12,
     <1>13, <1>14,
     Zenon DEF Next, HandleMessage, Explorer, User

LEMMA TypesKept == DesktopTypes /\ [Next]_vars => DesktopTypes'
  BY IconTypesKept, QueueTypesKept, KeyTypesKept DEF DesktopTypes

\* A notice is pushed, its message posted, and both are taken together.
LEMMA NoticesKept == DesktopTypes /\ NoticeInv /\ [Next]_vars => NoticeInv'
<1> SUFFICES ASSUME DesktopTypes /\ NoticeInv, [Next]_vars PROVE NoticeInv'
  OBVIOUS
<1> USE DEF NoticeInv, hwnd, trayVars, noticeVars
<1>types. /\ queue \in Seq(Messages) /\ notices \in Nat /\ IsFiniteSet(posting)
          /\ Cardinality(posting) \in Nat /\ Cardinality(Places(queue, "notice")) \in Nat
  BY PlacesFinite, FS_CardinalityType, DesktopAssumption DEF DesktopTypes, QueueTypes
<1>other. {"show", "menu", "close", "keys"} \subseteq Messages /\ "notice" \in Messages
  BY DEF Messages, Input
<1>take. ASSUME NEW m, Dispatch(m), queue' = Tail(queue), loop' = loop, posting' = posting,
                notices' = notices - IF m = "notice" THEN 1 ELSE 0
         PROVE  NoticeInv'
  <2>1. Cardinality(Places(queue, "notice"))
          = Cardinality(Places(Tail(queue), "notice")) + IF m = "notice" THEN 1 ELSE 0
    BY <1>take, <1>types, CountTail DEF Dispatch
  <2>2. Tail(queue) \in Seq(Messages)
    BY <1>take, <1>types DEF Dispatch
  <2>3. Cardinality(Places(Tail(queue), "notice")) \in Nat
    BY <2>2, PlacesFinite
  <2> QED
    BY <1>take, <1>types, <2>1, <2>3
<1>post. ASSUME NEW m \in Messages \ {"notice"}, UNCHANGED <<loop, noticeVars>>,
                queue' = queue \/ queue' = Append(queue, m)
         PROVE  NoticeInv'
  <2>1. Cardinality(Places(Append(queue, m), "notice")) = Cardinality(Places(queue, "notice"))
    BY <1>post, <1>types, CountAppend
  <2> QED
    BY <1>post, <1>types, <2>1
<1>1. ASSUME UNCHANGED <<queue, noticeVars>>, hwnd' => hwnd PROVE NoticeInv'
  BY <1>1
<1>2. CASE HandleNotice
  <2>1. Cardinality(Places(queue, "notice")) > 0
    <3>1. Tail(queue) \in Seq(Messages)
      BY <1>2, <1>types DEF HandleNotice, Dispatch
    <3>2. Cardinality(Places(Tail(queue), "notice")) \in Nat
      BY <3>1, PlacesFinite
    <3> QED
      BY <1>2, <1>types, <3>2, CountTail DEF HandleNotice, Dispatch
  <2>2. notices' = notices - 1
    BY <1>2, <1>types, <2>1 DEF HandleNotice, Dispatch
  <2> QED
    BY <1>2, <1>take, <2>2 DEF HandleNotice
<1>3. CASE HandleKeys
  <2>1. Dispatch("keys") /\ queue' = Tail(queue) /\ UNCHANGED <<loop, noticeVars>>
    BY <1>3, Zenon DEF HandleKeys
  <2> QED
    BY <1>take, <1>types, <2>1
<1>4. CASE HandleShow
  <2>1. Dispatch("show") /\ queue' = Tail(queue) /\ UNCHANGED <<loop, noticeVars>>
    BY <1>4, Zenon DEF HandleShow
  <2> QED
    BY <1>take, <1>types, <2>1
<1>5. CASE HandleMenu
  <2>1. Dispatch("menu") /\ queue' = Tail(queue) /\ UNCHANGED <<loop, noticeVars>>
    BY <1>5, Zenon DEF HandleMenu
  <2> QED
    BY <1>take, <1>types, <2>1
<1>6. CASE HandleClose
  BY <1>6 DEF HandleClose
<1>7. CASE Return
  BY <1>7 DEF Return
<1>8. CASE Click
  BY <1>8, <1>post, <1>other DEF Click
<1>9. CASE Control
  BY <1>9, <1>post, <1>other DEF Control
<1>10. CASE MenuExit
  BY <1>10, <1>post, <1>other DEF MenuExit, Posted
<1>11. ASSUME NEW w \in Workers, Notify(w) PROVE NoticeInv'
  <2>1. IsFiniteSet(posting') /\ Cardinality(posting') = Cardinality(posting) + 1
    BY <1>11, <1>types, FS_AddElement DEF Notify
  <2> QED
    BY <1>11, <1>types, <2>1 DEF Notify
<1>12. ASSUME NEW w \in Workers, PostNotice(w) PROVE NoticeInv'
  <2>1. IsFiniteSet(posting') /\ Cardinality(posting') = Cardinality(posting) - 1
    BY <1>12, <1>types, FS_RemoveElement DEF PostNotice
  <2>2. hwnd => Cardinality(Places(queue', "notice")) = Cardinality(Places(queue, "notice")) + 1
    BY <1>12, <1>types, <1>other, CountAppend DEF PostNotice, Posted
  <2> QED
    BY <1>12, <1>types, <2>1, <2>2 DEF PostNotice
<1>13. ASSUME NEW f \in Fetchers, PostKeys(f) PROVE NoticeInv'
  BY <1>13, <1>post, <1>other DEF PostKeys, Posted
<1>14. CASE TaskbarCreated \/ TrayTimer \/ MenuDismissed \/ EndSession \/
          ExplorerEnds \/ ExplorerStarts \/ ExplorerAnswers \/ Refresh \/
          CloseKeyWindow \/ MenuShowKeys \/ ChangeKeys
  BY <1>1, <1>14
  DEF TaskbarCreated, TrayTimer, MenuDismissed, EndSession, ExplorerEnds,
      ExplorerStarts, ExplorerAnswers, Refresh, CloseKeyWindow,
      MenuShowKeys, ChangeKeys
<1>15. ASSUME NEW f \in Fetchers, ListKeys(f) \/ PushKeys(f)
      PROVE  NoticeInv'
  BY <1>1, <1>15 DEF ListKeys, PushKeys
<1>16. CASE UNCHANGED vars
  BY <1>1, <1>16 DEF vars
<1> QED
  BY <1>2, <1>3, <1>4, <1>5, <1>6, <1>7, <1>8, <1>9, <1>10, <1>11, <1>12,
     <1>13, <1>14, <1>15, <1>16,
     Zenon DEF Next, HandleMessage, Explorer, User

\* What dispatching a message leaves of the others.
LEMMA PlacesTail ==
  ASSUME NEW q \in Seq(Messages), q # <<>>, NEW m
  PROVE  /\ Head(q) # m => (Places(Tail(q), m) = {} <=> Places(q, m) = {})
         /\ (\A i, j \in Places(q, m) : i = j) =>
              /\ \A i, j \in Places(Tail(q), m) : i = j
              /\ Head(q) = m => Places(Tail(q), m) = {}
<1>1. \A i \in Places(Tail(q), m) : i \in Nat \ {0} /\ i + 1 \in Places(q, m)
  BY DEF Places
<1>2. \A i \in Places(q, m) : i \in Nat /\ (i - 1 \in Places(Tail(q), m) \/ (i = 1 /\ Head(q) = m))
  BY DEF Places
<1>3. Head(q) = m => 1 \in Places(q, m)
  BY DEF Places
<1> QED
  BY <1>1, <1>2, <1>3

\* refreshKeys starts a load only when none is under way.
LEMMA RefreshLoad ==
  ASSUME DesktopTypes, LoadInv, hwnd, RefreshKeys \/ UNCHANGED loadVars,
         Places(queue', "keys") = {} <=> Places(queue, "keys") = {},
         \A i, j \in Places(queue', "keys") : i = j
  PROVE  LoadInv'
<1> USE DEF LoadInv, Active, DesktopTypes, KeyTypes
<1>1. CASE UNCHANGED loadVars
  BY <1>1 DEF loadVars
<1>2. CASE RefreshKeys /\ ~loadingKeys
  BY <1>2 DEF RefreshKeys
<1> QED
  BY <1>1, <1>2 DEF RefreshKeys, loadVars

LEMMA RefreshFresh ==
  ASSUME DesktopTypes, LoadInv, FreshInv, hwnd, agentKeys' = agentKeys,
         RefreshKeys \/ UNCHANGED <<loadVars, shown>>
  PROVE  FreshInv'
<1> USE DEF FreshInv, DesktopTypes, KeyTypes, NoKeys
<1>1. CASE UNCHANGED <<loadVars, shown>>
  BY <1>1 DEF loadVars
<1>2. CASE RefreshKeys /\ ~loadingKeys
  <2>1. keysReady = <<>> /\ \A f \in Fetchers : fetch[f].at = "idle"
    BY <1>2 DEF LoadInv, Active
  <2>2. /\ shown' = NoKeys /\ loadedAt' = agentKeys /\ keysReady' = keysReady
        /\ \A f \in Fetchers : fetch'[f].at # "listed"
    BY <1>2, <2>1 DEF RefreshKeys
  <2> QED
    BY <2>1, <2>2
<1> QED
  BY <1>1, <1>2 DEF RefreshKeys, loadVars

\* One load at a time, from refreshKeys to the message that ends it.
LEMMA LoadsKept == DesktopTypes /\ LoadInv /\ [Next]_vars => LoadInv'
<1> SUFFICES ASSUME DesktopTypes /\ LoadInv, [Next]_vars PROVE LoadInv'
  OBVIOUS
<1> USE DEF hwnd, trayVars, noticeVars, windowVars, keyVars
<1>types. /\ queue \in Seq(Messages)
          /\ {"show", "menu", "close", "notice", "keys"} \subseteq Messages
  BY DEF DesktopTypes, QueueTypes, Messages, Input
<1>take. ASSUME NEW m, m # "keys", Dispatch(m), queue' = Tail(queue), loop' = loop,
                RefreshKeys \/ UNCHANGED loadVars
         PROVE  LoadInv'
  <2>1. queue # <<>> /\ Head(queue) # "keys" /\ hwnd
    BY <1>take DEF Dispatch
  <2>2. \A i, j \in Places(queue, "keys") : i = j
    BY <2>1 DEF LoadInv
  <2> QED
    BY <1>take, <1>types, <2>1, <2>2, PlacesTail, RefreshLoad
<1>post. ASSUME NEW m \in Messages, m # "keys", queue' = queue \/ queue' = Append(queue, m),
                loop' = loop, RefreshKeys \/ UNCHANGED loadVars
         PROVE  LoadInv'
  <2>1. CASE hwnd
    <3>1. Places(queue', "keys") = Places(queue, "keys")
      <4>1. Places(Append(queue, m), "keys") = Places(queue, "keys")
        BY <1>post, <1>types, PlacesAppend
      <4> QED
        BY <1>post, <4>1
    <3>2. \A i, j \in Places(queue, "keys") : i = j
      BY <2>1 DEF LoadInv
    <3> QED
      BY <1>post, <2>1, <3>1, <3>2, RefreshLoad
  <2>2. CASE ~hwnd
    BY <1>post, <2>2 DEF LoadInv
  <2> QED
    BY <2>1, <2>2
<1>1. ASSUME UNCHANGED <<queue, loadVars>>, hwnd' => hwnd PROVE LoadInv'
  BY <1>1 DEF LoadInv, loadVars, Active
<1>2. CASE HandleNotice
  <2>1. /\ Dispatch("notice") /\ queue' = Tail(queue) /\ loop' = loop
        /\ RefreshKeys \/ UNCHANGED loadVars
    BY <1>2, Zenon DEF HandleNotice, keyVars
  <2> QED
    BY <1>take, <2>1
<1>3. CASE HandleKeys
  <2>1. queue # <<>> /\ Head(queue) = "keys" /\ queue' = Tail(queue) /\ hwnd
    BY <1>3 DEF HandleKeys, Dispatch
  <2>2. Places(queue, "keys") # {} /\ \A i, j \in Places(queue, "keys") : i = j
    BY <1>types, <2>1 DEF LoadInv, Places
  <2>3. Places(queue', "keys") = {}
    BY <1>types, <2>1, <2>2, PlacesTail
  <2>4. keysReady # <<>> /\ \A f \in Fetchers : ~Active(f)
    BY <2>1, <2>2 DEF LoadInv
  <2>5. keysReady' = <<>> /\ loadingKeys' = FALSE /\ fetch' = fetch
    BY <1>3, <2>4 DEF HandleKeys
  <2> QED
    BY <2>3, <2>4, <2>5 DEF LoadInv, Active
<1>4. CASE HandleShow
  <2>1. /\ Dispatch("show") /\ queue' = Tail(queue) /\ loop' = loop
        /\ RefreshKeys \/ UNCHANGED loadVars
    BY <1>4, Zenon DEF HandleShow, keyVars, ShowKeys
  <2> QED
    BY <1>take, <2>1
<1>5. CASE HandleMenu
  <2>1. /\ Dispatch("menu") /\ queue' = Tail(queue) /\ loop' = loop
        /\ RefreshKeys \/ UNCHANGED loadVars
    BY <1>5, Zenon DEF HandleMenu, keyVars
  <2> QED
    BY <1>take, <2>1
<1>6. CASE HandleClose
  BY <1>6 DEF HandleClose, LoadInv
<1>7. CASE Return
  BY <1>7 DEF Return, LoadInv
<1>8. CASE Click
  BY <1>8, <1>post, <1>types DEF Click
<1>9. CASE Control
  BY <1>9, <1>post, <1>types DEF Control
<1>10. CASE Refresh
  BY <1>10, <1>post, <1>types DEF Refresh
<1>11. CASE MenuShowKeys
  BY <1>11, <1>post, <1>types DEF MenuShowKeys, ShowKeys
<1>12. CASE MenuExit
  BY <1>12, <1>post, <1>types DEF MenuExit, Posted
<1>13. ASSUME NEW w \in Workers, PostNotice(w) PROVE LoadInv'
  BY <1>13, <1>post, <1>types DEF PostNotice, Posted
<1>14. ASSUME NEW f \in Fetchers, ListKeys(f) PROVE LoadInv'
  <2>1. /\ UNCHANGED <<queue, loop, loadingKeys, keysReady>>
        /\ \A g \in Fetchers : Active(g)' <=> Active(g)
        /\ \A g \in Fetchers : fetch'[g].at = "pushed" <=> fetch[g].at = "pushed"
    BY <1>14 DEF ListKeys, Active, DesktopTypes, KeyTypes
  <2> QED
    BY <2>1 DEF LoadInv
<1>15. ASSUME NEW f \in Fetchers, PushKeys(f) PROVE LoadInv'
  <2> SUFFICES ASSUME hwnd PROVE LoadInv'
    BY <1>15 DEF PushKeys, LoadInv
  <2>1. keysReady = <<>> /\ Places(queue, "keys") = {} /\ \A g \in Fetchers : Active(g) => g = f
    BY <1>15 DEF PushKeys, LoadInv, Active
  <2>2. keysReady' # <<>> /\ fetch' = [fetch EXCEPT ![f] = [at |-> "pushed", keys |-> NoKeys]]
    BY <1>15, <2>1 DEF PushKeys
  <2>3. UNCHANGED <<queue, loop, loadingKeys>> /\ Active(f)
    BY <1>15 DEF PushKeys, Active
  <2>4. /\ fetch'[f].at = "pushed"
        /\ \A g \in Fetchers : g # f => fetch'[g].at = fetch[g].at
    BY <2>2 DEF DesktopTypes, KeyTypes
  <2> QED
    BY <2>1, <2>2, <2>3, <2>4 DEF LoadInv, Active
<1>16. ASSUME NEW f \in Fetchers, PostKeys(f) PROVE LoadInv'
  <2> SUFFICES ASSUME hwnd PROVE LoadInv'
    BY <1>16 DEF PostKeys, LoadInv
  <2>1. /\ keysReady # <<>> /\ loadingKeys /\ Places(queue, "keys") = {}
        /\ \A g \in Fetchers : Active(g) => g = f
    BY <1>16 DEF PostKeys, LoadInv, Active
  <2>2. queue' = Append(queue, "keys") /\ UNCHANGED <<loop, loadingKeys, keysReady>>
    BY <1>16 DEF PostKeys, Posted
  <2>3. Places(queue', "keys") = {Len(queue) + 1}
    BY <1>types, <2>1, <2>2, PlacesAppend
  <2>4. \A g \in Fetchers : fetch'[g].at = "idle"
    BY <1>16, <2>1 DEF PostKeys, Active, DesktopTypes, KeyTypes
  <2> QED
    BY <2>1, <2>2, <2>3, <2>4 DEF LoadInv, Active
<1>17. CASE TaskbarCreated \/ TrayTimer \/ MenuDismissed \/ EndSession \/
          ExplorerEnds \/ ExplorerStarts \/ ExplorerAnswers \/
          CloseKeyWindow \/ ChangeKeys
  BY <1>1, <1>17
  DEF TaskbarCreated, TrayTimer, MenuDismissed, EndSession, ExplorerEnds,
      ExplorerStarts, ExplorerAnswers, CloseKeyWindow, ChangeKeys
<1>18. ASSUME NEW w \in Workers, Notify(w)
      PROVE  LoadInv'
  BY <1>1, <1>18 DEF Notify
<1>19. CASE UNCHANGED vars
  BY <1>1, <1>19 DEF vars
<1> QED
  BY <1>2, <1>3, <1>4, <1>5, <1>6, <1>7, <1>8, <1>9, <1>10, <1>11, <1>12,
     <1>13, <1>14, <1>15, <1>16, <1>17, <1>18, <1>19,
     Zenon DEF Next, HandleMessage, Explorer, User

\* What is read was read after the load began.
LEMMA FreshKept == DesktopTypes /\ LoadInv /\ FreshInv /\ [Next]_vars => FreshInv'
<1> SUFFICES ASSUME DesktopTypes /\ LoadInv /\ FreshInv, [Next]_vars PROVE FreshInv'
  OBVIOUS
<1> USE DEF FreshInv, DesktopTypes, KeyTypes, NoKeys, windowVars, loadVars, keyVars
<1>1. ASSUME UNCHANGED <<agentKeys, shown, loadVars>> PROVE FreshInv'
  BY <1>1
<1>2. CASE HandleKeys
  <2>1. UNCHANGED <<agentKeys, loadedAt, fetch>>
    BY <1>2 DEF HandleKeys
  <2>2. keysReady' = keysReady \/ keysReady' = <<>>
    BY <1>2, Zenon DEF HandleKeys
  <2>3. shown' = shown \/ (keysReady # <<>> /\ shown' = Head(keysReady))
    BY <1>2 DEF HandleKeys
  <2> QED
    BY <2>1, <2>2, <2>3
<1>3. CASE HandleShow
  BY <1>3, RefreshFresh DEF HandleShow, ShowKeys, Dispatch, hwnd, windowVars
<1>4. CASE Return
  BY <1>4 DEF Return
<1>5. CASE Refresh
  BY <1>5, RefreshFresh DEF Refresh, hwnd, windowVars
<1>6. CASE CloseKeyWindow
  BY <1>6 DEF CloseKeyWindow
<1>7. CASE MenuShowKeys
  BY <1>7, RefreshFresh DEF MenuShowKeys, ShowKeys, hwnd, windowVars
<1>8. CASE ChangeKeys
  BY <1>8 DEF ChangeKeys
<1>9. ASSUME NEW f \in Fetchers, ListKeys(f) PROVE FreshInv'
  BY <1>9 DEF ListKeys
<1>10. ASSUME NEW f \in Fetchers, PushKeys(f) PROVE FreshInv'
  <2>1. UNCHANGED <<agentKeys, loadedAt, shown>>
    BY <1>10 DEF PushKeys
  <2>2. \A g \in Fetchers : fetch'[g].at = "listed" => fetch'[g] = fetch[g]
    BY <1>10 DEF PushKeys
  <2>3. keysReady' = keysReady \/ keysReady' = <<fetch[f].keys>>
    BY <1>10, Zenon DEF PushKeys
  <2>4. fetch[f].keys # NoKeys => fetch[f].keys >= loadedAt
    BY <1>10 DEF PushKeys
  <2> QED
    BY <2>1, <2>2, <2>3, <2>4
<1>11. ASSUME NEW f \in Fetchers, PostKeys(f) PROVE FreshInv'
  BY <1>11 DEF PostKeys
<1>12. CASE HandleNotice \/ HandleMenu \/ HandleClose \/ TaskbarCreated \/
          TrayTimer \/ MenuDismissed \/ EndSession \/ ExplorerEnds \/
          ExplorerStarts \/ ExplorerAnswers \/ Click \/ Control \/ MenuExit
  BY <1>1, <1>12
  DEF HandleNotice, Dispatch, hwnd, HandleMenu, HandleClose,
      TaskbarCreated, TrayTimer, MenuDismissed, EndSession, ExplorerEnds,
      ExplorerStarts, ExplorerAnswers, Click, Control, MenuExit, Posted
<1>13. ASSUME NEW w \in Workers, Notify(w) \/ PostNotice(w)
      PROVE  FreshInv'
  BY <1>1, <1>13 DEF Notify, PostNotice
<1>14. CASE UNCHANGED vars
  BY <1>1, <1>14 DEF vars
<1> QED
  BY <1>2, <1>3, <1>4, <1>5, <1>6, <1>7, <1>8, <1>9, <1>10, <1>11, <1>12,
     <1>13, <1>14,
     Zenon DEF Next, HandleMessage, Explorer, User

LEMMA DesktopInvHolds == Spec => []DesktopInv
<1>1. DesktopInv /\ [Next]_vars => DesktopInv'
  BY TypesKept, NoticesKept, LoadsKept, FreshKept DEF DesktopInv
<1> QED
  BY DesktopInit, <1>1, PTL DEF Spec

\* Types; the channel of notices never holds more than its capacity.
THEOREM TypeCorrect == Spec => []TypeOK
<1>1. ASSUME DesktopTypes PROVE TypeOK
  <2>1. {menu, icon, trayAdded, timer, keyWindow, loadingKeys} \subseteq BOOLEAN
    BY <1>1, Zenon DEF DesktopTypes, IconTypes, QueueTypes, KeyTypes
  <2>2. {announced, starts, agentKeys, shown, openedAt, loadedAt} \subseteq Nat
    BY <1>1 DEF DesktopTypes, IconTypes, KeyTypes
  <2> QED
    BY <1>1, <2>1, <2>2, Zenon DEF DesktopTypes, IconTypes, QueueTypes, KeyTypes, TypeOK, Messages
<1> QED
  BY DesktopInvHolds, <1>1, PTL DEF DesktopInv

\* No notice stays behind without a message, and no message finds none (notify,
\* onMessage wmTrayNotice).
THEOREM NoticesMatched == Spec => []NoticesHaveMessages
<1>1. NoticeInv => NoticesHaveMessages
  BY DEF NoticeInv, NoticesHaveMessages, Count, Places
<1> QED
  BY DesktopInvHolds, <1>1, PTL DEF DesktopInv

\* However a load, the key window and the loop's end overlap, one load is under
\* way at a time and its result finds the channel empty (refreshKeys, onMessage
\* wmKeysReady).
THEOREM OneLoad == Spec => []OneLoadAtATime
<1>1. ASSUME DesktopTypes, LoadInv, hwnd
      PROVE  LET at(p) == {f \in Fetchers : fetch[f].at = p}
             IN  /\ Cardinality(at("listing") \cup at("listed") \cup at("pushed"))
                      + Count("keys") = IF loadingKeys THEN 1 ELSE 0
                 /\ Len(keysReady) = Cardinality(at("pushed")) + Count("keys")
  <2> DEFINE at(p) == {f \in Fetchers : fetch[f].at = p}
             busy == at("listing") \cup at("listed") \cup at("pushed")
             waiting == Places(queue, "keys")
  <2>1. busy = {f \in Fetchers : Active(f)} /\ at("pushed") \subseteq busy
    BY <1>1 DEF DesktopTypes, KeyTypes, Active
  <2>2. /\ \A f, g \in busy : f = g
        /\ \A i, j \in waiting : i = j
        /\ busy = {} \/ waiting = {}
        /\ loadingKeys <=> busy # {} \/ waiting # {}
        /\ keysReady # <<>> <=> at("pushed") # {} \/ waiting # {}
    BY <1>1, <2>1 DEF LoadInv
  <2>3. ASSUME NEW S, \A x, y \in S : x = y
        PROVE  Cardinality(S) = IF S = {} THEN 0 ELSE 1
    <3>1. CASE S = {}
      BY <3>1, FS_EmptySet
    <3>2. CASE S # {}
      <4>1. PICK x \in S : TRUE
        BY <3>2
      <4>2. S = {x}
        BY <2>3, <4>1
      <4> QED
        BY <3>2, <4>2, FS_Singleton
    <3> QED
      BY <3>1, <3>2
  <2>4. Len(keysReady) = IF keysReady = <<>> THEN 0 ELSE 1
    <3>1. keysReady \in Seq(Nat) /\ Len(keysReady) <= 1
      BY <1>1 DEF DesktopTypes, KeyTypes
    <3> QED
      BY <3>1, LenShort, Zenon
  <2>5. \A x, y \in at("pushed") : x = y
    BY <2>1, <2>2
  <2>6. /\ Cardinality(busy) = IF busy = {} THEN 0 ELSE 1
        /\ Cardinality(waiting) = IF waiting = {} THEN 0 ELSE 1
        /\ Cardinality(at("pushed")) = IF at("pushed") = {} THEN 0 ELSE 1
    <3> HIDE DEF at, busy, waiting
    <3> QED
      BY <2>2, <2>3, <2>5
  <2>7. Count("keys") = Cardinality(waiting)
    BY DEF Count, Places
  <2>8. /\ Cardinality(busy) + Cardinality(waiting) = IF loadingKeys THEN 1 ELSE 0
        /\ Len(keysReady) = Cardinality(at("pushed")) + Cardinality(waiting)
    <3>1. at("pushed") # {} => busy # {}
      BY <2>1
    <3> HIDE DEF at, busy, waiting
    <3> QED
      BY <2>2, <2>4, <2>6, <3>1
  <2> QED
    BY <2>7, <2>8
<1>2. DesktopTypes /\ LoadInv => OneLoadAtATime
  BY <1>1 DEF OneLoadAtATime
<1> QED
  BY DesktopInvHolds, <1>2, PTL DEF DesktopInv

\* What Refresh puts on display is never older than the press (refreshKeys).
THEOREM RefreshCurrent == Spec => []RefreshIsCurrent
<1>1. FreshInv => RefreshIsCurrent
  BY DEF FreshInv, RefreshIsCurrent
<1> QED
  BY DesktopInvHolds, <1>1, PTL DEF DesktopInv
=============================================================================
