-------------------------- MODULE AttributionProofs --------------------------
(***************************************************************************)
(* TLAPS proofs about Attribution, for any number of processes, ids and    *)
(* connections: what a client's info and its notices say is about one      *)
(* process, although ids are used again and the tables change while they   *)
(* are read.                                                               *)
(***************************************************************************)
EXTENDS Attribution, FiniteSetTheorems, TLAPS

Beginning == {"idle", "open", "name", "started", "arguments", "close"}
Searching == {"size", "read", "unique"}
WithHandle == {"name", "started", "arguments", "compare"} \cup Searching

\* Processes that can be referred to by their ids have different ones.
IdsUnique ==
  \A p, q \in Procs : Exists(p) /\ Exists(q) /\ pid[p] = pid[q] => p = q

\* An open handle is on a process that was started, and keeps its id.
HandlesPin ==
  /\ handle # None => handle \in Procs \ Foreign /\ proc[handle] # "unborn"
  /\ thread # None => thread = peer /\ proc[thread] # "unborn"
  /\ pc \in WithHandle => handle # None /\ pid[handle] = info.pid
  /\ pc \in {"idle", "open", "serving", "reopen"} => handle = None
  /\ pc \in {"idle", "serving", "reopen", "compare"} \cup Searching => thread = None

\* Where the bridge is with the client's info.
InfoKnown ==
  /\ pc # "idle" => peer \in Procs /\ proc[peer] # "unborn"
  /\ pc = "open" => info.pid = pid[peer]
  /\ pc = "open" /\ way = "mapping" => thread = peer
  /\ pc = "name" /\ (proc[peer] = "alive" \/ way = "mapping") => handle = peer
  /\ pc \in {"idle", "open", "name"} => info.name = None
  /\ pc \in {"started", "arguments"} => info.name = handle
  /\ info.name = None => info.started = None /\ info.args = None
  /\ InfoOfClient

\* Where it is with a lookup: what was open all the time has been seen.
LookupKnown ==
  /\ \A p \in Procs : proc[p] # "alive" => tcp[p] = {}
  /\ pc \in {"reopen", "compare"} \cup Searching => info.started # None
  /\ pc \in Searching => handle = info.name /\ steady \subseteq tcp[info.name]
  /\ pc \notin Searching => found = {} /\ steady = {}
  /\ \A pair \in found : pair[1] = info.name
  /\ \A row \in steady :
       (pc = "unique" \/ (row[1] = 4 /\ table.family = 6)) => <<info.name, row[2]>> \in found

NoticeKnown ==
  /\ pc \in Beginning => notice.where = "none"
  /\ EndpointOfClient
  /\ AmbiguousStaysUnknown

AttributionInv ==
  TypeOK /\ IdsUnique /\ HandlesPin /\ InfoKnown /\ LookupKnown /\ NoticeKnown

LEMMA InitInv == Init => AttributionInv
<1> SUFFICES ASSUME Init PROVE AttributionInv
  OBVIOUS
<1>1. None \notin Procs \cup Pids /\ Attempts \in Nat /\ MaxSignings \in Nat
  BY AttributionAssumption
<1>2. TypeOK
  BY <1>1 DEF Init, TypeOK, NoInfo, NoTable, NoNotice
<1>3. IdsUnique
  BY <1>1 DEF Init, IdsUnique, Exists
<1>4. HandlesPin /\ InfoKnown
  BY <1>1 DEF Init, HandlesPin, InfoKnown, InfoOfClient, NoInfo, WithHandle, Searching
<1>5. LookupKnown /\ NoticeKnown
  BY <1>1 DEF Init, LookupKnown, NoticeKnown, EndpointOfClient, AmbiguousStaysUnknown,
     NoNotice, Searching, Beginning
<1>6. QED
  BY <1>2, <1>3, <1>4, <1>5 DEF AttributionInv

-----------------------------------------------------------------------------
(* Types *)

Pairs == Procs \X {row[2] : row \in Rows}
Tables == [family : {4, 6}, attempt : 0..Attempts, grown : BOOLEAN]

\* The last step of every request.
LEMMA TellTypes ==
  ASSUME TypeOK, NEW where \in {"none", "arguments", "endpoint"}, NEW rows \in SUBSET Pairs,
         Tell(where, rows)
  PROVE  /\ pc' = "serving" /\ handle' = None /\ found' = {} /\ steady' = {}
         /\ table' \in Tables /\ table'.family = 4
         /\ notice' \in [where : {"none", "arguments", "endpoint"},
                         rows : SUBSET Pairs, steady : SUBSET Rows]
         /\ notice'.where = where /\ notice'.rows = rows /\ notice'.steady = steady
<1>1. pc' = "serving" /\ handle' = None /\ found' = {} /\ steady' = {}
  BY DEF Tell
<1>2. 0 \in 0..Attempts
  BY AttributionAssumption
<1>3. table' \in Tables /\ table'.family = 4
  BY <1>2 DEF Tell, NoTable, Tables
<1>4. steady \in SUBSET Rows
  BY DEF TypeOK
<1>5. notice' = [where |-> where, rows |-> rows, steady |-> steady]
  BY DEF Tell
<1>6. QED
  BY <1>1, <1>3, <1>4, <1>5

LEMMA TypeStep == TypeOK /\ HandlesPin /\ [Next]_vars => TypeOK'
<1> SUFFICES ASSUME TypeOK, HandlesPin, [Next]_vars PROVE TypeOK'
  OBVIOUS
<1>0. Attempts \in Nat /\ MaxSignings \in Nat
  BY AttributionAssumption
<1> USE DEF TypeOK, NoInfo, NoTable, NoNotice, systemVars, callVars, lookupVars
<1>1. ASSUME NEW p \in Procs, StartProcess(p) PROVE TypeOK'
  BY <1>1 DEF StartProcess
<1>2. ASSUME NEW p \in Procs, ExitProcess(p) PROVE TypeOK'
  BY <1>2 DEF ExitProcess, Lasting
<1>3. ASSUME NEW p \in Procs, Connect(p) PROVE TypeOK'
  BY <1>3 DEF Connect
<1>4. ASSUME NEW p \in Procs, Hint(p) PROVE TypeOK'
  BY <1>4 DEF Hint
<1>5. ASSUME NEW p \in Procs, NEW row \in Rows, Establish(p, row) PROVE TypeOK'
  <2>1. PICK grown \in BOOLEAN : grown = (table.grown \/ (pc = "read" /\ row[1] = table.family))
    BY Zenon
  <2>2. table' = [table EXCEPT !.grown = grown]
    BY <1>5, <2>1, Zenon DEF Establish
  <2>3. table' \in [family : {4, 6}, attempt : 0..Attempts, grown : BOOLEAN]
    BY <2>2
  <2>4. QED
    BY <1>5, <2>3 DEF Establish
<1>6. ASSUME NEW p \in Procs, NEW row \in Rows, Disestablish(p, row) PROVE TypeOK'
  BY <1>6 DEF Disestablish, Lasting
<1>7. CASE OthersConnect
  BY <1>7 DEF OthersConnect
<1>8. CASE SignGeneric
  BY <1>0, <1>8 DEF SignGeneric, MaySign, Tell
<1>9. CASE SignUser
  <2>1. CASE info.args = None /\ info.pid # None /\ KnownStart
    BY <1>0, <1>9, <2>1 DEF SignUser, MaySign
  <2>2. CASE ~(info.args = None /\ info.pid # None /\ KnownStart)
    <3>1. PICK where \in {"none", "arguments", "endpoint"} :
            where = IF info.args # None THEN "arguments" ELSE "none"
      OBVIOUS
    <3>2. Tell(where, {})
      BY <1>9, <2>2, <3>1, Zenon DEF SignUser
    <3>3. {} \in SUBSET Pairs
      OBVIOUS
    <3>4. /\ pc' = "serving" /\ handle' = None /\ found' = {} /\ steady' = {}
          /\ table' \in Tables
          /\ notice' \in [where : {"none", "arguments", "endpoint"},
                          rows : SUBSET Pairs, steady : SUBSET Rows]
      BY <3>2, <3>3, TellTypes, Zenon
    <3>5. signings' \in 0..MaxSignings \cup {1}
      BY <1>0, <1>9 DEF SignUser, MaySign
    <3>6. QED
      BY <1>9, <3>4, <3>5 DEF SignUser, Tables, Pairs
  <2>3. QED
    BY <2>1, <2>2
<1>10. CASE OpenClient \/ Reopen
  BY <1>10 DEF OpenClient, Reopen, OpenOwn
<1>11. CASE NoClient \/ ReadName \/ ReadStarted \/ ReadArguments \/ CloseClient
  BY <1>11 DEF NoClient, ReadName, ReadStarted, ReadArguments, CloseClient
<1>12. CASE ReopenFail \/ OtherProcess \/ NoRows
  <2>1. Tell("none", {})
    BY <1>12 DEF ReopenFail, OtherProcess, NoRows
  <2>2. {} \in SUBSET Pairs
    OBVIOUS
  <2>3. /\ pc' = "serving" /\ handle' = None /\ found' = {} /\ steady' = {}
        /\ table' \in Tables
        /\ notice' \in [where : {"none", "arguments", "endpoint"},
                        rows : SUBSET Pairs, steady : SUBSET Rows]
    BY <2>1, <2>2, TellTypes
  <2>4. QED
    BY <1>12, <2>3 DEF ReopenFail, OtherProcess, NoRows, Tables, Pairs
<1>13. CASE SameProcess
  <2>1. handle \in Procs
    BY <1>13 DEF SameProcess, HandlesPin, WithHandle
  <2>2. steady' \subseteq Rows
    BY <1>13, <2>1 DEF SameProcess
  <2>3. table' \in [family : {4, 6}, attempt : 0..Attempts, grown : BOOLEAN]
    BY <1>0, <1>13 DEF SameProcess
  <2>4. QED
    BY <1>13, <2>2, <2>3 DEF SameProcess
<1>14. CASE Size \/ TooSmall
  <2>1. table' \in [family : {4, 6}, attempt : 0..Attempts, grown : BOOLEAN]
    <3>1. CASE Size
      <4>1. 0 \in 0..Attempts
        BY <1>0
      <4>2. QED
        BY <3>1, <4>1 DEF Size
    <3>2. CASE TooSmall
      <4>1. table.attempt + 1 \in 0..Attempts
        BY <1>0, <3>2 DEF TooSmall
      <4>2. QED
        BY <3>2, <4>1 DEF TooSmall
    <3>3. QED
      BY <1>14, <3>1, <3>2
  <2>2. QED
    BY <1>14, <2>1 DEF Size, TooSmall
<1>15. CASE Read
  <2>1. RowsOfFamily \subseteq Procs \X {row[2] : row \in Rows}
    BY DEF RowsOfFamily, RowsRead
  <2>2. QED
    BY <1>15, <2>1 DEF Read, NextFamily
<1>16. CASE Unique
  <2>1. PICK where \in {"none", "arguments", "endpoint"}, rows \in SUBSET Pairs :
          Tell(where, rows)
    BY <1>16 DEF Unique, Pairs
  <2>2. /\ pc' = "serving" /\ handle' = None /\ found' = {} /\ steady' = {}
        /\ table' \in Tables
        /\ notice' \in [where : {"none", "arguments", "endpoint"},
                        rows : SUBSET Pairs, steady : SUBSET Rows]
    BY <2>1, TellTypes, Zenon
  <2>3. QED
    BY <1>16, <2>2 DEF Unique, Tables, Pairs
<1>17. CASE UNCHANGED vars
  BY <1>17 DEF vars
<1>18. QED
  BY <1>1, <1>2, <1>3, <1>4, <1>5, <1>6, <1>7, <1>8, <1>9, <1>10, <1>11, <1>12, <1>13, <1>14,
     <1>15, <1>16, <1>17 DEF Next, Environment, Bridge

-----------------------------------------------------------------------------
(* Ids, handles and the client's info *)

LEMMA IdsKept ==
  ASSUME IdsUnique, UNCHANGED <<proc, pid>>, \A p \in Procs : Exists(p)' => Exists(p)
  PROVE  IdsUnique'
BY DEF IdsUnique, Exists

LEMMA IdsStep == TypeOK /\ IdsUnique /\ HandlesPin /\ InfoKnown /\ [Next]_vars => IdsUnique'
<1> SUFFICES ASSUME TypeOK, IdsUnique, HandlesPin, InfoKnown, [Next]_vars PROVE IdsUnique'
  OBVIOUS
<1>0. None \notin Procs
  BY AttributionAssumption
<1>1. ASSUME NEW p \in Procs, StartProcess(p) PROVE IdsUnique'
  <2>1. PICK i \in Pids :
          /\ \A q \in Procs : Exists(q) => pid[q] # i
          /\ pid' = [pid EXCEPT ![p] = i]
    BY <1>1 DEF StartProcess
  <2>2. proc' = [proc EXCEPT ![p] = "alive"] /\ thread' = thread /\ handle' = handle
    BY <1>1 DEF StartProcess
  <2>3. pid'[p] = i /\ \A q \in Procs \ {p} : pid'[q] = pid[q] /\ (Exists(q)' <=> Exists(q))
    BY <2>1, <2>2 DEF TypeOK, Exists
  <2>4. SUFFICES ASSUME NEW q \in Procs, NEW r \in Procs, Exists(q)', Exists(r)', pid'[q] = pid'[r]
                 PROVE  q = r
    BY Zenon DEF IdsUnique
  <2>5. CASE q = p \/ r = p
    BY <2>1, <2>3, <2>4, <2>5
  <2>6. CASE q # p /\ r # p
    BY <2>3, <2>4, <2>6 DEF IdsUnique
  <2>7. QED
    BY <2>5, <2>6
<1>2. ASSUME NEW p \in Procs, ExitProcess(p) PROVE IdsUnique'
  <2>1. \A q \in Procs : Exists(q)' => Exists(q)
    BY <1>2 DEF ExitProcess, Exists, TypeOK
  <2>2. pid' = pid
    BY <1>2 DEF ExitProcess
  <2>3. QED
    BY <2>1, <2>2, Zenon DEF IdsUnique
<1>3. ASSUME NEW p \in Procs, Hint(p) PROVE IdsUnique'
  <2>1. UNCHANGED <<proc, pid>> /\ thread' = p /\ handle' = handle /\ Exists(p)
    BY <1>3 DEF Hint, systemVars, Exists
  <2>2. \A q \in Procs : Exists(q)' => Exists(q)
    BY <2>1 DEF Exists
  <2>3. QED
    BY <2>1, <2>2, IdsKept
<1>4. CASE OpenClient \/ Reopen
  <2>1. PICK p \in Procs : Exists(p) /\ handle' = p
    BY <1>4 DEF OpenClient, Reopen, OpenOwn
  <2>2. UNCHANGED <<proc, pid>> /\ thread' = thread
    BY <1>4 DEF OpenClient, Reopen, systemVars
  <2>3. \A q \in Procs : Exists(q)' => Exists(q)
    BY <2>1, <2>2 DEF Exists
  <2>4. QED
    BY <2>2, <2>3, IdsKept
<1>5. ASSUME UNCHANGED <<proc, pid>>, thread' \in {thread, None}, handle' \in {handle, None}
      PROVE  IdsUnique'
  <2>1. \A q \in Procs : Exists(q)' => Exists(q)
    BY <1>0, <1>5 DEF Exists
  <2>2. QED
    BY <1>5, <2>1, IdsKept
<1>6. ASSUME NEW p \in Procs, NEW row \in Rows, Establish(p, row) \/ Disestablish(p, row)
      PROVE  IdsUnique'
  BY <1>5, <1>6 DEF Establish, Disestablish
<1>7. ASSUME NEW p \in Procs, Connect(p) PROVE IdsUnique'
  BY <1>5, <1>7 DEF Connect, systemVars
<1>8. CASE OthersConnect \/ SignGeneric
  BY <1>5, <1>8 DEF OthersConnect, SignGeneric, Tell, systemVars
<1>9. CASE SignUser
  <2>1. UNCHANGED <<proc, pid>> /\ thread' = thread
    BY <1>9 DEF SignUser, systemVars
  <2>2. handle' \in {handle, None}
    BY <1>9 DEF SignUser, Tell
  <2>3. QED
    BY <1>5, <2>1, <2>2
<1>10. CASE NoClient \/ ReadName \/ ReadStarted \/ ReadArguments \/ CloseClient
  BY <1>5, <1>10 DEF NoClient, ReadName, ReadStarted, ReadArguments, CloseClient, systemVars
<1>11. CASE ReopenFail \/ SameProcess \/ OtherProcess
  BY <1>5, <1>11 DEF ReopenFail, SameProcess, OtherProcess, Tell, systemVars
<1>12. CASE Size \/ TooSmall \/ Read \/ NoRows \/ Unique
  BY <1>5, <1>12 DEF Size, TooSmall, Read, NoRows, Unique, Tell, systemVars
<1>13. CASE UNCHANGED vars
  BY <1>5, <1>13 DEF vars, systemVars
<1>14. QED
  BY <1>1, <1>2, <1>3, <1>4, <1>6, <1>7, <1>8, <1>9, <1>10, <1>11, <1>12, <1>13
  DEF Next, Environment, Bridge

LEMMA HandlesStep ==
  TypeOK /\ IdsUnique /\ HandlesPin /\ InfoKnown /\ [Next]_vars => HandlesPin'
<1> SUFFICES ASSUME TypeOK, HandlesPin, IdsUnique, InfoKnown, [Next]_vars PROVE HandlesPin'
  OBVIOUS
<1>0. None \notin Procs
  BY AttributionAssumption
<1> USE DEF HandlesPin, WithHandle, Searching
<1>1. ASSUME NEW p \in Procs, StartProcess(p) PROVE HandlesPin'
  BY <1>1 DEF StartProcess, TypeOK, callVars
<1>2. ASSUME NEW p \in Procs, ExitProcess(p) PROVE HandlesPin'
  BY <1>2 DEF ExitProcess, TypeOK, callVars
<1>3. ASSUME NEW p \in Procs, Hint(p) \/ Connect(p) PROVE HandlesPin'
  BY <1>0, <1>3 DEF Hint, Connect, TypeOK, systemVars
<1>4. ASSUME NEW p \in Procs, NEW row \in Rows, Establish(p, row) \/ Disestablish(p, row)
      PROVE  HandlesPin'
  BY <1>4 DEF Establish, Disestablish, callVars
<1>5. CASE OthersConnect \/ SignGeneric
  BY <1>5 DEF OthersConnect, SignGeneric, MaySign, Tell, systemVars, callVars
<1>6. CASE SignUser
  BY <1>6 DEF SignUser, MaySign, Tell, systemVars, callVars
<1>7. CASE OpenClient \/ Reopen
  <2>1. PICK p \in Procs \ Foreign : Exists(p) /\ pid[p] = info.pid /\ handle' = p
    BY <1>7 DEF OpenClient, Reopen, OpenOwn
  <2>2. proc[p] # "unborn"
    BY <2>1 DEF Exists
  <2>3. /\ UNCHANGED <<proc, pid, thread, info, peer>>
        /\ (pc = "open" /\ pc' = "name") \/ (pc = "reopen" /\ pc' = "compare")
    BY <1>7 DEF OpenClient, Reopen, OpenOwn, systemVars, callVars
  <2>4. pc' = "compare" => thread = None
    BY <2>3
  <2>5. QED
    BY <1>0, <2>1, <2>2, <2>3, <2>4
<1>8. CASE NoClient \/ ReadName \/ CloseClient
  BY <1>8 DEF NoClient, ReadName, CloseClient, systemVars, callVars, TypeOK
<1>9. CASE ReadStarted \/ ReadArguments
  <2>1. info'.pid = info.pid
    BY <1>9 DEF ReadStarted, ReadArguments, TypeOK
  <2>2. QED
    BY <1>9, <2>1 DEF ReadStarted, ReadArguments, systemVars, callVars
<1>10. CASE ReopenFail \/ SameProcess \/ OtherProcess
  BY <1>10 DEF ReopenFail, SameProcess, OtherProcess, Tell, systemVars, callVars
<1>11. CASE Size \/ TooSmall \/ NoRows \/ Unique
  BY <1>11 DEF Size, TooSmall, NoRows, Unique, Tell, systemVars, callVars
<1>12. CASE Read
  <2>1. pc' \in {"size", "unique"} /\ UNCHANGED <<proc, pid, thread, handle, info, peer>>
    BY <1>12 DEF Read, NextFamily, TypeOK, systemVars, callVars
  <2>2. QED
    BY <1>12, <2>1 DEF Read
<1>13. CASE UNCHANGED vars
  BY <1>13 DEF vars, systemVars, callVars
<1>14. QED
  BY <1>1, <1>2, <1>3, <1>4, <1>5, <1>6, <1>7, <1>8, <1>9, <1>10, <1>11, <1>12, <1>13
  DEF Next, Environment, Bridge

LEMMA InfoStep ==
  TypeOK /\ IdsUnique /\ HandlesPin /\ InfoKnown /\ [Next]_vars => InfoKnown'
<1> SUFFICES ASSUME TypeOK, IdsUnique, HandlesPin, InfoKnown, [Next]_vars PROVE InfoKnown'
  OBVIOUS
<1>0. None \notin Procs
  BY AttributionAssumption
<1> USE DEF InfoKnown, InfoOfClient
<1>1. ASSUME NEW p \in Procs, StartProcess(p) PROVE InfoKnown'
  <2>1. /\ proc[p] = "unborn" /\ UNCHANGED <<pc, way, peer, thread, handle, info>>
        /\ \A q \in Procs \ {p} : proc'[q] = proc[q] /\ pid'[q] = pid[q]
    BY <1>1 DEF StartProcess, TypeOK, callVars
  <2>2. pc # "idle" => peer # p /\ proc'[peer] = proc[peer] /\ pid'[peer] = pid[peer]
    BY <2>1
  <2>3. pc = "idle" => info.name = None
    OBVIOUS
  <2>4. QED
    BY <2>1, <2>2, <2>3
<1>2. ASSUME NEW p \in Procs, ExitProcess(p) PROVE InfoKnown'
  <2>1. UNCHANGED <<pid, pc, way, peer, thread, handle, info>>
    BY <1>2 DEF ExitProcess, callVars
  <2>2. \A q \in Procs : /\ proc'[q] = "alive" => proc[q] = "alive"
                         /\ proc[q] # "unborn" => proc'[q] # "unborn"
    BY <1>2 DEF ExitProcess, TypeOK
  <2>3. QED
    BY <2>1, <2>2
<1>3. ASSUME NEW p \in Procs, Hint(p) \/ Connect(p) PROVE InfoKnown'
  <2>1. /\ proc[p] = "alive" /\ peer' = p /\ pc' = "open" /\ UNCHANGED <<proc, pid>>
        /\ info' = [NoInfo EXCEPT !.pid = pid[p]]
        /\ way' = "mapping" => thread' = p
    BY <1>3 DEF Hint, Connect, systemVars
  <2>2. info'.pid = pid[p] /\ info'.name = None /\ info'.started = None /\ info'.args = None
    BY <2>1 DEF NoInfo
  <2>3. QED
    BY <2>1, <2>2
<1>4. CASE OpenClient
  <2>1. PICK p \in Procs \ Foreign : Exists(p) /\ pid[p] = info.pid /\ handle' = p
    BY <1>4 DEF OpenClient, OpenOwn
  <2>2. /\ pc = "open" /\ pc' = "name"
        /\ UNCHANGED <<proc, pid, way, peer, thread, info>>
    BY <1>4 DEF OpenClient, OpenOwn, systemVars, callVars
  <2>3. ASSUME proc[peer] = "alive" \/ way = "mapping" PROVE p = peer
    <3>1. peer \in Procs /\ pid[peer] = info.pid /\ proc[peer] # "unborn"
      BY <2>2
    <3>2. proc[peer] \in {"unborn", "alive", "exited"}
      BY <3>1 DEF TypeOK
    <3>3. Exists(peer)
      BY <2>2, <2>3, <3>1, <3>2 DEF Exists
    <3>4. QED
      BY <2>1, <3>1, <3>3 DEF IdsUnique
  <2>4. QED
    BY <2>1, <2>2, <2>3
<1>5. CASE NoClient
  BY <1>5 DEF NoClient, NoInfo, systemVars, callVars
<1>6. CASE ReadName
  <2>1. info'.name = handle /\ info'.started = info.started /\ info'.args = info.args
    BY <1>6 DEF ReadName, TypeOK
  <2>2. handle \in Procs \ Foreign
    BY <1>6 DEF ReadName, HandlesPin, WithHandle
  <2>3. /\ pc = "name" /\ pc' = "started"
        /\ UNCHANGED <<proc, pid, way, peer, thread, handle>>
    BY <1>6 DEF ReadName, systemVars, callVars
  <2>4. QED
    BY <1>0, <2>1, <2>2, <2>3
<1>7. CASE ReadStarted
  <2>1. PICK time \in {handle, None} : info' = [info EXCEPT !.started = time]
    BY <1>7 DEF ReadStarted
  <2>2. info'.name = info.name /\ info'.started = time /\ info'.args = info.args
    BY <2>1 DEF TypeOK
  <2>3. /\ pc = "started" /\ pc' = "arguments"
        /\ UNCHANGED <<proc, pid, way, peer, thread, handle>>
    BY <1>7 DEF ReadStarted, systemVars, callVars
  <2>4. handle # None
    BY <2>3 DEF HandlesPin, WithHandle
  <2>5. QED
    BY <2>1, <2>2, <2>3, <2>4
<1>8. CASE ReadArguments
  <2>1. PICK args \in {handle, None} : info' = [info EXCEPT !.args = args]
    BY <1>8 DEF ReadArguments
  <2>2. info'.name = info.name /\ info'.started = info.started /\ info'.args = args
    BY <2>1 DEF TypeOK
  <2>3. /\ pc = "arguments" /\ pc' = "close"
        /\ UNCHANGED <<proc, pid, way, peer, thread, handle>>
    BY <1>8 DEF ReadArguments, systemVars, callVars
  <2>4. handle # None
    BY <2>3 DEF HandlesPin, WithHandle
  <2>5. QED
    BY <2>1, <2>2, <2>3, <2>4
<1>9. ASSUME UNCHANGED <<proc, pid, way, peer, info>>,
             pc # "idle", pc' \notin {"idle", "open", "name", "started", "arguments"}
      PROVE  InfoKnown'
  BY <1>9
<1>10. CASE CloseClient \/ SignGeneric
  BY <1>9, <1>10 DEF CloseClient, SignGeneric, MaySign, Tell, systemVars, callVars
<1>11. CASE SignUser
  <2>1. pc' \in {"reopen", "serving"} /\ pc = "serving"
        /\ UNCHANGED <<proc, pid, way, peer, info>>
    BY <1>11 DEF SignUser, MaySign, Tell, systemVars, callVars
  <2>2. QED
    BY <1>9, <2>1
<1>12. CASE Reopen \/ ReopenFail \/ SameProcess \/ OtherProcess
  BY <1>9, <1>12 DEF Reopen, OpenOwn, ReopenFail, SameProcess, OtherProcess, Tell,
     systemVars, callVars
<1>13. CASE Size \/ TooSmall \/ NoRows \/ Unique
  BY <1>9, <1>13 DEF Size, TooSmall, NoRows, Unique, Tell, systemVars, callVars
<1>14. CASE Read
  BY <1>9, <1>14 DEF Read, NextFamily, systemVars, callVars
<1>15. ASSUME UNCHANGED <<proc, pid, pc, way, peer, thread, handle, info>> PROVE InfoKnown'
  BY <1>15
<1>16. ASSUME NEW p \in Procs, NEW row \in Rows, Establish(p, row) \/ Disestablish(p, row)
       PROVE  InfoKnown'
  BY <1>15, <1>16 DEF Establish, Disestablish, callVars
<1>17. CASE OthersConnect \/ UNCHANGED vars
  BY <1>15, <1>17 DEF OthersConnect, vars, systemVars, callVars
<1>18. QED
  BY <1>1, <1>2, <1>3, <1>4, <1>5, <1>6, <1>7, <1>8, <1>10, <1>11, <1>12, <1>13, <1>14,
     <1>16, <1>17 DEF Next, Environment, Bridge

-----------------------------------------------------------------------------
(* The lookup *)

\* Outside of the search nothing is kept of it.
LEMMA LookupQuiet ==
  ASSUME \A p \in Procs : proc'[p] # "alive" => tcp'[p] = {},
         pc' \notin Searching, found' = {}, steady' = {},
         pc' \in {"reopen", "compare"} => info'.started # None
  PROVE  LookupKnown'
BY DEF LookupKnown

LEMMA LookupStep ==
  /\ TypeOK /\ IdsUnique /\ HandlesPin /\ InfoKnown /\ LookupKnown /\ [Next]_vars
  => LookupKnown'
<1> SUFFICES ASSUME TypeOK, IdsUnique, HandlesPin, InfoKnown, LookupKnown, [Next]_vars
             PROVE  LookupKnown'
  OBVIOUS
<1>0. None \notin Procs
  BY AttributionAssumption
<1>1. ASSUME NEW p \in Procs, StartProcess(p) PROVE LookupKnown'
  <2>1. /\ UNCHANGED <<tcp, pc, handle, info, table, found, steady>>
        /\ \A q \in Procs : proc[q] = "alive" => proc'[q] = "alive"
    BY <1>1 DEF StartProcess, lookupVars, TypeOK
  <2>2. QED
    BY <2>1 DEF LookupKnown, TypeOK
<1>2. ASSUME NEW p \in Procs, NEW rows \in SUBSET Rows,
             tcp' = [tcp EXCEPT ![p] = rows], steady' = Lasting(p, rows),
             \A q \in Procs : proc'[q] # "alive" => tcp'[q] = {},
             UNCHANGED <<pc, handle, info, table, found>>
      PROVE  LookupKnown'
  <2>1. steady' \subseteq steady
    BY <1>2 DEF Lasting
  <2>2. pc \in Searching => steady' \subseteq tcp'[info.name]
    <3>1. CASE p = info.name
      BY <1>2, <3>1 DEF Lasting, TypeOK
    <3>2. CASE p # info.name
      BY <1>2, <3>2 DEF Lasting, TypeOK, LookupKnown
    <3>3. QED
      BY <3>1, <3>2
  <2>3. QED
    BY <1>2, <2>1, <2>2 DEF LookupKnown
<1>3. ASSUME NEW p \in Procs, ExitProcess(p) PROVE LookupKnown'
  <2>1. \A q \in Procs : proc'[q] # "alive" => tcp'[q] = {}
    BY <1>3 DEF ExitProcess, LookupKnown, TypeOK
  <2>2. /\ tcp' = [tcp EXCEPT ![p] = {}] /\ steady' = Lasting(p, {})
        /\ UNCHANGED <<pc, handle, info, table, found>>
    BY <1>3 DEF ExitProcess
  <2>3. QED
    BY <1>2, <2>1, <2>2
<1>4. ASSUME NEW p \in Procs, NEW row \in Rows, Disestablish(p, row) PROVE LookupKnown'
  <2>1. \A q \in Procs : proc'[q] # "alive" => tcp'[q] = {}
    BY <1>4 DEF Disestablish, LookupKnown, TypeOK
  <2>2. tcp[p] \ {row} \in SUBSET Rows
    BY DEF TypeOK
  <2>3. /\ tcp' = [tcp EXCEPT ![p] = tcp[p] \ {row}] /\ steady' = Lasting(p, tcp[p] \ {row})
        /\ UNCHANGED <<pc, handle, info, table, found>>
    BY <1>4 DEF Disestablish
  <2>4. QED
    BY <1>2, <2>1, <2>2, <2>3
<1>5. ASSUME NEW p \in Procs, NEW row \in Rows, Establish(p, row) PROVE LookupKnown'
  <2>1. /\ proc[p] = "alive" /\ tcp' = [tcp EXCEPT ![p] = @ \cup {row}]
        /\ UNCHANGED <<proc, pc, handle, info, found, steady>>
        /\ table'.family = table.family
    BY <1>5 DEF Establish, TypeOK
  <2>2. \A q \in Procs : tcp[q] \subseteq tcp'[q] /\ (proc'[q] # "alive" => tcp'[q] = {})
    BY <2>1 DEF TypeOK, LookupKnown
  <2>3. pc \in Searching => info.name \in Procs
    BY <1>0 DEF LookupKnown, HandlesPin, WithHandle
  <2>4. QED
    BY <2>1, <2>2, <2>3 DEF LookupKnown
<1>6. CASE OthersConnect \/ Size \/ TooSmall
  <2>1. table'.family = table.family
    BY <1>6 DEF OthersConnect, Size, TooSmall, TypeOK
  <2>2. UNCHANGED <<proc, tcp, handle, info, found, steady>>
    BY <1>6 DEF OthersConnect, Size, TooSmall, systemVars
  <2>3. pc \in {"size", "read"} /\ pc' = "read"
    BY <1>6 DEF OthersConnect, Size, TooSmall
  <2>4. QED
    BY <2>1, <2>2, <2>3 DEF LookupKnown, Searching
<1>7. ASSUME UNCHANGED <<proc, tcp>>, pc' \notin Searching, found' = {}, steady' = {},
             pc' \in {"reopen", "compare"} => info'.started # None
      PROVE  LookupKnown'
  BY <1>7, LookupQuiet DEF LookupKnown
<1>8. ASSUME NEW p \in Procs, Connect(p) \/ Hint(p) PROVE LookupKnown'
  BY <1>7, <1>8 DEF Connect, Hint, LookupKnown, Searching, systemVars, lookupVars
<1>9. CASE OpenClient \/ NoClient \/ ReadName \/ ReadStarted \/ ReadArguments \/ CloseClient
  <2>1. UNCHANGED <<systemVars, lookupVars>>
        /\ pc \in {"open", "name", "started", "arguments", "close"}
        /\ pc' \in {"name", "started", "arguments", "close", "serving"}
    BY <1>9 DEF OpenClient, OpenOwn, NoClient, ReadName, ReadStarted, ReadArguments, CloseClient
  <2>2. QED
    BY <1>7, <2>1 DEF LookupKnown, Searching, systemVars, lookupVars
<1>10. CASE SignGeneric \/ ReopenFail \/ OtherProcess \/ NoRows \/ Unique
  <2>1. UNCHANGED <<proc, tcp>>
    BY <1>10 DEF SignGeneric, ReopenFail, OtherProcess, NoRows, Unique, systemVars
  <2>2. pc' = "serving" /\ found' = {} /\ steady' = {}
    BY <1>10 DEF SignGeneric, ReopenFail, OtherProcess, NoRows, Unique, Tell
  <2>3. QED
    BY <1>7, <2>1, <2>2 DEF Searching
<1>11. CASE SignUser
  <2>1. UNCHANGED <<proc, tcp, info>> /\ pc = "serving"
    BY <1>11 DEF SignUser, MaySign, systemVars
  <2>2. pc' \in {"reopen", "serving"} /\ (pc' = "reopen" => info.started # None)
    BY <1>11 DEF SignUser, Tell, KnownStart
  <2>3. found' = {} /\ steady' = {}
    BY <1>11, <2>1 DEF SignUser, Tell, lookupVars, LookupKnown, Searching
  <2>4. QED
    BY <1>7, <2>1, <2>2, <2>3 DEF Searching
<1>12. CASE Reopen
  <2>1. UNCHANGED <<proc, tcp, info, found, steady>> /\ pc = "reopen" /\ pc' = "compare"
    BY <1>12 DEF Reopen, OpenOwn, systemVars, lookupVars
  <2>2. QED
    BY <1>7, <2>1 DEF LookupKnown, Searching
<1>13. CASE SameProcess
  <2>1. /\ pc = "compare" /\ pc' = "size" /\ UNCHANGED <<proc, tcp, handle, info>>
        /\ table'.family = 4 /\ found' = {} /\ steady' = tcp[handle]
    BY <1>13 DEF SameProcess, NoTable, systemVars
  <2>2. PICK time \in {handle, None} : time = info.started
    BY <1>13 DEF SameProcess
  <2>3. info.started # None
    BY <2>1 DEF LookupKnown
  <2>4. handle = info.name
    BY <2>2, <2>3 DEF InfoKnown, InfoOfClient
  <2>5. QED
    BY <2>1, <2>3, <2>4 DEF LookupKnown, Searching
<1>14. CASE Read
  <2>1. /\ pc = "read" /\ found' = found \cup RowsOfFamily
        /\ UNCHANGED <<proc, pid, tcp, handle, info, steady>>
    BY <1>14 DEF Read, systemVars
  <2>2. /\ handle = info.name /\ handle \in Procs /\ pid[handle] = info.pid
        /\ proc[handle] # "unborn" /\ steady \subseteq tcp[handle] /\ info.started # None
    BY <1>0, <2>1 DEF LookupKnown, HandlesPin, WithHandle, Searching
  <2>3. ASSUME NEW pair \in RowsOfFamily PROVE pair[1] = info.name
    <3>1. PICK p \in Procs, row \in Rows :
            proc[p] = "alive" /\ pid[p] = info.pid /\ pair = <<p, row[2]>>
      BY DEF RowsOfFamily, RowsRead
    <3>2. Exists(p) /\ Exists(handle)
      BY <2>2, <3>1 DEF Exists, TypeOK
    <3>3. p = handle
      BY <2>2, <3>1, <3>2 DEF IdsUnique
    <3>4. QED
      BY <2>2, <3>1, <3>3
  <2>4. ASSUME NEW row \in steady, row[1] = table.family
        PROVE  <<info.name, row[2]>> \in RowsOfFamily
    <3>1. row \in Rows /\ row = <<table.family, row[2]>> /\ row \in tcp[handle]
      BY <2>2, <2>4, AttributionAssumption DEF TypeOK
    <3>2. proc[handle] = "alive"
      BY <2>2, <3>1 DEF LookupKnown
    <3>3. <<handle, row[2]>> \in RowsRead
      BY <2>2, <3>1, <3>2 DEF RowsRead
    <3>4. QED
      BY <2>2, <3>1, <3>3 DEF RowsOfFamily
  <2>5. table.family \in {4, 6} /\ \A row \in steady : row[1] \in {4, 6}
    BY AttributionAssumption DEF TypeOK
  <2>6. \A pair \in found' : pair[1] = info.name
    BY <2>1, <2>3 DEF LookupKnown
  <2>7. CASE table.family = 4
    <3>1. pc' = "size" /\ table'.family = 6
      BY <1>14, <2>7 DEF Read, NextFamily, TypeOK
    <3>2. \A row \in steady : row[1] = 4 => <<info.name, row[2]>> \in found'
      BY <2>1, <2>4, <2>7
    <3>3. QED
      BY <2>1, <2>2, <2>6, <3>1, <3>2 DEF LookupKnown, Searching
  <2>8. CASE table.family = 6
    <3>1. pc' = "unique"
      BY <1>14, <2>8 DEF Read, NextFamily
    <3>2. \A row \in steady : <<info.name, row[2]>> \in found'
      BY <2>1, <2>4, <2>5, <2>8 DEF LookupKnown
    <3>3. QED
      BY <2>1, <2>2, <2>6, <3>1, <3>2 DEF LookupKnown, Searching
  <2>9. QED
    BY <2>5, <2>7, <2>8
<1>15. CASE UNCHANGED vars
  BY <1>15 DEF vars, systemVars, lookupVars, LookupKnown
<1>16. QED
  BY <1>1, <1>3, <1>4, <1>5, <1>6, <1>8, <1>9, <1>10, <1>11, <1>12, <1>13, <1>14, <1>15
  DEF Next, Environment, Bridge

-----------------------------------------------------------------------------
(* The notice *)

LEMMA NoticeStep ==
  TypeOK /\ InfoKnown /\ LookupKnown /\ NoticeKnown /\ [Next]_vars => NoticeKnown'
<1> SUFFICES ASSUME TypeOK, InfoKnown, LookupKnown, NoticeKnown, [Next]_vars
             PROVE  NoticeKnown'
  OBVIOUS
<1> USE DEF NoticeKnown, EndpointOfClient, AmbiguousStaysUnknown
<1>1. ASSUME UNCHANGED notice, info'.name = info.name, pc' \in Beginning => pc \in Beginning
      PROVE  NoticeKnown'
  BY <1>1
<1>2. ASSUME UNCHANGED notice, pc \in Beginning PROVE NoticeKnown'
  BY <1>2
<1>3. ASSUME notice'.where # "endpoint", pc' \notin Beginning PROVE NoticeKnown'
  BY <1>3
<1>4. ASSUME NEW p \in Procs, StartProcess(p) \/ ExitProcess(p) PROVE NoticeKnown'
  BY <1>1, <1>4 DEF StartProcess, ExitProcess
<1>5. ASSUME NEW p \in Procs, NEW row \in Rows, Establish(p, row) \/ Disestablish(p, row)
      PROVE  NoticeKnown'
  BY <1>1, <1>5 DEF Establish, Disestablish
<1>6. ASSUME NEW p \in Procs, Connect(p) \/ Hint(p) PROVE NoticeKnown'
  BY <1>2, <1>6 DEF Connect, Hint, Beginning
<1>7. CASE OpenClient \/ NoClient \/ ReadName \/ ReadStarted \/ ReadArguments \/ CloseClient
  BY <1>2, <1>7 DEF OpenClient, NoClient, ReadName, ReadStarted, ReadArguments, CloseClient,
     Beginning
<1>8. CASE SignGeneric \/ ReopenFail \/ OtherProcess \/ NoRows
  <2>1. Tell("none", {})
    BY <1>8 DEF SignGeneric, ReopenFail, OtherProcess, NoRows
  <2>2. notice'.where = "none" /\ pc' = "serving"
    BY <2>1 DEF Tell
  <2>3. QED
    BY <1>3, <2>2 DEF Beginning
<1>9. CASE SignUser
  <2>1. CASE info.args = None /\ info.pid # None /\ KnownStart
    <3>1. notice' = NoNotice /\ pc' = "reopen"
      BY <1>9, <2>1 DEF SignUser
    <3>2. QED
      BY <1>3, <3>1 DEF NoNotice, Beginning
  <2>2. CASE ~(info.args = None /\ info.pid # None /\ KnownStart)
    <3>1. Tell("arguments", {}) \/ Tell("none", {})
      BY <1>9, <2>2 DEF SignUser
    <3>2. notice'.where # "endpoint" /\ pc' = "serving"
      BY <3>1 DEF Tell
    <3>3. QED
      BY <1>3, <3>2 DEF Beginning
  <2>3. QED
    BY <2>1, <2>2
<1>10. CASE OthersConnect \/ Reopen \/ SameProcess \/ Size \/ TooSmall \/ UNCHANGED vars
  BY <1>1, <1>10 DEF OthersConnect, Reopen, OpenOwn, SameProcess, Size, TooSmall, vars, Beginning
<1>11. CASE Read
  BY <1>1, <1>11 DEF Read, NextFamily, Beginning
<1>12. CASE Unique
  <2>1. pc = "unique" /\ pc' = "serving" /\ info' = info
    BY <1>12 DEF Unique, Tell
  <2>2. CASE ~OneEndpoint
    BY <1>3, <1>12, <2>1, <2>2 DEF Unique, Tell, Beginning
  <2>3. CASE OneEndpoint
    <3>1. notice'.rows = found /\ notice'.steady = steady
      BY <1>12, <2>3 DEF Unique, Tell
    <3>2. \A pair \in found : pair[1] = info.name
      BY DEF LookupKnown
    <3>3. \A row \in steady : <<info.name, row[2]>> \in found
      BY <2>1 DEF LookupKnown
    <3>4. \A pair, other \in found : pair[2] = other[2]
      <4>1. PICK ends : ends = {pair[2] : pair \in found}
        OBVIOUS
      <4>2. IsFiniteSet(ends)
        <5>1. IsFiniteSet({row[2] : row \in Rows})
          BY AttributionAssumption
        <5>2. ends \subseteq {row[2] : row \in Rows}
          BY <4>1 DEF TypeOK
        <5>3. QED
          BY <5>1, <5>2, FS_Subset
      <4>3. Cardinality(ends) = 1
        BY <2>3, <4>1 DEF OneEndpoint
      <4>4. PICK x : ends = {x}
        BY <4>2, <4>3, FS_Singleton
      <4>5. QED
        BY <4>1, <4>4
    <3>5. QED
      BY <2>1, <3>1, <3>2, <3>3, <3>4 DEF Beginning
  <2>4. QED
    BY <2>2, <2>3
<1>13. QED
  BY <1>4, <1>5, <1>6, <1>7, <1>8, <1>9, <1>10, <1>11, <1>12 DEF Next, Environment, Bridge

-----------------------------------------------------------------------------
(* Theorems *)

LEMMA AttributionInvHolds == Spec => []AttributionInv
<1>1. AttributionInv /\ [Next]_vars => AttributionInv'
  BY TypeStep, IdsStep, HandlesStep, InfoStep, LookupStep, NoticeStep, Zenon
  DEF AttributionInv
<1>2. QED
  BY <1>1, InitInv, PTL DEF Spec

\* The types of Attribution, for any constants.
THEOREM TypeCorrect == Spec => []TypeOK
<1>1. AttributionInv => TypeOK
  BY DEF AttributionInv
<1>2. QED
  BY <1>1, AttributionInvHolds, PTL

\* A client's info describes one process, the client's own while it lives, and
\* for a mapping even afterwards (clientFromPipe, clientFromMapping).
THEOREM InfoTruthful == Spec => []InfoOfClient
<1>1. AttributionInv => InfoOfClient
  BY DEF AttributionInv, InfoKnown
<1>2. QED
  BY <1>1, AttributionInvHolds, PTL

\* An endpoint in a notice is the named process's, whichever ids have been used
\* again in between (notifySigning).
THEOREM EndpointTruthful == Spec => []EndpointOfClient
<1>1. AttributionInv => EndpointOfClient
  BY DEF AttributionInv, NoticeKnown
<1>2. QED
  BY <1>1, AttributionInvHolds, PTL

\* A client with two endpoints that stay open is never shown with one, however
\* the tables change while they are read (uniqueTCPTarget).
THEOREM AmbiguousUnknown == Spec => []AmbiguousStaysUnknown
<1>1. AttributionInv => AmbiguousStaysUnknown
  BY DEF AttributionInv, NoticeKnown
<1>2. QED
  BY <1>1, AttributionInvHolds, PTL

-----------------------------------------------------------------------------
(* The length of a lookup *)

\* How many calls a lookup takes at most from where the bridge is.
CallsLeft ==
  CASE pc \in {"idle", "serving"} -> 0
    [] pc = "open"      -> 5
    [] pc = "name"      -> 4
    [] pc = "started"   -> 3
    [] pc = "arguments" -> 2
    [] pc = "close"     -> 1
    [] pc = "reopen"    -> 2 * Attempts + 5
    [] pc = "compare"   -> 2 * Attempts + 4
    [] pc = "size"      -> IF table.family = 4 THEN 2 * Attempts + 3 ELSE Attempts + 2
    [] pc = "read"      -> (IF table.family = 4 THEN Attempts + 2 ELSE 1)
                             + (Attempts - table.attempt)
    [] pc = "unique"    -> 1

\* Nothing that processes, connections and the tables do makes a lookup longer,
\* every call of the bridge makes what is left of it shorter, and when nothing
\* is left its handles are closed (client_windows.go 121, 387, 432-472).
LookupAdvances ==
  /\ [](CallsLeft \in 0..2 * Attempts + 5)
  /\ [](CallsLeft = 0 => handle = None /\ thread = None)
  /\ [][CallsLeft # 0 => CallsLeft' = CallsLeft \/ (Bridge /\ CallsLeft' < CallsLeft)]_vars
  /\ [][Bridge => CallsLeft' < CallsLeft]_vars
\* CallsLeft, place by place.
LEMMA CallsAt ==
  /\ pc \in {"idle", "serving"} => CallsLeft = 0
  /\ pc = "open" => CallsLeft = 5
  /\ pc = "name" => CallsLeft = 4
  /\ pc = "started" => CallsLeft = 3
  /\ pc = "arguments" => CallsLeft = 2
  /\ pc = "close" => CallsLeft = 1
  /\ pc = "reopen" => CallsLeft = 2 * Attempts + 5
  /\ pc = "compare" => CallsLeft = 2 * Attempts + 4
  /\ pc = "size" => CallsLeft = IF table.family = 4 THEN 2 * Attempts + 3 ELSE Attempts + 2
  /\ pc = "read" => CallsLeft = (IF table.family = 4 THEN Attempts + 2 ELSE 1)
                                  + (Attempts - table.attempt)
  /\ pc = "unique" => CallsLeft = 1
BY DEF CallsLeft

\* No step of the environment touches what CallsLeft is made from, but for a
\* client that connects or has something signed.
LEMMA CallsKept ==
  ASSUME TypeOK, pc' = pc, table'.family = table.family, table'.attempt = table.attempt
  PROVE  CallsLeft' = CallsLeft
BY DEF CallsLeft

LEMMA CallsBounded == TypeOK => CallsLeft \in 0..2 * Attempts + 5
<1> SUFFICES ASSUME TypeOK PROVE CallsLeft \in 0..2 * Attempts + 5
  OBVIOUS
<1>1. Attempts \in Nat /\ table.attempt \in 0..Attempts
  BY AttributionAssumption DEF TypeOK
<1>2. CASE pc = "read"
  <2>1. PICK f \in {1, Attempts + 2} : CallsLeft = f + (Attempts - table.attempt)
    BY <1>2, CallsAt
  <2>2. QED
    BY <1>1, <2>1
<1>3. CASE pc = "size"
  BY <1>1, <1>3, CallsAt
<1>4. CASE pc \notin {"read", "size"}
  <2>1. CallsLeft \in {0, 1, 2, 3, 4, 5, 2 * Attempts + 5, 2 * Attempts + 4}
    BY <1>4, CallsAt DEF TypeOK
  <2>2. QED
    BY <1>1, <2>1
<1>5. QED
  BY <1>2, <1>3, <1>4

\* Every call of the bridge is one of those left.
LEMMA CallsDrop == ASSUME TypeOK, Bridge PROVE CallsLeft' < CallsLeft
<1>1. Attempts \in Nat /\ table \in [family : {4, 6}, attempt : 0..Attempts, grown : BOOLEAN]
  BY AttributionAssumption DEF TypeOK
<1>2. pc' \in {"idle", "serving"} => CallsLeft' = 0
  BY DEF CallsLeft
<1>3. ASSUME pc \in {"reopen", "compare", "size", "read", "unique"} PROVE CallsLeft > 0
  <2>1. CASE pc = "read"
    BY <1>1, <2>1, CallsAt
  <2>2. CASE pc = "size"
    BY <1>1, <2>2, CallsAt
  <2>3. CASE pc \in {"reopen", "compare", "unique"}
    BY <1>1, <2>3, CallsAt
  <2>4. QED
    BY <1>3, <2>1, <2>2, <2>3
<1>4. CASE OpenClient
  <2>1. pc = "open" /\ pc' = "name"
    BY <1>4 DEF OpenClient, OpenOwn
  <2>2. QED
    BY <2>1, CallsAt DEF CallsLeft
<1>5. CASE NoClient
  <2>1. pc \in {"open", "name"} /\ pc' = "close"
    BY <1>5 DEF NoClient
  <2>2. QED
    BY <2>1, CallsAt DEF CallsLeft
<1>6. CASE ReadName
  <2>1. pc = "name" /\ pc' = "started"
    BY <1>6 DEF ReadName
  <2>2. QED
    BY <2>1, CallsAt DEF CallsLeft
<1>7. CASE ReadStarted
  <2>1. pc = "started" /\ pc' = "arguments"
    BY <1>7 DEF ReadStarted
  <2>2. QED
    BY <2>1, CallsAt DEF CallsLeft
<1>8. CASE ReadArguments
  <2>1. pc = "arguments" /\ pc' = "close"
    BY <1>8 DEF ReadArguments
  <2>2. QED
    BY <2>1, CallsAt DEF CallsLeft
<1>9. CASE CloseClient
  <2>1. pc = "close" /\ pc' = "serving"
    BY <1>9 DEF CloseClient
  <2>2. QED
    BY <1>2, <2>1, CallsAt
<1>10. CASE Reopen
  <2>1. pc = "reopen" /\ pc' = "compare"
    BY <1>10 DEF Reopen, OpenOwn
  <2>2. CallsLeft = 2 * Attempts + 5 /\ CallsLeft' = 2 * Attempts + 4
    BY <2>1, CallsAt DEF CallsLeft
  <2>3. QED
    BY <1>1, <2>2
<1>11. CASE ReopenFail \/ OtherProcess \/ NoRows \/ Unique
  <2>1. pc \in {"reopen", "compare", "size", "read", "unique"} /\ pc' = "serving"
    BY <1>11 DEF ReopenFail, OtherProcess, NoRows, Unique, Tell
  <2>2. QED
    BY <1>2, <1>3, <2>1
<1>12. CASE SameProcess
  <2>1. pc = "compare" /\ pc' = "size" /\ table'.family = 4
    BY <1>12 DEF SameProcess, NoTable
  <2>2. CallsLeft = 2 * Attempts + 4 /\ CallsLeft' = 2 * Attempts + 3
    BY <2>1, CallsAt DEF CallsLeft
  <2>3. QED
    BY <1>1, <2>2
<1>13. CASE Size
  <2>1. /\ pc = "size" /\ pc' = "read"
        /\ table'.family = table.family /\ table'.attempt = 0
    BY <1>1, <1>13 DEF Size
  <2>2. CallsLeft' = (IF table.family = 4 THEN Attempts + 2 ELSE 1) + (Attempts - 0)
    BY <2>1 DEF CallsLeft
  <2>3. CallsLeft = IF table.family = 4 THEN 2 * Attempts + 3 ELSE Attempts + 2
    BY <2>1, CallsAt
  <2>4. QED
    BY <1>1, <2>2, <2>3
<1>14. CASE TooSmall
  <2>1. /\ pc = "read" /\ pc' = "read"
        /\ table'.family = table.family /\ table'.attempt = table.attempt + 1
    BY <1>1, <1>14 DEF TooSmall
  <2>2. CallsLeft' = (IF table.family = 4 THEN Attempts + 2 ELSE 1)
                      + (Attempts - (table.attempt + 1))
    BY <2>1 DEF CallsLeft
  <2>3. CallsLeft = (IF table.family = 4 THEN Attempts + 2 ELSE 1) + (Attempts - table.attempt)
    BY <2>1, CallsAt
  <2>4. QED
    BY <1>1, <2>2, <2>3
<1>15. CASE Read
  <2>1. pc = "read" /\ table.attempt < Attempts
    BY <1>15 DEF Read
  <2>2. CallsLeft = (IF table.family = 4 THEN Attempts + 2 ELSE 1) + (Attempts - table.attempt)
    BY <2>1, CallsAt
  <2>3. CASE table.family = 4
    <3>1. pc' = "size" /\ table'.family = 6
      BY <1>1, <1>15, <2>3 DEF Read, NextFamily
    <3>2. CallsLeft' = Attempts + 2
      BY <3>1 DEF CallsLeft
    <3>3. QED
      BY <1>1, <2>1, <2>2, <2>3, <3>2
  <2>4. CASE table.family # 4
    <3>1. pc' = "unique"
      BY <1>15, <2>4 DEF Read, NextFamily
    <3>2. CallsLeft' = 1
      BY <3>1 DEF CallsLeft
    <3>3. QED
      BY <1>1, <2>1, <2>2, <2>4, <3>2
  <2>5. QED
    BY <2>3, <2>4
<1>16. QED
  BY <1>4, <1>5, <1>6, <1>7, <1>8, <1>9, <1>10, <1>11, <1>12, <1>13, <1>14, <1>15 DEF Bridge

\* While a lookup goes on, the environment leaves its length alone.
LEMMA CallsStay ==
  ASSUME TypeOK, CallsLeft # 0, Environment \/ UNCHANGED vars
  PROVE  CallsLeft' = CallsLeft
<1>1. table \in [family : {4, 6}, attempt : 0..Attempts, grown : BOOLEAN]
  BY DEF TypeOK
<1>2. pc \notin {"idle", "serving"}
  BY CallsAt
<1>3. pc' = pc /\ table'.family = table.family /\ table'.attempt = table.attempt
  <2>1. CASE UNCHANGED vars
    BY <2>1 DEF vars, lookupVars
  <2>2. CASE OthersConnect
    BY <1>1, <2>2 DEF OthersConnect
  <2>3. ASSUME NEW p \in Procs, StartProcess(p) \/ ExitProcess(p)
        PROVE  pc' = pc /\ table'.family = table.family /\ table'.attempt = table.attempt
    BY <2>3 DEF StartProcess, ExitProcess, lookupVars
  <2>4. ASSUME NEW p \in Procs, NEW row \in Rows, Establish(p, row) \/ Disestablish(p, row)
        PROVE  pc' = pc /\ table'.family = table.family /\ table'.attempt = table.attempt
    BY <1>1, <2>4 DEF Establish, Disestablish
  <2>5. ASSUME NEW p \in Procs PROVE ~(Connect(p) \/ Hint(p))
    BY <1>2 DEF Connect, Hint
  <2>6. ~(SignGeneric \/ SignUser)
    BY <1>2 DEF SignGeneric, SignUser, MaySign
  <2>7. QED
    BY <2>1, <2>2, <2>3, <2>4, <2>5, <2>6 DEF Environment
<1>4. QED
  BY <1>3, CallsKept

\* A lookup takes at most 2 * Attempts + 5 calls, whatever happens meanwhile, and
\* leaves no handle open (clientFromProcess, notifySigning, processTCPTargets).
THEOREM LookupsAdvance == Spec => LookupAdvances
<1>1. AttributionInv => CallsLeft \in 0..2 * Attempts + 5
  BY CallsBounded DEF AttributionInv
<1>2. AttributionInv => (CallsLeft = 0 => handle = None /\ thread = None)
  <2> SUFFICES ASSUME AttributionInv, CallsLeft = 0 PROVE handle = None /\ thread = None
    OBVIOUS
  <2>1. pc \in {"idle", "serving"}
    <3>1. Attempts \in Nat /\ table.attempt \in 0..Attempts
      BY AttributionAssumption DEF AttributionInv, TypeOK
    <3>2. pc # "read"
      BY <3>1, CallsAt
    <3>3. pc # "size"
      BY <3>1, CallsAt
    <3>4. pc \notin {"reopen", "compare"}
      BY <3>1, CallsAt
    <3>5. QED
      BY <3>2, <3>3, <3>4, CallsAt DEF AttributionInv, TypeOK
  <2>2. QED
    BY <2>1 DEF AttributionInv, HandlesPin
<1>3. AttributionInv /\ [Next]_vars =>
        [CallsLeft # 0 => CallsLeft' = CallsLeft \/ (Bridge /\ CallsLeft' < CallsLeft)]_vars
  BY CallsDrop, CallsStay DEF AttributionInv, Next
<1>4. AttributionInv /\ [Next]_vars => [Bridge => CallsLeft' < CallsLeft]_vars
  BY CallsDrop DEF AttributionInv
<1>5. QED
  BY <1>1, <1>2, <1>3, <1>4, AttributionInvHolds, PTL DEF Spec, LookupAdvances
=============================================================================
