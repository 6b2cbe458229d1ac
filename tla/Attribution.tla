----------------------------- MODULE Attribution -----------------------------
(***************************************************************************)
(* Whose signature is it: how the bridge finds the process behind a        *)
(* client and the network endpoint it uses (pageant/client_windows.go),    *)
(* while Windows starts and ends processes, hands out the ids of ended     *)
(* ones again, and connections come and go.                                *)
(*                                                                         *)
(* An id is all the bridge has of a process between two calls; an open     *)
(* handle, on the process or on a thread of it, keeps the id from being    *)
(* used again. One client is followed from its connection to its last      *)
(* notice. A name, a start time and a destination in the arguments are     *)
(* represented by the process they were read from.                         *)
(***************************************************************************)
EXTENDS Naturals, FiniteSets

CONSTANTS Procs,        \* processes, each started once
          Foreign,      \* those of other users
          HasHost,      \* SSH clients with a destination in their arguments
          Pids,         \* process ids
          Rows,         \* <<family, endpoint>>: connections a process can have
          Attempts,     \* reads of a table before the bridge gives up: 3
          MaxSignings,  \* bound: sign requests of the client
          None

ASSUME AttributionAssumption ==
  /\ Foreign \subseteq Procs /\ HasHost \subseteq Procs
  /\ None \notin Procs \cup Pids
  /\ \A row \in Rows : row[1] \in {4, 6} /\ row = <<row[1], row[2]>>
  /\ IsFiniteSet({row[2] : row \in Rows})
  /\ Attempts \in Nat /\ MaxSignings \in Nat

VARIABLES proc,      \* "unborn", "alive" or "exited"
          pid,       \* the id each process has or had
          tcp,       \* its established connections
          pc,        \* where the bridge is
          way,       \* "pipe", or "mapping" for a client known by a thread id only
          peer,      \* the client's process; for a mapping, the one its name hints at
          thread,    \* the process of the open thread handle
          handle,    \* the process of the open process handle
          info,      \* clientInfo
          table,     \* the TCP table being read: [family, attempt, grown]
          found,     \* <<process, endpoint>> of the rows read so far
          steady,    \* history: connections of the client open since the lookup began
          notice,    \* what the last notice said
          signings

systemVars == <<proc, pid, tcp>>
callVars == <<way, peer>>
lookupVars == <<table, found, steady>>
vars == <<systemVars, pc, callVars, thread, handle, info, lookupVars, notice, signings>>

NoInfo == [pid |-> None, name |-> None, started |-> None, args |-> None]
NoNotice == [where |-> "none", rows |-> {}, steady |-> {}]
NoTable == [family |-> 4, attempt |-> 0, grown |-> FALSE]

Init ==
  /\ proc = [p \in Procs |-> "unborn"]
  /\ pid = [p \in Procs |-> None]
  /\ tcp = [p \in Procs |-> {}]
  /\ pc = "idle"
  /\ way = "pipe" /\ peer = None
  /\ thread = None /\ handle = None
  /\ info = NoInfo
  /\ table = NoTable /\ found = {} /\ steady = {}
  /\ notice = NoNotice
  /\ signings = 0

-----------------------------------------------------------------------------
(* Windows *)

Exists(p) == proc[p] = "alive" \/ (proc[p] = "exited" /\ p \in {thread, handle})

StartProcess(p) ==
  /\ proc[p] = "unborn"
  /\ \E i \in Pids :
       /\ \A q \in Procs : Exists(q) => pid[q] # i
       /\ pid' = [pid EXCEPT ![p] = i]
  /\ proc' = [proc EXCEPT ![p] = "alive"]
  /\ UNCHANGED <<tcp, pc, callVars, thread, handle, info, lookupVars, notice, signings>>

Lasting(p, rows) == IF p = info.name THEN steady \cap rows ELSE steady

ExitProcess(p) ==
  /\ proc[p] = "alive"
  /\ proc' = [proc EXCEPT ![p] = "exited"]
  /\ tcp' = [tcp EXCEPT ![p] = {}]
  /\ steady' = Lasting(p, {})
  /\ UNCHANGED <<pid, pc, callVars, thread, handle, info, table, found, notice, signings>>

Establish(p, row) ==
  /\ proc[p] = "alive"
  /\ row \notin tcp[p]
  /\ tcp' = [tcp EXCEPT ![p] = @ \cup {row}]
  /\ table' = [table EXCEPT !.grown = @ \/ (pc = "read" /\ row[1] = table.family)]
  /\ UNCHANGED <<proc, pid, pc, callVars, thread, handle, info, found, steady, notice, signings>>

Disestablish(p, row) ==
  /\ row \in tcp[p]
  /\ tcp' = [tcp EXCEPT ![p] = @ \ {row}]
  /\ steady' = Lasting(p, tcp[p] \ {row})
  /\ UNCHANGED <<proc, pid, pc, callVars, thread, handle, info, table, found, notice, signings>>

\* The table grows by connections of processes outside the model.
OthersConnect ==
  /\ pc = "read"
  /\ ~table.grown
  /\ table' = [table EXCEPT !.grown = TRUE]
  /\ UNCHANGED <<systemVars, pc, callVars, thread, handle, info, found, steady, notice, signings>>

-----------------------------------------------------------------------------
(* clientFromPipe, clientFromMapping and clientFromProcess *)

\* Windows remembers the id of the process that connected. The pipe admits the
\* user's own processes only.
Connect(p) ==
  /\ pc = "idle"
  /\ proc[p] = "alive" /\ p \notin Foreign
  /\ way' = "pipe" /\ peer' = p
  /\ info' = [NoInfo EXCEPT !.pid = pid[p]]
  /\ pc' = "open"
  /\ UNCHANGED <<systemVars, thread, handle, lookupVars, notice, signings>>

\* Mutant: the thread's handle is closed once its process id is known.
HintUnpinned(p) ==
  /\ pc = "idle"
  /\ proc[p] = "alive"
  /\ way' = "mapping" /\ peer' = p
  /\ info' = [NoInfo EXCEPT !.pid = pid[p]]
  /\ pc' = "open"
  /\ UNCHANGED <<systemVars, thread, handle, lookupVars, notice, signings>>

\* The mapping's name holds the id of a thread of p, which stays open.
Hint(p) ==
  /\ pc = "idle"
  /\ proc[p] = "alive"
  /\ way' = "mapping" /\ peer' = p
  /\ thread' = p
  /\ info' = [NoInfo EXCEPT !.pid = pid[p]]
  /\ pc' = "open"
  /\ UNCHANGED <<systemVars, handle, lookupVars, notice, signings>>

\* ownProcess: whatever has the id now, if it is the user's.
OpenOwn(next) ==
  /\ \E p \in Procs \ Foreign :
       /\ Exists(p) /\ pid[p] = info.pid
       /\ handle' = p
  /\ pc' = next

OpenClient ==
  /\ pc = "open"
  /\ OpenOwn("name")
  /\ UNCHANGED <<systemVars, callVars, thread, info, lookupVars, notice, signings>>

\* No process has the id any more, it is another user's, or a query fails.
NoClient ==
  /\ pc \in {"open", "name"}
  /\ info' = NoInfo
  /\ pc' = "close"
  /\ UNCHANGED <<systemVars, callVars, thread, handle, lookupVars, notice, signings>>

ReadName ==
  /\ pc = "name"
  /\ info' = [info EXCEPT !.name = handle]
  /\ pc' = "started"
  /\ UNCHANGED <<systemVars, callVars, thread, handle, lookupVars, notice, signings>>

\* 0 if GetProcessTimes fails.
ReadStarted ==
  /\ pc = "started"
  /\ \E time \in {handle, None} : info' = [info EXCEPT !.started = time]
  /\ pc' = "arguments"
  /\ UNCHANGED <<systemVars, callVars, thread, handle, lookupVars, notice, signings>>

\* Of recognised clients; best effort.
ReadArguments ==
  /\ pc = "arguments"
  /\ \E args \in {handle, None} :
       /\ args = handle => handle \in HasHost
       /\ info' = [info EXCEPT !.args = args]
  /\ pc' = "close"
  /\ UNCHANGED <<systemVars, callVars, thread, handle, lookupVars, notice, signings>>

CloseClient ==
  /\ pc = "close"
  /\ handle' = None /\ thread' = None
  /\ pc' = "serving"
  /\ UNCHANGED <<systemVars, callVars, info, lookupVars, notice, signings>>

-----------------------------------------------------------------------------
(* notifySigning, for one of the client's sign requests *)

Tell(where, rows) ==
  /\ notice' = [where |-> where, rows |-> rows, steady |-> steady]
  /\ handle' = None
  /\ table' = NoTable /\ found' = {} /\ steady' = {}
  /\ pc' = "serving"

MaySign ==
  /\ pc = "serving"
  /\ signings < (IF way = "mapping" THEN 1 ELSE MaxSignings)

\* The data is no SSH authentication: no destination is claimed.
SignGeneric ==
  /\ MaySign
  /\ signings' = signings + 1
  /\ Tell("none", {})
  /\ UNCHANGED <<systemVars, callVars, thread, info>>

\* Mutant: a start time that could not be read is compared like any other.
AnyStart == TRUE

KnownStart == info.started # None

\* The data is an authentication: the destination is that of the arguments, or
\* else the endpoint of the process, if it can be recognised again.
SignUser ==
  /\ MaySign
  /\ signings' = signings + 1
  /\ IF info.args = None /\ info.pid # None /\ KnownStart
       THEN /\ pc' = "reopen"
            /\ notice' = NoNotice
            /\ UNCHANGED <<handle, lookupVars>>
       ELSE Tell(IF info.args # None THEN "arguments" ELSE "none", {})
  /\ UNCHANGED <<systemVars, callVars, thread, info>>

Reopen ==
  /\ pc = "reopen"
  /\ OpenOwn("compare")
  /\ UNCHANGED <<systemVars, callVars, thread, info, lookupVars, notice, signings>>

ReopenFail ==
  /\ pc = "reopen"
  /\ Tell("none", {})
  /\ UNCHANGED <<systemVars, callVars, thread, info, signings>>

\* From here the process keeps its id: the handle stays open.
SameProcess ==
  /\ pc = "compare"
  /\ \E time \in {handle, None} : time = info.started
  /\ pc' = "size"
  /\ table' = NoTable /\ found' = {}
  /\ steady' = tcp[handle]
  /\ UNCHANGED <<systemVars, callVars, thread, handle, info, notice, signings>>

OtherProcess ==
  /\ pc = "compare"
  /\ \E time \in {handle, None} : time # info.started
  /\ Tell("none", {})
  /\ UNCHANGED <<systemVars, callVars, thread, info, signings>>

-----------------------------------------------------------------------------
(* uniqueTCPTarget and processTCPTargets *)

\* The call that asks for the size of a family's table.
Size ==
  /\ pc = "size"
  /\ table' = [table EXCEPT !.attempt = 0, !.grown = FALSE]
  /\ pc' = "read"
  /\ UNCHANGED <<systemVars, callVars, thread, handle, info, found, steady, notice, signings>>

\* Mutant: it tries until the table fits.
TooSmallForever ==
  /\ pc = "read"
  /\ table.grown
  /\ table' = [table EXCEPT !.grown = FALSE]
  /\ UNCHANGED <<systemVars, pc, callVars, thread, handle, info, found, steady, notice, signings>>

\* ERROR_INSUFFICIENT_BUFFER: the size is the new one.
TooSmall ==
  /\ pc = "read"
  /\ table.grown /\ table.attempt < Attempts
  /\ table' = [table EXCEPT !.grown = FALSE, !.attempt = @ + 1]
  /\ UNCHANGED <<systemVars, pc, callVars, thread, handle, info, found, steady, notice, signings>>

\* The rows of the id, whoever has it.
RowsRead ==
  {<<p, row[2]>> : p \in {q \in Procs : proc[q] = "alive" /\ pid[q] = info.pid}, row \in Rows}
RowsOfFamily ==
  {pair \in RowsRead : <<table.family, pair[2]>> \in tcp[pair[1]]}

NextFamily ==
  IF table.family = 4 THEN pc' = "size" /\ table' = [table EXCEPT !.family = 6]
                      ELSE pc' = "unique" /\ UNCHANGED table

\* Mutant: the endpoints of the last family are the ones counted.
ReadOver ==
  /\ pc = "read"
  /\ ~table.grown /\ table.attempt < Attempts
  /\ found' = RowsOfFamily
  /\ NextFamily
  /\ UNCHANGED <<systemVars, callVars, thread, handle, info, steady, notice, signings>>

Read ==
  /\ pc = "read"
  /\ ~table.grown /\ table.attempt < Attempts
  /\ found' = found \cup RowsOfFamily
  /\ NextFamily
  /\ UNCHANGED <<systemVars, callVars, thread, handle, info, steady, notice, signings>>

\* Any other error, a table too large, or the third attempt has failed.
NoRows ==
  /\ pc \in {"size", "read"}
  /\ Tell("none", {})
  /\ UNCHANGED <<systemVars, callVars, thread, info, signings>>

OneEndpoint == Cardinality({pair[2] : pair \in found}) = 1

Unique ==
  /\ pc = "unique"
  /\ IF OneEndpoint THEN Tell("endpoint", found) ELSE Tell("none", {})
  /\ UNCHANGED <<systemVars, callVars, thread, info, signings>>

-----------------------------------------------------------------------------
Environment ==
  \/ \E p \in Procs :
       \/ StartProcess(p) \/ ExitProcess(p)
       \/ Connect(p) \/ Hint(p)
       \/ \E row \in Rows : Establish(p, row) \/ Disestablish(p, row)
  \/ OthersConnect
  \/ SignGeneric \/ SignUser

Bridge ==
  \/ OpenClient \/ NoClient \/ ReadName \/ ReadStarted \/ ReadArguments \/ CloseClient
  \/ Reopen \/ ReopenFail \/ SameProcess \/ OtherProcess
  \/ Size \/ TooSmall \/ Read \/ NoRows \/ Unique

Next == Environment \/ Bridge

Spec == Init /\ [][Next]_vars

\* The goroutine that serves the client runs on; nothing is assumed of Windows
\* and of other processes.
FairSpec == Spec /\ WF_vars(Bridge)

-----------------------------------------------------------------------------
(* Properties *)

TypeOK ==
  /\ proc \in [Procs -> {"unborn", "alive", "exited"}]
  /\ pid \in [Procs -> Pids \cup {None}]
  /\ tcp \in [Procs -> SUBSET Rows]
  /\ pc \in {"idle", "open", "name", "started", "arguments", "close", "serving",
             "reopen", "compare", "size", "read", "unique"}
  /\ way \in {"pipe", "mapping"}
  /\ {peer, thread, handle} \subseteq Procs \cup {None}
  /\ info \in [pid : Pids \cup {None}, name : Procs \cup {None},
               started : Procs \cup {None}, args : Procs \cup {None}]
  /\ table \in [family : {4, 6}, attempt : 0..Attempts, grown : BOOLEAN]
  /\ found \subseteq Procs \X {row[2] : row \in Rows}
  /\ steady \subseteq Rows
  /\ notice \in [where : {"none", "arguments", "endpoint"},
                 rows : SUBSET (Procs \X {row[2] : row \in Rows}), steady : SUBSET Rows]
  /\ signings \in 0..MaxSignings \cup {1}

\* Name, start time and arguments are those of one process of the user; it is
\* the client itself while the client lives, and for a mapping even when it has
\* ended, although its id is all that was known of it and ids are used again
\* (client_windows.go 46-56, 74-83, 116-144).
InfoOfClient ==
  info.name # None =>
    /\ info.name \notin Foreign
    /\ {info.started, info.args} \subseteq {info.name, None}
    /\ proc[peer] = "alive" \/ way = "mapping" => info.name = peer

\* An endpoint in a notice is one of the process the notice names, though that
\* process may have ended, and its id been used again, between the connection and
\* the request (client_windows.go 379-388).
EndpointOfClient ==
  notice.where = "endpoint" => \A pair \in notice.rows : pair[1] = info.name

\* No endpoint is shown for a client that had another one all the time the tables
\* were read: "ambiguous ... connections display unavailable details"
\* (README.md:36, client_windows.go 430-448).
AmbiguousStaysUnknown ==
  notice.where = "endpoint" =>
    \A row \in notice.steady : \A pair \in notice.rows : row[2] = pair[2]

\* However the table grows, every lookup ends, with its handles closed
\* (client_windows.go 78-82, 121, 387, 457).
LookupEnds ==
  pc \notin {"idle", "serving"} ~> (pc = "serving" /\ handle = None /\ thread = None)
=============================================================================
