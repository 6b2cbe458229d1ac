-------------------------- MODULE AgentSessionProofs --------------------------
(***************************************************************************)
(* TLAPS proofs about AgentSession, for any number of callers, closers,    *)
(* requests and pipe instances. The inductive invariant is split in five:  *)
(* types (TypeOK), who owns the one connection (ConnInv), what is on its   *)
(* wire (WireInv) and which call waits for what and has which reply (CallInv, ReplyInv).            *)
(***************************************************************************)
EXTENDS AgentSession, TLAPS

AllFree == \A k \in Conns : pipe[k] = "free"

\* The published connection is open, and a closed session publishes none.
PublishedInv ==
  /\ closed => conn = None
  /\ conn # None => pipe[conn] = "open"

\* Close is past its section under stateMu, with a connection that was dialled.
ReleaseInv ==
  \A p \in Procs : pc[p] = "release" =>
    /\ closed
    /\ local[p] # None => pipe[local[p]] # "free"

\* The goroutine inside Query dials only the first connection, and otherwise
\* uses the published one for as long as the session is not closed.
QueryInv ==
  \A c \in Callers :
    /\ pc[c] = "dial" => AllFree
    /\ pc[c] \in {"dial", "adopt"} =>
         /\ conn = None
         /\ \A p \in Procs : pc[p] = "release" => local[p] = None
    /\ pc[c] = "adopt" => pipe[local[c]] = "open"
    /\ pc[c] \in {"write", "read"} =>
         /\ pipe[local[c]] # "free"
         /\ ~closed => conn = local[c]

\* A session in use without a connection has never had one.
FreshInv ==
  ~closed /\ conn = None /\ (\A c \in Callers : pc[c] # "adopt") => AllFree

ConnInv ==
  PublishedInv /\ ReleaseInv /\ QueryInv /\ FreshInv /\ NeverReconnects /\ NoLeakedPipe

Quiet(k) == inbox[k] = <<>> /\ outbox[k] = <<>>

\* Only the request in service can be on the wire of a session in use.
WireInv ==
  /\ \A k \in Conns : pipe[k] = "free" => Quiet(k)
  /\ conn # None /\ queryMu = None => Quiet(conn)
  /\ \A c \in Callers :
       /\ pc[c] \in {"adopt", "write"} => Quiet(local[c])
       /\ pc[c] = "read" =>
            \/ inbox[local[c]] = <<arg[c]>> /\ outbox[local[c]] = <<>>
            \/ /\ inbox[local[c]] = <<>>
               /\ \E f \in Frames : f.to = arg[c] /\ outbox[local[c]] = <<f>>

\* Every call under way waits for a request of its own.
CallInv ==
  /\ \A c \in Callers : pc[c] # "idle" => outcome[arg[c]] = "pending"
  /\ \A c, d \in Callers :
       pc[c] # "idle" /\ pc[d] # "idle" /\ arg[c] = arg[d] => c = d

\* A call has a reply only once it has returned one, and then its own.
ReplyInv ==
  /\ ReplyMatchesRequest
  /\ \A q \in Requests : outcome[q] # "reply" => replyTo[q] = None

IInv == TypeOK /\ ConnInv /\ WireInv /\ CallInv /\ ReplyInv

-----------------------------------------------------------------------------
LEMMA InitIInv == Init => IInv
<1> SUFFICES ASSUME Init PROVE IInv
    OBVIOUS
<1> USE SessionAssumption DEF Init, Procs, Busy
<1>1. TypeOK
  <2>1. VarTypes
    <3>1. \A S : <<>> \in Seq(S)
      OBVIOUS
    <3>2. QED
      BY <3>1 DEF VarTypes
  <2>2. Control
    BY DEF Control
  <2>3. QED
    BY <2>1, <2>2 DEF TypeOK
<1>2. ConnInv
  BY DEF ConnInv, PublishedInv, ReleaseInv, QueryInv, FreshInv, AllFree,
         NeverReconnects, NoLeakedPipe
<1>3. WireInv
  BY DEF WireInv, Quiet
<1>4. CallInv
  BY DEF CallInv
<1>5. ReplyInv
  BY DEF ReplyInv, ReplyMatchesRequest
<1>6. QED
  BY <1>1, <1>2, <1>3, <1>4, <1>5 DEF IInv

LEMMA SeqFacts ==
  ASSUME NEW S, NEW s \in Seq(S), NEW e \in S
  PROVE  /\ Append(s, e) \in Seq(S)
         /\ s # <<>> => Tail(s) \in Seq(S) /\ Head(s) \in S
  OBVIOUS

\* The variables Query's return assigns keep their types, and the holder of
\* queryMu is the goroutine inside Query.
LEMMA ReturnTypes ==
  ASSUME TypeOK, NEW c \in Callers, arg[c] \in Requests,
         queryMu \in {None, c}, arg' = arg,
         NEW how \in {"reply", "error"}, NEW reply \in Requests \cup {None},
         Return(c, how, reply)
  PROVE  /\ queryMu' \in Callers \cup {None}
         /\ pc' \in [Procs -> {"idle", "lock", "done"} \cup Busy]
         /\ local' \in [Procs -> Conns \cup {None}]
         /\ outcome' \in [Requests -> {"new", "pending", "reply", "error"}]
         /\ replyTo' \in [Requests -> Requests \cup {None}]
         /\ Control'
<1> USE SessionAssumption DEF TypeOK, VarTypes, Procs, Busy, Return, Goto
<1>1. /\ queryMu' \in Callers \cup {None}
      /\ pc' \in [Procs -> {"idle", "lock", "done"} \cup Busy]
      /\ local' \in [Procs -> Conns \cup {None}]
  OBVIOUS
<1>2. outcome' \in [Requests -> {"new", "pending", "reply", "error"}]
  OBVIOUS
<1>3. replyTo' \in [Requests -> Requests \cup {None}]
  OBVIOUS
<1>4. Control'
  BY DEF Control
<1>5. QED
  BY <1>1, <1>2, <1>3, <1>4

LEMMA TypeStep == TypeOK /\ [Next]_vars => TypeOK'
<1> SUFFICES ASSUME TypeOK, [Next]_vars PROVE TypeOK'
    OBVIOUS
<1> USE SessionAssumption DEF TypeOK, Procs, Busy, Goto, Return,
        sessionVars, wireVars, resultVars
<1>1. ASSUME NEW c \in Callers, NEW q \in Requests, Call(c, q) PROVE TypeOK'
  <2>1. VarTypes'
    BY <1>1 DEF Call, VarTypes
  <2>2. Control'
    BY <1>1 DEF Call, VarTypes, Control
  <2>3. QED
    BY <2>1, <2>2
<1>2. ASSUME NEW c \in Callers, RejectQuery(c) PROVE TypeOK'
  <2>1. VarTypes'
    BY <1>2 DEF RejectQuery, VarTypes, Control
  <2>2. Control'
    BY <1>2 DEF RejectQuery, VarTypes, Control
  <2>3. QED
    BY <2>1, <2>2
<1>3. ASSUME NEW c \in Callers, BeginQuery(c) PROVE TypeOK'
  <2>1. VarTypes'
    BY <1>3 DEF BeginQuery, VarTypes, Control
  <2>2. Control'
    BY <1>3 DEF BeginQuery, VarTypes, Control
  <2>3. QED
    BY <2>1, <2>2
<1>4. ASSUME NEW c \in Callers, Dial(c) PROVE TypeOK'
  <2>1. VarTypes'
    BY <1>4 DEF Dial, VarTypes, Control
  <2>2. Control'
    BY <1>4 DEF Dial, VarTypes, Control
  <2>3. QED
    BY <2>1, <2>2
<1>5. ASSUME NEW c \in Callers, DialFail(c) PROVE TypeOK'
  <2>1. VarTypes'
    BY <1>5 DEF DialFail, VarTypes, Control
  <2>2. Control'
    BY <1>5 DEF DialFail, VarTypes, Control
  <2>3. QED
    BY <2>1, <2>2
<1>6. ASSUME NEW c \in Callers, Adopt(c) PROVE TypeOK'
  <2>1. CASE closed
    <3>1. /\ Return(c, "error", None)
          /\ pipe' = [pipe EXCEPT ![local[c]] = "closed"]
          /\ UNCHANGED <<closed, conn, arg, inbox, outbox>>
      BY <1>6, <2>1 DEF Adopt
    <3>2. arg[c] \in Requests /\ queryMu = c
      BY <1>6 DEF Adopt, Control
    <3>3. QED
      BY <3>1, <3>2, ReturnTypes DEF VarTypes
  <2>2. CASE ~closed
    <3>1. VarTypes'
      BY <1>6, <2>2 DEF Adopt, VarTypes, Control
    <3>2. Control'
      BY <1>6, <2>2 DEF Adopt, VarTypes, Control
    <3>3. QED
      BY <3>1, <3>2
  <2>3. QED
    BY <2>1, <2>2
<1>7. ASSUME NEW c \in Callers, Write(c) PROVE TypeOK'
  <2>1. VarTypes'
    BY <1>7 DEF Write, VarTypes, Control
  <2>2. Control'
    BY <1>7 DEF Write, VarTypes, Control
  <2>3. QED
    BY <2>1, <2>2
<1>8. ASSUME NEW c \in Callers, WriteFail(c) PROVE TypeOK'
  <2>1. inbox' \in [Conns -> Seq(Requests)]
    <3>1. CASE UNCHANGED inbox
      BY <3>1 DEF VarTypes
    <3>2. CASE inbox' = [inbox EXCEPT ![local[c]] = Append(@, arg[c])]
      BY <1>8, <3>2, SeqFacts DEF WriteFail, VarTypes, Control
    <3>3. QED
      BY <1>8, <3>1, <3>2 DEF WriteFail
  <2>2. VarTypes'
    BY <1>8, <2>1 DEF WriteFail, VarTypes
  <2>3. Control'
    BY <1>8 DEF WriteFail, VarTypes, Control
  <2>4. QED
    BY <2>2, <2>3
<1>9. ASSUME NEW c \in Callers, Read(c) PROVE TypeOK'
  <2> DEFINE reply == Head(outbox[local[c]])
  <2>1. local[c] \in Conns /\ arg[c] \in Requests /\ queryMu = c
    BY <1>9 DEF Read, Control
  <2>2. /\ reply \in Frames
        /\ Tail(outbox[local[c]]) \in Seq(Frames)
    BY <1>9, <2>1, SeqFacts DEF Read, VarTypes
  <2>3. outbox' \in [Conns -> Seq(Frames)]
    BY <1>9, <2>1, <2>2 DEF Read, VarTypes
  <2>4. reply.to \in Requests
    BY <2>2 DEF Frames
  <2>5. CASE reply.valid
    <3>1. Return(c, "reply", reply.to) /\ UNCHANGED <<closed, conn, arg, pipe, inbox>>
      BY <1>9, <2>5 DEF Read
    <3>2. QED
      BY <2>1, <2>3, <2>4, <3>1, ReturnTypes DEF VarTypes
  <2>6. CASE ~reply.valid
    <3>1. /\ Goto(c, "fail")
          /\ UNCHANGED <<queryMu, local, outcome, replyTo, closed, conn, arg, pipe, inbox>>
      BY <1>9, <2>6 DEF Read
    <3>2. VarTypes'
      BY <2>3, <3>1 DEF VarTypes
    <3>3. Control'
      BY <2>1, <3>1 DEF VarTypes, Control
    <3>4. QED
      BY <3>2, <3>3
  <2>7. QED
    BY <2>5, <2>6
<1>10. ASSUME NEW c \in Callers, ReadFail(c) PROVE TypeOK'
  <2>1. VarTypes'
    BY <1>10 DEF ReadFail, VarTypes, Control
  <2>2. Control'
    BY <1>10 DEF ReadFail, VarTypes, Control
  <2>3. QED
    BY <2>1, <2>2
<1>11. ASSUME NEW p \in Procs, Close(p) PROVE TypeOK'
  <2>1. VarTypes'
    BY <1>11 DEF Close, VarTypes, Control
  <2>2. Control'
    BY <1>11 DEF Close, VarTypes, Control
  <2>3. QED
    BY <2>1, <2>2
<1>12. ASSUME NEW p \in Procs, CloseAgain(p) PROVE TypeOK'
  <2>1. CASE p \in Closers
    <3>1. pc[p] = "idle" /\ Goto(p, "done") /\ UNCHANGED <<queryMu, local, outcome, replyTo>>
      BY <1>12, <2>1 DEF CloseAgain
    <3>2. VarTypes'
      BY <1>12, <3>1 DEF CloseAgain, VarTypes
    <3>3. Control'
      BY <1>12, <2>1, <3>1 DEF CloseAgain, VarTypes, Control
    <3>4. QED
      BY <3>2, <3>3
  <2>2. CASE p \in Callers
    <3>1. Return(p, "error", None) /\ UNCHANGED <<closed, conn, arg, pipe, inbox, outbox>>
      BY <1>12, <2>2 DEF CloseAgain
    <3>2. arg[p] \in Requests /\ queryMu = p
      BY <1>12, <2>2 DEF CloseAgain, Control
    <3>3. QED
      BY <2>2, <3>1, <3>2, ReturnTypes DEF VarTypes
  <2>3. QED
    BY <2>1, <2>2
<1>13. ASSUME NEW p \in Procs, ReleaseConn(p) PROVE TypeOK'
  <2>1. pipe' \in [Conns -> {"free", "open", "closed"}]
    BY <1>13 DEF ReleaseConn, VarTypes
  <2>2. CASE p \in Closers
    <3>1. /\ Goto(p, "done") /\ local' = [local EXCEPT ![p] = None]
          /\ UNCHANGED <<queryMu, outcome, replyTo, closed, conn, arg, inbox, outbox>>
      BY <1>13, <2>2 DEF ReleaseConn
    <3>2. VarTypes'
      BY <2>1, <3>1 DEF VarTypes
    <3>3. Control'
      BY <2>2, <3>1 DEF VarTypes, Control
    <3>4. QED
      BY <3>2, <3>3
  <2>3. CASE p \in Callers
    <3>1. Return(p, "error", None) /\ UNCHANGED <<closed, conn, arg, inbox, outbox>>
      BY <1>13, <2>3 DEF ReleaseConn
    <3>2. arg[p] \in Requests /\ queryMu = p
      BY <1>13, <2>3 DEF ReleaseConn, Control
    <3>3. QED
      BY <2>1, <2>3, <3>1, <3>2, ReturnTypes DEF VarTypes
  <2>4. QED
    BY <2>2, <2>3
<1>14. ASSUME NEW k \in Conns, AgentReply(k) PROVE TypeOK'
  <2>1. PICK ok \in BOOLEAN :
          outbox' = [outbox EXCEPT ![k] = Append(@, [to |-> Head(inbox[k]), valid |-> ok])]
    BY <1>14 DEF AgentReply
  <2>2. Head(inbox[k]) \in Requests /\ Tail(inbox[k]) \in Seq(Requests)
    BY <1>14, SeqFacts DEF AgentReply, VarTypes
  <2>3. [to |-> Head(inbox[k]), valid |-> ok] \in Frames
    BY <2>2 DEF Frames
  <2>4. Append(outbox[k], [to |-> Head(inbox[k]), valid |-> ok]) \in Seq(Frames)
    BY <2>3, SeqFacts DEF VarTypes
  <2>5. VarTypes'
    BY <1>14, <2>1, <2>2, <2>4 DEF AgentReply, VarTypes
  <2>6. Control'
    BY <1>14 DEF AgentReply, Control
  <2>7. QED
    BY <2>5, <2>6
<1>15. CASE UNCHANGED vars
  BY <1>15 DEF vars, VarTypes, Control
<1>16. QED
  BY <1>1, <1>2, <1>3, <1>4, <1>5, <1>6, <1>7, <1>8, <1>9, <1>10, <1>11,
     <1>12, <1>13, <1>14, <1>15 DEF Next

\* "TypeOK" holds in every behavior of the session.
THEOREM TypeCorrect == Spec => []TypeOK
<1>1. Init => TypeOK
  BY InitIInv DEF IInv
<1>2. TypeOK /\ [Next]_vars => TypeOK'
  BY TypeStep
<1>3. QED
  BY <1>1, <1>2, PTL DEF Spec

-----------------------------------------------------------------------------
\* A step of a goroutine that owns no pipe of its own leaks none.
LEMMA StillOwned ==
  ASSUME TypeOK, NoLeakedPipe, NEW p \in Procs, NEW label,
         pc[p] \notin {"adopt", "release"},
         pc' = [pc EXCEPT ![p] = label],
         local' \in {local, [local EXCEPT ![p] = None]},
         UNCHANGED <<closed, conn, pipe>>
  PROVE  NoLeakedPipe'
<1> USE DEF TypeOK, VarTypes, NoLeakedPipe
<1> SUFFICES ASSUME NEW k \in Conns, pipe[k] = "open", ~(~closed /\ conn = k)
             PROVE  \E r \in Procs : pc'[r] \in {"adopt", "release"} /\ local'[r] = k
    OBVIOUS
<1>1. PICK r \in Procs : pc[r] \in {"adopt", "release"} /\ local[r] = k
  OBVIOUS
<1>2. r # p
  BY <1>1
<1>3. QED
  BY <1>1, <1>2

LEMMA ConnStep == TypeOK /\ ConnInv /\ [Next]_vars => ConnInv'
<1> SUFFICES ASSUME TypeOK, ConnInv, [Next]_vars PROVE ConnInv'
    OBVIOUS
<1> USE SessionAssumption DEF TypeOK, VarTypes, Control, Procs, Busy, Goto, Return,
        sessionVars, wireVars, resultVars, ConnInv, PublishedInv, ReleaseInv,
        QueryInv, FreshInv, AllFree, NeverReconnects, NoLeakedPipe
<1>1. ASSUME NEW c \in Callers, NEW q \in Requests, Call(c, q) PROVE ConnInv'
  BY <1>1 DEF Call
<1>2. ASSUME NEW c \in Callers, RejectQuery(c) PROVE ConnInv'
  BY <1>2 DEF RejectQuery
<1>3. ASSUME NEW c \in Callers, BeginQuery(c) PROVE ConnInv'
  <2>1. PublishedInv'
    BY <1>3 DEF BeginQuery
  <2>2. ReleaseInv'
    BY <1>3 DEF BeginQuery
  <2>3. QueryInv'
    BY <1>3 DEF BeginQuery
  <2>4. FreshInv'
    BY <1>3 DEF BeginQuery
  <2>5. NeverReconnects'
    BY <1>3 DEF BeginQuery
  <2>6. NoLeakedPipe'
    BY <1>3 DEF BeginQuery
  <2>7. QED
    BY <2>1, <2>2, <2>3, <2>4, <2>5, <2>6
<1>4. ASSUME NEW c \in Callers, Dial(c) PROVE ConnInv'
  <2>1. PICK k \in Conns : /\ pipe' = [pipe EXCEPT ![k] = "open"]
                          /\ local' = [local EXCEPT ![c] = k]
                          /\ pipe[k] = "free"
    BY <1>4 DEF Dial
  <2>2. /\ pc[c] = "dial" /\ AllFree /\ conn = None
        /\ pc' = [pc EXCEPT ![c] = "adopt"]
        /\ UNCHANGED <<closed, conn>>
    BY <1>4 DEF Dial
  <2>3. PublishedInv' /\ ReleaseInv' /\ FreshInv'
    BY <2>1, <2>2
  <2>4. QueryInv'
    BY <2>1, <2>2
  <2>5. NeverReconnects' /\ NoLeakedPipe'
    BY <2>1, <2>2
  <2>6. QED
    BY <2>3, <2>4, <2>5
<1>5. ASSUME NEW c \in Callers, DialFail(c) PROVE ConnInv'
  BY <1>5 DEF DialFail
<1>6. ASSUME NEW c \in Callers, Adopt(c) PROVE ConnInv'
  <2>1. CASE closed
    <3>1. /\ pipe' = [pipe EXCEPT ![local[c]] = "closed"]
          /\ pc' = [pc EXCEPT ![c] = "idle"]
          /\ local' = [local EXCEPT ![c] = None]
          /\ UNCHANGED <<closed, conn>>
      BY <1>6, <2>1 DEF Adopt
    <3>2. pc[c] = "adopt" /\ local[c] \in Conns /\ \A d \in Callers \ {c} : pc[d] \notin Busy
      BY <1>6 DEF Adopt
    <3>3. PublishedInv' /\ ReleaseInv' /\ FreshInv'
      BY <2>1, <3>1, <3>2
    <3>4. QueryInv'
      BY <2>1, <3>1, <3>2
    <3>5. NeverReconnects' /\ NoLeakedPipe'
      BY <2>1, <3>1, <3>2
    <3>6. QED
      BY <3>3, <3>4, <3>5
  <2>2. CASE ~closed
    <3>1. /\ conn' = local[c]
          /\ pc' = [pc EXCEPT ![c] = "write"]
          /\ UNCHANGED <<closed, local, pipe>>
      BY <1>6, <2>2 DEF Adopt
    <3>2. pc[c] = "adopt" /\ local[c] \in Conns /\ \A d \in Callers \ {c} : pc[d] \notin Busy
      BY <1>6 DEF Adopt
    <3>3. PublishedInv' /\ ReleaseInv' /\ FreshInv'
      BY <2>2, <3>1, <3>2
    <3>4. QueryInv'
      BY <2>2, <3>1, <3>2
    <3>5. NeverReconnects'
      BY <3>1
    <3>6. NoLeakedPipe'
      <4> SUFFICES ASSUME NEW k \in Conns, pipe'[k] = "open"
                   PROVE  conn' = k
          BY <2>2, <3>1
      <4>1. PICK p \in Procs : pc[p] \in {"adopt", "release"} /\ local[p] = k
        BY <3>1, <3>2
      <4>2. pc[p] # "release"
        BY <2>2
      <4>3. p = c
        BY <3>2, <4>1, <4>2
      <4>4. QED
        BY <3>1, <4>1, <4>3
    <3>7. QED
      BY <3>3, <3>4, <3>5, <3>6
  <2>3. QED
    BY <2>1, <2>2
<1>7. ASSUME NEW c \in Callers, Write(c) PROVE ConnInv'
  <2>1. /\ pc[c] = "write" /\ pc' = [pc EXCEPT ![c] = "read"]
        /\ UNCHANGED <<closed, conn, local, pipe>>
    BY <1>7 DEF Write
  <2>2. PublishedInv' /\ ReleaseInv' /\ FreshInv' /\ NeverReconnects'
    BY <2>1
  <2>3. QueryInv'
    BY <2>1
  <2>4. NoLeakedPipe'
    BY <2>1, StillOwned
  <2>5. QED
    BY <2>2, <2>3, <2>4
<1>8. ASSUME NEW c \in Callers, WriteFail(c) PROVE ConnInv'
  BY <1>8 DEF WriteFail
<1>9. ASSUME NEW c \in Callers, Read(c) PROVE ConnInv'
  <2>1. /\ pc[c] = "read"
        /\ \E label \in {"idle", "fail"} : pc' = [pc EXCEPT ![c] = label]
        /\ local' \in {local, [local EXCEPT ![c] = None]}
        /\ UNCHANGED <<closed, conn, pipe>>
    BY <1>9 DEF Read
  <2>2. PublishedInv' /\ ReleaseInv' /\ FreshInv' /\ NeverReconnects'
    BY <2>1
  <2>3. QueryInv'
    BY <2>1
  <2>4. NoLeakedPipe'
    BY <2>1, StillOwned
  <2>5. QED
    BY <2>2, <2>3, <2>4
<1>10. ASSUME NEW c \in Callers, ReadFail(c) PROVE ConnInv'
  BY <1>10 DEF ReadFail
<1>11. ASSUME NEW p \in Procs, Close(p) PROVE ConnInv'
  <2>1. PublishedInv'
    BY <1>11 DEF Close
  <2>2. ReleaseInv'
    BY <1>11 DEF Close
  <2>3. QueryInv'
    BY <1>11 DEF Close
  <2>4. FreshInv'
    BY <1>11 DEF Close
  <2>5. NeverReconnects'
    BY <1>11 DEF Close
  <2>6. NoLeakedPipe'
    BY <1>11 DEF Close
  <2>7. QED
    BY <2>1, <2>2, <2>3, <2>4, <2>5, <2>6
<1>12. ASSUME NEW p \in Procs, CloseAgain(p) PROVE ConnInv'
  <2>1. /\ pc[p] \in {"idle", "fail"} /\ closed
        /\ \E label \in {"idle", "done"} : pc' = [pc EXCEPT ![p] = label]
        /\ local' \in {local, [local EXCEPT ![p] = None]}
        /\ UNCHANGED <<closed, conn, pipe>>
    BY <1>12 DEF CloseAgain
  <2>2. PublishedInv' /\ ReleaseInv' /\ FreshInv' /\ NeverReconnects'
    BY <2>1
  <2>3. QueryInv'
    BY <2>1
  <2>4. NoLeakedPipe'
    BY <2>1, StillOwned
  <2>5. QED
    BY <2>2, <2>3, <2>4
<1>13. ASSUME NEW p \in Procs, ReleaseConn(p) PROVE ConnInv'
  <2>1. /\ pc[p] = "release"
        /\ pipe' = [k \in Conns |-> IF k = local[p] THEN "closed" ELSE pipe[k]]
        /\ \E label \in {"idle", "done"} : pc' = [pc EXCEPT ![p] = label]
        /\ local' = [local EXCEPT ![p] = None]
        /\ UNCHANGED <<closed, conn>>
    BY <1>13 DEF ReleaseConn
  <2>2. closed /\ conn = None
    BY <2>1
  <2>3. PublishedInv' /\ ReleaseInv' /\ FreshInv' /\ NeverReconnects'
    BY <2>1, <2>2
  <2>4. QueryInv'
    BY <2>1, <2>2
  <2>5. NoLeakedPipe'
    BY <2>1, <2>2
  <2>6. QED
    BY <2>3, <2>4, <2>5
<1>14. ASSUME NEW k \in Conns, AgentReply(k) PROVE ConnInv'
  BY <1>14 DEF AgentReply
<1>15. CASE UNCHANGED vars
  BY <1>15 DEF vars
<1>16. QED
  BY <1>1, <1>2, <1>3, <1>4, <1>5, <1>6, <1>7, <1>8, <1>9, <1>10, <1>11,
     <1>12, <1>13, <1>14, <1>15 DEF Next
LEMMA WireStep == TypeOK /\ ConnInv /\ WireInv /\ [Next]_vars => WireInv'
<1> SUFFICES ASSUME TypeOK, ConnInv, WireInv, [Next]_vars PROVE WireInv'
    OBVIOUS
<1> USE SessionAssumption DEF TypeOK, VarTypes, Control, Procs, Busy, Goto, Return,
        sessionVars, wireVars, resultVars, ConnInv, PublishedInv, ReleaseInv,
        QueryInv, WireInv, Quiet
<1>1. ASSUME NEW c \in Callers, NEW q \in Requests, Call(c, q) PROVE WireInv'
  BY <1>1 DEF Call
<1>2. ASSUME NEW c \in Callers, RejectQuery(c) PROVE WireInv'
  BY <1>2 DEF RejectQuery
<1>3. ASSUME NEW c \in Callers, BeginQuery(c) PROVE WireInv'
  BY <1>3 DEF BeginQuery
<1>4. ASSUME NEW c \in Callers, Dial(c) PROVE WireInv'
  BY <1>4 DEF Dial
<1>5. ASSUME NEW c \in Callers, DialFail(c) PROVE WireInv'
  BY <1>5 DEF DialFail
<1>6. ASSUME NEW c \in Callers, Adopt(c) PROVE WireInv'
  <2>1. /\ pc[c] = "adopt" /\ local[c] \in Conns /\ queryMu = c
        /\ \A d \in Callers \ {c} : pc[d] \notin Busy
        /\ conn = None
        /\ UNCHANGED <<inbox, outbox>>
    BY <1>6 DEF Adopt
  <2>2. CASE closed
    <3>1. /\ pipe' = [pipe EXCEPT ![local[c]] = "closed"]
          /\ pc' = [pc EXCEPT ![c] = "idle"]
          /\ UNCHANGED <<conn, arg>>
      BY <1>6, <2>2 DEF Adopt
    <3>2. QED
      BY <2>1, <3>1
  <2>3. CASE ~closed
    <3>1. /\ pc' = [pc EXCEPT ![c] = "write"]
          /\ UNCHANGED <<queryMu, local, pipe, arg>>
      BY <1>6, <2>3 DEF Adopt
    <3>2. QED
      BY <2>1, <3>1
  <2>4. QED
    BY <2>2, <2>3
<1>7. ASSUME NEW c \in Callers, Write(c) PROVE WireInv'
  <2>1. /\ pc[c] = "write" /\ local[c] \in Conns /\ arg[c] \in Requests /\ queryMu = c
        /\ \A d \in Callers \ {c} : pc[d] \notin Busy
        /\ pipe[local[c]] # "free"
        /\ pc' = [pc EXCEPT ![c] = "read"]
        /\ UNCHANGED <<queryMu, conn, arg, local, pipe, outbox>>
    BY <1>7 DEF Write
  <2>2. inbox' = [inbox EXCEPT ![local[c]] = <<arg[c]>>]
    <3>1. inbox[local[c]] = <<>>
      BY <2>1
    <3>2. Append(inbox[local[c]], arg[c]) = <<arg[c]>>
      BY <2>1, <3>1
    <3>3. QED
      BY <1>7, <3>2 DEF Write
  <2>3. QED
    BY <2>1, <2>2
<1>8. ASSUME NEW c \in Callers, WriteFail(c) PROVE WireInv'
  BY <1>8 DEF WriteFail
<1>9. ASSUME NEW c \in Callers, Read(c) PROVE WireInv'
  <2> DEFINE k == local[c]
  <2>1. /\ pc[c] = "read" /\ k \in Conns /\ queryMu = c
        /\ \A d \in Callers \ {c} : pc[d] \notin Busy
        /\ \E label \in {"idle", "fail"} : pc' = [pc EXCEPT ![c] = label]
        /\ pipe[k] # "free" /\ outbox[k] # <<>>
        /\ outbox' = [outbox EXCEPT ![k] = Tail(outbox[k])]
        /\ UNCHANGED <<conn, arg, pipe, inbox>>
    BY <1>9 DEF Read
  <2>2. inbox[k] = <<>> /\ \E f \in Frames : outbox[k] = <<f>>
    BY <2>1
  <2>3. Tail(outbox[k]) = <<>>
    BY <2>2
  <2>4. outbox' = [outbox EXCEPT ![k] = <<>>]
    BY <2>1, <2>3
  <2>5. \A j \in Conns : Quiet(j) => Quiet(j)'
    BY <2>1, <2>4
  <2>6. inbox'[k] = <<>> /\ outbox'[k] = <<>>
    <3>1. outbox'[k] = <<>>
      BY <2>1, <2>4
    <3>2. inbox'[k] = <<>>
      BY <2>1, <2>2
    <3>3. QED
      BY <3>1, <3>2
  <2>7. conn \in {None, k}
    BY <2>1
  <2>8. \A d \in Callers : pc'[d] \notin Busy \/ pc'[d] = "fail"
    BY <2>1
  <2>9. \A j \in Conns : pipe'[j] = "free" => Quiet(j)'
    BY <2>1, <2>5
  <2>10. conn' # None => Quiet(conn)'
    BY <2>1, <2>6, <2>7
  <2>11. QED
    BY <2>8, <2>9, <2>10
<1>10. ASSUME NEW c \in Callers, ReadFail(c) PROVE WireInv'
  BY <1>10 DEF ReadFail
<1>11. ASSUME NEW p \in Procs, Close(p) PROVE WireInv'
  BY <1>11 DEF Close
<1>12. ASSUME NEW p \in Procs, CloseAgain(p) PROVE WireInv'
  BY <1>12 DEF CloseAgain
<1>13. ASSUME NEW p \in Procs, ReleaseConn(p) PROVE WireInv'
  BY <1>13 DEF ReleaseConn
<1>14. ASSUME NEW k \in Conns, AgentReply(k) PROVE WireInv'
  <2>1. PICK ok \in BOOLEAN :
          outbox' = [outbox EXCEPT ![k] = Append(outbox[k], [to |-> Head(inbox[k]), valid |-> ok])]
    BY <1>14 DEF AgentReply
  <2>2. /\ pipe[k] = "open" /\ inbox[k] # <<>>
        /\ inbox' = [inbox EXCEPT ![k] = Tail(inbox[k])]
        /\ UNCHANGED <<queryMu, conn, pc, arg, local, pipe>>
    BY <1>14 DEF AgentReply
  <2>3. \A j \in Conns \ {k} : Quiet(j) => Quiet(j)'
    BY <2>1, <2>2
  <2>4. ASSUME NEW c \in Callers, pc[c] \in {"adopt", "write"}
        PROVE  Quiet(local[c])'
    BY <2>2, <2>3, <2>4
  <2>5. ASSUME NEW c \in Callers, pc[c] = "read", local[c] = k
        PROVE  inbox'[k] = <<>> /\ \E f \in Frames : f.to = arg[c] /\ outbox'[k] = <<f>>
    <3> DEFINE f == [to |-> arg[c], valid |-> ok]
    <3>1. inbox[k] = <<arg[c]>> /\ outbox[k] = <<>> /\ arg[c] \in Requests
      BY <2>2, <2>5
    <3>2. Head(inbox[k]) = arg[c] /\ Tail(inbox[k]) = <<>>
      BY <3>1
    <3>3. Append(outbox[k], f) = <<f>>
      BY <3>1
    <3>4. f \in Frames /\ f.to = arg[c]
      BY <3>1 DEF Frames
    <3>5. inbox'[k] = <<>> /\ outbox'[k] = <<f>>
      BY <2>1, <2>2, <3>2, <3>3
    <3>6. QED
      BY <3>4, <3>5
  <2>6. ASSUME NEW c \in Callers, pc[c] = "read", local[c] # k
        PROVE  inbox'[local[c]] = inbox[local[c]] /\ outbox'[local[c]] = outbox[local[c]]
    BY <2>1, <2>2, <2>6
  <2>7. ASSUME NEW c \in Callers, pc[c] = "read"
        PROVE  \/ inbox'[local[c]] = <<arg[c]>> /\ outbox'[local[c]] = <<>>
               \/ /\ inbox'[local[c]] = <<>>
                  /\ \E f \in Frames : f.to = arg[c] /\ outbox'[local[c]] = <<f>>
    <3>1. CASE local[c] = k
      BY <2>5, <2>7, <3>1
    <3>2. CASE local[c] # k
      BY <2>6, <2>7, <3>2
    <3>3. QED
      BY <3>1, <3>2
  <2>8. \A j \in Conns : pipe'[j] = "free" => Quiet(j)'
    BY <2>2, <2>3
  <2>9. conn' # None /\ queryMu' = None => Quiet(conn)'
    BY <2>2, <2>3
  <2>10. QED
    BY <2>2, <2>4, <2>7, <2>8, <2>9
<1>15. CASE UNCHANGED vars
  BY <1>15 DEF vars
<1>16. QED
  BY <1>1, <1>2, <1>3, <1>4, <1>5, <1>6, <1>7, <1>8, <1>9, <1>10, <1>11,
     <1>12, <1>13, <1>14, <1>15 DEF Next

\* A call that returns leaves the other calls waiting for requests of their own.
LEMMA ReturnCall ==
  ASSUME TypeOK, CallInv, NEW c \in Callers, pc[c] # "idle", arg' = arg,
         NEW how, NEW reply, Return(c, how, reply)
  PROVE  CallInv'
<1> USE DEF TypeOK, VarTypes, Control, Procs, Return, Goto, CallInv
<1>1. ASSUME NEW d \in Callers, pc'[d] # "idle"
      PROVE  d # c /\ pc[d] # "idle" /\ arg[d] # arg[c] /\ outcome'[arg[d]] = "pending"
  BY <1>1
<1>2. QED
  BY <1>1

LEMMA CallStep == TypeOK /\ CallInv /\ [Next]_vars => CallInv'
<1> SUFFICES ASSUME TypeOK, CallInv, [Next]_vars PROVE CallInv'
    OBVIOUS
<1> USE SessionAssumption DEF TypeOK, VarTypes, Control, Procs, Busy, Goto, Return,
        sessionVars, wireVars, resultVars, CallInv
<1>1. ASSUME NEW c \in Callers, NEW q \in Requests, Call(c, q) PROVE CallInv'
  BY <1>1 DEF Call
<1>2. ASSUME NEW c \in Callers, RejectQuery(c) PROVE CallInv'
  BY <1>2 DEF RejectQuery
<1>3. ASSUME NEW c \in Callers, BeginQuery(c) PROVE CallInv'
  BY <1>3 DEF BeginQuery
<1>4. ASSUME NEW c \in Callers, Dial(c) PROVE CallInv'
  BY <1>4 DEF Dial
<1>5. ASSUME NEW c \in Callers, DialFail(c) PROVE CallInv'
  BY <1>5 DEF DialFail
<1>6. ASSUME NEW c \in Callers, Adopt(c) PROVE CallInv'
  <2>1. CASE closed
    <3>1. Return(c, "error", None) /\ arg' = arg /\ pc[c] # "idle"
      BY <1>6, <2>1 DEF Adopt
    <3>2. QED
      BY <3>1, ReturnCall
  <2>2. CASE ~closed
    BY <1>6, <2>2 DEF Adopt
  <2>3. QED
    BY <2>1, <2>2
<1>7. ASSUME NEW c \in Callers, Write(c) PROVE CallInv'
  BY <1>7 DEF Write
<1>8. ASSUME NEW c \in Callers, WriteFail(c) PROVE CallInv'
  BY <1>8 DEF WriteFail
<1>9. ASSUME NEW c \in Callers, Read(c) PROVE CallInv'
  <2>1. /\ pc[c] = "read" /\ arg' = arg
        /\ \/ \E reply : Return(c, "reply", reply)
           \/ Goto(c, "fail") /\ outcome' = outcome
    BY <1>9 DEF Read
  <2>2. CASE \E reply : Return(c, "reply", reply)
    BY <2>1, <2>2, ReturnCall
  <2>3. CASE Goto(c, "fail") /\ outcome' = outcome
    BY <2>1, <2>3
  <2>4. QED
    BY <2>1, <2>2, <2>3
<1>10. ASSUME NEW c \in Callers, ReadFail(c) PROVE CallInv'
  BY <1>10 DEF ReadFail
<1>11. ASSUME NEW p \in Procs, Close(p) PROVE CallInv'
  BY <1>11 DEF Close
<1>12. ASSUME NEW p \in Procs, CloseAgain(p) PROVE CallInv'
  <2>1. CASE p \in Closers
    BY <1>12, <2>1 DEF CloseAgain
  <2>2. CASE p \in Callers
    <3>1. Return(p, "error", None) /\ arg' = arg /\ pc[p] # "idle"
      BY <1>12, <2>2 DEF CloseAgain
    <3>2. QED
      BY <2>2, <3>1, ReturnCall
  <2>3. QED
    BY <2>1, <2>2
<1>13. ASSUME NEW p \in Procs, ReleaseConn(p) PROVE CallInv'
  <2>1. CASE p \in Closers
    <3>1. \A c \in Callers : pc'[c] = pc[c]
      BY <1>13, <2>1 DEF ReleaseConn
    <3>2. UNCHANGED <<arg, outcome>>
      BY <1>13, <2>1 DEF ReleaseConn
    <3>3. QED
      BY <3>1, <3>2
  <2>2. CASE p \in Callers
    <3>1. Return(p, "error", None) /\ arg' = arg /\ pc[p] # "idle"
      BY <1>13, <2>2 DEF ReleaseConn
    <3>2. QED
      BY <2>2, <3>1, ReturnCall
  <2>3. QED
    BY <2>1, <2>2
<1>14. ASSUME NEW k \in Conns, AgentReply(k) PROVE CallInv'
  BY <1>14 DEF AgentReply
<1>15. CASE UNCHANGED vars
  BY <1>15 DEF vars
<1>16. QED
  BY <1>1, <1>2, <1>3, <1>4, <1>5, <1>6, <1>7, <1>8, <1>9, <1>10, <1>11,
     <1>12, <1>13, <1>14, <1>15 DEF Next

\* A return that fails, or that returns the caller's own reply.
LEMMA ReturnReply ==
  ASSUME TypeOK, ReplyInv, NEW c \in Callers, arg[c] \in Requests, NEW how, NEW reply,
         \/ how = "reply" /\ reply = arg[c]
         \/ how = "error" /\ reply = None,
         Return(c, how, reply)
  PROVE  ReplyInv'
BY DEF TypeOK, VarTypes, Return, ReplyInv, ReplyMatchesRequest

LEMMA ReplyStep ==
  TypeOK /\ WireInv /\ ReplyInv /\ [Next]_vars => ReplyInv'
<1> SUFFICES ASSUME TypeOK, WireInv, ReplyInv, [Next]_vars
             PROVE  ReplyInv'
    OBVIOUS
<1> USE SessionAssumption DEF TypeOK, VarTypes, Control, Procs, Busy, Goto, Return,
        sessionVars, wireVars, resultVars, WireInv, ReplyInv, ReplyMatchesRequest
<1>1. ASSUME NEW c \in Callers, NEW q \in Requests, Call(c, q) PROVE ReplyInv'
  BY <1>1 DEF Call
<1>2. ASSUME NEW c \in Callers, RejectQuery(c) PROVE ReplyInv'
  BY <1>2 DEF RejectQuery
<1>3. ASSUME NEW c \in Callers, BeginQuery(c) PROVE ReplyInv'
  BY <1>3 DEF BeginQuery
<1>4. ASSUME NEW c \in Callers, Dial(c) PROVE ReplyInv'
  BY <1>4 DEF Dial
<1>5. ASSUME NEW c \in Callers, DialFail(c) PROVE ReplyInv'
  BY <1>5 DEF DialFail
<1>6. ASSUME NEW c \in Callers, Adopt(c) PROVE ReplyInv'
  <2>1. CASE closed
    <3>1. Return(c, "error", None) /\ arg[c] \in Requests
      BY <1>6, <2>1 DEF Adopt
    <3>2. QED
      BY <3>1, ReturnReply
  <2>2. CASE ~closed
    <3>1. UNCHANGED <<outcome, replyTo>>
      BY <1>6, <2>2 DEF Adopt
    <3>2. QED
      BY <3>1
  <2>3. QED
    BY <2>1, <2>2
<1>7. ASSUME NEW c \in Callers, Write(c) PROVE ReplyInv'
  BY <1>7 DEF Write
<1>8. ASSUME NEW c \in Callers, WriteFail(c) PROVE ReplyInv'
  BY <1>8 DEF WriteFail
<1>9. ASSUME NEW c \in Callers, Read(c) PROVE ReplyInv'
  <2> DEFINE reply == Head(outbox[local[c]])
  <2>1. arg[c] \in Requests /\ outbox[local[c]] # <<>>
    BY <1>9 DEF Read
  <2>2. reply.to = arg[c]
    <3>1. PICK f \in Frames : f.to = arg[c] /\ outbox[local[c]] = <<f>>
      BY <1>9, <2>1 DEF Read
    <3>2. QED
      BY <3>1
  <2>3. CASE reply.valid
    <3>1. Return(c, "reply", reply.to)
      BY <1>9, <2>3 DEF Read
    <3>2. QED
      BY <2>1, <2>2, <3>1, ReturnReply
  <2>4. CASE ~reply.valid
    <3>1. UNCHANGED <<outcome, replyTo>>
      BY <1>9, <2>4 DEF Read
    <3>2. QED
      BY <3>1
  <2>5. QED
    BY <2>3, <2>4
<1>10. ASSUME NEW c \in Callers, ReadFail(c) PROVE ReplyInv'
  BY <1>10 DEF ReadFail
<1>11. ASSUME NEW p \in Procs, Close(p) PROVE ReplyInv'
  BY <1>11 DEF Close
<1>12. ASSUME NEW p \in Procs, CloseAgain(p) PROVE ReplyInv'
  <2>1. CASE p \in Closers
    <3>1. UNCHANGED <<outcome, replyTo>>
      BY <1>12, <2>1 DEF CloseAgain
    <3>2. QED
      BY <3>1
  <2>2. CASE p \in Callers
    <3>1. Return(p, "error", None) /\ arg[p] \in Requests
      BY <1>12, <2>2 DEF CloseAgain
    <3>2. QED
      BY <2>2, <3>1, ReturnReply
  <2>3. QED
    BY <2>1, <2>2
<1>13. ASSUME NEW p \in Procs, ReleaseConn(p) PROVE ReplyInv'
  <2>1. CASE p \in Closers
    <3>1. UNCHANGED <<outcome, replyTo>>
      BY <1>13, <2>1 DEF ReleaseConn
    <3>2. QED
      BY <3>1
  <2>2. CASE p \in Callers
    <3>1. Return(p, "error", None) /\ arg[p] \in Requests
      BY <1>13, <2>2 DEF ReleaseConn
    <3>2. QED
      BY <2>2, <3>1, ReturnReply
  <2>3. QED
    BY <2>1, <2>2
<1>14. ASSUME NEW k \in Conns, AgentReply(k) PROVE ReplyInv'
  BY <1>14 DEF AgentReply
<1>15. CASE UNCHANGED vars
  BY <1>15 DEF vars
<1>16. QED
  BY <1>1, <1>2, <1>3, <1>4, <1>5, <1>6, <1>7, <1>8, <1>9, <1>10, <1>11,
     <1>12, <1>13, <1>14, <1>15 DEF Next

-----------------------------------------------------------------------------
LEMMA IInvStep == IInv /\ [Next]_vars => IInv'
  BY TypeStep, ConnStep, WireStep, CallStep, ReplyStep DEF IInv

THEOREM Invariance == Spec => []IInv
  BY InitIInv, IInvStep, PTL DEF Spec

\* "ReplyMatchesRequest" in every behavior: a successful Query returns the reply
\* to its own request, for any number of goroutines and any agent.
THEOREM ReplyCorrect == Spec => []ReplyMatchesRequest
<1>1. IInv => ReplyMatchesRequest
  BY DEF IInv, ReplyInv
<1>2. QED
  BY <1>1, Invariance, PTL

\* "NeverReconnects" in every behavior: one Session never uses two pipe
\* instances, so session-bind state is never dropped silently (agent.go 52).
THEOREM ReconnectFree == Spec => []NeverReconnects
<1>1. IInv => NeverReconnects
  BY DEF IInv, ConnInv
<1>2. QED
  BY <1>1, Invariance, PTL

\* "NoLeakedPipe" in every behavior: no interleaving of Close with a dial leaves
\* an open pipe without an owner (agent.go 96-103, 119-126).
THEOREM LeakFree == Spec => []NoLeakedPipe
<1>1. IInv => NoLeakedPipe
  BY DEF IInv, ConnInv
<1>2. QED
  BY <1>1, Invariance, PTL

\* "SerialWire" in every behavior: a request is written only on a pipe with
\* nothing of an earlier request in flight (agent.go 105-108).
THEOREM WireSerial == Spec => []SerialWire
<1>1. IInv => SerialWire
  BY DEF IInv, WireInv, Quiet, SerialWire
<1>2. QED
  BY <1>1, Invariance, PTL

-----------------------------------------------------------------------------
(* The contract: what AgentSession's variables mean to a caller of Query.    *)

LEMMA FinishedSession ==
  ASSUME closed' = closed, InServiceRequest' = None
  PROVE  [retired |-> closed', current |-> InServiceRequest']
           = [[retired |-> closed, current |-> InServiceRequest] EXCEPT !.current = None]
OBVIOUS

LEMMA RetiredSession ==
  ASSUME closed' = TRUE, InServiceRequest' = InServiceRequest
  PROVE  [retired |-> closed', current |-> InServiceRequest']
           = [[retired |-> closed, current |-> InServiceRequest] EXCEPT !.retired = TRUE]
<1>1. \A r, q, x : [[retired |-> r, current |-> q] EXCEPT !.retired = x]
                     = [retired |-> x, current |-> q]
  OBVIOUS
<1>2. [[retired |-> closed, current |-> InServiceRequest] EXCEPT !.retired = TRUE]
        = [retired |-> TRUE, current |-> InServiceRequest]
  BY <1>1, Zenon
<1>3. [retired |-> closed', current |-> InServiceRequest']
        = [retired |-> TRUE, current |-> InServiceRequest]
  OBVIOUS
<1>4. QED
  BY <1>2, <1>3

LEMMA ContractInit == Init => Contract!Init
  BY DEF Init, InServiceRequest, Contract!Init, Contract!NewSession

\* Query's return by the goroutine in service, on an error: the session is
\* closed by then.
LEMMA FailStep ==
  ASSUME IInv, NEW c \in Callers, queryMu = c, closed,
         UNCHANGED <<closed, arg>>, Return(c, "error", None)
  PROVE  Contract!Fail
<1> USE SessionAssumption DEF IInv, TypeOK, VarTypes, Control, Procs, Busy, Return
<1>1. c # None /\ arg[c] \in Requests /\ arg[c] # None /\ queryMu' = None
  OBVIOUS
<1>2. pc[c] # "idle" => outcome[arg[c]] = "pending"
  BY DEF CallInv
<1>3. pc[c] # "idle"
  OBVIOUS
<1>4. replyTo' = replyTo
  BY <1>1, <1>2, <1>3 DEF ReplyInv
<1>5. outcome' = [outcome EXCEPT ![arg[c]] = "error"]
  OBVIOUS
<1>6. InServiceRequest = arg[c] /\ InServiceRequest' = None
  BY <1>1 DEF InServiceRequest
<1>7. [retired |-> closed', current |-> InServiceRequest']
        = [[retired |-> closed, current |-> InServiceRequest] EXCEPT !.current = None]
  BY <1>6, FinishedSession
<1>8. QED
  BY <1>1, <1>4, <1>5, <1>6, <1>7 DEF Contract!Fail, Contract!InService, Contract!Finished

LEMMA ContractStep == IInv /\ [Next]_vars => [Contract!Next]_Contract!vars
<1> SUFFICES ASSUME IInv, [Next]_vars PROVE [Contract!Next]_Contract!vars
    OBVIOUS
<1> USE SessionAssumption DEF IInv, TypeOK, VarTypes, Control, Procs, Busy, Goto,
        sessionVars, wireVars, resultVars, Contract!vars
<1>1. ASSUME NEW c \in Callers, NEW q \in Requests, Call(c, q)
      PROVE  Contract!Submit(q)
  BY <1>1 DEF Call, InServiceRequest, Contract!Submit
<1>2. ASSUME NEW c \in Callers, RejectQuery(c) PROVE Contract!Refuse(arg[c])
  BY <1>2 DEF RejectQuery, InServiceRequest, Return, CallInv, ReplyInv, Contract!Refuse
<1>3. ASSUME NEW c \in Callers, BeginQuery(c) PROVE Contract!Start(arg[c])
  <2>1. InServiceRequest = None /\ InServiceRequest' = arg[c]
    BY <1>3 DEF BeginQuery, InServiceRequest
  <2>2. QED
    BY <1>3, <2>1 DEF BeginQuery, CallInv, Contract!Start, Contract!MayStart, Contract!Started
<1>4. ASSUME NEW c \in Callers, Dial(c) PROVE UNCHANGED Contract!vars
  BY <1>4 DEF Dial, InServiceRequest
<1>5. ASSUME NEW c \in Callers, DialFail(c) PROVE UNCHANGED Contract!vars
  BY <1>5 DEF DialFail, InServiceRequest
<1>6. ASSUME NEW c \in Callers, Adopt(c) PROVE Contract!Fail \/ UNCHANGED Contract!vars
  <2>1. CASE closed
    BY <1>6, <2>1, FailStep DEF Adopt
  <2>2. CASE ~closed
    BY <1>6, <2>2 DEF Adopt, InServiceRequest
  <2>3. QED
    BY <2>1, <2>2
<1>7. ASSUME NEW c \in Callers, Write(c) PROVE UNCHANGED Contract!vars
  BY <1>7 DEF Write, InServiceRequest
<1>8. ASSUME NEW c \in Callers, WriteFail(c) PROVE UNCHANGED Contract!vars
  BY <1>8 DEF WriteFail, InServiceRequest
<1>9. ASSUME NEW c \in Callers, Read(c) PROVE Contract!Answer \/ UNCHANGED Contract!vars
  <2> DEFINE reply == Head(outbox[local[c]])
  <2>1. arg[c] \in Requests /\ queryMu = c /\ c # None /\ outbox[local[c]] # <<>>
    BY <1>9 DEF Read
  <2>2. CASE ~reply.valid
    <3>1. UNCHANGED <<queryMu, closed, arg, outcome, replyTo>>
      BY <1>9, <2>2 DEF Read
    <3>2. QED
      BY <3>1 DEF InServiceRequest
  <2>3. CASE reply.valid
    <3>1. Return(c, "reply", reply.to) /\ UNCHANGED <<closed, arg>>
      BY <1>9, <2>3 DEF Read
    <3>2. reply.to = arg[c]
      <4>1. PICK f \in Frames : f.to = arg[c] /\ outbox[local[c]] = <<f>>
        BY <1>9, <2>1 DEF Read, WireInv
      <4>2. QED
        BY <4>1
    <3>3. /\ queryMu' = None
          /\ outcome' = [outcome EXCEPT ![arg[c]] = "reply"]
          /\ replyTo' = [replyTo EXCEPT ![arg[c]] = arg[c]]
      BY <3>1, <3>2 DEF Return
    <3>4. InServiceRequest = arg[c] /\ InServiceRequest' = None /\ arg[c] # None
      BY <2>1, <3>3 DEF InServiceRequest
    <3>5. [retired |-> closed', current |-> InServiceRequest']
            = [[retired |-> closed, current |-> InServiceRequest] EXCEPT !.current = None]
      BY <3>1, <3>4
    <3>6. Contract!Answer
      BY <3>3, <3>4, <3>5 DEF Contract!Answer, Contract!InService, Contract!Finished
    <3>7. QED
      BY <3>6
  <2>4. QED
    BY <2>2, <2>3
<1>10. ASSUME NEW c \in Callers, ReadFail(c) PROVE UNCHANGED Contract!vars
  BY <1>10 DEF ReadFail, InServiceRequest
<1>11. ASSUME NEW p \in Procs, Close(p) PROVE Contract!Retire
  <2>1. ~closed /\ closed' /\ UNCHANGED <<queryMu, arg, outcome, replyTo>>
    BY <1>11 DEF Close
  <2>2. InServiceRequest' = InServiceRequest
    BY <2>1 DEF InServiceRequest
  <2>3. [retired |-> closed', current |-> InServiceRequest']
          = [[retired |-> closed, current |-> InServiceRequest] EXCEPT !.retired = TRUE]
    <3>1. closed' = TRUE
      BY <1>11 DEF Close
    <3>2. QED
      BY <2>2, <3>1, RetiredSession
  <2>4. QED
    BY <2>1, <2>3 DEF Contract!Retire, Contract!Retired
<1>12. ASSUME NEW p \in Procs, CloseAgain(p)
       PROVE  Contract!Fail \/ UNCHANGED Contract!vars
  <2>1. CASE p \in Closers
    BY <1>12, <2>1 DEF CloseAgain, InServiceRequest
  <2>2. CASE p \in Callers
    BY <1>12, <2>2, FailStep DEF CloseAgain
  <2>3. QED
    BY <2>1, <2>2
<1>13. ASSUME NEW p \in Procs, ReleaseConn(p)
       PROVE  Contract!Fail \/ UNCHANGED Contract!vars
  <2>1. CASE p \in Closers
    BY <1>13, <2>1 DEF ReleaseConn, InServiceRequest
  <2>2. CASE p \in Callers
    BY <1>13, <2>2, FailStep DEF ReleaseConn, ConnInv, ReleaseInv
  <2>3. QED
    BY <2>1, <2>2
<1>14. ASSUME NEW k \in Conns, AgentReply(k) PROVE UNCHANGED Contract!vars
  BY <1>14 DEF AgentReply, InServiceRequest
<1>15. CASE UNCHANGED vars
  BY <1>15 DEF vars, InServiceRequest
<1>16. ASSUME NEW c \in Callers, RejectQuery(c) \/ BeginQuery(c) PROVE arg[c] \in Requests
  BY <1>16 DEF RejectQuery, BeginQuery
<1>17. QED
  BY <1>1, <1>2, <1>3, <1>4, <1>5, <1>6, <1>7, <1>8, <1>9, <1>10, <1>11,
     <1>12, <1>13, <1>14, <1>15, <1>16 DEF Next, Contract!Next

\* "ImplementsContract": dialling, the two mutexes, deadlines and Close together
\* behave as the session of SessionContract, for every value of the constants.
THEOREM SessionImplementsContract == Spec => ImplementsContract
<1>1. Init => Contract!Init
  BY ContractInit
<1>2. IInv /\ [Next]_vars => [Contract!Next]_Contract!vars
  BY ContractStep
<1>3. QED
  BY <1>1, <1>2, Invariance, PTL DEF Spec, ImplementsContract, Contract!Spec
=============================================================================
