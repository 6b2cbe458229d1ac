--------------------------- MODULE LegacyIPCProofs ---------------------------
(* What handleCopyData forwards and what an honest client finds in its        *)
(* mapping, for any clients, mappings, limit and width of the length prefix.  *)
EXTENDS LegacyIPC, TLAPS

\* Only a thread that is up serves, the mapping it serves has room for a frame, and
\* each local variable of the handler is what the steps before have checked.
HandlerInv ==
  /\ thread # "up" => at = "idle"
  /\ at # "idle" => mem[serving].region >= 5
  /\ at = "sized" => 1 <= length /\ length <= n - 4
  /\ at \in {"copied", "query"} => request.size <= n
  /\ at = "query" => Valid(request)
  /\ at = "answered" => result.size = result.prefix + 4

\* An honest client waits while it is served, and what the handler has of it is
\* its own.
HonestServed ==
  \A c \in Honest : serving = c =>
    /\ client[c] = "served"
    /\ at \in {"copied", "query"} => request.data = Datum("request", c)
    /\ at = "answered" => result.data \in {Datum("reply", c), Failure.data}

IPCInv == TypeOK /\ HandlerInv /\ HonestServed /\ HonestAnswered

LEMMA DatumType ==
  ASSUME NEW c \in Clients
  PROVE  /\ Datum("request", c) \in Data /\ Datum("reply", c) \in Data
         /\ Datum("failure", NoClient) \in Data
         /\ Datum("request", NoClient) \in Data
BY DEF Datum, Data

LEMMA FrameType ==
  /\ NoFrame \in [prefix : 0..(Word - 1), size : Nat, data : Data]
  /\ Failure \in [prefix : 0..(Word - 1), size : Nat, data : Data]
  /\ Failure.size = 5 /\ Failure.prefix = 1
BY IPCAssumption DEF NoFrame, Failure, Datum, Data

LEMMA ReplyType ==
  ASSUME NEW c \in Clients \cup {NoClient}, NEW r \in Replies(c)
  PROVE  /\ r \in [prefix : 0..(Word - 1), size : Nat, data : Data]
         /\ r.size = r.prefix + 4 /\ r.data = Datum("reply", c)
BY IPCAssumption DEF Replies, Datum, Data

LEMMA IPCInit == Init => IPCInv
<1> SUFFICES ASSUME Init PROVE IPCInv OBVIOUS
<1>1. mem \in [Clients -> [region : Regions, prefix : 0..(Word - 1), data : Data]]
  BY IPCAssumption DEF Init, Datum, Data
<1>2. TypeOK
  <2>1. client \in [Clients -> Waiting \cup {"free", "answered", "refused"}]
    BY DEF Init
  <2>2. /\ length \in 0..(Word - 1)
        /\ {request, result} \subseteq [prefix : 0..(Word - 1), size : Nat, data : Data]
    BY FrameType, IPCAssumption DEF Init
  <2> QED BY <1>1, <2>1, <2>2 DEF Init, TypeOK
<1>3. HandlerInv /\ HonestServed
  BY IPCAssumption DEF Init, HandlerInv, HonestServed
<1>4. HonestAnswered
  BY IPCAssumption DEF Init, HonestAnswered
<1> QED BY <1>2, <1>3, <1>4 DEF IPCInv

\* A return of handleCopyData, whatever is in the mapping of the client.
LEMMA ReturnKeeps ==
  ASSUME IPCInv, NEW v \in {"answered", "refused"}, at # "idle",
         ReturnTo(serving, v), UNCHANGED threadVars,
         mem' \in [Clients -> [region : Regions, prefix : 0..(Word - 1), data : Data]],
         \A c \in Clients \ {serving} : mem'[c] = mem[c],
         \A c \in Honest : serving = c =>
           IF v = "answered"
           THEN /\ mem'[c].prefix + 4 <= mem'[c].region
                /\ mem'[c].data \in {Datum("reply", c), Failure.data}
           ELSE mem'[c].data = Datum("request", c)
  PROVE  IPCInv'
<1> USE DEF IPCInv
<1>1. serving \in Clients
  BY DEF TypeOK
<1>2. TypeOK'
  BY <1>1, FrameType, IPCAssumption DEF TypeOK, ReturnTo, threadVars, Waiting
<1>3. HandlerInv' /\ HonestServed'
  BY IPCAssumption DEF HandlerInv, HonestServed, ReturnTo
<1>4. HonestAnswered'
  <2> SUFFICES ASSUME NEW c \in Honest
               PROVE  /\ client'[c] = "answered" =>
                           /\ mem'[c].prefix + 4 <= mem'[c].region
                           /\ mem'[c].data \in {Datum("reply", c), Failure.data}
                      /\ client'[c] \in {"sent", "served", "refused"} =>
                           mem'[c].data = Datum("request", c)
    BY DEF HonestAnswered, Failure
  <2>1. CASE serving = c
    BY <2>1, <1>1 DEF HonestServed, ReturnTo, TypeOK
  <2>2. CASE serving # c
    BY <2>2, <1>1, IPCAssumption DEF HonestAnswered, ReturnTo, TypeOK
  <2> QED BY <2>1, <2>2
<1> QED BY <1>2, <1>3, <1>4

\* A step of a client on its own mapping.
LEMMA ClientKeeps ==
  ASSUME IPCInv, NEW c \in Clients,
         Send(c) \/ Scribble(c) \/ GiveUp(c) \/ SendFails(c)
  PROVE  IPCInv'
<1> USE DEF IPCInv
<1>1. /\ mem' \in [Clients -> [region : Regions, prefix : 0..(Word - 1), data : Data]]
      /\ \A d \in Clients : mem'[d].region = mem[d].region
      /\ \A d \in Clients \ {c} : mem'[d] = mem[d]
      /\ c \in Honest => mem'[c].data \in {mem[c].data, Datum("request", c)}
  <2>1. CASE Send(c) \/ Scribble(c)
    <3>1. PICK p \in Prefixes :
            mem' = [mem EXCEPT ![c].prefix = p, ![c].data = Datum("request", c)]
      BY <2>1 DEF Send, Scribble
    <3>2. p \in 0..(Word - 1) /\ Datum("request", c) \in Data
      BY IPCAssumption, DatumType
    <3> DEFINE r == [mem[c] EXCEPT !.prefix = p, !.data = Datum("request", c)]
    <3>3. /\ r \in [region : Regions, prefix : 0..(Word - 1), data : Data]
          /\ r.region = mem[c].region /\ r.data = Datum("request", c)
      BY <3>2 DEF TypeOK
    <3>4. mem' = [mem EXCEPT ![c] = r]
      BY <3>1
    <3> HIDE DEF r
    <3> QED BY <3>3, <3>4 DEF TypeOK
  <2>2. CASE GiveUp(c) \/ SendFails(c)
    BY <2>2 DEF GiveUp, SendFails, TypeOK
  <2> QED BY <2>1, <2>2
<1>2. /\ UNCHANGED <<threadVars, handlerVars>>
      /\ client' \in [Clients -> Waiting \cup {"free", "answered", "refused"}]
      /\ \A d \in Clients \ {c} : client'[d] = client[d]
  BY DEF Send, Scribble, GiveUp, SendFails, TypeOK, Waiting
<1>3. c \in Honest =>
        /\ client'[c] \in {"sent", "refused"}
        /\ mem'[c].data = Datum("request", c)
  <2> SUFFICES ASSUME c \in Honest
               PROVE  /\ client'[c] \in {"sent", "refused"}
                      /\ mem'[c].data = Datum("request", c)
    OBVIOUS
  <2>1. CASE Send(c)
    <3>1. PICK p \in Prefixes :
            mem' = [mem EXCEPT ![c].prefix = p, ![c].data = Datum("request", c)]
      BY <2>1 DEF Send
    <3>2. mem'[c].data = Datum("request", c)
      BY <3>1 DEF TypeOK
    <3> QED BY <2>1, <3>2 DEF Send, TypeOK
  <2>2. CASE SendFails(c)
    BY <2>2 DEF SendFails, TypeOK, HonestAnswered, Waiting
  <2> QED BY <2>1, <2>2 DEF Scribble, GiveUp
<1>4. TypeOK'
  BY <1>1, <1>2 DEF TypeOK, threadVars, handlerVars
<1>5. HandlerInv'
  <2>1. /\ UNCHANGED <<thread, at, serving, length, request, result>>
        /\ at # "idle" => serving \in Clients
    BY <1>2 DEF TypeOK, threadVars, handlerVars
  <2>2. at # "idle" => mem'[serving'].region = mem[serving].region /\ n' = n
    BY <1>1, <2>1 DEF n
  <2> QED BY <2>1, <2>2 DEF HandlerInv, Valid
<1>6. HonestServed'
  <2>1. serving = c /\ c \in Honest => FALSE
    BY IPCAssumption DEF HonestServed, HandlerInv, TypeOK, Send, Scribble, GiveUp, SendFails,
       Waiting
  <2> QED BY <1>2, <2>1, IPCAssumption DEF HonestServed, handlerVars
<1>7. HonestAnswered'
  BY <1>1, <1>2, <1>3, IPCAssumption DEF HonestAnswered
<1> QED BY <1>4, <1>5, <1>6, <1>7
\* Of the handler's steps that do not return, each keeps mappings and clients.
LEMMA HandlerKeeps ==
  ASSUME IPCInv, ReadLength \/ Copy \/ Query \/ Answer
  PROVE  IPCInv'
<1> USE DEF IPCInv
<1>1. /\ UNCHANGED <<threadVars, client, mem, serving>>
      /\ serving \in Clients /\ at # "idle" /\ at' # "idle" /\ n' = n
  BY DEF ReadLength, Copy, Query, Answer, TypeOK, n
<1>2. HonestAnswered'
  BY <1>1 DEF HonestAnswered
<1>3. CASE ReadLength
  <2>1. length' \in 0..(Word - 1)
    BY <1>1, <1>3 DEF ReadLength, TypeOK
  <2> QED BY <1>1, <1>2, <1>3, <2>1
          DEF ReadLength, TypeOK, HandlerInv, HonestServed, threadVars
<1>4. CASE Copy
  <2>1. mem[serving].prefix \in 0..(Word - 1) /\ mem[serving].data \in Data
    BY <1>1 DEF TypeOK
  <2>2. /\ request' \in [prefix : 0..(Word - 1), size : Nat, data : Data]
        /\ request'.size <= n
        /\ request'.data = mem[serving].data
    <3>1. length + 4 \in Nat /\ length + 4 <= n
      <4>1. n \in Nat
        BY <1>1, IPCAssumption DEF TypeOK, n, Smaller
      <4> QED BY <1>4, <4>1, IPCAssumption DEF Copy, HandlerInv, TypeOK
    <3> QED BY <1>4, <2>1, <3>1 DEF Copy
  <2>3. TypeOK' /\ HandlerInv'
    BY <1>1, <1>4, <2>2 DEF Copy, TypeOK, HandlerInv, threadVars
  <2>4. HonestServed'
    BY <1>1, <1>4, <2>2 DEF Copy, HonestServed, HonestAnswered
  <2> QED BY <1>2, <2>3, <2>4
<1>5. CASE Query
  <2>1. result' \in [prefix : 0..(Word - 1), size : Nat, data : Data]
    BY <1>5, FrameType DEF Query, TypeOK
  <2>2. TypeOK'
    BY <1>1, <1>5, <2>1 DEF Query, TypeOK, threadVars
  <2>3. HandlerInv' /\ HonestServed'
    BY <1>1, <1>5, FrameType DEF Query, HandlerInv, HonestServed, Valid, threadVars
  <2> QED BY <1>2, <2>2, <2>3
<1>6. CASE Answer
  <2>1. request.data.of \in Clients \cup {NoClient}
    BY DEF TypeOK, Data
  <2>2. /\ result' \in [prefix : 0..(Word - 1), size : Nat, data : Data]
        /\ result'.size = result'.prefix + 4
        /\ result'.data \in {Datum("reply", request.data.of), Failure.data}
    BY <1>6, <2>1, FrameType, ReplyType DEF Answer
  <2>3. TypeOK' /\ HandlerInv'
    BY <1>1, <1>6, <2>2 DEF Answer, TypeOK, HandlerInv, threadVars
  <2>4. HonestServed'
    <3>1. at = "query" /\ at' = "answered"
      BY <1>6 DEF Answer
    <3>2. \A c \in Honest : serving = c => request.data.of = c
      <4>1. \A c \in Honest : serving = c => request.data = Datum("request", c)
        BY <3>1 DEF HonestServed
      <4>2. \A c : Datum("request", c).of = c
        BY DEF Datum
      <4> QED BY <4>1, <4>2
    <3> QED BY <1>1, <2>2, <3>1, <3>2 DEF HonestServed, Failure
  <2> QED BY <1>2, <2>3, <2>4
<1> QED BY <1>3, <1>4, <1>5, <1>6

LEMMA WriteBackKeeps == IPCInv /\ WriteBack => IPCInv'
<1> SUFFICES ASSUME IPCInv, WriteBack PROVE IPCInv' OBVIOUS
<1> USE DEF IPCInv
<1> DEFINE out == IF result.size > n THEN Failure ELSE result
           r == [mem[serving] EXCEPT !.prefix = out.prefix, !.data = out.data]
<1>1. serving \in Clients /\ at = "answered"
  BY DEF WriteBack, TypeOK
<1>2. n \in Nat /\ 5 <= n /\ n <= mem[serving].region
  <2>1. /\ mem[serving].region \in Nat /\ 5 <= mem[serving].region
        /\ Capacity \in Nat /\ 5 <= Capacity
    BY <1>1, IPCAssumption DEF HandlerInv, TypeOK
  <2> QED BY <2>1 DEF n, Smaller
<1>3. /\ out \in [prefix : 0..(Word - 1), size : Nat, data : Data]
      /\ out.prefix + 4 <= n
      /\ out.data \in {result.data, Failure.data}
  BY <1>1, <1>2, FrameType DEF HandlerInv, TypeOK
<1>4. mem' = [mem EXCEPT ![serving] = r]
  BY DEF WriteBack
<1> HIDE DEF out
<1>5. /\ r \in [region : Regions, prefix : 0..(Word - 1), data : Data]
      /\ r.prefix = out.prefix /\ r.data = out.data /\ r.region = mem[serving].region
  <2>1. mem[serving] \in [region : Regions, prefix : 0..(Word - 1), data : Data]
    BY <1>1 DEF TypeOK
  <2>2. out.prefix \in 0..(Word - 1) /\ out.data \in Data
    BY <1>3
  <2> QED BY <2>1, <2>2
<1> HIDE DEF r
<1>6. /\ mem' \in [Clients -> [region : Regions, prefix : 0..(Word - 1), data : Data]]
      /\ \A c \in Clients \ {serving} : mem'[c] = mem[c]
      /\ mem'[serving] = r
  BY <1>1, <1>4, <1>5 DEF TypeOK
<1>7. r.prefix \in Nat /\ r.region \in Nat /\ r.prefix + 4 <= r.region
  BY <1>1, <1>2, <1>3, <1>5, IPCAssumption DEF TypeOK
<1>8. \A c \in Honest : serving = c =>
        /\ mem'[c].prefix + 4 <= mem'[c].region
        /\ mem'[c].data \in {Datum("reply", c), Failure.data}
  BY <1>1, <1>3, <1>5, <1>6, <1>7 DEF HonestServed
<1>9. ReturnTo(serving, "answered") /\ UNCHANGED threadVars
  BY DEF WriteBack
<1> QED BY <1>1, <1>6, <1>8, <1>9, ReturnKeeps

LEMMA BadLengthKeeps == IPCInv /\ BadLength => IPCInv'
<1> SUFFICES ASSUME IPCInv, BadLength PROVE IPCInv' OBVIOUS
<1>1. /\ at # "idle" /\ ReturnTo(serving, "refused") /\ UNCHANGED <<threadVars, mem>>
      /\ mem \in [Clients -> [region : Regions, prefix : 0..(Word - 1), data : Data]]
  BY DEF BadLength, IPCInv, TypeOK
<1>2. \A c \in Honest : serving = c => mem[c].data = Datum("request", c)
  BY DEF IPCInv, HonestServed, HonestAnswered
<1> QED BY <1>1, <1>2, ReturnKeeps

\* A message is taken, and is served or refused.
LEMMA OpenKeeps ==
  ASSUME IPCInv, NEW c \in Clients, Open(c) \/ OpenFail(c)
  PROVE  IPCInv'
<1> USE DEF IPCInv
<1>1. /\ mem' = mem /\ UNCHANGED <<threadVars, length, request, result>>
      /\ thread = "up" /\ at = "idle" /\ client[c] = "sent"
      /\ client' \in [Clients -> Waiting \cup {"free", "answered", "refused"}]
      /\ client'[c] \in {"served", "refused"}
      /\ \A d \in Clients \ {c} : client'[d] = client[d]
  <2>1. CASE Open(c) BY <2>1 DEF Open, TypeOK, Waiting
  <2>2. CASE OpenFail(c) BY <2>2 DEF OpenFail, TypeOK, Waiting, handlerVars
  <2> QED BY <2>1, <2>2
<1>2. HonestAnswered'
  BY <1>1, IPCAssumption DEF HonestAnswered
<1>3. CASE Open(c)
  <2>1. TypeOK'
    BY <1>1, <1>3, IPCAssumption DEF Open, TypeOK, threadVars
  <2>2. HandlerInv' /\ HonestServed'
    BY <1>1, <1>3 DEF Open, TypeOK, HandlerInv, HonestServed, threadVars
  <2> QED BY <1>2, <2>1, <2>2
<1>4. CASE OpenFail(c)
  <2>1. UNCHANGED handlerVars /\ serving = NoClient
    BY <1>4 DEF OpenFail, TypeOK
  <2>2. TypeOK' /\ HandlerInv' /\ HonestServed'
    BY <1>1, <2>1, IPCAssumption
    DEF TypeOK, HandlerInv, HonestServed, threadVars, handlerVars
  <2> QED BY <1>2, <2>2
<1> QED BY <1>3, <1>4

\* The thread comes and goes only while the handler is idle, or makes it so.
LEMMA ThreadKeeps ==
  ASSUME IPCInv, Start \/ Stop \/ Watch \/ LoopEnds \/ ProcessEnds
  PROVE  IPCInv'
<1> USE DEF IPCInv
<1>1. client' = client /\ mem' = mem
  BY DEF Start, Stop, Watch, LoopEnds, ProcessEnds
<1>2. HonestAnswered'
  BY <1>1 DEF HonestAnswered
<1>3. CASE Start \/ Stop \/ Watch \/ LoopEnds
  <2>1. UNCHANGED handlerVars /\ (thread' = "up" \/ at = "idle" \/ thread' = thread)
    BY <1>3 DEF Start, Stop, Watch, LoopEnds, HandlerInv
  <2>2. TypeOK'
    BY <1>1, <1>3, <2>1 DEF Start, Stop, Watch, LoopEnds, TypeOK, handlerVars
  <2>3. HandlerInv' /\ HonestServed'
    BY <1>1, <2>1 DEF HandlerInv, HonestServed, handlerVars, n, Valid
  <2> QED BY <1>2, <2>2, <2>3
<1>4. CASE ProcessEnds
  <2>1. TypeOK'
    <3>1. {request', result'} \subseteq
            [prefix : 0..(Word - 1), size : Nat, data : Data]
      BY <1>4, FrameType DEF ProcessEnds
    <3>2. length' \in 0..(Word - 1)
      BY <1>4, IPCAssumption DEF ProcessEnds
    <3> QED BY <1>1, <1>4, <3>1, <3>2 DEF ProcessEnds, TypeOK
  <2>2. HandlerInv' /\ HonestServed'
    BY <1>4, IPCAssumption DEF ProcessEnds, HandlerInv, HonestServed
  <2> QED BY <1>2, <2>1, <2>2
<1> QED BY <1>3, <1>4

LEMMA IPCStep == IPCInv /\ [Next]_vars => IPCInv'
<1> SUFFICES ASSUME IPCInv, [Next]_vars PROVE IPCInv' OBVIOUS
<1>1. CASE UNCHANGED vars
  BY <1>1 DEF vars, threadVars, handlerVars, IPCInv, TypeOK, HandlerInv, HonestServed,
     HonestAnswered, n, Valid
<1>2. CASE Next
  BY <1>2, ClientKeeps, HandlerKeeps, WriteBackKeeps, BadLengthKeeps, OpenKeeps,
     ThreadKeeps DEF Next, Handle
<1> QED BY <1>1, <1>2

LEMMA IPCInvHolds == Spec => []IPCInv
<1> QED BY IPCInit, IPCStep, PTL DEF Spec

\* Types, and a handler that is idle serves nobody.
THEOREM TypeCorrect == Spec => []TypeOK
<1>1. IPCInv => TypeOK BY DEF IPCInv
<1> QED BY <1>1, IPCInvHolds, PTL

\* No client can make the handler copy beyond its mapping or forward anything
\* but a whole frame, whatever it writes between the two reads (handleCopyData).
THEOREM ForwardsFrames == Spec => []OnlyFramesForwarded
<1>1. IPCInv => OnlyFramesForwarded
  BY DEF IPCInv, HandlerInv, OnlyFramesForwarded
<1> QED BY <1>1, IPCInvHolds, PTL

\* An honest client finds its own reply or a failure, or its request untouched,
\* whatever the others do (handleCopyData).
THEOREM AnswersHonest == Spec => []HonestAnswered
<1>1. IPCInv => HonestAnswered BY DEF IPCInv
<1> QED BY <1>1, IPCInvHolds, PTL
=============================================================================
