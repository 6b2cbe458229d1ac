------------------------------ MODULE LegacyIPC ------------------------------
(***************************************************************************)
(* Pageant's legacy transport (pageant/run_windows.go): a client puts a    *)
(* request into a file mapping and sends WM_COPYDATA with its name; the    *)
(* thread of runIPCWindow answers in the same mapping (handleCopyData).    *)
(*                                                                         *)
(* The client can change the mapping at any time. The handler reads it     *)
(* twice, for the length and for the request, and writes it once: three    *)
(* actions. Bytes are abstracted to the length prefix and to whose request *)
(* or reply the rest is.                                                   *)
(***************************************************************************)
EXTENDS Naturals, FiniteSets

CONSTANTS Clients, Honest,  \* Honest leave the mapping alone while they wait
          Word,             \* length prefixes are unsigned, below Word (2^32)
          Capacity,         \* AgentMaxMessageLength
          Regions,          \* sizes mappings can have
          Prefixes,         \* bound: length prefixes clients write
          ReplySizes,       \* bound: sizes of valid replies
          NoClient

ASSUME IPCAssumption ==
  /\ Honest \subseteq Clients /\ NoClient \notin Clients
  /\ {Word, Capacity} \subseteq Nat /\ 5 <= Capacity /\ Capacity < Word
  /\ Regions \subseteq Nat /\ Prefixes \subseteq 0..(Word - 1)
  /\ ReplySizes \subseteq 5..(Word - 1)

VARIABLES thread,   \* the IPC thread: "starting", "up", "failed" or "closed"
          stop,     \* Run has closed stopIPC
          watcher,  \* its goroutine on stopIPC: "none", "waiting" or "gone"
          closeMsg, \* WM_CLOSE is posted to the window
          client,   \* what each client is doing
          mem,      \* the mapping of each client
          at,       \* where handleCopyData is
          serving,  \* the client whose message it handles
          length, request, result  \* its local variables

threadVars  == <<thread, stop, watcher, closeMsg>>
handlerVars == <<at, serving, length, request, result>>
vars == <<threadVars, client, mem, handlerVars>>

Smaller(x, y) == IF x < y THEN x ELSE y
Datum(kind, c) == [kind |-> kind, of |-> c]
Data == [kind : {"request", "reply", "failure"}, of : Clients \cup {NoClient}]
Waiting == {"sent", "served"}   \* in SendMessage

NoFrame == [prefix |-> 0, size |-> 0, data |-> Datum("failure", NoClient)]
\* agentFailure
Failure == [prefix |-> 1, size |-> 5, data |-> Datum("failure", NoClient)]
Replies(c) == {[prefix |-> s - 4, size |-> s, data |-> Datum("reply", c)] :
                 s \in ReplySizes}

Init ==
  /\ thread = "starting" /\ stop = FALSE /\ watcher = "none" /\ closeMsg = FALSE
  /\ client = [c \in Clients |-> "free"]
  /\ mem \in [Clients -> [region : Regions, prefix : {0},
                          data : {Datum("request", NoClient)}]]
  /\ at = "idle" /\ serving = NoClient /\ length = 0
  /\ request = NoFrame /\ result = NoFrame

-----------------------------------------------------------------------------
(* Clients                                                                 *)

Fits(p, region) == 1 <= p /\ p + 4 <= Smaller(region, Capacity)

\* A client writes a request and sends WM_COPYDATA.
Send(c) ==
  /\ thread = "up" /\ client[c] \notin Waiting
  /\ \E p \in Prefixes :
       /\ c \in Honest => Fits(p, mem[c].region)
       /\ mem' = [mem EXCEPT ![c].prefix = p, ![c].data = Datum("request", c)]
  /\ client' = [client EXCEPT ![c] = "sent"]
  /\ UNCHANGED <<threadVars, handlerVars>>

\* A client changes its mapping while the message is under way.
Scribble(c) ==
  /\ c \notin Honest /\ client[c] \in Waiting
  /\ \E p \in Prefixes :
       mem' = [mem EXCEPT ![c].prefix = p, ![c].data = Datum("request", c)]
  /\ UNCHANGED <<threadVars, client, handlerVars>>

\* SendMessageTimeout: the client stops waiting, the handler does not know.
GiveUp(c) ==
  /\ c \notin Honest /\ client[c] \in Waiting
  /\ client' = [client EXCEPT ![c] = "free"]
  /\ UNCHANGED <<threadVars, mem, handlerVars>>

\* SendMessage fails once the window is gone.
SendFails(c) ==
  /\ thread = "closed" /\ client[c] \in Waiting
  /\ client' = [client EXCEPT ![c] = "refused"]
  /\ UNCHANGED <<threadVars, mem, handlerVars>>

-----------------------------------------------------------------------------
(* handleCopyData                                                          *)

n == Smaller(mem[serving].region, Capacity)

\* handleCopyData returns v, 1 or 0, to its client if that still waits.
ReturnTo(c, v) ==
  /\ client' = IF client[c] = "served" THEN [client EXCEPT ![c] = v] ELSE client
  /\ at' = "idle" /\ serving' = NoClient /\ length' = 0
  /\ request' = NoFrame /\ result' = NoFrame

\* The name is accepted, the mapping opened, its owner checked, and viewed.
Open(c) ==
  /\ thread = "up" /\ at = "idle" /\ client[c] = "sent"
  /\ mem[c].region >= 5
  /\ at' = "opened" /\ serving' = c
  /\ client' = [client EXCEPT ![c] = "served"]
  /\ UNCHANGED <<threadVars, mem, length, request, result>>

\* One of those fails, or the mapping is too small for a frame.
OpenFail(c) ==
  /\ thread = "up" /\ at = "idle" /\ client[c] = "sent"
  /\ client' = [client EXCEPT ![c] = "refused"]
  /\ UNCHANGED <<threadVars, mem, handlerVars>>

\* Mutant: the sum wraps around in the length's own type.
ReadLengthWraps ==
  /\ at = "opened"
  /\ length' = mem[serving].prefix
  /\ length' >= 1 /\ (length' + 4) % Word <= n
  /\ at' = "sized"
  /\ UNCHANGED <<threadVars, client, mem, serving, request, result>>

\* The first read: the length has to fit into the mapping.
ReadLength ==
  /\ at = "opened"
  /\ length' = mem[serving].prefix
  /\ length' >= 1 /\ length' <= n - 4
  /\ at' = "sized"
  /\ UNCHANGED <<threadVars, client, mem, serving, request, result>>

BadLength ==
  /\ at = "opened"
  /\ mem[serving].prefix < 1 \/ mem[serving].prefix > n - 4
  /\ ReturnTo(serving, "refused")
  /\ UNCHANGED <<threadVars, mem>>

\* The second read: length + 4 bytes, the prefix once more among them.
Copy ==
  /\ at = "sized"
  /\ request' = [prefix |-> mem[serving].prefix, size |-> length + 4,
                 data |-> mem[serving].data]
  /\ at' = "copied"
  /\ UNCHANGED <<threadVars, client, mem, serving, length, result>>

\* ValidateRequest
Valid(frame) ==
  frame.size \in 5..Capacity /\ frame.prefix = frame.size - 4

\* Mutant: the length was checked already.
QueryUnchecked ==
  /\ at = "copied"
  /\ at' = "query" /\ UNCHANGED result
  /\ UNCHANGED <<threadVars, client, mem, serving, length, request>>

\* queryUsing up to the call of the handler.
Query ==
  /\ at = "copied"
  /\ IF Valid(request) THEN at' = "query" /\ UNCHANGED result
     ELSE at' = "answered" /\ result' = Failure
  /\ UNCHANGED <<threadVars, client, mem, serving, length, request>>

\* The handler's reply; its error or invalid reply is a failure.
Answer ==
  /\ at = "query"
  /\ result' \in {Failure} \cup Replies(request.data.of)
  /\ at' = "answered"
  /\ UNCHANGED <<threadVars, client, mem, serving, length, request>>

\* Mutant: copy writes what fits.
WriteBackTruncates ==
  /\ at = "answered"
  /\ mem' = [mem EXCEPT ![serving].prefix = result.prefix,
                        ![serving].data = result.data]
  /\ ReturnTo(serving, "answered")
  /\ UNCHANGED threadVars

\* Mutant: only a client that still waits ends the call.
WriteBackIfWaiting ==
  /\ at = "answered" /\ client[serving] = "served"
  /\ LET out == IF result.size > n THEN Failure ELSE result
     IN  mem' = [mem EXCEPT ![serving].prefix = out.prefix,
                            ![serving].data = out.data]
  /\ ReturnTo(serving, "answered")
  /\ UNCHANGED threadVars

\* A reply larger than the mapping becomes a failure.
WriteBack ==
  /\ at = "answered"
  /\ LET out == IF result.size > n THEN Failure ELSE result
     IN  mem' = [mem EXCEPT ![serving].prefix = out.prefix,
                            ![serving].data = out.data]
  /\ ReturnTo(serving, "answered")
  /\ UNCHANGED threadVars

-----------------------------------------------------------------------------
(* runIPCWindow                                                            *)

\* createWindow; Run waits for ready.
Start ==
  /\ thread = "starting"
  /\ \/ thread' = "up" /\ watcher' = "waiting"
     \/ thread' = "failed" /\ UNCHANGED watcher
  /\ UNCHANGED <<stop, closeMsg, client, mem, handlerVars>>

\* Run closes stopIPC: when it returns, or because the window was not created.
Stop ==
  /\ thread # "starting" /\ ~stop
  /\ stop' = TRUE
  /\ UNCHANGED <<thread, watcher, closeMsg, client, mem, handlerVars>>

\* Mutant: the goroutine waits for the end of the loop only.
WatchDoneOnly ==
  /\ watcher = "waiting" /\ thread = "closed"
  /\ watcher' = "gone"
  /\ UNCHANGED <<thread, stop, closeMsg, client, mem, handlerVars>>

\* The goroutine's select on stop and done.
Watch ==
  /\ watcher = "waiting" /\ (stop \/ thread = "closed")
  /\ watcher' = "gone"
  /\ closeMsg' = (closeMsg \/ thread = "up")
  /\ UNCHANGED <<thread, stop, client, mem, handlerVars>>

\* The message loop ends between two messages: WM_CLOSE, or WM_ENDSESSION.
LoopEnds ==
  /\ thread = "up" /\ at = "idle"
  /\ thread' = "closed" /\ closeMsg' = FALSE
  /\ UNCHANGED <<stop, watcher, client, mem, handlerVars>>

\* Run does not wait for this thread: the process can end at any point.
ProcessEnds ==
  /\ stop /\ thread = "up"
  /\ thread' = "closed" /\ watcher' = "gone" /\ closeMsg' = FALSE
  /\ at' = "idle" /\ serving' = NoClient /\ length' = 0
  /\ request' = NoFrame /\ result' = NoFrame
  /\ UNCHANGED <<stop, client, mem>>

Handle == ReadLength \/ BadLength \/ Copy \/ Query \/ Answer \/ WriteBack

Next ==
  \/ \E c \in Clients : \/ Send(c) \/ Scribble(c) \/ GiveUp(c) \/ SendFails(c)
                        \/ Open(c) \/ OpenFail(c)
  \/ Handle
  \/ Start \/ Stop \/ Watch \/ LoopEnds \/ ProcessEnds

Spec == Init /\ [][Next]_vars

\* The thread goes on, a query ends by its deadlines, sent messages are taken in
\* turn, and posted ones before the thread blocks.
FairSpec ==
  /\ Spec
  /\ WF_vars(Start) /\ WF_vars(Watch) /\ WF_vars(Handle)
  /\ SF_vars(closeMsg /\ LoopEnds)
  /\ \A c \in Clients : SF_vars(Open(c) \/ OpenFail(c)) /\ WF_vars(SendFails(c))

-----------------------------------------------------------------------------
(* Properties                                                              *)

\* Types, and a handler that is idle serves nobody.
TypeOK ==
  /\ thread \in {"starting", "up", "failed", "closed"}
  /\ stop \in BOOLEAN /\ closeMsg \in BOOLEAN
  /\ watcher \in {"none", "waiting", "gone"}
  /\ client \in [Clients -> Waiting \cup {"free", "answered", "refused"}]
  /\ mem \in [Clients -> [region : Regions, prefix : 0..(Word - 1), data : Data]]
  /\ at \in {"idle", "opened", "sized", "copied", "query", "answered"}
  /\ serving \in Clients \cup {NoClient}
  /\ at = "idle" <=> serving = NoClient
  /\ length \in 0..(Word - 1)
  /\ {request, result} \subseteq [prefix : 0..(Word - 1), size : Nat, data : Data]

\* Whatever a client does to its mapping and when, the copy is taken from inside
\* it and a handler gets a whole frame within the protocol's limit
\* (handleCopyData, queryUsing).
OnlyFramesForwarded ==
  /\ at \in {"copied", "query"} => request.size <= n
  /\ at = "query" => Valid(request)

\* A client that waits as the protocol says finds a whole frame in its mapping,
\* the reply to its own request or a failure; refused, it finds its request
\* (handleCopyData).
HonestAnswered ==
  \A c \in Honest :
    /\ client[c] = "answered" =>
         /\ mem[c].prefix + 4 <= mem[c].region
         /\ mem[c].data \in {Datum("reply", c), Failure.data}
    /\ client[c] \in {"sent", "served", "refused"} =>
         mem[c].data = Datum("request", c)

\* A client that waits is released, although others change their mappings, give
\* up and send again, and although the window goes away (ipcWndProc).
HonestReleased ==
  \A c \in Honest : client[c] \in Waiting ~> client[c] \notin Waiting

\* Closing stopIPC ends the thread's loop and its goroutine, unless the window
\* was never created (runIPCWindow).
ThreadEnds == stop ~> thread \in {"closed", "failed"} /\ watcher # "waiting"

=============================================================================
