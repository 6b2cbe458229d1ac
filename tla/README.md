# A TLA+ development of winssh-pageant

winssh-pageant lets programs that speak the Pageant protocol use the keys of the
Windows OpenSSH agent. This directory models what the program does
concurrently, checks the models with TLC on small instances, and proves the
main safety properties with TLAPS for all instances. Line numbers refer to
`src/`.

## The system

| Component | State it keeps | Operations | What makes it hard |
|---|---|---|---|
| Upstream session, `openssh/agent.go` (`Session`) | `queryMu`, `stateMu`, `conn`, `closed`, `ctx` | `Query`, `exchange`, `Close`; `QueryAgent` and `ListKeys` use a session once | `Close` races a dial or a read; replies that arrive after their deadline; security state bound to one connection |
| Wire parsing, `openssh/keys.go`, `openssh/agent.go` 41-44, 130-172 | none | `parseKeys`, `ParseSignRequest`, `userauthUsername`, `takeString`, `isSessionBind`, the frame checks | length prefixes up to 2^32-1, counts, trailing data, text from a peer |
| Pageant pipe server, `pageant/run_windows.go` 377-477 | `runtimeState`: `mu`, `clients`, `upstreams`, `closing`, `listener` | `pipeProxy`, `pipeListen`, `queryUsing`, `closeConnections` | accept and registration race shutdown; a limit on goroutines; stalled and idle clients |
| Legacy transport, `run_windows.go` 178-320 | the Pageant window and its thread | `runIPCWindow`, `handleCopyData` | shared memory the client can change while it is read |
| Tray desktop, `pageant/desktop_windows.go` | `notices`, `keysReady`, `trayAdded`, `loadingKeys`, the key window | `notify`, `onMessage`, `addTrayIcon`, `showKeys`, `refreshKeys`, `close` | worker goroutines meet one UI thread through bounded channels and posted messages; Explorer restarts |
| Lifecycle and control, `run_windows.go` 68-240, `control_windows.go`, `main.go` | single-instance mutex, control window, deferred clean-up | `Run`, `lifecycleWndProc`, `ExitRunning`, `ShowRunningKeys` | two processes; check-then-create; order of deferred calls |
| Attribution, `pageant/client_windows.go` | `clientInfo` of each client | `clientFromPipe`, `clientFromMapping`, `notifySigning`, the TCP table walk, `parseClientTarget` | ids that are used again, tables that grow and change while they are read, command lines of four programs |
| Options, `internal/security`, `internal/win`, `run_others.go`, packaging | - | - | no behaviour of their own |

What makes each correct, and the properties that say so:

- session: a reply belongs to its request, one pipe per session, `Close` ends
  everything (`ReplyMatchesRequest`, `NeverReconnects`, `NoLeakedPipe`,
  `CloseInterrupts`, `PipesReleased`, `QueryReturns`);
- pipe server: no more goroutines than the limit, nothing outlives shutdown, a
  failed upstream stays failed (`ClientLimit`, `NothingLeaks`, `ShutdownCutsOff`,
  `FailuresAreFinal`, `OnlyIdleWaits`, `SlotsComeBack`, `ShutdownDrains`);
- legacy transport: shared memory cannot get a broken frame past the checks, a
  client gets its own reply (`OnlyFramesForwarded`, `HonestAnswered`,
  `HonestReleased`, `ThreadEnds`);
- tray desktop: channels and messages stay in step, the shown keys and the icon
  are what the code believes (`NoticesHaveMessages`, `OneLoadAtATime`,
  `RefreshIsCurrent`, `TrayBelief`, and the liveness properties below);
- lifecycle: one bridge at a time, `--exit` waits for the end and passes over no
  bridge that runs, nobody hangs (`OneBridge`, `ExitMeansGone`, `ExitReaches`,
  `Settles`, `CloseEnds`);
- wire parsing: a parser accepts exactly the encodings of its messages, whatever
  prefixes and counts say (`KeysExact`, `SignExact`), and a binding never travels
  on a connection that is about to be closed (`BindingRefused`);
- native text: what a field shows is a beginning of the text in whole characters
  (`FieldWhole`);
- attribution: what a notice says is of the process that signed, or nothing
  (`InfoOfClient`, `EndpointOfClient`, `AmbiguousStaysUnknown`, `LookupEnds`), and
  a destination is the place a clear command line names (`TargetAsMeant`).

How they meet: a client's bytes reach the pipe server (one goroutine and one
upstream session per client) or the legacy window (a one-shot session per
message). Both call `queryUsing`, which calls the session's `Query` and then
`notifySigning`, which puts a notice into the desktop's channel. The desktop
lists keys with a one-shot session of its own. `Run` starts all of it and, on
return, closes the desktop, the control window and the connections.

## Modules

`SessionState` - the state of a session as its callers see it (retired, request
in service) and its five operations, shared by the two modules below.

`SessionContract` - the abstract specification of `openssh.Session`: one request
at a time, answered with its own reply or failed, failed only on a retired
session, never started again once retired. No connections, mutexes or time.

`AgentSession` - `Query`, `exchange` and `Close` in detail. Variables are the
struct's fields (`queryMu`, `closed`, `conn`), the local variables of the
goroutines (`pc`, `arg`, `local`), the pipe instances and what is in flight on
them (`pipe`, `inbox`, `outbox`), and what each call has returned (`outcome`,
`replyTo`). A section under `stateMu` does no I/O and is one action; `queryMu`
is held across I/O and is a variable. One call of `Query` is `Call`,
`RejectQuery` or `BeginQuery`, `Dial` or `DialFail`, `Adopt` (the second closed
check), `Write`/`WriteFail`, `Read`/`ReadFail`; an error path calls `Close`
(`Close`, `CloseAgain`, `ReleaseConn`), as the owner's goroutines do. A write
that fails may still have delivered the frame, and the agent answers whenever it
likes, with a frame that may be malformed; it answers one frame per request and
in order, which is the agent protocol and not in `src/`.
`ImplementsContract` maps `closed` and the request of `queryMu`'s holder to the
contract's session.

`PipeServer` - the registries of `runtimeState`, `pipeProxy` (`Accept`,
`Admit`, `TurnAway`), the life of a client's goroutine (`Register`, the read
loop, the query on its session, the write, the four deferred calls in their
order) and `closeConnections` as a sequence of steps under `mu`. `muFree` is
derived from where `closeConnections` is, because the other sections under `mu`
are single actions. The session of a client is the contract's, so that a query
can be answered, break its session, or find it retired. Clients write whole,
partial or oversized frames, stall and leave. `builtin` is chosen once,
from `Handlers`: without it the goroutine calls a custom handler and has no session
(lines 419-439).

`TrayDesktop` - one UI thread, which handles one message per action
(`Handle...`, `TaskbarCreated`, `TrayTimer`, the menu's selections), and the
goroutines that call `notify` (`Notify`, `PostNotice`) or list keys (`ListKeys`,
`PushKeys`, `PostKeys`). `queue` is the window's message queue; `notices` and
`keysReady` are the two channels. An open menu is a state (`menu`), because
`TrackPopupMenu` dispatches messages itself. Explorer and the icon it holds are
outside the program: `taskbar` may be down, busy or up, it loses icons when it
ends, announces itself when it starts, and refuses an icon it already has
(`Accepts`). A set of keys is its number in the order the agent held them.
`openedAt` and `loadedAt` are history variables. `hwnd` is true while the control
window exists; `WM_CLOSE` destroys it before `Run` returns and `close` runs.

`LegacyIPC` - the Pageant window's thread and one `handleCopyData` at a time
(`Open`, `ReadLength`, `Copy`, `Query`, `Answer`, `WriteBack`): the two reads of
the mapping and the write are actions of their own, between which a client that
is not in `Honest` writes what it likes, stops waiting, or sends again. Bytes are
a length prefix, below `Word`, and whose request or reply the rest is. `Capacity`
stands for `AgentMaxMessageLength` and a prefix counts for four bytes. The handler
is the query of a one-shot session, so it only has to end.

`Lifecycle` - processes of one installation. `own` says which objects of Windows
each has (the mutex's handle, the control and Pageant windows, the pipe's first
instance), and `pc` where its main thread is: `main`, `ShowRunningKeys` and
`ExitRunning` (`"look"`, `"post"`, `"seek"`, `"close"`, `"wait"`), `Run` from
`CreateMutex` to the message loop and its deferred calls (`DestroyControl`, which
stands for `close(stopIPC)`, `desktop.close` and the control window's cleanup,
`CloseConnections`, `ReleaseMutex`). `ClosePageant` is the end of the IPC thread's
loop and of its window. It may happen at any time, because `ipcWndProc` passes the end
of a session and anybody's `WM_CLOSE` to `lifecycleWndProc` (`run_windows.go` 216-240);
`close(stopIPC)` is one more cause, which nobody waits for. The bridge's own loop runs
on without the window. Finding a window, posting to it and the handling of `WM_CLOSE`
are actions of their own. A Pageant window of another program is a
choice: `Check` may always refuse, and `Seek` may always find nothing of its own.

`WireStrings` and `WireFormat` - the parsers as operators. A message is a sequence
of natural numbers; a byte, a character and a 32-bit word are one symbol each, so
that "4 bytes" in the code is "1 symbol". `TakeString` is the code's only way past
a length prefix. `ParseKeys` loops over the entries (`ReadEntries`, a recursive function
whose round is `ReadEntry`), `Userauth` and `ParseSignRequest` take the fields in turn, `DisplayText` cuts and blanks text
from a peer. `EncodeKeys`, `EncodeSign` and `EncodeUserauth` are the protocols' own
encodings, which the parsers are held against. A fingerprint stands for the blob
it is the digest of.

`ClientTarget` - `parseClientTarget` as a loop over the words of a command line
(`Scan`, a recursive function; a round is `ScanWord`, with `ReadOption` and
`ReadDestination`), `ParseDestination` and `ResolvePuttySession`, and, written by
position instead, what the same words say (`Options`, `Destinations`, `SettingAt`;
`Meant`, the place that a `Clear` line names, and `Broken`, the lines that name none).
The code looks an option up as a substring of one string with blanks, so several that
stand side by side in it pass when they are quoted as one word: `Accepted` is that
test, and `Quoted` gives the parts of words with blanks. `Meant` is not the parser's
rule read once more: where the clients read a line otherwise than the parser does, or
may, it is not `Clear` and nothing is claimed of it. OpenSSH's `ssh` keeps the first of
two settings and reads options after its destination, the parser takes the last and
stops there; `plink` goes on likewise; a destination of PuTTY can be the name of a saved
session. So a clear line sets nothing twice, has no dashed word right after the
destination (but for PuTTY's GUI), no quoted run among its options (`Unambiguous`), and,
for PuTTY's programs, a plain host for a destination without `-load` and `--`
(`PlainPutty`). A host alias or a proxy in the client's own configuration may still take
the connection elsewhere. A word is a string; what the Go library finds in it
(a URI, a number, an at sign, an unsafe character) and what the registry holds are
constants.

`NativeText` - `cleanUIText` and `copyUIText` (`desktop_windows.go` 158-186): a text
from a peer, a sequence of runes, on its way into a field of UTF-16 units. A rune is
its number, and its UTF-16 form is computed, because the cut is about surrogates.

`AgentMetadata` - one machine whose steps are the calls of these functions:
`ListKeys`, the first step of `notifySigning`, `QueryAgent`'s refusal, the
command line of `clientFromProcess`, and a text for a notice (`FillField`), with any
input of the instance.

`Attribution` - one client from its connection to its last notice. `clientFromPipe`
knows an id, `clientFromMapping` an open thread; `clientFromProcess` opens what has
the id (`OpenClient`, `ReadName`, `ReadStarted`, `ReadArguments`, `CloseClient`);
`notifySigning` opens it again, compares start times (`SameProcess`,
`OtherProcess`) and reads the two TCP tables (`Size`, `Read`, `TooSmall`,
`NoRows`, `Unique`). Between any two calls processes start, end, and connect, and
an id without a live process or an open handle (`Exists`) may be handed out again.
A name, a start time or a destination is represented by the process it was read
from, so that properties can say whose it is. `steady` is a history variable.

`MC...` modules give TLC its model values; `...Proofs` modules hold the theorems.
Operators marked "Mutant" are plausible mistakes in the definition that follows
them; replacing the definition by one breaks the property named in
`PROJECT.json`. They play no part in the specifications.

## Runs

| Run | Bounds | Shows |
|---|---|---|
| `session` | 2 callers, 2 closers, 4 requests (1 malformed), 2 pipe instances | `ReplyMatchesRequest`, `NeverReconnects`, `NoLeakedPipe`, `ImplementsContract`; every call returns with an agent that never answers; `Close` alone ends a call in progress, and the pipe is released for good |
| `server_safety` | 3 connections, limit 2, 1 frame each, both kinds of handler, symmetry | limit, ownership, what shutdown cuts off |
| `server_liveness` | 2 connections, limit 1, 2 frames each, built-in handler | failures are final, only idle goroutines wait, slots come back, shutdown drains |
| `desktop_safety` | 2 notifying goroutines, 2 places for notices, 2 fetching goroutines, 2 sets of keys, 1 Explorer restart, 1 input waiting, symmetry | `NoticesHaveMessages`, `OneLoadAtATime`, `TrayBelief`, `RefreshIsCurrent` |
| `desktop_liveness` | 2 notifying goroutines, 1 place, 1 fetching goroutine, 1 set of keys, 1 restart | loads end, notices drain, exit ends the program, the icon comes back |
| `desktop_recovery` | no notices, 1 restart; a violation | `trayAdded` need not come back: see Findings |
| `desktop_open` | 2 sets of keys; a violation | a reopened window can show older keys: see Findings |
| `legacy_ipc` | an honest client and another one, mappings of 4, 6 and 8 bytes for a limit of 7, `Word` 16 | whole frames only, the right reply, everybody is released, the thread ends |
| `lifecycle` | 3 processes: one starts, one starts or shows, one shows or exits; two of them with the Pageant pipe | `OneBridge`, `ExitMeansGone`, `ExitReaches`, `Settles`, `CloseEnds` |
| `lifecycle_show` | 2 processes with `--show-keys`; a violation | neither of them opens the window: see Findings |
| `metadata` | every list of up to 2 keys and sign requests of both methods, every message one symbol away from one of them, with its length rewritten or not; all command lines of up to 3 words from 21 (ssh) or 17, and of 4 words from 13 or 10; texts of up to 5 runes of 4 kinds (2 of them of two units, 2 controls) for fields of 0 to 6 units, with 4 for 2048 | `FieldWhole`, `KeysExact`, `SignExact`, `BindingRefused`, `TargetAsMeant` |
| `attribution` | 3 processes, one of another user, one with a destination in its arguments, for 2 ids; one IPv4 and one IPv6 connection, 3 attempts, 2 sign requests | `InfoOfClient`, `EndpointOfClient`, `AmbiguousStaysUnknown`, `LookupEnds` |

Why the bounds are enough: two callers and two closers give every pair of
goroutines that can meet in a session (holder and waiter, `Close` by an owner and
by a failing call, a second `Close`); two pipe instances let a second dial
happen if it could; a request more than there are callers lets a goroutine call
again after a failure. Three connections for two slots put one connection in
the acceptor's hands while the registry is full; two frames are the shortest
conversation with an answer after a failure. Two notifying goroutines for one
or two places fill the channel and race each other, one restart of Explorer can
meet every state of the icon, and a second set of keys is what staleness takes.
The mappings of `legacy_ipc` lie below, at and above what a frame and the limit
need, its prefixes next to each bound, and 14 is the prefix whose sum with 4 wraps.
Three processes are a bridge, its successor, and one that shows or ends either.
The limits of `metadata` (a payload of 14 or 25 symbols, names and texts of 2) lie
among the lengths of its messages, so that each is met, reached and exceeded, and
fields end before, in and behind every character of their texts; one
symbol changed, added or dropped is what every count, prefix and trailing-data
check is for; four words are an option with its value, a destination, and one word
after it. Two ids for three processes give an id to a second process, and one of
another user can have it; one endpoint per family is what it takes to be ambiguous.
`CHECK_DEADLOCK FALSE` is said
where the modelled program really stops: all calls made, everything shut down.

## Fairness

`Timed` (in `QueryReturns`) makes a goroutine inside `Query` take its next step:
dial, write and read end because they have deadlines (`agent.go` 27-29), whatever
the agent does. `Prompt` (in `CloseInterrupts` and `PipesReleased`) grants less:
steps that do not block, and errors of I/O on a cancelled dial or a closed pipe;
there no deadline ever has to expire.
`FairSpec` of `PipeServer` makes the acceptor, `closeConnections` and each
client's goroutine go on, a goroutine at `idle` only when a byte arrives or an
end closes; the query's own end is what `QueryReturns` shows of the session.
Nothing is assumed of clients, of the agent, of a custom handler, of the
moment of shutdown, or of an open listener, which may wait for ever or fail.
`FairSpec` of `TrayDesktop` makes the UI thread take messages and `WM_QUIT`, and
the goroutines go on (`ListKeys` ends by its deadlines). `WM_TIMER` is returned
only when no other message waits, so the timer has strong fairness, and the two
properties of the icon say "unless messages keep coming for ever". Nothing is
assumed of the user, the agent, or when Explorer starts or answers.
`FairSpec` of `LegacyIPC` makes the handler go on (a query ends by its deadlines).
A thread in `GetMessage` gets sent messages in turn, whoever else sends, and
posted ones, so `Open` and the loop's end have strong fairness. Nothing is assumed
of a client, honest or not. `FairSpec` of `Lifecycle` makes main threads go on
and handle `WM_CLOSE`; users are assumed to close the message box that an error
ends with (`main.go` 37, 50) and nothing else, and the IPC thread need not end, nor
need the window it took `WM_CLOSE` for go.
`FairSpec` of `Attribution` makes the goroutine that serves the client go on from
call to call; nothing is assumed of Windows, of other processes, or of what a call
returns: that a lookup ends rests on the number of attempts alone.

## Proofs

`AgentSessionProofs` proves `TypeOK`, `ReplyMatchesRequest`, `NeverReconnects`,
`NoLeakedPipe`, `SerialWire` and the refinement `ImplementsContract`, for any
numbers of goroutines, requests and pipe instances, from `SessionAssumption`.
None of these is inductive. The invariant adds where the one connection is at
each point (`PublishedInv`, `ReleaseInv`, `QueryInv`, `FreshInv`): a goroutine
that dials does so while every pipe instance is free, a goroutine in `Close` past
its critical section keeps the session closed, and the connection used for I/O
is the published one until the session is closed. `WireInv` says what can be in
flight while a request is in service: its own frame or its own reply. `CallInv`
keeps the requests of calls apart and `ReplyInv` fixes what a call has returned.
The refinement needs all of them: a step that fails is a `Fail` of the contract
only because the session is closed on every error path, and `Read` is an
`Answer` only because the reply on the wire is the caller's own.

`PipeServerProofs` proves `TypeOK`, `ClientLimit`, `NothingLeaks`,
`ShutdownCutsOff` and `FailuresAreFinal` for any finite set of connections and
any limit, from `ServerAssumption`. `RegistryInv` says exactly which goroutines
each registry holds, so that what `closeConnections` closes is what exists;
`ClosedInv` says what is closed at each of its steps and cannot be opened later,
because admission and registration look at `closing` under `mu`; the limit
follows from `RegistryInv` and the cardinality lemmas of `FiniteSetTheorems`;
`FailureInv` ties a failure to a retired session with nothing in service.

`TrayDesktopProofs` proves `TypeOK`, `TrayBelief`, `NoticesHaveMessages`,
`OneLoadAtATime` and `RefreshIsCurrent` for any numbers of goroutines and any bounds,
from `DesktopAssumption`. `TrayBelief` needs no more than types: an announcement is
owed whenever Explorer has come back, and `addTrayIcon` sets `trayAdded` only when the
icon is there. `NoticeInv` counts notices, messages and goroutines between their two
steps; `CountAppend` and `CountTail` say what posting and taking a message do to the
counts. `LoadInv` says without counting that of goroutines and messages one is under
way exactly while `loadingKeys` is set; that is why `PushKeys` finds the channel
empty, and, in `FreshInv`, why no result of an earlier load is left when `refreshKeys`
starts a new one.

`LegacyIPCProofs` proves `TypeOK`, `OnlyFramesForwarded` and `HonestAnswered` for
any clients, mappings, limit and width of the prefix, from `IPCAssumption` (which
asks for a limit of at least one frame and for replies whose length fits the
prefix). `HandlerInv` records what each local variable has been checked for, so
that the second read cannot undo it; `HonestServed` ties the request in the
handler to a client that still waits, so that no other client's reply reaches it.

`LifecycleProofs` proves `TypeOK`, `OneBridge`, `ExitMeansGone` and
`RunningBridgeFound` for any finite set of processes and any command lines, from
`LifecycleAssumption`. `OneBridge` is not inductive: what keeps two bridges apart is
the mutex until `Check`, and afterwards that a process past `Check` meets no Pageant
window of another one, although the mutex is free again before that window is gone.
`OwnInv` says what a process owns at each point, `PairInv` that of two processes one
has no part in the bridge, `TargetInv` what `--exit` has found and reported.
`RunningBridgeFound` is the part of `ExitReaches` that needs no fairness: whoever looks
for the control window while a bridge is in its loop finds that bridge, although its
Pageant window may be gone.

`AgentMetadataProofs` proves `KeysExact`, `SignExact`, `BindingRefused`, `FieldWhole`
and `TargetAsMeant` for messages, texts and command lines of any content and length and
for every limit, from `WireAssumption`, `TextAssumption`, `TargetAssumption` and
`MetadataAssumption`. The machine has one step, so what has to be proved is about the
operators; `ReadOf` says what `result` is for each kind of `input`, and the states before
a call satisfy the properties because only a call sets `input`.

- Loops (`ParserProofs`). The library's induction theorems take an operator as a
  parameter, which the provers cannot instantiate. `NatSetInduction` therefore says it
  of a set of numbers, and `Recursion`, proved from it, that a function with the
  recursive definition of a loop exists. `ReadEntriesRounds` and `ScanRounds` use it to
  give the loops of `parseKeys` and `parseClientTarget` a state after each round.
- Strings. What `TakeString` returns is the string the message starts with, and it
  takes an encoded one off exactly (`TakeStringSplits`, `TakeStringReads`).
  `UserauthSound` and `SignSound` put the fields back together, so that nothing of the
  frame is left out; `UserauthComplete` and `SignComplete` take an encoding apart.
- Key lists. `ReadEntriesSound`: after n rounds the reply's body is the encoding of the n
  keys read, followed by what is left. `ReadEntriesComplete`: of an encoding, what is
  left after n rounds is the encoding of the keys from n + 1 on. The `Flatten...` lemmas
  say what joining the encodings of entries does at either end.
- Text. `FirstRunesSteps`: the units of the first k + 1 runes are those of the first k and
  one or two more; hence the cut falls in front of a rune or between two surrogates, and
  `Fit` drops the first of them (`CopyWhole`). `UTF16Units` computes the surrogates.
- Command lines. `Control` relates the loop's state before word k to the positions: the
  word is awaited as a value if k is in `Values`, it is read as an option or destination if
  options have not ended, the loop has returned if k lies behind the end, or
  has refused a line that is not clear. Each field of the target is the last setting among
  the options before k, or the destination's, or empty (`Holds`, of clear lines), and no
  defect of a broken line has been passed without refusing it (`Fine`). `TargetAsMeant`
  alone is no invariant of the loop, because `Meant` is about whole lines: it counts from
  the last option, the loop from the first. `ScanControls` carries `Control` over all
  rounds, one lemma per phase (`WordRead`, `ValueRead`, `DashRead`, `DoneKept`), and
  `ParsedTarget` and `TargetMeant`
  read the end off it and add the saved session. The loop is followed for all
  `Readable` lines, of which the clear ones are those where the last setting is the
  only one (`ClearReads`). `AcceptedDisjoint` says that no word, quoted runs included,
  is an option of both kinds.

What the assumptions ask of the constants is what the code's libraries give. Runes come
from ranging over a Go string, which yields no surrogates, and what `cleanUIText` blanks
contains neither a surrogate nor the space it writes. Words with an option joined to its
value begin with a dash and hold a value, a word with blanks has two parts or more and
is on no list as it stands, `-vvv` is no option with a value, `ParseUint` fails on the
empty string, only a URI has a port, the empty string is safe to show, and a session's
name is not empty.

`AttributionProofs` proves `InfoOfClient`, `EndpointOfClient` and
`AmbiguousStaysUnknown` for any processes, ids and connections, from
`AttributionAssumption`. The invariant says that no two processes that exist have
one id (`IdsUnique`), what an open handle therefore pins while the bridge is between
two calls (`HandlesPin`), what each field of `info` was read from (`InfoKnown`), that
the rows read so far are of the pinned process and hold each connection that lasted
(`LookupKnown`), and what the last notice was made from (`NoticeKnown`). The start
time is what carries `EndpointOfClient` from one handle to the next. `LookupsAdvance` is
the part of `LookupEnds` that needs no fairness: `CallsLeft`, how many calls a lookup
still takes at most, goes down with each call of the bridge, never changes by what happens
around it, and is bounded by 2 * `Attempts` + 5; at 0 no handle is open. What is left to
TLC is that the bridge makes its calls.

Only model-checked: the liveness properties (`CloseInterrupts`, `PipesReleased`,
`QueryReturns`, `OnlyIdleWaits`, `SlotsComeBack`, `ShutdownDrains`, `HonestReleased`,
`ThreadEnds`, `Settles`, `CloseEnds`, `ExitReaches`, `LookupEnds`, those of `TrayDesktop`), because
liveness under fairness and ENABLED are beyond the prover. `TypeOK` of every module but
the contract, where it only documents the variables, and `SerialWire` of `AgentSession`
are proved for all instances and no run repeats them.

## Findings

Three statements of the repository are not what the code does.

- `REVIEW.md` 37, recovery from an Explorer restart. If the retry timer or
  `newDesktop` adds the icon to the new taskbar before `TaskbarCreated` is
  handled, the handler clears `trayAdded` and asks for an icon that exists. The
  call fails, as do all retries, so notices stay suppressed although the icon is
  there, and `close` leaves it in the taskbar (`desktop_windows.go` 232-236,
  262-266, 283, 568). The test in `desktop_windows_test.go` 136-143 removes the
  icon before it sends the message. The finding rests on `Shell_NotifyIcon`
  refusing a second `NIM_ADD`, which the model states in `Accepts`.
- `README.md` 28, "every key currently loaded". A window closed and opened again
  during a load shows that load's result, which can be older than the window;
  `Refresh` does retrieve a current list (`RefreshIsCurrent`).
- `README.md` 49, "`--show-keys` opens the existing instance's window, or starts
  the application and opens it". While the first process has the mutex and no
  control window (starting, or on its way out), a second one does neither and
  reports another installation (`run_windows.go` 94-103).

Six observations are not contradicted by any text. Where a property is concerned
it states the exception:

- `--exit` that looks for the control window too early and for the Pageant window
  later takes a starting bridge for an old version, closes only its IPC window
  (`control_windows.go` 74-88) and reports a timeout. The end of a session and a
  `WM_CLOSE` from any program take the Pageant window likewise (`run_windows.go`
  216-240), even while `Run`'s own loop goes on: the bridge then runs without its
  legacy transport. What remains true is `ExitReaches` and `RunningBridgeFound`:
  `--show-keys` and `--exit` still find it by its control window.
- `ssh -p 22 -p 2222 host` and `ssh host -p 2222` connect to other ports than the
  notice infers, and the same goes for `-l` and `-o` (`client_windows.go` 195-258);
  such lines are not `Clear`.
- `putty hostA -- user@hostB`: the word after `--` does not look at
  `hasDestination` (`client_windows.go` 183-188), so that host A is shown with the
  user of host B. PuTTY takes one host name; such lines are neither `Clear` nor
  `Broken`.
- The two TCP tables are read one after the other (`client_windows.go` 432-440). A
  client that closes a connection and opens another one in between can be shown
  with an endpoint although it was never without a second one; only connections
  that are open throughout count for `AmbiguousStaysUnknown`.
- A pipe client that ends before its process is opened can be taken for the
  process that has its id next (`client_windows.go` 52-55): `InfoOfClient` speaks
  of clients that live, and of mappings, whose thread is open all the time.
- `cleanUIText` blanks line ends, so the lines that `signingNotice` joins with one
  (`client_windows.go` 427) are one row in the icon's balloon.

## Not modelled, and the plan

Formatting, logging, notice texts (`signingNotice`) and layout are left out, and so
is everything without run-time behaviour: packaging, CI, the option setters of
`pageant.go`, and the Win32 and SID wrappers of `internal/`, which pass arguments on.
Of the tray's menu the switch for notices is left out (it decides only whether the
icon shows what `HandleNotice` has taken from the channel), of attribution the byte
offsets of a TCP row and the bounds checks of the command-line buffer, of the
control window `WM_QUERYENDSESSION`, which keeps no state. Still to come:

1. A composition of lifecycle, server and desktop for the order of shutdown.
2. What the byte layout of the TCP rows and of the command-line buffer
   can hold, if a model of it says more than its bounds checks do.
3. For the other liveness properties what `LookupsAdvance` is for `LookupEnds`: a bound
   on the steps left, so that only fairness remains to be checked.
