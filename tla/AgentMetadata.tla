---------------------------- MODULE AgentMetadata ----------------------------
(***************************************************************************)
(* Everything the bridge reads out of what others send it, as one machine: *)
(* the agent's list of keys (openssh/keys.go ListKeys), a client's         *)
(* signature request (ParseSignRequest), a one-shot request (QueryAgent),  *)
(* a client's command line (clientFromProcess), and text for a notice      *)
(* (copyUIText). Each step is one call with any input of the instance; the *)
(* parsers keep no state.                                                  *)
(***************************************************************************)
EXTENDS WireFormat, ClientTarget, NativeText

CONSTANTS Replies,        \* messages an agent sends
          Requests,       \* messages clients send
          CommandLines,   \* [app, args] of client processes
          KeyLists,       \* key lists an agent encodes, their frames among Replies
          SignRequests,   \* [blob, auth, flags] clients encode, among Requests
          Fields          \* [text, size] of the fields of notices

ASSUME MetadataAssumption ==
  /\ Replies \subseteq Message
  /\ Requests \subseteq Message
  /\ KeyLists \subseteq Seq([blob : Message, comment : Message])
  /\ \A keys \in KeyLists : \A i \in DOMAIN keys : GoodBlob(keys[i].blob)
  /\ SignRequests \subseteq [blob : Message, auth : Payloads, flags : Nat]
  /\ \A s \in SignRequests : GoodBlob(s.blob) /\ GoodUserauth(s.auth, s.blob)
  /\ CommandLines \subseteq [app : STRING, args : Seq(Vocabulary)]
  /\ Fields \subseteq [text : Message, size : Nat]
  /\ \A f \in Fields : \A i \in DOMAIN f.text : IsRune(f.text[i])

VARIABLES input,    \* the argument of the last call
          result    \* and what it returned

vars == <<input, result>>

Init ==
  /\ input = [kind |-> "none"]
  /\ result = [ok |-> FALSE]

\* ListKeys, when the query has succeeded.
ListKeys(reply) ==
  LET parsed == ParseKeys(reply) IN
  /\ input' = [kind |-> "keys", frame |-> reply]
  /\ result' = [ok |-> parsed.ok, keys |-> parsed.keys,
                shown |-> [i \in DOMAIN parsed.keys |-> Shown(parsed.keys[i])]]

\* notifySigning's first step.
ReadSignRequest(request) ==
  /\ input' = [kind |-> "sign", frame |-> request]
  /\ result' = ParseSignRequest(request)

\* QueryAgent: a session of its own, whose Query sends a whole frame on, for every
\* request but session-bind.
QueryAgent(request) ==
  /\ input' = [kind |-> "oneshot", frame |-> request]
  /\ result' = [ok |-> ~RefusedOneShot(request) /\ ValidateRequest(request)]

\* The command line of a recognised client.
ReadCommandLine(line) ==
  /\ input' = [kind |-> "target", line |-> line]
  /\ result' = [ok |-> TRUE, target |-> TargetOf(line.app, line.args)]

\* copyUIText: a text into a field that may hold an older one.
FillField(field) ==
  /\ input' = [kind |-> "field", field |-> field]
  /\ result' = [ok |-> TRUE, units |-> CopyUIText(field.size, field.text)]

Next ==
  /\ input.kind = "none"
  /\ \/ \E reply \in Replies : ListKeys(reply)
     \/ \E request \in Requests : ReadSignRequest(request) \/ QueryAgent(request)
     \/ \E line \in CommandLines : ReadCommandLine(line)
     \/ \E field \in Fields : FillField(field)

Spec == Init /\ [][Next]_vars

-----------------------------------------------------------------------------
(* Properties *)

\* Text that native controls can show: nothing invisible, no longer than the
\* limit and the ellipsis.
Clean(text, limit) ==
  Len(text) <= limit + 1 /\ \A i \in DOMAIN text : text[i] \notin Invisible

\* A list of keys is accepted only if it is, to the last symbol, the encoding of
\* the keys returned, and every encoding is accepted: no count, length prefix or
\* trailing data makes the parser see other keys than the agent listed, and a
\* comment cannot disturb the window (keys.go 39-76, 153-177).
KeysExact ==
  input.kind = "keys" =>
    /\ result.ok =>
         /\ input.frame = EncodeKeys(result.keys)
         /\ \A i \in DOMAIN result.keys :
              GoodBlob(result.keys[i].blob) /\ Clean(result.shown[i].comment, MaxComment)
    /\ \A keys \in KeyLists :
         input.frame = EncodeKeys(keys) /\ Len(input.frame) - 1 <= MaxResponse
           => result.ok /\ result.keys = keys

\* A sign request is accepted only if it is the encoding of the blob, data and
\* flags returned; it names a user only if its data is, to the last symbol, a
\* publickey payload for that very key, and every such payload's user is named, in text a
\* native control can show:
\* "Username is filled only for a structurally valid SSH public-key userauth
\* payload" (keys.go 78-80, 88-151).
SignExact ==
  input.kind = "sign" =>
    /\ result.ok =>
         /\ input.frame = EncodeSign(result.blob, result.data, result.flags)
         /\ GoodBlob(result.blob)
         /\ Clean(result.username, MaxUsername)
         /\ result.username # <<>> =>
              LET auth == Userauth(result.data, result.blob) IN
              /\ GoodUserauth(auth, result.blob)
              /\ result.data = EncodeUserauth(auth)
              /\ result.username = DisplayText(auth.username, MaxUsername)
    /\ \A s \in SignRequests :
         LET data == EncodeUserauth(s.auth) IN
         input.frame = EncodeSign(s.blob, data, s.flags) /\ Len(input.frame) - 1 <= MaxRequest
           => /\ result.ok /\ result.blob = s.blob
              /\ result.username = DisplayText(s.auth.username, MaxUsername)

\* A one-shot request goes to the agent exactly if it is a whole frame that no
\* agent would read as session-bind, whatever the extension's contents are: its
\* binding would be lost with the connection (agent.go 41-48, 71-76, 130-137).
BindingRefused ==
  input.kind = "oneshot" =>
    (result.ok <=>
       /\ ValidateRequest(input.frame)
       /\ ~ /\ Len(input.frame) >= 4
            /\ SubSeq(input.frame, 2, 4) = <<Extension>> \o Str(<<SessionBind>>))

\* Words of a remote command, values of options and a second destination are
\* never taken for the destination: a command line that leaves no choice gives the
\* place its words name, one with options on neither of the parser's lists, values
\* missing or two destinations among its options gives none, and text unfit for
\* display is never shown. Nothing is claimed of lines that the clients themselves
\* may read otherwise (Unambiguous, PlainPutty; client_windows.go 173-367).
TargetAsMeant ==
  input.kind = "target" =>
    LET app == input.line.app
        args == input.line.args
        target == result.target
    IN /\ Clear(app, args) =>
            [user |-> target.user, host |-> target.host, port |-> target.port] = Meant(app, args)
       /\ Broken(app, args) => target = NoTarget
       /\ target.user \notin UnsafeFields /\ target.host \notin UnsafeFields \cup UnsafeHosts

\* What a field shows, up to its first 0, is a beginning of the text in whole
\* characters, without the controls and format characters that cleanUIText blanks
\* (U+2028 and U+2029, say, are not among them, unlike in the agent's texts,
\* keys.go 191-193), and as much of it as fits: "Text from a peer must never terminate a string early or spoof
\* multiple rows" (desktop_windows.go 151-152, 158-186).
FieldWhole ==
  input.kind = "field" /\ input.field.size > 0 =>
    LET text == input.field.text
        size == input.field.size
        Beginning(k) == Encoded([i \in 1..k |-> CleanRune(text[i])])
    IN \E k \in 0..Len(text) :
         /\ result.units = Beginning(k) \o [i \in 1..size - Len(Beginning(k)) |-> 0]
         /\ Len(Beginning(k)) < size
         /\ \A i \in DOMAIN Beginning(k) : Beginning(k)[i] \notin Controls
         /\ k < Len(text) /\ k < MaxText => Len(Beginning(k + 1)) >= size
=============================================================================
