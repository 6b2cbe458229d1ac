------------------------------ MODULE WireFormat ------------------------------
(***************************************************************************)
(* The agent messages the bridge looks into (openssh/keys.go and the       *)
(* validation in openssh/agent.go): what each parser returns for any       *)
(* frame, and the encodings they are meant to recognise.                   *)
(*                                                                         *)
(* A message is a sequence of symbols, each a natural number. A byte of    *)
(* the protocol, a character of a text and a 32-bit word (a length, a      *)
(* count, the flags) are one symbol each: "4 bytes" of the code is "1      *)
(* symbol" here, so that 5 becomes 2, 9 becomes 3 and 8 becomes 2. A       *)
(* protocol name ("ssh-connection") is a string of one symbol.             *)
(***************************************************************************)
EXTENDS WireStrings, SequencesExt

CONSTANTS MaxRequest,    \* AgentMaxMessageLength - 4
          MaxResponse,   \* AgentMaxResponseLength
          MaxTypeName,   \* 128
          MaxComment,    \* 1024
          MaxUsername,   \* 256
          Unprintable,   \* bytes outside 33..126
          Invisible,     \* the runes displayText blanks: controls, formatting, line ends
          Blank, Ellipsis,
          SshConnection, PublicKey, HostBound, SessionBind   \* protocol names

ASSUME WireAssumption ==
  /\ {MaxRequest, MaxResponse, MaxTypeName, MaxComment, MaxUsername} \subseteq Nat
  /\ {Blank, Ellipsis, SshConnection, PublicKey, HostBound, SessionBind} \subseteq Nat
  /\ PublicKey # HostBound
  /\ {Blank, Ellipsis} \cap Invisible = {}

\* Message types.
Failure == 5
KeyList == 12
SignCode == 13
Extension == 27

-----------------------------------------------------------------------------
(* Fields *)

\* Mutant: what follows the last field is ignored.
NothingLeftIgnored(rest) == TRUE

NothingLeft(rest) == rest = <<>>

\* A type name that can be shown, with something after it.
GoodTypeName(name) ==
  /\ Len(name) \in 1..MaxTypeName
  /\ \A i \in DOMAIN name : name[i] \notin Unprintable

PublicKeyType(blob) ==
  LET name == TakeString(blob) IN
  [ok |-> name.ok /\ GoodTypeName(name.value) /\ Len(name.rest) # 0, name |-> name.value]

\* Peer-supplied text as it is shown.
DisplayText(text, limit) ==
  [i \in 1..(IF Len(text) <= limit THEN Len(text) ELSE limit + 1) |->
     CASE i = limit + 1         -> Ellipsis
       [] text[i] \in Invisible -> Blank
       [] OTHER                 -> text[i]]

-----------------------------------------------------------------------------
(* Frames *)

ValidFrame(frame, max) ==
  /\ Len(frame) >= 2
  /\ Len(frame) - 1 <= max
  /\ frame[1] = Len(frame) - 1

ValidateRequest(frame) == ValidFrame(frame, MaxRequest)

ValidateResponse(frame) ==
  /\ ValidFrame(frame, MaxResponse)
  /\ frame[2] = Failure => Len(frame) = 2

\* Mutant: a frame with anything after the extension's name is let through.
IsSessionBindExact(request) ==
  /\ request[2] = Extension
  /\ request = Frame(<<Extension>> \o Str(<<SessionBind>>))

IsSessionBind(request) ==
  /\ request[2] = Extension
  /\ LET name == TakeString(From(request, 3)) IN
       name.ok /\ name.value = <<SessionBind>>

\* QueryAgent answers these itself; the others go to the agent.
RefusedOneShot(request) == ValidateRequest(request) /\ IsSessionBind(request)

-----------------------------------------------------------------------------
(* The list of keys *)

\* One round of parseKeys' loop, over what the rounds before it have left.
ReadEntry(read) ==
  LET blob    == TakeString(read.rest)
      comment == TakeString(blob.rest)
  IN [ok   |-> read.ok /\ blob.ok /\ comment.ok /\ PublicKeyType(blob.value).ok,
      keys |-> Append(read.keys, [blob |-> blob.value, comment |-> comment.value]),
      rest |-> comment.rest]

\* What count rounds make of the entries.
ReadEntries(entries, count) ==
  LET read[n \in 0..count] ==
        IF n = 0 THEN [ok |-> TRUE, keys |-> <<>>, rest |-> entries]
                 ELSE ReadEntry(read[n - 1])
  IN read[count]

\* The entries of a reply, each its blob and its comment as the peer sent them:
\* a refusal and every malformed reply are not ok.
ParseKeys(reply) ==
  LET count == reply[3]
      body  == From(reply, 4)
      read  == ReadEntries(body, count)
      ok    == /\ ValidateResponse(reply)
               /\ reply[2] = KeyList
               /\ Len(reply) >= 3
               /\ count <= Len(body) \div 2
               /\ read.ok
               /\ NothingLeft(read.rest)
  IN [ok |-> ok, keys |-> IF ok THEN read.keys ELSE <<>>]

\* Key: a fingerprint stands for the blob it is the digest of.
Shown(entry) ==
  [type        |-> PublicKeyType(entry.blob).name,
   fingerprint |-> entry.blob,
   comment     |-> DisplayText(entry.comment, MaxComment)]

\* The encoding of a list of keys (draft-miller-ssh-agent), and the keys an
\* agent can list.
EncodeKeys(keys) ==
  Frame(<<KeyList, Len(keys)>>
        \o FlattenSeq([i \in DOMAIN keys |-> Str(keys[i].blob) \o Str(keys[i].comment)]))

\* A public-key blob: a type name and at least one symbol more.
GoodBlob(blob) ==
  /\ blob # <<>>
  /\ blob[1] \in 1..MaxTypeName
  /\ Len(blob) > blob[1] + 1
  /\ \A i \in 2..blob[1] + 1 : blob[i] \notin Unprintable

-----------------------------------------------------------------------------
(* Signature requests *)

NotUserauth == [ok |-> FALSE]

\* Mutant: any key may stand in the payload.
AnyKey(key, signingKey) == TRUE

SigningKey(key, signingKey) == key = signingKey

\* The fields of a publickey authentication payload for signingKey.
Userauth(data, signingKey) ==
  LET session   == TakeString(data)
      username  == TakeString(From(session.rest, 2))
      service   == TakeString(username.rest)
      method    == TakeString(service.rest)
      algorithm == TakeString(From(method.rest, 2))
      key       == TakeString(algorithm.rest)
      hostbound == method.value = <<HostBound>>
      hostKey   == TakeString(key.rest)
  IN IF /\ session.ok /\ session.value # <<>>
        /\ session.rest # <<>> /\ session.rest[1] = 50
        /\ username.ok /\ username.value # <<>>
        /\ service.ok /\ service.value = <<SshConnection>>
        /\ method.ok /\ (hostbound \/ method.value = <<PublicKey>>)
        /\ method.rest # <<>> /\ method.rest[1] = 1
        /\ algorithm.ok /\ algorithm.value # <<>>
        /\ key.ok /\ SigningKey(key.value, signingKey)
        /\ IF hostbound THEN hostKey.ok /\ hostKey.value # <<>> /\ NothingLeft(hostKey.rest)
                        ELSE NothingLeft(key.rest)
       THEN [ok |-> TRUE, session |-> session.value, username |-> username.value,
             method |-> method.value, algorithm |-> algorithm.value, key |-> key.value,
             hostKey |-> IF hostbound THEN hostKey.value ELSE <<>>]
       ELSE NotUserauth

\* userauthUsername: empty for any other payload.
UsernameOf(data, signingKey) ==
  LET auth == Userauth(data, signingKey) IN
  IF auth.ok THEN DisplayText(auth.username, MaxUsername) ELSE <<>>

NotSign == [ok |-> FALSE]

\* A complete sign request: blob, data and one word of flags.
ParseSignRequest(frame) ==
  LET blob == TakeString(From(frame, 3))
      data == TakeString(blob.rest)
  IN IF /\ ValidateRequest(frame)
        /\ frame[2] = SignCode
        /\ blob.ok /\ data.ok
        /\ Len(data.rest) = 1
        /\ PublicKeyType(blob.value).ok
       THEN [ok |-> TRUE, blob |-> blob.value, data |-> data.value, flags |-> data.rest[1],
             username |-> UsernameOf(data.value, blob.value)]
       ELSE NotSign

\* The encodings (RFC 4252 section 7, OpenSSH's host-bound form, and the
\* agent protocol). The nesting follows the order in which they are read.
EncodeUserauth(auth) ==
  Str(auth.session) \o (<<50>> \o (Str(auth.username)
    \o (Str(<<SshConnection>>) \o (Str(auth.method) \o (<<1>> \o (Str(auth.algorithm)
    \o (Str(auth.key)
    \o (IF auth.method = <<HostBound>> THEN Str(auth.hostKey) ELSE <<>>))))))))

EncodeSign(blob, data, flags) ==
  Frame(<<SignCode>> \o (Str(blob) \o (Str(data) \o <<flags>>)))

\* The payloads that name a user.
Payloads == [session : Message, username : Message, method : Message,
             algorithm : Message, key : Message, hostKey : Message]

GoodUserauth(auth, signingKey) ==
  /\ auth.session # <<>> /\ auth.username # <<>> /\ auth.algorithm # <<>>
  /\ auth.method \in {<<PublicKey>>, <<HostBound>>}
  /\ auth.key = signingKey
  /\ auth.hostKey = <<>> <=> auth.method = <<PublicKey>>
=============================================================================
