------------------------- MODULE AgentMetadataProofs -------------------------
(***************************************************************************)
(* TLAPS proofs about the parsers, for inputs of any content and length    *)
(* and for any limits: a list of keys, a sign request and an               *)
(* authentication payload are accepted exactly if they are the encoding of *)
(* what the parser returns, session-bind is recognised by its encoding, a  *)
(* notice's field shows whole runes, and a command line is taken for what  *)
(* the client takes it for. The parsers' loops are unrolled with           *)
(* Recursion, and facts about their rounds proved with NatSetInduction.    *)
(***************************************************************************)
EXTENDS AgentMetadata, ParserProofs

-----------------------------------------------------------------------------
(* Blobs *)

\* publicKeyType accepts a blob exactly if it is a good one.
LEMMA PublicKeyTypeExact ==
  ASSUME NEW b \in Message
  PROVE  PublicKeyType(b).ok <=> GoodBlob(b)
<1>1. PICK t : t = TakeString(b)
  OBVIOUS
<1>2. PublicKeyType(b).ok <=> t.ok /\ GoodTypeName(t.value) /\ Len(t.rest) # 0
  BY <1>1 DEF PublicKeyType
<1>3. t.ok <=> HasString(b)
  BY <1>1, TakeStringPlaces
<1>4. b # <<>> <=> Len(b) >= 1
  BY DEF Message
<1>5. Len(b) \in Nat /\ \A i \in 1..Len(b) : b[i] \in Nat
  BY DEF Message
<1>6. CASE ~t.ok
  <2>1. ~(Len(b) >= 1) \/ ~(b[1] <= Len(b) - 1)
    BY <1>3, <1>6 DEF HasString
  <2>2. ~GoodBlob(b)
    BY <1>4, <1>5, <2>1 DEF GoodBlob
  <2>3. QED
    BY <1>2, <1>6, <2>2
<1>7. CASE t.ok
  <2>1. PICK v \in Seq(Nat), r \in Seq(Nat) : v = t.value /\ r = t.rest
    BY <1>1, <1>7, TakeStringSplits DEF Message
  <2>2. /\ b[1] = Len(v)
        /\ Len(b) = 1 + Len(v) + Len(r)
        /\ \A i \in 1..Len(v) : v[i] = b[i + 1]
    BY <1>1, <1>7, <2>1, TakeStringPlaces
  <2>3. DOMAIN v = 1..Len(v) /\ Len(v) \in Nat /\ Len(r) \in Nat
    OBVIOUS
  <2>4. GoodTypeName(v) <=>
          b[1] \in 1..MaxTypeName /\ \A i \in 2..b[1] + 1 : b[i] \notin Unprintable
    <3>1. ASSUME \A i \in 1..Len(v) : v[i] \notin Unprintable, NEW i \in 2..b[1] + 1
          PROVE  b[i] \notin Unprintable
      <4>1. i - 1 \in 1..Len(v) /\ (i - 1) + 1 = i
        BY <2>2, <2>3
      <4>2. QED
        BY <2>2, <3>1, <4>1
    <3>2. ASSUME \A i \in 2..b[1] + 1 : b[i] \notin Unprintable, NEW i \in 1..Len(v)
          PROVE  v[i] \notin Unprintable
      <4>1. i + 1 \in 2..b[1] + 1
        BY <2>2, <2>3
      <4>2. QED
        BY <2>2, <3>2, <4>1
    <3>3. QED
      BY <2>2, <2>3, <3>1, <3>2, Zenon DEF GoodTypeName
  <2>5. Len(b) > b[1] + 1 <=> Len(r) # 0
    BY <2>2, <2>3
  <2>6. b # <<>>
    BY <1>4, <2>2, <2>3
  <2>7. QED
    BY <1>2, <1>7, <2>1, <2>4, <2>5, <2>6, Zenon DEF GoodBlob
<1>8. QED
  BY <1>6, <1>7

-----------------------------------------------------------------------------
(* Authentication payloads *)

\* An accepted payload is, to the last symbol, the encoding of its fields.
LEMMA UserauthSound ==
  ASSUME NEW data \in Message, NEW signingKey \in Message, Userauth(data, signingKey).ok
  PROVE  /\ GoodUserauth(Userauth(data, signingKey), signingKey)
         /\ data = EncodeUserauth(Userauth(data, signingKey))
         /\ Userauth(data, signingKey).username \in Message
<1>1. PICK session : session = TakeString(data)
  OBVIOUS
<1>2. PICK username : username = TakeString(From(session.rest, 2))
  OBVIOUS
<1>3. PICK service : service = TakeString(username.rest)
  OBVIOUS
<1>4. PICK method : method = TakeString(service.rest)
  OBVIOUS
<1>5. PICK algorithm : algorithm = TakeString(From(method.rest, 2))
  OBVIOUS
<1>6. PICK key : key = TakeString(algorithm.rest)
  OBVIOUS
<1>7. PICK hostKey : hostKey = TakeString(key.rest)
  OBVIOUS
<1> DEFINE auth == [ok |-> TRUE, session |-> session.value, username |-> username.value,
                    method |-> method.value, algorithm |-> algorithm.value, key |-> key.value,
                    hostKey |-> IF method.value = <<HostBound>> THEN hostKey.value ELSE <<>>]
           fields == /\ session.ok /\ session.value # <<>>
                     /\ session.rest # <<>> /\ session.rest[1] = 50
                     /\ username.ok /\ username.value # <<>>
                     /\ service.ok /\ service.value = <<SshConnection>>
                     /\ method.ok /\ (method.value = <<HostBound>> \/ method.value = <<PublicKey>>)
                     /\ method.rest # <<>> /\ method.rest[1] = 1
                     /\ algorithm.ok /\ algorithm.value # <<>>
                     /\ key.ok /\ key.value = signingKey
                     /\ IF method.value = <<HostBound>>
                          THEN hostKey.ok /\ hostKey.value # <<>> /\ hostKey.rest = <<>>
                          ELSE key.rest = <<>>
<1>8. Userauth(data, signingKey) = IF fields THEN auth ELSE NotUserauth
  BY <1>1, <1>2, <1>3, <1>4, <1>5, <1>6, <1>7, Zenon
  DEF Userauth, SigningKey, NothingLeft
<1>9. fields /\ Userauth(data, signingKey) = auth
  <2>1. ~NotUserauth.ok
    BY DEF NotUserauth
  <2>2. QED
    BY <1>8, <2>1, Zenon
<1> HIDE DEF auth
<1>10. /\ auth.session = session.value /\ auth.username = username.value
       /\ auth.method = method.value /\ auth.algorithm = algorithm.value
       /\ auth.key = key.value
       /\ auth.hostKey = IF method.value = <<HostBound>> THEN hostKey.value ELSE <<>>
  BY DEF auth
<1>11. <<PublicKey>> # <<HostBound>>
  BY WireAssumption
<1>12. /\ session.value \in Message /\ session.rest \in Message
       /\ data = Str(session.value) \o session.rest
  BY <1>1, <1>9, TakeStringSplits, Zenon
<1>13. From(session.rest, 2) \in Message /\ session.rest = <<50>> \o From(session.rest, 2)
  BY <1>9, <1>12, FrontSplits, ZenonT(60)
<1>14. /\ username.value \in Message /\ username.rest \in Message
       /\ From(session.rest, 2) = Str(username.value) \o username.rest
  BY <1>2, <1>9, <1>13, TakeStringSplits, Zenon
<1>15. /\ service.rest \in Message /\ username.rest = Str(service.value) \o service.rest
  BY <1>3, <1>9, <1>14, TakeStringSplits, Zenon
<1>16. /\ method.rest \in Message /\ service.rest = Str(method.value) \o method.rest
  BY <1>4, <1>9, <1>15, TakeStringSplits, Zenon
<1>17. From(method.rest, 2) \in Message /\ method.rest = <<1>> \o From(method.rest, 2)
  BY <1>9, <1>16, FrontSplits, Zenon
<1>18. /\ algorithm.rest \in Message
       /\ From(method.rest, 2) = Str(algorithm.value) \o algorithm.rest
  BY <1>5, <1>9, <1>17, TakeStringSplits, Zenon
<1>19. /\ key.rest \in Message /\ algorithm.rest = Str(key.value) \o key.rest
  BY <1>6, <1>9, <1>18, TakeStringSplits, Zenon
<1>20. key.rest = IF auth.method = <<HostBound>> THEN Str(auth.hostKey) ELSE <<>>
  <2>1. CASE method.value = <<HostBound>>
    <3>1. /\ hostKey.value \in Message /\ hostKey.rest = <<>>
          /\ key.rest = Str(hostKey.value) \o hostKey.rest
      BY <1>7, <1>9, <1>19, <2>1, TakeStringSplits, Zenon
    <3>2. Str(hostKey.value) \o <<>> = Str(hostKey.value)
      BY <3>1, StrType, ConcatEmptySeq, Zenon DEF Message
    <3>3. QED
      BY <1>10, <2>1, <3>1, <3>2, Zenon
  <2>2. CASE method.value # <<HostBound>>
    BY <1>9, <1>10, <2>2, Zenon
  <2>3. QED
    BY <2>1, <2>2
<1>21. data = EncodeUserauth(auth)
  <2>1. PICK end : end = IF auth.method = <<HostBound>> THEN Str(auth.hostKey) ELSE <<>>
    OBVIOUS
  <2>2. algorithm.rest = Str(auth.key) \o end
    BY <1>10, <1>19, <1>20, <2>1, Zenon
  <2>3. method.rest = <<1>> \o (Str(auth.algorithm) \o (Str(auth.key) \o end))
    BY <1>10, <1>17, <1>18, <2>2, Zenon
  <2>4. username.rest = Str(<<SshConnection>>) \o (Str(auth.method) \o method.rest)
    BY <1>9, <1>10, <1>15, <1>16, Zenon
  <2>5. data = Str(auth.session) \o (<<50>> \o (Str(auth.username) \o username.rest))
    BY <1>10, <1>12, <1>13, <1>14, Zenon
  <2>6. QED
    BY <2>1, <2>3, <2>4, <2>5, Zenon DEF EncodeUserauth
<1>22. GoodUserauth(auth, signingKey)
  BY <1>9, <1>10, <1>11, ZenonT(60) DEF GoodUserauth
<1>23. QED
  BY <1>9, <1>10, <1>14, <1>21, <1>22, Zenon

\* And every publickey payload is accepted, with the user it names.
LEMMA UserauthComplete ==
  ASSUME NEW signingKey \in Message, NEW auth \in Payloads, GoodUserauth(auth, signingKey)
  PROVE  /\ EncodeUserauth(auth) \in Message
         /\ Userauth(EncodeUserauth(auth), signingKey).ok
         /\ Userauth(EncodeUserauth(auth), signingKey).username = auth.username
<1>1. /\ auth.session \in Message /\ auth.username \in Message /\ auth.method \in Message
      /\ auth.algorithm \in Message /\ auth.key \in Message /\ auth.hostKey \in Message
  BY DEF Payloads
<1>2. <<SshConnection>> \in Message /\ <<PublicKey>> # <<HostBound>>
      /\ <<>> \in Message /\ 1 \in Nat /\ 50 \in Nat
  BY WireAssumption DEF Message
<1>3. PICK end : end = IF auth.method = <<HostBound>> THEN Str(auth.hostKey) ELSE <<>>
  OBVIOUS
<1>4. PICK afterAlgorithm : afterAlgorithm = Str(auth.key) \o end
  OBVIOUS
<1>5. PICK afterFlag : afterFlag = Str(auth.algorithm) \o afterAlgorithm
  OBVIOUS
<1>6. PICK afterMethod : afterMethod = <<1>> \o afterFlag
  OBVIOUS
<1>7. PICK afterService : afterService = Str(auth.method) \o afterMethod
  OBVIOUS
<1>8. PICK afterUsername : afterUsername = Str(<<SshConnection>>) \o afterService
  OBVIOUS
<1>9. PICK afterType : afterType = Str(auth.username) \o afterUsername
  OBVIOUS
<1>10. PICK afterSession : afterSession = <<50>> \o afterType
  OBVIOUS
<1>11. PICK data : data = Str(auth.session) \o afterSession
  OBVIOUS
<1>12. data = EncodeUserauth(auth)
  BY <1>3, <1>4, <1>5, <1>6, <1>7, <1>8, <1>9, <1>10, <1>11, Zenon DEF EncodeUserauth
<1>13. end \in Message
  BY <1>1, <1>2, <1>3, StrType, Zenon
<1>14. afterAlgorithm \in Message
  BY <1>1, <1>4, <1>13, StrType, AppendType, Zenon
<1>15. afterFlag \in Message
  BY <1>1, <1>5, <1>14, StrType, AppendType, Zenon
<1>16. /\ afterMethod \in Message /\ afterMethod # <<>> /\ afterMethod[1] = 1
       /\ From(afterMethod, 2) = afterFlag
  BY <1>2, <1>6, <1>15, FrontReads, Zenon
<1>17. afterService \in Message
  BY <1>1, <1>7, <1>16, StrType, AppendType, Zenon
<1>18. afterUsername \in Message
  BY <1>2, <1>8, <1>17, StrType, AppendType, Zenon
<1>19. afterType \in Message
  BY <1>1, <1>9, <1>18, StrType, AppendType, Zenon
<1>20. /\ afterSession \in Message /\ afterSession # <<>> /\ afterSession[1] = 50
       /\ From(afterSession, 2) = afterType
  BY <1>2, <1>10, <1>19, FrontReads, ZenonT(60)
<1>21. data \in Message
  BY <1>1, <1>11, <1>20, StrType, AppendType, Zenon
<1>22. TakeString(data) = [ok |-> TRUE, value |-> auth.session, rest |-> afterSession]
  BY <1>1, <1>11, <1>20, TakeStringReads, ZenonT(60)
<1>23. TakeString(afterType) = [ok |-> TRUE, value |-> auth.username, rest |-> afterUsername]
  BY <1>1, <1>9, <1>18, TakeStringReads, Zenon
<1>24. TakeString(afterUsername) =
         [ok |-> TRUE, value |-> <<SshConnection>>, rest |-> afterService]
  BY <1>2, <1>8, <1>17, TakeStringReads, Zenon
<1>25. TakeString(afterService) = [ok |-> TRUE, value |-> auth.method, rest |-> afterMethod]
  BY <1>1, <1>7, <1>16, TakeStringReads, Zenon
<1>26. TakeString(afterFlag) = [ok |-> TRUE, value |-> auth.algorithm, rest |-> afterAlgorithm]
  BY <1>1, <1>5, <1>14, TakeStringReads, Zenon
<1>27. TakeString(afterAlgorithm) = [ok |-> TRUE, value |-> auth.key, rest |-> end]
  BY <1>1, <1>4, <1>13, TakeStringReads, Zenon
<1>28. auth.method = <<HostBound>> =>
         TakeString(end) = [ok |-> TRUE, value |-> auth.hostKey, rest |-> <<>>]
  <2>1. Str(auth.hostKey) \o <<>> = Str(auth.hostKey)
    BY <1>1, StrType, ConcatEmptySeq, Zenon DEF Message
  <2>2. QED
    BY <1>1, <1>2, <1>3, <2>1, TakeStringReads, Zenon
<1>29. Userauth(data, signingKey).ok /\ Userauth(data, signingKey).username = auth.username
  <2>1. PICK session : session = TakeString(data)
    OBVIOUS
  <2>2. PICK username : username = TakeString(From(session.rest, 2))
    OBVIOUS
  <2>3. PICK service : service = TakeString(username.rest)
    OBVIOUS
  <2>4. PICK method : method = TakeString(service.rest)
    OBVIOUS
  <2>5. PICK algorithm : algorithm = TakeString(From(method.rest, 2))
    OBVIOUS
  <2>6. PICK key : key = TakeString(algorithm.rest)
    OBVIOUS
  <2>7. PICK hostKey : hostKey = TakeString(key.rest)
    OBVIOUS
  <2>8. session.ok /\ session.value = auth.session /\ session.rest = afterSession
    BY <1>22, <2>1
  <2>9. username.ok /\ username.value = auth.username /\ username.rest = afterUsername
    BY <1>20, <1>23, <2>2, <2>8
  <2>10. service.ok /\ service.value = <<SshConnection>> /\ service.rest = afterService
    BY <1>24, <2>3, <2>9
  <2>11. method.ok /\ method.value = auth.method /\ method.rest = afterMethod
    BY <1>25, <2>4, <2>10
  <2>12. algorithm.ok /\ algorithm.value = auth.algorithm /\ algorithm.rest = afterAlgorithm
    BY <1>16, <1>26, <2>5, <2>11
  <2>13. key.ok /\ key.value = auth.key /\ key.rest = end
    BY <1>27, <2>6, <2>12
  <2>14. auth.method = <<HostBound>> =>
           hostKey.ok /\ hostKey.value = auth.hostKey /\ hostKey.rest = <<>>
    BY <1>28, <2>7, <2>13
  <2>15. /\ auth.session # <<>> /\ auth.username # <<>> /\ auth.algorithm # <<>>
         /\ auth.method = <<PublicKey>> \/ auth.method = <<HostBound>>
         /\ auth.key = signingKey
         /\ auth.hostKey = <<>> <=> auth.method = <<PublicKey>>
    BY Zenon DEF GoodUserauth
  <2>16. IF method.value = <<HostBound>>
           THEN hostKey.ok /\ hostKey.value # <<>> /\ hostKey.rest = <<>>
           ELSE key.rest = <<>>
    BY <1>2, <1>3, <2>11, <2>13, <2>14, <2>15, Zenon
  <2> DEFINE fields == /\ session.ok /\ session.value # <<>>
                       /\ session.rest # <<>> /\ session.rest[1] = 50
                       /\ username.ok /\ username.value # <<>>
                       /\ service.ok /\ service.value = <<SshConnection>>
                       /\ method.ok
                       /\ (method.value = <<HostBound>> \/ method.value = <<PublicKey>>)
                       /\ method.rest # <<>> /\ method.rest[1] = 1
                       /\ algorithm.ok /\ algorithm.value # <<>>
                       /\ key.ok /\ key.value = signingKey
                       /\ IF method.value = <<HostBound>>
                            THEN hostKey.ok /\ hostKey.value # <<>> /\ hostKey.rest = <<>>
                            ELSE key.rest = <<>>
             read == [ok |-> TRUE, session |-> session.value, username |-> username.value,
                      method |-> method.value, algorithm |-> algorithm.value, key |-> key.value,
                      hostKey |-> IF method.value = <<HostBound>> THEN hostKey.value ELSE <<>>]
  <2>17. Userauth(data, signingKey) = IF fields THEN read ELSE NotUserauth
    BY <2>1, <2>2, <2>3, <2>4, <2>5, <2>6, <2>7, Zenon DEF Userauth, SigningKey, NothingLeft
  <2>18. fields
    <3>1. session.rest # <<>> /\ session.rest[1] = 50
      BY <1>20, <2>8, Zenon
    <3>2. method.rest # <<>> /\ method.rest[1] = 1
      BY <1>16, <2>11, Zenon
    <3>3. session.value # <<>> /\ username.value # <<>> /\ algorithm.value # <<>>
      BY <2>8, <2>9, <2>12, <2>15, Zenon
    <3>4. method.value = <<HostBound>> \/ method.value = <<PublicKey>>
      BY <2>11, <2>15, Zenon
    <3>5. key.value = signingKey
      BY <2>13, <2>15, Zenon
    <3>6. QED
      BY <2>8, <2>9, <2>10, <2>11, <2>12, <2>13, <2>16, <3>1, <3>2, <3>3, <3>4, <3>5, Zenon
  <2>19. read.ok /\ read.username = username.value
    OBVIOUS
  <2>20. QED
    BY <2>9, <2>17, <2>18, <2>19, Zenon
<1>30. QED
  BY <1>12, <1>21, <1>29, Zenon

-----------------------------------------------------------------------------
(* Signature requests *)

\* A sign request that is accepted is the encoding of what is returned.
LEMMA SignSound ==
  ASSUME NEW frame \in Message, ParseSignRequest(frame).ok
  PROVE  LET r == ParseSignRequest(frame) IN
         /\ frame = EncodeSign(r.blob, r.data, r.flags)
         /\ GoodBlob(r.blob) /\ r.blob \in Message /\ r.data \in Message
         /\ r.username = UsernameOf(r.data, r.blob)
<1>1. PICK blob : blob = TakeString(From(frame, 3))
  OBVIOUS
<1>2. PICK data : data = TakeString(blob.rest)
  OBVIOUS
<1> DEFINE fields == /\ ValidateRequest(frame)
                     /\ frame[2] = SignCode
                     /\ blob.ok /\ data.ok
                     /\ Len(data.rest) = 1
                     /\ PublicKeyType(blob.value).ok
           read == [ok |-> TRUE, blob |-> blob.value, data |-> data.value,
                    flags |-> data.rest[1], username |-> UsernameOf(data.value, blob.value)]
<1>3. ParseSignRequest(frame) = IF fields THEN read ELSE NotSign
  BY <1>1, <1>2, Zenon DEF ParseSignRequest
<1>4. fields /\ ParseSignRequest(frame) = read
  <2>1. ~NotSign.ok
    BY DEF NotSign
  <2>2. QED
    BY <1>3, <2>1, Zenon
<1> HIDE DEF read
<1>5. /\ read.blob = blob.value /\ read.data = data.value /\ read.flags = data.rest[1]
      /\ read.username = UsernameOf(data.value, blob.value)
  BY DEF read
<1>6. /\ From(frame, 3) \in Message
      /\ frame = Frame(<<SignCode>> \o From(frame, 3))
  <2>1. Len(frame) >= 2 /\ frame[1] = Len(frame) - 1
    BY <1>4, Zenon DEF ValidateRequest, ValidFrame
  <2>2. QED
    BY <1>4, <2>1, FrameSplits, Zenon
<1>7. /\ blob.value \in Message /\ blob.rest \in Message
      /\ From(frame, 3) = Str(blob.value) \o blob.rest
  BY <1>1, <1>4, <1>6, TakeStringSplits, Zenon
<1>8. /\ data.value \in Message /\ data.rest \in Message
      /\ blob.rest = Str(data.value) \o data.rest
  BY <1>2, <1>4, <1>7, TakeStringSplits, Zenon
<1>9. data.rest = <<data.rest[1]>>
  <2>1. \A w \in Seq(Nat) : Len(w) = 1 => w = <<w[1]>>
    OBVIOUS
  <2>2. QED
    BY <1>4, <1>8, <2>1, Zenon DEF Message
<1>10. GoodBlob(blob.value)
  BY <1>4, <1>7, PublicKeyTypeExact, Zenon
<1>11. frame = EncodeSign(read.blob, read.data, read.flags)
  <2>1. From(frame, 3) = Str(read.blob) \o (Str(read.data) \o <<read.flags>>)
    BY <1>5, <1>7, <1>8, <1>9, Zenon
  <2>2. QED
    BY <1>6, <2>1, Zenon DEF EncodeSign
<1>12. QED
  BY <1>4, <1>5, <1>7, <1>8, <1>10, <1>11, Zenon

\* Every encoding of a good blob within the limit is accepted.
LEMMA SignComplete ==
  ASSUME NEW b \in Message, GoodBlob(b), NEW d \in Message, NEW flags \in Nat,
         Len(EncodeSign(b, d, flags)) - 1 <= MaxRequest
  PROVE  LET r == ParseSignRequest(EncodeSign(b, d, flags)) IN
         r.ok /\ r.blob = b /\ r.data = d /\ r.username = UsernameOf(d, b)
<1>1. PICK word : word = <<flags>>
  OBVIOUS
<1>2. word \in Message /\ Len(word) = 1
  BY <1>1 DEF Message
<1>3. PICK body : body = Str(b) \o (Str(d) \o word)
  OBVIOUS
<1>4. Str(d) \o word \in Message /\ body \in Message
  BY <1>2, <1>3, StrType, AppendType, Zenon
<1>5. PICK frame : frame = Frame(<<SignCode>> \o body)
  OBVIOUS
<1>6. frame = EncodeSign(b, d, flags)
  BY <1>1, <1>3, <1>5, Zenon DEF EncodeSign
<1>7. SignCode \in Nat
  BY DEF SignCode
<1>8. /\ Len(frame) = 2 + Len(body) /\ frame[1] = Len(frame) - 1
      /\ frame[2] = SignCode /\ From(frame, 3) = body
  BY <1>4, <1>5, <1>7, FrameReads, Zenon
<1>9. ValidateRequest(frame)
  <2>1. \A n \in Nat : 2 + n >= 2
    OBVIOUS
  <2>2. Len(body) \in Nat
    BY <1>4 DEF Message
  <2>3. QED
    BY <1>6, <1>8, <2>1, <2>2, Zenon DEF ValidateRequest, ValidFrame
<1>10. PICK blob : blob = TakeString(From(frame, 3))
  OBVIOUS
<1>11. PICK data : data = TakeString(blob.rest)
  OBVIOUS
<1>12. TakeString(body) = [ok |-> TRUE, value |-> b, rest |-> Str(d) \o word]
  BY <1>3, <1>4, TakeStringReads, Zenon
<1>13. blob.ok /\ blob.value = b /\ blob.rest = Str(d) \o word
  BY <1>8, <1>10, <1>12
<1>14. TakeString(Str(d) \o word) = [ok |-> TRUE, value |-> d, rest |-> word]
  BY <1>2, TakeStringReads, Zenon
<1>15. data.ok /\ data.value = d /\ data.rest = word
  BY <1>11, <1>13, <1>14
<1>16. PublicKeyType(b).ok
  BY PublicKeyTypeExact, Zenon
<1> DEFINE fields == /\ ValidateRequest(frame)
                     /\ frame[2] = SignCode
                     /\ blob.ok /\ data.ok
                     /\ Len(data.rest) = 1
                     /\ PublicKeyType(blob.value).ok
           read == [ok |-> TRUE, blob |-> blob.value, data |-> data.value,
                    flags |-> data.rest[1], username |-> UsernameOf(data.value, blob.value)]
<1>17. ParseSignRequest(frame) = IF fields THEN read ELSE NotSign
  BY <1>10, <1>11, Zenon DEF ParseSignRequest
<1>18. fields
  BY <1>2, <1>8, <1>9, <1>13, <1>15, <1>16, Zenon
<1>19. /\ read.ok /\ read.blob = blob.value /\ read.data = data.value
       /\ read.username = UsernameOf(data.value, blob.value)
  OBVIOUS
<1> HIDE DEF read, fields
<1>20. QED
  BY <1>6, <1>13, <1>15, <1>17, <1>18, <1>19, Zenon

-----------------------------------------------------------------------------
(* Session bindings *)

\* A one-shot request is refused exactly if an agent reads it as session-bind.
LEMMA RefusedExactly ==
  ASSUME NEW frame \in Message
  PROVE  RefusedOneShot(frame) <=>
           /\ ValidateRequest(frame)
           /\ Len(frame) >= 4
           /\ SubSeq(frame, 2, 4) = <<Extension>> \o Str(<<SessionBind>>)
<1>1. PICK body : body = From(frame, 3)
  OBVIOUS
<1>2. PICK name : name = TakeString(body)
  OBVIOUS
<1> DEFINE bind == <<Extension, 1, SessionBind>>
<1>3. <<Extension>> \o Str(<<SessionBind>>) = bind
  <2>1. SessionBind \in Nat /\ Extension \in Nat
    BY WireAssumption DEF Extension
  <2>2. PICK n : n = <<SessionBind>>
    OBVIOUS
  <2>3. n \in Seq(Nat) /\ Len(n) = 1 /\ n[1] = SessionBind
    BY <2>1, <2>2
  <2>4. PICK s : s = <<1>> \o n
    OBVIOUS
  <2>5. s \in Seq(Nat) /\ Len(s) = 2 /\ s[1] = 1 /\ s[2] = SessionBind
    <3>1. 1 \in Nat /\ n \in Message
      BY <2>3 DEF Message
    <3>2. /\ s \in Message /\ Len(s) = 1 + Len(n) /\ s[1] = 1
          /\ \A i \in 1..Len(n) : s[i + 1] = n[i]
      BY <2>4, <3>1, Prefixed, ZenonT(60)
    <3>3. s[1 + 1] = n[1]
      BY <2>3, <3>2
    <3>4. QED
      BY <2>3, <3>2, <3>3 DEF Message
  <2>6. Str(<<SessionBind>>) = s
    BY <2>2, <2>3, <2>4, Zenon DEF Str
  <2>7. PICK b : b = <<Extension>> \o s
    OBVIOUS
  <2>8. b \in Seq(Nat) /\ Len(b) = 3 /\ b[1] = Extension /\ b[2] = 1 /\ b[3] = SessionBind
    <3>1. /\ b \in Message /\ Len(b) = 1 + Len(s) /\ b[1] = Extension
          /\ \A i \in 1..Len(s) : b[i + 1] = s[i]
      BY <2>1, <2>5, <2>7, Prefixed, Zenon DEF Message
    <3>2. b[1 + 1] = s[1] /\ b[2 + 1] = s[2]
      BY <2>5, <3>1
    <3>3. QED
      BY <2>5, <3>1, <3>2 DEF Message
  <2>9. b = bind
    BY <2>8
  <2>10. QED
    BY <2>6, <2>7, <2>9, Zenon
<1>4. RefusedOneShot(frame) <=>
        ValidateRequest(frame) /\ frame[2] = Extension /\ name.ok /\ name.value = <<SessionBind>>
  BY <1>1, <1>2, Zenon DEF RefusedOneShot, IsSessionBind
<1>5. SUFFICES ASSUME ValidateRequest(frame)
               PROVE  frame[2] = Extension /\ name.ok /\ name.value = <<SessionBind>>
                        <=> Len(frame) >= 4 /\ SubSeq(frame, 2, 4) = bind
  BY <1>3, <1>4, Zenon
<1>6. Len(frame) \in Nat /\ Len(frame) >= 2
  BY <1>5 DEF ValidateRequest, ValidFrame, Message
<1>7. /\ body \in Message /\ Len(body) = Len(frame) - 2
      /\ \A i \in 1..Len(body) : body[i] = frame[i + 2]
  <2>1. PICK n \in Nat : n = Len(frame)
    BY <1>6
  <2>2. \A i \in 3..n : frame[i] \in Nat
    BY <2>1 DEF Message
  <2>3. /\ SubSeq(frame, 3, n) \in Seq(Nat)
        /\ Len(SubSeq(frame, 3, n)) = IF 3 <= n THEN n - 3 + 1 ELSE 0
        /\ \A i \in 1..n - 3 + 1 : SubSeq(frame, 3, n)[i] = frame[3 + i - 1]
    BY <2>2, SubSeqProperties
  <2>4. body = SubSeq(frame, 3, n)
    BY <1>1, <2>1, Zenon DEF From
  <2>5. Len(body) = n - 2
    <3>1. n >= 2
      BY <1>6, <2>1
    <3>2. (IF 3 <= n THEN n - 3 + 1 ELSE 0) = n - 2
      BY <3>1
    <3>3. QED
      BY <2>3, <2>4, <3>2, Zenon
  <2>6. ASSUME NEW i \in 1..Len(body) PROVE body[i] = frame[i + 2]
    <3>1. i \in 1..n - 3 + 1 /\ 3 + i - 1 = i + 2
      BY <1>6, <2>1, <2>5
    <3>2. QED
      BY <2>3, <2>4, <3>1, Zenon
  <2>7. QED
    BY <2>1, <2>3, <2>4, <2>5, <2>6, Zenon DEF Message
<1>8. /\ name.ok <=> HasString(body)
      /\ name.ok =>
           /\ name.value \in Seq(Nat)
           /\ body[1] = Len(name.value)
           /\ Len(body) = 1 + Len(name.value) + Len(name.rest)
           /\ \A i \in 1..Len(name.value) : name.value[i] = body[i + 1]
           /\ Len(name.rest) \in Nat
  <2>1. name.ok => name.value \in Seq(Nat) /\ name.rest \in Seq(Nat)
    BY <1>2, <1>7, TakeStringSplits, Zenon DEF Message
  <2>2. name.ok => Len(name.rest) \in Nat
    BY <2>1
  <2>3. QED
    BY <1>2, <1>7, <2>1, <2>2, TakeStringPlaces, Zenon
<1>9. ASSUME Len(frame) >= 4
      PROVE  SubSeq(frame, 2, 4) = bind
               <=> frame[2] = Extension /\ frame[3] = 1 /\ frame[4] = SessionBind
  <2>1. \A i \in 2..4 : frame[i] \in Nat
    BY <1>6, <1>9 DEF Message
  <2>2. PICK s : s = SubSeq(frame, 2, 4)
    OBVIOUS
  <2>3. /\ SubSeq(frame, 2, 4) \in Seq(Nat)
        /\ Len(SubSeq(frame, 2, 4)) = IF 2 <= 4 THEN 4 - 2 + 1 ELSE 0
        /\ \A i \in 1..4 - 2 + 1 : SubSeq(frame, 2, 4)[i] = frame[2 + i - 1]
    BY <2>1, SubSeqProperties
  <2>4. s \in Seq(Nat) /\ Len(s) = 3 /\ s[1] = frame[2] /\ s[2] = frame[3] /\ s[3] = frame[4]
    BY <2>2, <2>3
  <2>5. s = bind <=> s[1] = Extension /\ s[2] = 1 /\ s[3] = SessionBind
    BY <2>4
  <2>6. QED
    BY <2>2, <2>4, <2>5, Zenon
<1>10. ASSUME name.ok, name.value = <<SessionBind>>
       PROVE  Len(frame) >= 4 /\ frame[3] = 1 /\ frame[4] = SessionBind
  <2>1. Len(name.value) = 1 /\ name.value[1] = SessionBind
    BY <1>10
  <2>2. Len(body) >= 2 /\ body[1] = 1 /\ body[2] = SessionBind
    BY <1>8, <1>10, <2>1
  <2>3. QED
    BY <1>6, <1>7, <2>2
<1>11. ASSUME Len(frame) >= 4, frame[3] = 1, frame[4] = SessionBind
       PROVE  name.ok /\ name.value = <<SessionBind>>
  <2>1. Len(body) >= 2 /\ body[1] = 1 /\ body[2] = SessionBind
    BY <1>6, <1>7, <1>11
  <2>2. HasString(body)
    BY <1>6, <1>7, <2>1 DEF HasString
  <2>3. PICK v \in Seq(Nat) : v = name.value
    BY <1>8, <2>2, Zenon
  <2>4. Len(v) = 1
    BY <1>8, <2>1, <2>2, <2>3, Zenon
  <2>5. v[1] = body[1 + 1]
    <3>1. 1 \in 1..Len(v)
      BY <2>4
    <3>2. QED
      BY <1>8, <2>2, <2>3, <3>1, Zenon
  <2>6. v = <<SessionBind>>
    BY <2>1, <2>4, <2>5
  <2>7. QED
    BY <1>8, <2>2, <2>3, <2>6, Zenon
<1>12. QED
  BY <1>9, <1>10, <1>11, Zenon

-----------------------------------------------------------------------------
(* The list of keys *)

\* The entries of a list, and what the loop has read.
Entry == [blob : Message, comment : Message]
ReadState == [ok : BOOLEAN, keys : Seq(Entry), rest : Message]

\* An entry on the wire, and those of a list.
Part(entry) == Str(entry.blob) \o Str(entry.comment)
Parts(keys) == [i \in DOMAIN keys |-> Part(keys[i])]

\* An entry on the wire is a message with two lengths in it at least.
LEMMA PartType ==
  ASSUME NEW e \in Entry
  PROVE  Part(e) \in Message /\ Len(Part(e)) >= 2
<1>1. PICK b \in Message, c \in Message : b = e.blob /\ c = e.comment
  BY DEF Entry
<1>2. Str(b) \in Message /\ Str(c) \in Message
  BY StrType, Zenon
<1>3. Len(Str(b)) >= 1 /\ Len(Str(c)) >= 1
  BY DEF Str, Message
<1>4. \A v, w \in Message : Len(v) >= 1 /\ Len(w) >= 1 => v \o w \in Message /\ Len(v \o w) >= 2
  BY DEF Message
<1>5. QED
  BY <1>1, <1>2, <1>3, <1>4, Zenon DEF Part

\* The entries of a list on the wire are one message each.
LEMMA PartsType ==
  ASSUME NEW keys \in Seq(Entry)
  PROVE  /\ Parts(keys) \in Seq(Message) /\ Len(Parts(keys)) = Len(keys)
         /\ \A i \in 1..Len(keys) : Parts(keys)[i] = Part(keys[i]) /\ Len(Parts(keys)[i]) >= 2
<1>1. PICK n \in Nat : n = Len(keys) /\ DOMAIN keys = 1..n
  OBVIOUS
<1>2. \A i \in 1..n : keys[i] \in Entry
  BY <1>1
<1>3. \A i \in 1..n : Part(keys[i]) \in Message /\ Len(Part(keys[i])) >= 2
  BY <1>2, PartType, Zenon
<1>4. Parts(keys) = [i \in 1..n |-> Part(keys[i])]
  BY <1>1, Zenon DEF Parts
<1>5. PICK s : s = [i \in 1..n |-> Part(keys[i])]
  OBVIOUS
<1>6. s \in Seq(Message) /\ Len(s) = n
  BY <1>3, <1>5
<1>7. \A i \in 1..n : s[i] = Part(keys[i])
  BY <1>5, Zenon
<1>8. QED
  BY <1>1, <1>3, <1>4, <1>5, <1>6, <1>7, Zenon

\* A round keeps what it was given for the next one, and reads one entry.
LEMMA ReadEntrySplits ==
  ASSUME NEW r \in ReadState
  PROVE  /\ ReadEntry(r) \in ReadState
         /\ \E e \in Entry :
              /\ ReadEntry(r).keys = Append(r.keys, e)
              /\ ReadEntry(r).ok =>
                   r.ok /\ GoodBlob(e.blob) /\ r.rest = Part(e) \o ReadEntry(r).rest
<1>1. r.ok \in BOOLEAN /\ r.keys \in Seq(Entry) /\ r.rest \in Message
  BY DEF ReadState
<1>2. PICK blob : blob = TakeString(r.rest)
  OBVIOUS
<1>3. PICK comment : comment = TakeString(blob.rest)
  OBVIOUS
<1>4. /\ blob.ok \in BOOLEAN /\ blob.value \in Message /\ blob.rest \in Message
      /\ comment.ok \in BOOLEAN /\ comment.value \in Message /\ comment.rest \in Message
  BY <1>1, <1>2, <1>3, TakeStringType, Zenon
<1>5. PICK e : e = [blob |-> blob.value, comment |-> comment.value]
  OBVIOUS
<1>6. e \in Entry /\ e.blob = blob.value /\ e.comment = comment.value
  BY <1>4, <1>5 DEF Entry
<1>7. PICK ok : ok = (r.ok /\ blob.ok /\ comment.ok /\ PublicKeyType(blob.value).ok)
  OBVIOUS
<1>8. ok \in BOOLEAN
  BY <1>7, Zenon
<1>9. ReadEntry(r) = [ok |-> ok, keys |-> Append(r.keys, e), rest |-> comment.rest]
  BY <1>2, <1>3, <1>5, <1>7, Zenon DEF ReadEntry
<1>10. /\ ReadEntry(r).ok = ok /\ ReadEntry(r).keys = Append(r.keys, e)
       /\ ReadEntry(r).rest = comment.rest
  BY <1>9
<1>11. Append(r.keys, e) \in Seq(Entry)
  BY <1>1, <1>6
<1>12. ReadEntry(r) \in ReadState
  <2>1. PICK keys \in Seq(Entry), rest \in Message :
          keys = Append(r.keys, e) /\ rest = comment.rest
    BY <1>4, <1>11, Zenon
  <2>2. [ok |-> ok, keys |-> keys, rest |-> rest] \in ReadState
    BY <1>8 DEF ReadState
  <2>3. QED
    BY <1>9, <2>1, <2>2, Zenon
<1>13. ASSUME ReadEntry(r).ok
       PROVE  r.ok /\ GoodBlob(e.blob) /\ r.rest = Part(e) \o ReadEntry(r).rest
  <2>1. r.ok /\ blob.ok /\ comment.ok /\ PublicKeyType(blob.value).ok
    BY <1>7, <1>10, <1>13, Zenon
  <2>2. GoodBlob(e.blob)
    BY <1>4, <1>6, <2>1, PublicKeyTypeExact, Zenon
  <2>3. r.rest = Str(blob.value) \o blob.rest
    BY <1>1, <1>2, <2>1, TakeStringSplits, Zenon
  <2>4. blob.rest = Str(comment.value) \o comment.rest
    BY <1>3, <1>4, <2>1, TakeStringSplits, Zenon
  <2>5. Str(blob.value) \in Message /\ Str(comment.value) \in Message
    BY <1>4, StrType, Zenon
  <2>6. (Str(blob.value) \o Str(comment.value)) \o comment.rest
          = Str(blob.value) \o (Str(comment.value) \o comment.rest)
    <3>1. PICK b \in Message, c \in Message, m \in Message :
            b = Str(blob.value) /\ c = Str(comment.value) /\ m = comment.rest
      BY <1>4, <2>5, Zenon
    <3>2. (b \o c) \o m = b \o (c \o m)
      BY SMTT(60) DEF Message
    <3>3. QED
      BY <3>1, <3>2, Zenon
  <2>7. QED
    BY <1>6, <1>10, <2>1, <2>2, <2>3, <2>4, <2>6, Zenon DEF Part
<1>14. QED
  BY <1>6, <1>10, <1>12, <1>13, Zenon

\* And an entry that is there is read.
LEMMA ReadEntryReads ==
  ASSUME NEW r \in ReadState, r.ok, NEW e \in Entry, GoodBlob(e.blob), NEW m \in Message,
         r.rest = Part(e) \o m
  PROVE  ReadEntry(r).ok /\ ReadEntry(r).keys = Append(r.keys, e) /\ ReadEntry(r).rest = m
<1>1. PICK b \in Message, c \in Message : b = e.blob /\ c = e.comment
  BY DEF Entry
<1>2. Str(b) \in Message /\ Str(c) \in Message
  BY StrType, Zenon
<1>3. r.rest = Str(b) \o (Str(c) \o m)
  <2>1. r.rest = (Str(b) \o Str(c)) \o m
    BY <1>1, Zenon DEF Part
  <2>2. (Str(b) \o Str(c)) \o m = Str(b) \o (Str(c) \o m)
    <3>1. PICK v \in Message, w \in Message : v = Str(b) /\ w = Str(c)
      BY <1>2, Zenon
    <3>2. (v \o w) \o m = v \o (w \o m)
      BY SMTT(60) DEF Message
    <3>3. QED
      BY <3>1, <3>2, Zenon
  <2>3. QED
    BY <2>1, <2>2, Zenon
<1>4. Str(c) \o m \in Message
  BY <1>2, ConcatFacts, Zenon
<1>5. PICK blob : blob = TakeString(r.rest)
  OBVIOUS
<1>6. blob = [ok |-> TRUE, value |-> b, rest |-> Str(c) \o m]
  BY <1>3, <1>4, <1>5, TakeStringReads, Zenon
<1>7. blob.ok /\ blob.value = b /\ blob.rest = Str(c) \o m
  BY <1>6
<1>8. PICK comment : comment = TakeString(blob.rest)
  OBVIOUS
<1>9. comment = [ok |-> TRUE, value |-> c, rest |-> m]
  BY <1>7, <1>8, TakeStringReads, Zenon
<1>10. comment.ok /\ comment.value = c /\ comment.rest = m
  BY <1>9
<1>11. PublicKeyType(b).ok
  BY <1>1, PublicKeyTypeExact, Zenon
<1>12. e = [blob |-> b, comment |-> c]
  BY <1>1 DEF Entry
<1>13. PICK ok : ok = (r.ok /\ blob.ok /\ comment.ok /\ PublicKeyType(blob.value).ok)
  OBVIOUS
<1>14. ReadEntry(r) = [ok   |-> ok, keys |-> Append(r.keys, e), rest |-> m]
  BY <1>5, <1>7, <1>8, <1>10, <1>12, <1>13, Zenon DEF ReadEntry
<1>15. ok
  BY <1>7, <1>10, <1>11, <1>13, Zenon
<1>16. QED
  BY <1>14, <1>15

\* The loop has a state after each of its rounds.
LEMMA ReadEntriesRounds ==
  ASSUME NEW d \in Message, NEW count \in Nat
  PROVE  \E r \in [0..count -> ReadState] :
           /\ r[0] = [ok |-> TRUE, keys |-> <<>>, rest |-> d]
           /\ \A n \in 1..count : r[n] = ReadEntry(r[n - 1])
           /\ r[count] = ReadEntries(d, count)
<1>1. PICK b : b = [ok |-> TRUE, keys |-> <<>>, rest |-> d]
  OBVIOUS
<1>2. b \in ReadState
  BY <1>1 DEF ReadState
<1>3. PICK F : F = [n \in Nat |-> [x \in ReadState |-> ReadEntry(x)]]
  OBVIOUS
<1>4. F \in [Nat -> [ReadState -> ReadState]]
  BY <1>3, ReadEntrySplits, Zenon
<1>5. PICK r : IsLoop(r, count, ReadState, b, F)
  BY <1>2, <1>4, Recursion, Zenon
<1>6. r \in [0..count -> ReadState] /\ r[0] = b
  BY <1>5, Zenon DEF IsLoop
<1>7. ASSUME NEW n \in 1..count PROVE r[n] = ReadEntry(r[n - 1])
  <2>1. n \in Nat /\ n - 1 \in 0..count
    OBVIOUS
  <2>2. r[n - 1] \in ReadState
    BY <1>6, <2>1, Zenon
  <2>3. r[n] = F[n][r[n - 1]]
    BY <1>5, Zenon DEF IsLoop
  <2>4. F[n][r[n - 1]] = ReadEntry(r[n - 1])
    BY <1>3, <2>1, <2>2, Zenon
  <2>5. QED
    BY <2>3, <2>4, Zenon
<1>8. r[count] = ReadEntries(d, count)
  <2> DEFINE Step(f) == [n \in 0..count |->
                           IF n = 0 THEN [ok |-> TRUE, keys |-> <<>>, rest |-> d]
                                    ELSE ReadEntry(f[n - 1])]
             f0 == CHOOSE f : f = Step(f)
  <2>1. r = Step(r)
    <3>1. ASSUME NEW n \in 0..count
          PROVE  r[n] = IF n = 0 THEN [ok |-> TRUE, keys |-> <<>>, rest |-> d]
                                 ELSE ReadEntry(r[n - 1])
      <4>1. CASE n = 0
        BY <1>1, <1>6, <4>1, Zenon
      <4>2. CASE n # 0
        <5>1. n \in 1..count
          BY <4>2
        <5>2. QED
          BY <1>7, <4>2, <5>1, Zenon
      <4>3. QED
        BY <4>1, <4>2
    <3>2. QED
      BY <1>6, <3>1, Zenon
  <2>2. f0 = Step(f0)
    BY <2>1, Zenon
  <2>3. ReadEntries(d, count) = f0[count]
    BY Zenon DEF ReadEntries
  <2>4. f0 = [n \in 0..count |-> IF n = 0 THEN [ok |-> TRUE, keys |-> <<>>, rest |-> d]
                                          ELSE ReadEntry(f0[n - 1])]
    BY <2>2, Zenon
  <2> HIDE DEF f0, Step
  <2>5. PICK T : T = {n \in Nat : n <= count => f0[n] = r[n]}
    OBVIOUS
  <2>6. 0 \in T
    <3>1. 0 \in 0..count
      OBVIOUS
    <3>2. f0[0] = r[0]
      BY <1>1, <1>6, <2>4, <3>1, Zenon
    <3>3. QED
      BY <2>5, <3>2
  <2>7. ASSUME NEW n \in Nat, n \in T PROVE n + 1 \in T
    <3>1. ASSUME n + 1 <= count PROVE f0[n + 1] = r[n + 1]
      <4>1. /\ n + 1 \in 1..count /\ n + 1 \in 0..count /\ n + 1 # 0
            /\ (n + 1) - 1 = n /\ n <= count
        BY <3>1
      <4>2. f0[n] = r[n]
        BY <2>5, <2>7, <4>1, Zenon
      <4>3. f0[n + 1] = ReadEntry(f0[n]) /\ r[n + 1] = ReadEntry(r[n])
        BY <1>7, <2>4, <4>1, Zenon
      <4>4. QED
        BY <4>2, <4>3, Zenon
    <3>2. QED
      BY <2>5, <3>1
  <2>8. count \in T
    BY <2>6, <2>7, NatSetInduction
  <2>9. f0[count] = r[count]
    BY <2>5, <2>8
  <2>10. QED
    BY <2>3, <2>9, Zenon
<1>9. QED
  BY <1>1, <1>6, <1>7, <1>8, Zenon

\* What is left of the entries of a list, from each of them on.
LEMMA ReadEntriesSound ==
  ASSUME NEW d \in Message, NEW count \in Nat,
         ReadEntries(d, count).ok, ReadEntries(d, count).rest = <<>>
  PROVE  LET keys == ReadEntries(d, count).keys IN
         /\ keys \in Seq(Entry) /\ Len(keys) = count
         /\ d = FlattenSeq(Parts(keys))
         /\ \A i \in 1..count : GoodBlob(keys[i].blob)
<1>1. PICK r \in [0..count -> ReadState] :
        /\ r[0] = [ok |-> TRUE, keys |-> <<>>, rest |-> d]
        /\ \A n \in 1..count : r[n] = ReadEntry(r[n - 1])
        /\ r[count] = ReadEntries(d, count)
  BY ReadEntriesRounds, Zenon
<1>2. r[0].keys = <<>> /\ r[0].rest = d
  BY <1>1
<1>3. \A n \in 0..count : r[n] \in ReadState /\ r[n].keys \in Seq(Entry) /\ r[n].rest \in Message
  BY DEF ReadState
\* The keys read by a round are the first of those read by the last one.
<1>4. PICK T : T = {n \in Nat : n <= count =>
                      /\ Len(r[n].keys) = n
                      /\ \A i \in 1..n : r[n].keys[i] = r[i].keys[i]}
  OBVIOUS
<1>5. 0 \in T
  BY <1>2, <1>4
<1>6. ASSUME NEW n \in Nat, n \in T PROVE n + 1 \in T
  <2>1. ASSUME n + 1 <= count
        PROVE  /\ Len(r[n + 1].keys) = n + 1
               /\ \A i \in 1..n + 1 : r[n + 1].keys[i] = r[i].keys[i]
    <3>1. n \in 0..count /\ n + 1 \in 1..count /\ n + 1 \in 0..count /\ (n + 1) - 1 = n /\ n <= count
      BY <2>1
    <3>2. PICK e \in Entry : r[n + 1].keys = Append(r[n].keys, e)
      <4>1. r[n + 1] = ReadEntry(r[n]) /\ r[n] \in ReadState
        BY <1>1, <1>3, <3>1, Zenon
      <4>2. QED
        BY <4>1, ReadEntrySplits, Zenon
    <3>3. PICK k \in Seq(Entry) : k = r[n].keys
      BY <1>3, <3>1, Zenon
    <3>4. Len(k) = n /\ \A i \in 1..n : k[i] = r[i].keys[i]
      BY <1>4, <1>6, <3>1, <3>3, Zenon
    <3>5. PICK l : l = Append(k, e)
      OBVIOUS
    <3>6. Len(l) = n + 1 /\ \A i \in 1..n : l[i] = k[i]
      BY <3>4, <3>5
    <3>7. \A i \in 1..n + 1 : i \in 1..n \/ i = n + 1
      OBVIOUS
    <3>8. r[n + 1].keys = l
      BY <3>2, <3>3, <3>5, Zenon
    <3>9. \A i \in 1..n + 1 : l[i] = r[i].keys[i]
      BY <3>4, <3>6, <3>7, <3>8, Zenon
    <3>10. QED
      BY <3>6, <3>8, <3>9, Zenon
  <2>2. QED
    BY <1>4, <2>1
<1>7. Nat \subseteq T
  BY <1>5, <1>6, NatSetInduction, Zenon
<1>8. PICK keys \in Seq(Entry) : keys = r[count].keys
  <2>1. count \in 0..count
    OBVIOUS
  <2>2. QED
    BY <1>3, <2>1, Zenon
<1>9. Len(keys) = count /\ \A i \in 1..count : keys[i] = r[i].keys[i]
  <2>1. count \in T /\ count <= count
    BY <1>7
  <2>2. QED
    BY <1>4, <1>8, <2>1, Zenon
\* A round's entry, and what the rounds before it must have been.
<1>10. ASSUME NEW n \in 1..count, r[n].ok
       PROVE  /\ r[n - 1].ok
              /\ GoodBlob(keys[n].blob)
              /\ r[n - 1].rest = Part(keys[n]) \o r[n].rest
  <2>1. n - 1 \in 0..count /\ n - 1 \in Nat /\ n - 1 <= count
    OBVIOUS
  <2>2. PICK e \in Entry :
          /\ r[n].keys = Append(r[n - 1].keys, e)
          /\ r[n - 1].ok /\ GoodBlob(e.blob) /\ r[n - 1].rest = Part(e) \o r[n].rest
    <3>1. r[n] = ReadEntry(r[n - 1]) /\ r[n - 1] \in ReadState
      BY <1>1, <1>3, <2>1, Zenon
    <3>2. QED
      BY <1>10, <3>1, ReadEntrySplits, Zenon
  <2>3. Len(r[n - 1].keys) = n - 1
    <3>1. n - 1 \in T
      BY <1>7, <2>1, Zenon
    <3>2. QED
      BY <1>4, <2>1, <3>1, Zenon
  <2>4. PICK k \in Seq(Entry) : k = r[n - 1].keys
    BY <1>3, <2>1, Zenon
  <2>5. Append(k, e)[n] = e
    BY <2>3, <2>4
  <2>6. keys[n] = e
    BY <1>9, <2>2, <2>4, <2>5, Zenon
  <2>7. QED
    BY <2>2, <2>6, Zenon
<1>11. PICK q \in [0..count -> Message] :
         /\ q[0] = FlattenSeq(Parts(keys))
         /\ \A n \in 1..count : q[n - 1] = Parts(keys)[n] \o q[n]
         /\ q[count] = <<>>
  <2>1. PICK s : s = Parts(keys)
    OBVIOUS
  <2>2. s \in Seq(Message) /\ Len(s) = count
    BY <1>9, <2>1, PartsType, Zenon
  <2>3. \E q \in [0..Len(s) -> Message] :
          /\ q[0] = FlattenSeq(s)
          /\ \A n \in 1..Len(s) : q[n - 1] = s[n] \o q[n]
          /\ q[Len(s)] = <<>>
    BY <2>2, FlattenSuffixes, Zenon
  <2>4. QED
    BY <2>1, <2>2, <2>3, Zenon
<1>12. PICK U : U = {m \in Nat : m <= count => r[count - m].ok /\ r[count - m].rest = q[count - m]}
  OBVIOUS
<1>13. 0 \in U
  <2>1. count - 0 = count
    OBVIOUS
  <2>2. r[count - 0].ok /\ r[count - 0].rest = q[count - 0]
    BY <1>1, <1>11, <2>1, Zenon
  <2>3. QED
    BY <1>12, <2>2
<1>14. ASSUME NEW m \in Nat, m \in U PROVE m + 1 \in U
  <2>1. ASSUME m + 1 <= count
        PROVE  r[count - (m + 1)].ok /\ r[count - (m + 1)].rest = q[count - (m + 1)]
    <3>1. PICK n : n = count - m
      OBVIOUS
    <3>2. n \in 1..count /\ n - 1 = count - (m + 1) /\ m <= count
      BY <2>1, <3>1
    <3>3. r[n].ok /\ r[n].rest = q[n]
      BY <1>12, <1>14, <3>1, <3>2, Zenon
    <3>4. r[n - 1].ok /\ r[n - 1].rest = Part(keys[n]) \o q[n]
      BY <1>10, <3>2, <3>3, Zenon
    <3>5. q[n - 1] = Part(keys[n]) \o q[n]
      BY <1>9, <1>11, <3>2, PartsType, Zenon
    <3>6. QED
      BY <3>2, <3>4, <3>5, Zenon
  <2>2. QED
    BY <1>12, <2>1
<1>15. Nat \subseteq U
  BY <1>13, <1>14, NatSetInduction, Zenon
<1>16. d = FlattenSeq(Parts(keys))
  <2>1. count \in U /\ count <= count /\ count - count = 0
    BY <1>15
  <2>2. r[0].rest = q[0]
    BY <1>12, <2>1, Zenon
  <2>3. QED
    BY <1>2, <1>11, <2>2, Zenon
<1>17. ASSUME NEW i \in 1..count PROVE GoodBlob(keys[i].blob)
  <2>1. PICK m : m = count - i
    OBVIOUS
  <2>2. m \in U /\ m <= count /\ count - m = i
    BY <1>15, <2>1
  <2>3. r[i].ok
    BY <1>12, <2>2, Zenon
  <2>4. QED
    BY <1>10, <2>3, Zenon
<1>18. QED
  BY <1>1, <1>8, <1>9, <1>16, <1>17, Zenon

\* And the entries of a list are read, to the last one.
LEMMA ReadEntriesComplete ==
  ASSUME NEW keys \in Seq(Entry), \A i \in 1..Len(keys) : GoodBlob(keys[i].blob)
  PROVE  LET read == ReadEntries(FlattenSeq(Parts(keys)), Len(keys)) IN
         read.ok /\ read.keys = keys /\ read.rest = <<>>
<1>1. PICK count \in Nat : count = Len(keys)
  OBVIOUS
<1>2. PICK s : s = Parts(keys)
  OBVIOUS
<1>3. s \in Seq(Message) /\ Len(s) = count /\ \A i \in 1..count : s[i] = Part(keys[i])
  BY <1>1, <1>2, PartsType, Zenon
<1>4. PICK d \in Message : d = FlattenSeq(s)
  BY <1>3, FlattenType, Zenon
<1>5. PICK q \in [0..count -> Message] :
         /\ q[0] = d
         /\ \A n \in 1..count : q[n - 1] = s[n] \o q[n]
         /\ q[count] = <<>>
  BY <1>3, <1>4, FlattenSuffixes, Zenon
<1>6. PICK r \in [0..count -> ReadState] :
        /\ r[0] = [ok |-> TRUE, keys |-> <<>>, rest |-> d]
        /\ \A n \in 1..count : r[n] = ReadEntry(r[n - 1])
        /\ r[count] = ReadEntries(d, count)
  BY ReadEntriesRounds, Zenon
<1>7. r[0].ok /\ r[0].keys = <<>> /\ r[0].rest = d
  BY <1>6
<1>8. PICK T : T = {n \in Nat : n <= count =>
                      /\ r[n].ok /\ r[n].rest = q[n]
                      /\ Len(r[n].keys) = n
                      /\ \A i \in 1..n : r[n].keys[i] = keys[i]}
  OBVIOUS
<1>9. 0 \in T
  <2>1. Len(r[0].keys) = 0
    BY <1>7
  <2>2. \A i \in 1..0 : r[0].keys[i] = keys[i]
    OBVIOUS
  <2>3. r[0].ok /\ r[0].rest = q[0]
    BY <1>5, <1>7, Zenon
  <2>4. 0 \in Nat
    OBVIOUS
  <2>5. QED
    BY <1>8, <2>1, <2>2, <2>3, <2>4, Zenon
<1>10. ASSUME NEW n \in Nat, n \in T PROVE n + 1 \in T
  <2>1. ASSUME n + 1 <= count
        PROVE  /\ r[n + 1].ok /\ r[n + 1].rest = q[n + 1]
               /\ Len(r[n + 1].keys) = n + 1
               /\ \A i \in 1..n + 1 : r[n + 1].keys[i] = keys[i]
    <3>1. n \in 0..count /\ n + 1 \in 1..count /\ n + 1 \in 0..count /\ (n + 1) - 1 = n /\ n <= count
      BY <2>1
    <3>2. /\ r[n].ok /\ r[n].rest = q[n] /\ Len(r[n].keys) = n
          /\ \A i \in 1..n : r[n].keys[i] = keys[i]
      BY <1>8, <1>10, <3>1, Zenon
    <3>3. r[n + 1] = ReadEntry(r[n]) /\ r[n] \in ReadState /\ q[n + 1] \in Message
      BY <1>5, <1>6, <3>1, Zenon
    <3>4. PICK e \in Entry : e = keys[n + 1]
      BY <1>1, <3>1
    <3>5. r[n].rest = Part(e) \o q[n + 1]
      BY <1>3, <1>5, <3>1, <3>2, <3>4, Zenon
    <3>6. GoodBlob(e.blob)
      BY <1>1, <3>1, <3>4, Zenon
    <3>7. r[n + 1].ok /\ r[n + 1].keys = Append(r[n].keys, e) /\ r[n + 1].rest = q[n + 1]
      <4>1. PICK u \in ReadState : u = r[n]
        BY <3>3
      <4>2. PICK m \in Message : m = q[n + 1]
        BY <3>3
      <4>3. u.ok /\ u.rest = Part(e) \o m
        BY <3>2, <3>5, <4>1, <4>2, Zenon
      <4>4. PICK v : v = ReadEntry(u)
        OBVIOUS
      <4>5. v.ok /\ v.keys = Append(u.keys, e) /\ v.rest = m
        BY <3>6, <4>3, <4>4, ReadEntryReads, Zenon
      <4>6. v = r[n + 1]
        BY <3>3, <4>1, <4>4, Zenon
      <4>7. QED
        BY <4>1, <4>2, <4>5, <4>6, Zenon
    <3>8. PICK k \in Seq(Entry) : k = r[n].keys
      BY <3>3, Zenon DEF ReadState
    <3>9. PICK l : l = Append(k, e)
      OBVIOUS
    <3>10. Len(l) = n + 1 /\ l[n + 1] = e /\ \A i \in 1..n : l[i] = k[i]
      <4>1. Len(k) = n
        BY <3>2, <3>8, Zenon
      <4>2. QED
        BY <3>9, <4>1, SMTT(30)
    <3>11. \A i \in 1..n + 1 : i \in 1..n \/ i = n + 1
      OBVIOUS
    <3>12. \A i \in 1..n + 1 : l[i] = keys[i]
      BY <3>2, <3>4, <3>8, <3>10, <3>11, Zenon
    <3>13. QED
      BY <3>7, <3>8, <3>9, <3>10, <3>12, Zenon
  <2>2. n + 1 \in Nat
    OBVIOUS
  <2>3. QED
    BY <1>8, <2>1, <2>2, Zenon
<1>11. count \in T /\ count <= count
  <2>1. \A n \in Nat : n \in T => n + 1 \in T
    BY <1>10, Zenon
  <2>2. Nat \subseteq T
    BY <1>9, <2>1, NatSetInduction, Zenon
  <2>3. QED
    BY <2>2
<1>12. r[count].ok /\ r[count].rest = q[count] /\ Len(r[count].keys) = count
       /\ \A i \in 1..count : r[count].keys[i] = keys[i]
  BY <1>8, <1>11, Zenon
<1>13. PICK k \in Seq(Entry) : k = r[count].keys
  <2>1. count \in 0..count
    OBVIOUS
  <2>2. r[count] \in ReadState
    BY <1>6, <2>1, Zenon
  <2>3. QED
    BY <2>2 DEF ReadState
<1>14. k = keys
  BY <1>1, <1>12, <1>13, SeqEqual, Zenon
<1>15. QED
  BY <1>1, <1>2, <1>4, <1>5, <1>6, <1>12, <1>13, <1>14, Zenon

\* A list on the wire is its count and its entries in a frame.
LEMMA EncodeKeysParts ==
  ASSUME NEW keys \in Seq(Entry)
  PROVE  /\ FlattenSeq(Parts(keys)) \in Message
         /\ EncodeKeys(keys) = Frame(<<KeyList>> \o (<<Len(keys)>> \o FlattenSeq(Parts(keys))))
<1>1. PICK n \in Nat : n = Len(keys)
  OBVIOUS
<1>2. PICK d \in Message : d = FlattenSeq(Parts(keys))
  BY PartsType, FlattenType, Zenon
<1>3. <<KeyList, n>> \o d = <<KeyList>> \o (<<n>> \o d)
  <2>1. PICK x \in Nat : x = KeyList
    BY DEF KeyList
  <2>2. <<x, n>> \o d = <<x>> \o (<<n>> \o d)
    BY DEF Message
  <2>3. QED
    BY <2>1, <2>2, Zenon
<1>4. QED
  BY <1>1, <1>2, <1>3, Zenon DEF EncodeKeys, Parts, Part

\* A reply is read only if it is the encoding of the keys it is read as.
LEMMA ParseKeysSound ==
  ASSUME NEW reply \in Message, ParseKeys(reply).ok
  PROVE  LET keys == ParseKeys(reply).keys IN
         /\ keys \in Seq(Entry)
         /\ \A i \in 1..Len(keys) : GoodBlob(keys[i].blob)
         /\ reply = EncodeKeys(keys)
<1>1. PICK count : count = reply[3]
  OBVIOUS
<1>2. PICK body : body = From(reply, 4)
  OBVIOUS
<1>3. PICK read : read = ReadEntries(body, count)
  OBVIOUS
<1>4. PICK ok : ok = (/\ ValidateResponse(reply)
                      /\ reply[2] = KeyList
                      /\ Len(reply) >= 3
                      /\ count <= Len(body) \div 2
                      /\ read.ok
                      /\ read.rest = <<>>)
  OBVIOUS
<1>5. ParseKeys(reply) = [ok |-> ok, keys |-> IF ok THEN read.keys ELSE <<>>]
  BY <1>1, <1>2, <1>3, <1>4, Zenon DEF ParseKeys, NothingLeft
<1>6. ok
  BY <1>5
<1>7. /\ ValidateResponse(reply) /\ reply[2] = KeyList /\ Len(reply) >= 3
      /\ read.ok /\ read.rest = <<>> /\ ParseKeys(reply).keys = read.keys
  <2>1. [ok |-> ok, keys |-> IF ok THEN read.keys ELSE <<>>].keys = read.keys
    BY <1>6, Zenon
  <2>2. QED
    BY <1>4, <1>5, <1>6, <2>1, Zenon
<1>8. Len(reply) >= 2 /\ reply[1] = Len(reply) - 1
  BY <1>7, Zenon DEF ValidateResponse, ValidFrame
<1>9. count \in Nat /\ body \in Message /\ From(reply, 3) = <<count>> \o body
  <2>1. PICK m \in Message : m = From(reply, 3)
    BY <1>8, FrameSplits, Zenon
  <2>2. count = m[1] /\ body = From(m, 2)
    BY <1>1, <1>2, <1>7, <2>1, FromFrom, Zenon
  <2>3. m # <<>>
    <3>1. PICK n \in Nat : n = Len(reply)
      BY DEF Message
    <3>2. \A i \in 3..n : reply[i] \in Nat
      BY <3>1 DEF Message
    <3>3. Len(SubSeq(reply, 3, n)) = IF 3 <= n THEN n - 3 + 1 ELSE 0
      BY <3>1, <3>2, SubSeqProperties
    <3>4. Len(m) = IF 3 <= n THEN n - 3 + 1 ELSE 0
      BY <2>1, <3>1, <3>3, Zenon DEF From
    <3>5. n >= 3
      BY <1>7, <3>1
    <3>6. Len(m) # 0
      BY <3>4, <3>5
    <3>7. QED
      BY <3>6
  <2>4. QED
    BY <2>1, <2>2, <2>3, FrontSplits, Zenon
<1>10. PICK keys \in Seq(Entry) :
         /\ keys = read.keys /\ Len(keys) = count
         /\ body = FlattenSeq(Parts(keys))
         /\ \A i \in 1..count : GoodBlob(keys[i].blob)
  BY <1>3, <1>7, <1>9, ReadEntriesSound, Zenon
<1>11. reply = Frame(<<KeyList>> \o (<<count>> \o body))
  BY <1>7, <1>8, <1>9, FrameSplits, Zenon
<1>12. reply = EncodeKeys(keys)
  BY <1>10, <1>11, EncodeKeysParts, Zenon
<1>13. QED
  BY <1>7, <1>10, <1>12, Zenon

\* And every encoding that is short enough is read.
LEMMA ParseKeysComplete ==
  ASSUME NEW keys \in Seq(Entry), \A i \in 1..Len(keys) : GoodBlob(keys[i].blob),
         Len(EncodeKeys(keys)) - 1 <= MaxResponse
  PROVE  LET parsed == ParseKeys(EncodeKeys(keys)) IN
         parsed.ok /\ parsed.keys = keys
<1>1. PICK n \in Nat : n = Len(keys)
  OBVIOUS
<1>2. PICK d \in Message : d = FlattenSeq(Parts(keys))
  BY EncodeKeysParts, Zenon
<1>3. PICK f : f = EncodeKeys(keys)
  OBVIOUS
<1>4. PICK m : m = <<n>> \o d
  OBVIOUS
<1>5. m \in Message /\ m[1] = n /\ From(m, 2) = d /\ Len(m) = 1 + Len(d)
  BY <1>4, FrontReads, Prefixed
<1>6. f = Frame(<<KeyList>> \o m)
  BY <1>1, <1>2, <1>3, <1>4, EncodeKeysParts, Zenon
<1>7. /\ f \in Message /\ Len(f) = 2 + Len(m) /\ f[1] = Len(f) - 1
      /\ f[2] = KeyList /\ From(f, 3) = m
  <2>1. KeyList \in Nat
    BY DEF KeyList
  <2>2. QED
    BY <1>5, <1>6, <2>1, FrameReads, Zenon
<1>8. Len(f) \in Nat /\ Len(m) \in Nat /\ Len(d) \in Nat
  BY <1>5, <1>7 DEF Message
<1>9. Len(f) >= 3
  BY <1>5, <1>7, <1>8
<1>10. f[3] = n /\ From(f, 4) = d
  BY <1>5, <1>7, <1>9, FromFrom, Zenon
<1>11. ValidateResponse(f)
  <2>1. f[2] # Failure
    BY <1>7 DEF KeyList, Failure
  <2>2. Len(f) >= 2
    BY <1>8, <1>9
  <2>3. QED
    BY <1>3, <1>7, <2>1, <2>2, Zenon DEF ValidateResponse, ValidFrame
<1>12. n <= Len(d) \div 2
  <2>1. Len(d) >= 2 * n
    <3>1. PICK s : s = Parts(keys)
      OBVIOUS
    <3>2. s \in Seq(Message) /\ Len(s) = n /\ \A i \in 1..n : Len(s[i]) >= 2
      BY <1>1, <3>1, PartsType, Zenon
    <3>3. Len(FlattenSeq(s)) >= 2 * Len(s)
      BY <3>2, FlattenBlocks, Zenon
    <3>4. QED
      BY <1>2, <3>1, <3>2, <3>3, Zenon
  <2>2. \A k \in Nat : k >= 2 * n => n <= k \div 2
    OBVIOUS
  <2>3. QED
    BY <1>8, <2>1, <2>2, Zenon
<1>13. PICK read : read = ReadEntries(d, n)
  OBVIOUS
<1>14. read.ok /\ read.keys = keys /\ read.rest = <<>>
  BY <1>1, <1>2, <1>13, ReadEntriesComplete, Zenon
<1>15. PICK ok : ok = (/\ ValidateResponse(f)
                       /\ f[2] = KeyList
                       /\ Len(f) >= 3
                       /\ n <= Len(d) \div 2
                       /\ read.ok
                       /\ read.rest = <<>>)
  OBVIOUS
<1>16. ok
  BY <1>7, <1>9, <1>11, <1>12, <1>14, <1>15, Zenon
<1>17. ParseKeys(f) = [ok |-> ok, keys |-> IF ok THEN read.keys ELSE <<>>]
  BY <1>10, <1>13, <1>15, Zenon DEF ParseKeys, NothingLeft
<1>18. ParseKeys(f).ok /\ ParseKeys(f).keys = IF ok THEN read.keys ELSE <<>>
  BY <1>16, <1>17
<1>19. QED
  BY <1>3, <1>14, <1>16, <1>18, Zenon

-----------------------------------------------------------------------------
(* Text in native fields *)

\* What is shown for a rune is a rune that ends no row.
LEMMA CleanRuneClean ==
  ASSUME NEW r \in Nat, IsRune(r)
  PROVE  CleanRune(r) \in Nat /\ IsRune(CleanRune(r)) /\ CleanRune(r) \notin Controls
<1>1. 32 \notin Controls
  BY TextAssumption, SMT
<1>2. IsRune(32)
  BY SMT DEF IsRune, Surrogate
<1>3. QED
  BY <1>1, <1>2, SMT DEF CleanRune

\* One unit, or a pair that starts with a high surrogate and ends with a low one.
LEMMA UTF16Units ==
  ASSUME NEW r \in Nat, IsRune(r), r \notin Controls
  PROVE  \E u \in Message :
           /\ u = UTF16(r)
           /\ Len(u) \in {1, 2}
           /\ Len(u) = 2 => HighSurrogate(u[1])
           /\ ~HighSurrogate(u[Len(u)])
           /\ \A i \in 1..Len(u) : u[i] \notin Controls
<1>1. CASE r < 65536
  <2>1. UTF16(r) = <<r>>
    BY <1>1, SMT DEF UTF16
  <2>2. ~HighSurrogate(r)
    BY SMT DEF IsRune, Surrogate, HighSurrogate
  <2>3. PICK u : u = <<r>>
    OBVIOUS
  <2>4. u \in Message /\ Len(u) = 1 /\ u[1] = r
    BY <2>3, SMT DEF Message
  <2>5. /\ Len(u) \in {1, 2} /\ Len(u) # 2 /\ u[Len(u)] = r
        /\ \A i \in 1..Len(u) : u[i] \notin Controls
    BY <2>4, SMT
  <2>6. QED
    BY <2>1, <2>2, <2>3, <2>4, <2>5, Zenon
<1>2. CASE ~(r < 65536)
  <2>1. PICK h : h = 55296 + (r - 65536) \div 1024
    BY SMT
  <2>2. PICK l : l = 56320 + ((r - 65536) % 1024)
    BY SMT
  <2>3. UTF16(r) = <<h, l>>
    BY <1>2, <2>1, <2>2, SMT DEF UTF16
  <2>4. /\ h \in Nat /\ 55296 <= h /\ h <= 56319
        /\ l \in Nat /\ 56320 <= l /\ l <= 57343
    <3>1. PICK x \in Nat : x <= 1048575 /\ x = r - 65536
      BY <1>2, SMT DEF IsRune
    <3>2. /\ x \div 1024 \in Nat /\ x \div 1024 <= 1023
          /\ x % 1024 \in Nat /\ x % 1024 <= 1023
      BY <3>1, SMT
    <3>3. QED
      BY <2>1, <2>2, <3>1, <3>2, SMT
  <2>5. /\ h \in Nat /\ l \in Nat /\ h \notin Controls /\ l \notin Controls
        /\ HighSurrogate(h) /\ ~HighSurrogate(l)
    BY <2>4, TextAssumption, SMT DEF Surrogate, HighSurrogate
  <2>6. PICK u : u = <<h, l>>
    OBVIOUS
  <2>7. u \in Message /\ Len(u) = 2 /\ u[1] = h /\ u[2] = l
    BY <2>5, <2>6, SMT DEF Message
  <2>8. QED
    BY <2>3, <2>5, <2>6, <2>7, SMT
<1>3. QED
  BY <1>1, <1>2, SMT

\* The units of the first k runes of a text, cleaned.
FirstRunes(text, k) == Encoded([i \in 1..k |-> CleanRune(text[i])])

UnitsOf(text, i) == UTF16(CleanRune(text[i]))

\* A text of runes, and the units of each of them.
IsText(text) == text \in Message /\ \A i \in 1..Len(text) : IsRune(text[i])

\* The units shown for a rune of a text: one, or a pair, and no control.
LEMMA UnitsOfRune ==
  ASSUME NEW text, IsText(text), NEW i \in 1..Len(text)
  PROVE  \E u \in Message :
           /\ u = UnitsOf(text, i)
           /\ Len(u) \in {1, 2}
           /\ Len(u) = 2 => HighSurrogate(u[1])
           /\ ~HighSurrogate(u[Len(u)])
           /\ \A j \in 1..Len(u) : u[j] \notin Controls
<1>1. text[i] \in Nat /\ IsRune(text[i])
  BY DEF IsText, Message
<1>2. PICK r \in Nat : r = CleanRune(text[i]) /\ IsRune(r) /\ r \notin Controls
  BY <1>1, CleanRuneClean, Zenon
<1>3. QED
  BY <1>2, UTF16Units, Zenon DEF UnitsOf

\* One more rune adds its units at the end.
LEMMA FirstRunesSteps ==
  ASSUME NEW text, IsText(text), NEW k \in Nat, k <= Len(text)
  PROVE  /\ FirstRunes(text, k) \in Message
         /\ k = 0 => FirstRunes(text, k) = <<>>
         /\ k < Len(text) => FirstRunes(text, k + 1) = FirstRunes(text, k) \o UnitsOf(text, k + 1)
<1>1. Len(text) \in Nat
  BY DEF IsText, Message
<1>2. \A i \in 1..Len(text) : UnitsOf(text, i) \in Message
  BY UnitsOfRune, Zenon
<1>3. ASSUME NEW n \in Nat, n <= Len(text)
      PROVE  /\ FirstRunes(text, n) = FlattenSeq([i \in 1..n |-> UnitsOf(text, i)])
             /\ [i \in 1..n |-> UnitsOf(text, i)] \in Seq(Message)
             /\ Len([i \in 1..n |-> UnitsOf(text, i)]) = n
  <2>1. PICK t : t = [i \in 1..n |-> CleanRune(text[i])]
    OBVIOUS
  <2>2. DOMAIN t = 1..n /\ \A i \in 1..n : t[i] = CleanRune(text[i])
    BY <2>1, Zenon
  <2>3. [i \in DOMAIN t |-> UTF16(t[i])] = [i \in 1..n |-> UnitsOf(text, i)]
    BY <2>2, Zenon DEF UnitsOf
  <2>4. FirstRunes(text, n) = FlattenSeq([i \in 1..n |-> UnitsOf(text, i)])
    BY <2>1, <2>3, Zenon DEF FirstRunes, Encoded
  <2>5. \A i \in 1..n : UnitsOf(text, i) \in Message
    BY <1>1, <1>2, <1>3
  <2>6. PICK s : s = [i \in 1..n |-> UnitsOf(text, i)]
    OBVIOUS
  <2>7. s \in Seq(Message) /\ Len(s) = n
    BY <2>5, <2>6
  <2>8. QED
    BY <2>4, <2>6, <2>7, Zenon
<1>4. FirstRunes(text, k) \in Message
  BY <1>3, FlattenType, Zenon
<1>5. ASSUME k = 0 PROVE FirstRunes(text, k) = <<>>
  <2>1. [i \in 1..k |-> UnitsOf(text, i)] = <<>>
    BY <1>5
  <2>2. QED
    BY <1>3, <2>1, FlattenEmpty, Zenon
<1>6. ASSUME k < Len(text)
      PROVE  FirstRunes(text, k + 1) = FirstRunes(text, k) \o UnitsOf(text, k + 1)
  <2>1. k + 1 \in Nat /\ k + 1 <= Len(text) /\ k + 1 \in 1..Len(text)
    BY <1>1, <1>6
  <2>2. PICK s : s = [i \in 1..k |-> UnitsOf(text, i)]
    OBVIOUS
  <2>3. PICK e \in Message : e = UnitsOf(text, k + 1)
    BY <1>2, <2>1, Zenon
  <2>4. s \in Seq(Message) /\ Len(s) = k
    BY <1>3, <2>2, Zenon
  <2>5. PICK t : t = [i \in 1..k + 1 |-> UnitsOf(text, i)]
    OBVIOUS
  <2>6. t = Append(s, e)
    <3>1. t \in Seq(Message) /\ Len(t) = k + 1
      BY <1>3, <2>1, <2>5, Zenon
    <3>2. Append(s, e) \in Seq(Message) /\ Len(Append(s, e)) = k + 1
      BY <2>4
    <3>3. ASSUME NEW i \in 1..k + 1 PROVE t[i] = Append(s, e)[i]
      <4>1. t[i] = UnitsOf(text, i)
        BY <2>5, Zenon
      <4>2. CASE i = k + 1
        <5>1. Append(s, e)[k + 1] = e
          BY <2>4
        <5>2. QED
          BY <2>3, <4>1, <4>2, <5>1, Zenon
      <4>3. CASE i # k + 1
        <5>1. i \in 1..k
          BY <4>3
        <5>2. Append(s, e)[i] = s[i]
          BY <2>4, <5>1
        <5>3. s[i] = UnitsOf(text, i)
          BY <2>2, <5>1, Zenon
        <5>4. QED
          BY <4>1, <5>2, <5>3, Zenon
      <4>4. QED
        BY <4>2, <4>3
    <3>4. QED
      BY <3>1, <3>2, <3>3, SeqEqual, Zenon
  <2>7. FirstRunes(text, k + 1) = FlattenSeq(t) /\ FirstRunes(text, k) = FlattenSeq(s)
    BY <1>3, <2>1, <2>2, <2>5, Zenon
  <2>8. QED
    BY <2>3, <2>4, <2>6, <2>7, FlattenAppend, Zenon
<1>7. QED
  BY <1>4, <1>5, <1>6

\* Nothing that ends a row or is invisible is among the units.
LEMMA FirstRunesClean ==
  ASSUME NEW text, IsText(text), NEW k \in Nat, k <= Len(text)
  PROVE  /\ \A i \in 1..Len(FirstRunes(text, k)) : FirstRunes(text, k)[i] \notin Controls
         /\ k > 0 => ~HighSurrogate(FirstRunes(text, k)[Len(FirstRunes(text, k))])
<1>1. Len(text) \in Nat
  BY DEF IsText, Message
<1>2. ASSUME NEW n \in Nat, n < Len(text)
      PROVE  \E a \in Message, u \in Message :
               /\ a = FirstRunes(text, n) /\ FirstRunes(text, n + 1) = a \o u
               /\ Len(u) \in {1, 2} /\ ~HighSurrogate(u[Len(u)])
               /\ \A j \in 1..Len(u) : u[j] \notin Controls
  <2>1. n + 1 \in 1..Len(text) /\ n <= Len(text)
    BY <1>1, <1>2
  <2>2. PICK u \in Message :
          /\ u = UnitsOf(text, n + 1)
          /\ Len(u) \in {1, 2} /\ ~HighSurrogate(u[Len(u)])
          /\ \A j \in 1..Len(u) : u[j] \notin Controls
    BY <2>1, UnitsOfRune, Zenon
  <2>3. FirstRunes(text, n) \in Message /\ FirstRunes(text, n + 1) = FirstRunes(text, n) \o u
    BY <1>2, <2>1, <2>2, FirstRunesSteps, Zenon
  <2>4. QED
    BY <2>2, <2>3, Zenon
<1>3. PICK T : T = {n \in Nat : n <= Len(text) =>
                     \A i \in 1..Len(FirstRunes(text, n)) : FirstRunes(text, n)[i] \notin Controls}
  OBVIOUS
<1>4. 0 \in T
  <2>1. 0 \in Nat /\ 0 <= Len(text)
    BY <1>1
  <2>2. FirstRunes(text, 0) = <<>>
    BY <2>1, FirstRunesSteps, Zenon
  <2>3. \A i \in 1..Len(<<>>) : <<>>[i] \notin Controls
    OBVIOUS
  <2>4. QED
    BY <1>3, <2>1, <2>2, <2>3, Zenon
<1>5. ASSUME NEW n \in Nat, n \in T PROVE n + 1 \in T
  <2>1. ASSUME n + 1 <= Len(text)
        PROVE  \A i \in 1..Len(FirstRunes(text, n + 1)) : FirstRunes(text, n + 1)[i] \notin Controls
    <3>1. n < Len(text) /\ n <= Len(text)
      BY <1>1, <2>1
    <3>2. PICK a \in Message, u \in Message :
            /\ a = FirstRunes(text, n) /\ FirstRunes(text, n + 1) = a \o u
            /\ \A j \in 1..Len(u) : u[j] \notin Controls
      BY <1>2, <3>1, Zenon
    <3>3. \A j \in 1..Len(a) : a[j] \notin Controls
      BY <1>3, <1>5, <3>1, <3>2, Zenon
    <3>4. PICK c : c = a \o u
      OBVIOUS
    <3>5. /\ Len(a) \in Nat /\ Len(u) \in Nat /\ Len(c) = Len(a) + Len(u)
          /\ \A i \in 1..Len(a) : c[i] = a[i]
          /\ \A i \in 1..Len(u) : c[Len(a) + i] = u[i]
      BY <3>4, ConcatPlaces, ConcatFacts, Zenon
    <3>6. ASSUME NEW i \in 1..Len(c) PROVE c[i] \notin Controls
      <4>1. CASE i <= Len(a)
        BY <3>3, <3>5, <4>1
      <4>2. CASE i > Len(a)
        <5>1. PICK j \in 1..Len(u) : i = Len(a) + j
          <6>1. i - Len(a) \in 1..Len(u) /\ i = Len(a) + (i - Len(a))
            BY <3>5, <4>2
          <6>2. QED
            BY <6>1
        <5>2. QED
          BY <3>2, <3>5, <5>1, Zenon
      <4>3. QED
        BY <3>5, <4>1, <4>2
    <3>7. QED
      BY <3>2, <3>4, <3>6, Zenon
  <2>2. n + 1 \in Nat
    OBVIOUS
  <2>3. QED
    BY <1>3, <2>1, <2>2, Zenon
<1>6. k \in T
  BY <1>4, <1>5, NatSetInduction
<1>7. ASSUME k > 0
      PROVE  ~HighSurrogate(FirstRunes(text, k)[Len(FirstRunes(text, k))])
  <2>1. k - 1 \in Nat /\ k - 1 < Len(text) /\ (k - 1) + 1 = k
    BY <1>1, <1>7
  <2>2. PICK a \in Message, u \in Message :
          /\ FirstRunes(text, k) = a \o u
          /\ Len(u) \in {1, 2} /\ ~HighSurrogate(u[Len(u)])
    <3>1. \E a \in Message, u \in Message :
            /\ a = FirstRunes(text, k - 1) /\ FirstRunes(text, (k - 1) + 1) = a \o u
            /\ Len(u) \in {1, 2} /\ ~HighSurrogate(u[Len(u)])
      BY <1>2, <2>1, Zenon
    <3>2. QED
      BY <2>1, <3>1, Zenon
  <2>3. Len(u) \in 1..Len(u) /\ Len(a \o u) = Len(a) + Len(u)
    <3>1. Len(u) \in 1..Len(u)
      <4>1. \A n \in {1, 2} : n \in 1..n
        OBVIOUS
      <4>2. QED
        BY <2>2, <4>1, Zenon
    <3>2. QED
      BY <3>1, ConcatFacts, Zenon
  <2>4. (a \o u)[Len(a) + Len(u)] = u[Len(u)]
    BY <2>3, ConcatPlaces, Zenon
  <2>5. QED
    BY <2>2, <2>3, <2>4, Zenon
<1>8. QED
  BY <1>3, <1>6, <1>7, Zenon

\* The units of a text start with those of its first runes.
LEMMA FirstRunesPrefix ==
  ASSUME NEW text, IsText(text), NEW k \in Nat, NEW m \in Nat, k <= m, m <= Len(text)
  PROVE  \E t \in Message : FirstRunes(text, m) = FirstRunes(text, k) \o t
<1>1. Len(text) \in Nat
  BY DEF IsText, Message
<1>2. PICK a \in Message : a = FirstRunes(text, k)
  <2>1. k <= Len(text)
    BY <1>1
  <2>2. QED
    BY <2>1, FirstRunesSteps, Zenon
<1>3. PICK T : T = {n \in Nat : k + n <= Len(text) =>
                      \E t \in Message : FirstRunes(text, k + n) = a \o t}
  OBVIOUS
<1>4. 0 \in T
  <2>1. k + 0 = k /\ 0 \in Nat
    OBVIOUS
  <2>2. a = a \o <<>> /\ <<>> \in Message
    BY ConcatFacts, Zenon
  <2>3. QED
    BY <1>2, <1>3, <2>1, <2>2, Zenon
<1>5. ASSUME NEW n \in Nat, n \in T PROVE n + 1 \in T
  <2>1. ASSUME k + (n + 1) <= Len(text)
        PROVE  \E t \in Message : FirstRunes(text, k + (n + 1)) = a \o t
    <3>1. PICK j \in Nat : j = k + n
      OBVIOUS
    <3>2. j <= Len(text) /\ j < Len(text) /\ j + 1 = k + (n + 1) /\ j + 1 \in 1..Len(text)
      BY <1>1, <2>1, <3>1
    <3>3. PICK t \in Message : FirstRunes(text, j) = a \o t
      BY <1>3, <1>5, <3>1, <3>2, Zenon
    <3>4. PICK u \in Message : u = UnitsOf(text, j + 1)
      BY <3>2, UnitsOfRune, Zenon
    <3>5. FirstRunes(text, j + 1) = (a \o t) \o u
      BY <3>2, <3>3, <3>4, FirstRunesSteps, Zenon
    <3>6. (a \o t) \o u = a \o (t \o u) /\ t \o u \in Message
      BY ConcatFacts, Zenon
    <3>7. QED
      BY <3>2, <3>5, <3>6, Zenon
  <2>2. n + 1 \in Nat
    OBVIOUS
  <2>3. QED
    BY <1>3, <2>1, <2>2, Zenon
<1>6. PICK n \in Nat : k + n = m
  <2>1. m - k \in Nat /\ k + (m - k) = m
    OBVIOUS
  <2>2. QED
    BY <2>1
<1>7. n \in T
  BY <1>4, <1>5, NatSetInduction
<1>8. QED
  BY <1>2, <1>3, <1>6, <1>7, Zenon

\* What a field shows is the most whole runes that fit.
LEMMA CopyWhole ==
  ASSUME NEW text, IsText(text), NEW size \in Nat, size > 0
  PROVE  \E k \in 0..Len(text) :
           LET a == FirstRunes(text, k) IN
           /\ CopyUIText(size, text) = a \o [i \in 1..size - Len(a) |-> 0]
           /\ Len(a) < size
           /\ \A i \in 1..Len(a) : a[i] \notin Controls
           /\ k < Len(text) /\ k < MaxText => Len(FirstRunes(text, k + 1)) >= size
<1>1. Len(text) \in Nat /\ MaxText \in Nat
  BY TextAssumption, SMT DEF IsText, Message
<1>2. PICK N \in Nat : N = IF Len(text) <= MaxText THEN Len(text) ELSE MaxText
  BY <1>1
<1>3. N <= Len(text) /\ N <= MaxText /\ (N = Len(text) \/ N = MaxText)
  BY <1>1, <1>2
<1>4. PICK limit \in Nat : limit = size - 1
  OBVIOUS
<1>5. PICK units \in Message : units = FirstRunes(text, N)
  BY <1>3, FirstRunesSteps, Zenon
<1>6. PICK kept : kept = IF Len(units) <= limit THEN units ELSE Fit(units, limit)
  OBVIOUS
<1>7. CopyUIText(size, text) = kept \o [i \in 1..size - Len(kept) |-> 0]
  <2>1. Encoded(CleanUIText(text)) = units
    BY <1>2, <1>5, Zenon DEF CleanUIText, FirstRunes
  <2>2. size # 0
    OBVIOUS
  <2>3. QED
    BY <1>4, <1>6, <2>1, <2>2, Zenon DEF CopyUIText
<1>8. ASSUME NEW k \in Nat, k <= N, kept = FirstRunes(text, k), Len(kept) <= limit,
             k < N => Len(FirstRunes(text, k + 1)) > limit
      PROVE  LET a == FirstRunes(text, k) IN
             /\ k \in 0..Len(text)
             /\ CopyUIText(size, text) = a \o [i \in 1..size - Len(a) |-> 0]
             /\ Len(a) < size
             /\ \A i \in 1..Len(a) : a[i] \notin Controls
             /\ k < Len(text) /\ k < MaxText => Len(FirstRunes(text, k + 1)) >= size
  <2>1. k \in 0..Len(text) /\ k <= Len(text)
    BY <1>1, <1>3, <1>8
  <2>2. kept \in Message
    BY <1>8, <2>1, FirstRunesSteps, Zenon
  <2>3. Len(kept) < size
    <3>1. Len(kept) \in Nat
      BY <2>2 DEF Message
    <3>2. QED
      BY <1>4, <1>8, <3>1
  <2>4. \A i \in 1..Len(kept) : kept[i] \notin Controls
    BY <1>8, <2>1, FirstRunesClean, Zenon
  <2>5. ASSUME k < Len(text), k < MaxText PROVE Len(FirstRunes(text, k + 1)) >= size
    <3>1. k < N /\ k + 1 \in Nat /\ k + 1 <= Len(text)
      BY <1>1, <1>3, <2>5
    <3>2. PICK n : n = Len(FirstRunes(text, k + 1))
      OBVIOUS
    <3>3. n \in Nat
      <4>1. PICK b \in Message : b = FirstRunes(text, k + 1)
        BY <3>1, FirstRunesSteps, Zenon
      <4>2. QED
        BY <3>2, <4>1 DEF Message
    <3>4. n > limit
      BY <1>8, <3>1, <3>2, Zenon
    <3>5. n >= size
      BY <1>4, <3>3, <3>4
    <3>6. QED
      BY <3>2, <3>5, Zenon
  <2>6. QED
    BY <1>7, <1>8, <2>1, <2>3, <2>4, <2>5, Zenon
<1>9. CASE Len(units) <= limit
  <2>1. kept = FirstRunes(text, N) /\ Len(kept) <= limit
    BY <1>5, <1>6, <1>9, Zenon
  <2>2. N <= N /\ ~(N < N)
    OBVIOUS
  <2>3. QED
    BY <1>8, <2>1, <2>2, Zenon
<1>10. CASE ~(Len(units) <= limit)
  <2>1. kept = Fit(units, limit)
    BY <1>6, <1>10, Zenon
  \* The last rune that still fits.
  <2>2. PICK k \in Nat : /\ k < N
                         /\ Len(FirstRunes(text, k)) <= limit
                         /\ ~(Len(FirstRunes(text, k + 1)) <= limit)
    <3>1. PICK T : T = {n \in Nat : n <= N => Len(FirstRunes(text, n)) <= limit}
      OBVIOUS
    <3>2. 0 \in T
      <4>1. 0 \in Nat /\ 0 <= Len(text) /\ Len(<<>>) <= limit
        BY <1>1
      <4>2. FirstRunes(text, 0) = <<>>
        BY <4>1, FirstRunesSteps, Zenon
      <4>3. QED
        BY <3>1, <4>1, <4>2, Zenon
    <3>3. N \notin T
      <4>1. N <= N
        OBVIOUS
      <4>2. QED
        BY <1>5, <1>10, <3>1, <4>1, Zenon
    <3>4. PICK k \in Nat : k \in T /\ k + 1 \notin T
      <4>1. ~(Nat \subseteq T)
        BY <3>3
      <4>2. QED
        BY <3>2, <4>1, NatSetInduction, Zenon
    <3>5. k + 1 \in Nat
      OBVIOUS
    <3>6. k + 1 <= N /\ ~(Len(FirstRunes(text, k + 1)) <= limit)
      BY <3>1, <3>4, <3>5, Zenon
    <3>7. k < N /\ k <= N
      BY <3>6
    <3>8. Len(FirstRunes(text, k)) <= limit
      BY <3>1, <3>4, <3>7, Zenon
    <3>9. QED
      BY <3>6, <3>7, <3>8, Zenon
  <2>3. k <= N /\ k <= Len(text) /\ k < Len(text) /\ k + 1 <= N /\ k + 1 \in Nat /\ k + 1 \in 1..Len(text)
    BY <1>1, <1>3, <2>2
  <2>4. PICK a \in Message : a = FirstRunes(text, k)
    BY <2>3, FirstRunesSteps, Zenon
  <2>5. PICK u \in Message : /\ u = UnitsOf(text, k + 1)
                             /\ Len(u) \in {1, 2}
                             /\ Len(u) = 2 => HighSurrogate(u[1])
    BY <2>3, UnitsOfRune, Zenon
  <2>6. FirstRunes(text, k + 1) = a \o u
    BY <2>3, <2>4, <2>5, FirstRunesSteps, Zenon
  <2>7. PICK t \in Message : FirstRunes(text, N) = FirstRunes(text, k + 1) \o t
    BY <1>3, <2>3, FirstRunesPrefix, Zenon
  <2>8. PICK w \in Message : w = u \o t
    BY ConcatFacts, Zenon
  <2>9. units = a \o w
    <3>1. units = (a \o u) \o t
      BY <1>5, <2>6, <2>7, Zenon
    <3>2. (a \o u) \o t = a \o (u \o t)
      BY SMTT(60) DEF Message
    <3>3. QED
      BY <2>8, <3>1, <3>2, Zenon
  <2>10. /\ Len(a) \in Nat /\ Len(u) \in Nat /\ Len(t) \in Nat
         /\ Len(a \o u) = Len(a) + Len(u) /\ Len(w) = Len(u) + Len(t)
    BY <2>8, ConcatPlaces, ConcatFacts, Zenon
  <2>11. Len(a) <= limit /\ ~(Len(a) + Len(u) <= limit)
    BY <2>2, <2>4, <2>6, <2>10, Zenon
  <2>12. /\ SubSeq(units, 1, Len(a)) = a
         /\ \A i \in 1..Len(a) : units[i] = a[i]
         /\ \A i \in 1..Len(w) : units[Len(a) + i] = w[i]
    BY <2>9, ConcatPlaces, ZenonT(60)
  <2>13. Fit(units, limit) = a
    <3>1. CASE Len(a) = limit
      <4>1. ~(limit > 0 /\ HighSurrogate(units[limit]))
        <5>1. CASE limit = 0
          BY <5>1
        <5>2. CASE limit > 0
          <6>1. k # 0
            <7>1. Len(<<>>) # limit
              BY <5>2
            <7>2. QED
              BY <2>3, <2>4, <3>1, <7>1, FirstRunesSteps, Zenon
          <6>2. k > 0
            BY <6>1
          <6>3. ~HighSurrogate(a[Len(a)])
            BY <2>3, <2>4, <6>2, FirstRunesClean, Zenon
          <6>4. Len(a) \in 1..Len(a)
            BY <2>10, <3>1, <5>2
          <6>5. units[limit] = a[Len(a)]
            BY <2>12, <3>1, <6>4, Zenon
          <6>6. QED
            BY <6>3, <6>5, Zenon
        <5>3. limit = 0 \/ limit > 0
          OBVIOUS
        <5>4. QED
          BY <5>1, <5>2, <5>3
      <4>2. Fit(units, limit) = SubSeq(units, 1, limit)
        BY <4>1, Zenon DEF Fit
      <4>3. QED
        BY <2>12, <3>1, <4>2, Zenon
    <3>2. CASE Len(a) # limit
      <4>1. Len(u) = 2 /\ limit = Len(a) + 1 /\ limit - 1 = Len(a) /\ limit > 0
        <5>1. Len(u) = 1 \/ Len(u) = 2
          BY <2>5, Zenon
        <5>2. PICK x \in Nat, y \in Nat : x = Len(a) /\ y = Len(u)
          BY <2>10, Zenon
        <5>3. x <= limit /\ ~(x + y <= limit) /\ (y = 1 \/ y = 2) /\ x # limit
          BY <2>11, <3>2, <5>1, <5>2, Zenon
        <5>4. y = 2 /\ limit = x + 1 /\ limit - 1 = x /\ limit > 0
          BY <5>3
        <5>5. QED
          BY <5>2, <5>4, Zenon
      <4>2. units[limit] = u[1]
        <5>1. 1 \in 1..Len(u) /\ 1 \in 1..Len(w)
          BY <2>10, <4>1
        <5>2. w[1] = u[1]
          BY <2>8, <5>1, ConcatPlaces, Zenon
        <5>3. units[Len(a) + 1] = w[1]
          BY <2>12, <5>1, Zenon
        <5>4. QED
          BY <4>1, <5>2, <5>3, Zenon
      <4>3. Fit(units, limit) = SubSeq(units, 1, limit - 1)
        BY <2>5, <4>1, <4>2, Zenon DEF Fit
      <4>4. QED
        BY <2>12, <4>1, <4>3, Zenon
    <3>3. QED
      BY <3>1, <3>2
  <2>14. kept = FirstRunes(text, k) /\ Len(kept) <= limit
    BY <2>1, <2>4, <2>11, <2>13, Zenon
  <2>15. Len(FirstRunes(text, k + 1)) > limit
    <3>1. PICK n \in Nat : n = Len(FirstRunes(text, k + 1))
      <4>1. Len(a) + Len(u) \in Nat
        BY <2>10
      <4>2. QED
        BY <2>6, <2>10, <4>1, Zenon
    <3>2. ~(n <= limit)
      BY <2>2, <3>1, Zenon
    <3>3. n > limit
      BY <3>2
    <3>4. QED
      BY <3>1, <3>3, Zenon
  <2>16. QED
    BY <1>8, <2>3, <2>14, <2>15, Zenon
<1>11. QED
  BY <1>9, <1>10

-----------------------------------------------------------------------------
(* The machine *)

\* What displayText returns can be shown.
LEMMA DisplayClean ==
  ASSUME NEW text \in Message, NEW limit \in Nat
  PROVE  Clean(DisplayText(text, limit), limit)
<1>1. PICK n \in Nat : n = IF Len(text) <= limit THEN Len(text) ELSE limit + 1
  BY DEF Message
<1>2. n <= limit + 1
  BY <1>1 DEF Message
<1>3. PICK shown : shown = [i \in 1..n |-> CASE i = limit + 1         -> Ellipsis
                                             [] text[i] \in Invisible -> Blank
                                             [] OTHER                 -> text[i]]
  OBVIOUS
<1>4. shown = DisplayText(text, limit)
  BY <1>1, <1>3, Zenon DEF DisplayText
<1>5. Len(shown) = n /\ DOMAIN shown = 1..n
  BY <1>3
<1>6. ASSUME NEW i \in 1..n PROVE shown[i] \notin Invisible
  <2>1. Ellipsis \notin Invisible /\ Blank \notin Invisible
    BY WireAssumption
  <2>2. shown[i] = CASE i = limit + 1         -> Ellipsis
                     [] text[i] \in Invisible -> Blank
                     [] OTHER                 -> text[i]
    BY <1>3, Zenon
  <2>3. CASE i = limit + 1
    <3>1. limit + 1 <= n
      BY <2>3
    <3>2. Len(text) \in Nat
      BY DEF Message
    <3>3. shown[i] = Ellipsis \/ (text[i] \in Invisible /\ shown[i] = Blank)
      BY <2>2, <2>3, Zenon
    <3>4. QED
      BY <2>1, <3>3, Zenon
  <2>4. CASE i # limit + 1
    BY <2>1, <2>2, <2>4, Zenon
  <2>5. QED
    BY <2>3, <2>4
<1>7. QED
  BY <1>2, <1>4, <1>5, <1>6, Zenon DEF Clean

\* What has been read is what the parsers return for it.
ReadOf ==
  /\ input.kind = "keys" =>
       /\ input.frame \in Message
       /\ result.ok = ParseKeys(input.frame).ok
       /\ result.keys = ParseKeys(input.frame).keys
       /\ result.shown = [i \in DOMAIN result.keys |-> Shown(result.keys[i])]
  /\ input.kind = "sign" =>
       input.frame \in Message /\ result = ParseSignRequest(input.frame)
  /\ input.kind = "field" =>
       /\ input.field \in Fields
       /\ result.units = CopyUIText(input.field.size, input.field.text)
  /\ input.kind = "oneshot" =>
       input.frame \in Message /\ (result.ok <=> ~RefusedOneShot(input.frame) /\ ValidateRequest(input.frame))
  /\ input.kind = "target" =>
       /\ input.line.args \in Seq(Vocabulary)
       /\ result.target = TargetOf(input.line.app, input.line.args)

\* The machine's inductive invariant: the parsers keep no other state.
LEMMA ReadOfHolds == Spec => []ReadOf
<1>1. Init => ReadOf
  BY DEF Init, ReadOf
<1>2. ReadOf /\ [Next]_vars => ReadOf'
  <2> SUFFICES ASSUME ReadOf, [Next]_vars PROVE ReadOf'
    OBVIOUS
  <2>1. ASSUME NEW reply \in Replies, ListKeys(reply) PROVE ReadOf'
    <3>1. input'.kind = "keys" /\ input'.frame = reply
      BY <2>1 DEF ListKeys
    <3>2. PICK parsed : parsed = ParseKeys(reply)
      OBVIOUS
    <3>3. result' = [ok |-> parsed.ok, keys |-> parsed.keys,
                     shown |-> [i \in DOMAIN parsed.keys |-> Shown(parsed.keys[i])]]
      BY <2>1, <3>2, Zenon DEF ListKeys
    <3>4. /\ result'.ok = parsed.ok /\ result'.keys = parsed.keys
          /\ result'.shown = [i \in DOMAIN parsed.keys |-> Shown(parsed.keys[i])]
      BY <3>3, Zenon
    <3>5. reply \in Message
      BY MetadataAssumption
    <3>6. PICK keys : keys = result'.keys
      OBVIOUS
    <3>7. result'.shown = [i \in DOMAIN keys |-> Shown(keys[i])]
      BY <3>4, <3>6, Zenon
    <3>8. result'.shown = [i \in DOMAIN result'.keys |-> Shown(result'.keys[i])]
      BY <3>6, <3>7, Zenon
    <3>9. QED
      BY <3>1, <3>2, <3>4, <3>5, <3>8, Zenon DEF ReadOf
  <2>2. ASSUME NEW request \in Requests, ReadSignRequest(request) PROVE ReadOf'
    <3>1. input'.kind = "sign" /\ input'.frame = request
      BY <2>2 DEF ReadSignRequest
    <3>2. result' = ParseSignRequest(request)
      BY <2>2 DEF ReadSignRequest
    <3>3. request \in Message
      BY MetadataAssumption
    <3>4. QED
      BY <3>1, <3>2, <3>3, Zenon DEF ReadOf
  <2>3. ASSUME NEW request \in Requests, QueryAgent(request) PROVE ReadOf'
    <3>1. input'.kind = "oneshot" /\ input'.frame = request
      BY <2>3 DEF QueryAgent
    <3>2. result'.ok <=> ~RefusedOneShot(request) /\ ValidateRequest(request)
      BY <2>3 DEF QueryAgent
    <3>3. request \in Message
      BY MetadataAssumption
    <3>4. QED
      BY <3>1, <3>2, <3>3, Zenon DEF ReadOf
  <2>4. ASSUME NEW line \in CommandLines, ReadCommandLine(line) PROVE ReadOf'
    <3>1. input'.kind = "target" /\ input'.line = line
      BY <2>4 DEF ReadCommandLine
    <3>2. result'.target = TargetOf(line.app, line.args)
      BY <2>4, Zenon DEF ReadCommandLine
    <3>3. line.args \in Seq(Vocabulary)
      BY MetadataAssumption
    <3>4. QED
      BY <3>1, <3>2, <3>3, Zenon DEF ReadOf
  <2>5. ASSUME NEW field \in Fields, FillField(field) PROVE ReadOf'
    <3>1. input'.kind = "field" /\ input'.field = field
      BY <2>5 DEF FillField
    <3>2. result'.units = CopyUIText(field.size, field.text)
      BY <2>5, Zenon DEF FillField
    <3>3. QED
      BY <3>1, <3>2, Zenon DEF ReadOf
  <2>6. CASE UNCHANGED vars
    BY <2>6, Zenon DEF vars, ReadOf
  <2>7. QED
    BY <2>1, <2>2, <2>3, <2>4, <2>5, <2>6, Zenon DEF Next
<1>3. QED
  BY <1>1, <1>2, PTL DEF Spec

\* A list of keys is accepted exactly if it is the encoding of what is returned,
\* and what is returned can be shown (parseKeys).
THEOREM KeyListsExact == Spec => []KeysExact
<1>1. ReadOf => KeysExact
  <2> SUFFICES ASSUME input.kind = "keys", input.frame \in Message,
                      result.ok = ParseKeys(input.frame).ok,
                      result.keys = ParseKeys(input.frame).keys,
                      result.shown = [i \in DOMAIN result.keys |-> Shown(result.keys[i])]
               PROVE  KeysExact
    BY Zenon DEF ReadOf, KeysExact
  <2>1. ASSUME result.ok
        PROVE  /\ input.frame = EncodeKeys(result.keys)
               /\ \A i \in DOMAIN result.keys :
                    GoodBlob(result.keys[i].blob) /\ Clean(result.shown[i].comment, MaxComment)
    <3>1. PICK keys \in Seq(Entry) :
            /\ keys = result.keys
            /\ \A i \in 1..Len(keys) : GoodBlob(keys[i].blob)
            /\ input.frame = EncodeKeys(keys)
      BY <2>1, ParseKeysSound, Zenon
    <3>2. DOMAIN keys = 1..Len(keys)
      OBVIOUS
    <3>3. ASSUME NEW i \in 1..Len(keys) PROVE Clean(result.shown[i].comment, MaxComment)
      <4>1. PICK text \in Message : text = keys[i].comment
        <5>1. keys[i] \in Entry
          OBVIOUS
        <5>2. QED
          BY <5>1 DEF Entry
      <4>2. result.shown[i] = Shown(keys[i])
        BY <3>1, <3>2, Zenon
      <4>3. Shown(keys[i]).comment = DisplayText(text, MaxComment)
        BY <4>1, Zenon DEF Shown
      <4>4. MaxComment \in Nat
        BY WireAssumption
      <4>5. QED
        BY <4>2, <4>3, <4>4, DisplayClean, Zenon
    <3>4. QED
      BY <3>1, <3>2, <3>3, Zenon
  <2>2. ASSUME NEW keys \in KeyLists,
               input.frame = EncodeKeys(keys), Len(input.frame) - 1 <= MaxResponse
        PROVE  result.ok /\ result.keys = keys
    <3>1. keys \in Seq(Entry)
      BY MetadataAssumption DEF Entry
    <3>2. \A i \in 1..Len(keys) : GoodBlob(keys[i].blob)
      <4>1. DOMAIN keys = 1..Len(keys)
        BY <3>1
      <4>2. QED
        BY <4>1, MetadataAssumption, Zenon
    <3>3. QED
      BY <2>2, <3>1, <3>2, ParseKeysComplete, Zenon
  <2>3. QED
    BY <2>1, <2>2, Zenon DEF KeysExact
<1>2. QED
  BY <1>1, ReadOfHolds, PTL

\* A sign request is accepted exactly if it is the encoding of what is returned,
\* and names a user exactly if it asks for an SSH authentication with that key.
THEOREM SignRequestsExact == Spec => []SignExact
<1>1. ReadOf => SignExact
  <2> SUFFICES ASSUME input.kind = "sign", input.frame \in Message,
                      result = ParseSignRequest(input.frame)
               PROVE  SignExact
    BY Zenon DEF ReadOf, SignExact
  <2>1. ASSUME result.ok
        PROVE  /\ input.frame = EncodeSign(result.blob, result.data, result.flags)
               /\ GoodBlob(result.blob)
               /\ Clean(result.username, MaxUsername)
               /\ result.username # <<>> =>
                    LET auth == Userauth(result.data, result.blob) IN
                    /\ GoodUserauth(auth, result.blob)
                    /\ result.data = EncodeUserauth(auth)
                    /\ result.username = DisplayText(auth.username, MaxUsername)
    <3>1. /\ input.frame = EncodeSign(result.blob, result.data, result.flags)
          /\ GoodBlob(result.blob) /\ result.blob \in Message /\ result.data \in Message
          /\ result.username = UsernameOf(result.data, result.blob)
      BY <2>1, SignSound, Zenon
    <3>2. PICK auth : auth = Userauth(result.data, result.blob)
      OBVIOUS
    <3>3. result.username = IF auth.ok THEN DisplayText(auth.username, MaxUsername) ELSE <<>>
      BY <3>1, <3>2, Zenon DEF UsernameOf
    <3>4. auth.ok =>
            /\ GoodUserauth(auth, result.blob)
            /\ result.data = EncodeUserauth(auth)
            /\ auth.username \in Message
      BY <3>1, <3>2, UserauthSound, Zenon
    <3>5. Clean(result.username, MaxUsername)
      <4>1. MaxUsername \in Nat
        BY WireAssumption
      <4>2. Clean(<<>>, MaxUsername)
        BY <4>1 DEF Clean
      <4>3. QED
        BY <3>3, <3>4, <4>1, <4>2, DisplayClean, Zenon
    <3>6. QED
      BY <3>1, <3>2, <3>3, <3>4, <3>5, Zenon
  <2>2. ASSUME NEW s \in SignRequests,
               input.frame = EncodeSign(s.blob, EncodeUserauth(s.auth), s.flags),
               Len(input.frame) - 1 <= MaxRequest
        PROVE  /\ result.ok /\ result.blob = s.blob
               /\ result.username = DisplayText(s.auth.username, MaxUsername)
    <3>1. s.blob \in Message /\ s.auth \in Payloads /\ s.flags \in Nat
      BY MetadataAssumption
    <3>2. GoodBlob(s.blob) /\ GoodUserauth(s.auth, s.blob)
      BY MetadataAssumption, Zenon
    <3>3. PICK data : data = EncodeUserauth(s.auth)
      OBVIOUS
    <3>4. /\ data \in Message
          /\ Userauth(data, s.blob).ok /\ Userauth(data, s.blob).username = s.auth.username
      BY <3>1, <3>2, <3>3, UserauthComplete, Zenon
    <3>5. /\ result.ok /\ result.blob = s.blob
          /\ result.username = UsernameOf(data, s.blob)
      <4>1. PICK b : b = s.blob
        OBVIOUS
      <4>2. PICK flags : flags = s.flags
        OBVIOUS
      <4>3. input.frame = EncodeSign(b, data, flags)
        BY <2>2, <3>3, <4>1, <4>2, Zenon
      <4>4. /\ b \in Message /\ GoodBlob(b) /\ flags \in Nat
            /\ Len(EncodeSign(b, data, flags)) - 1 <= MaxRequest
        BY <2>2, <3>1, <3>2, <4>1, <4>2, <4>3, Zenon
      <4>5. LET r == ParseSignRequest(EncodeSign(b, data, flags)) IN
            r.ok /\ r.blob = b /\ r.data = data /\ r.username = UsernameOf(data, b)
        BY <3>4, <4>4, SignComplete, ZenonT(60)
      <4>6. QED
        BY <4>1, <4>3, <4>5, Zenon
    <3>6. QED
      BY <3>4, <3>5, Zenon DEF UsernameOf
  <2>3. QED
    BY <2>1, <2>2, Zenon DEF SignExact
<1>2. QED
  BY <1>1, ReadOfHolds, PTL

\* A one-shot request goes to the agent exactly if it is a whole frame and no
\* session-bind extension (QueryAgent).
THEOREM BindingsRefused == Spec => []BindingRefused
<1>1. ReadOf => BindingRefused
  BY RefusedExactly, Zenon DEF ReadOf, BindingRefused
<1>2. QED
  BY <1>1, ReadOfHolds, PTL

\* A clear command line gives the place its words name, whatever the parser's loop has
\* been through, a broken one gives none, and none shows a text unfit for display
\* (clientFromProcess).
THEOREM TargetsAsMeant == Spec => []TargetAsMeant
<1>1. ReadOf => TargetAsMeant
  <2> SUFFICES ASSUME input.line.args \in Seq(Vocabulary),
                      result.target = TargetOf(input.line.app, input.line.args)
               PROVE  TargetAsMeant
    BY Zenon DEF ReadOf, TargetAsMeant
  <2>1. PICK app, args : app = input.line.app /\ args = input.line.args
    OBVIOUS
  <2>2. PICK target : target = TargetOf(app, args)
    OBVIOUS
  <2>3. /\ Clear(app, args) =>
             [user |-> target.user, host |-> target.host, port |-> target.port] = Meant(app, args)
        /\ Broken(app, args) => target = NoTarget
        /\ target.user \notin UnsafeFields /\ target.host \notin UnsafeFields \cup UnsafeHosts
    BY <2>1, <2>2, TargetMeant, Zenon
  <2>4. QED
    BY <2>1, <2>2, <2>3, Zenon DEF TargetAsMeant
<1>2. QED
  BY <1>1, ReadOfHolds, PTL

\* A field shows the most whole runes that fit, cleaned, and nothing else (copyUIText).
THEOREM FieldsWhole == Spec => []FieldWhole
<1>1. ReadOf => FieldWhole
  <2> SUFFICES ASSUME input.field \in Fields, input.field.size > 0,
                      result.units = CopyUIText(input.field.size, input.field.text)
               PROVE  FieldWhole
    BY Zenon DEF ReadOf, FieldWhole
  <2>1. PICK text, size : text = input.field.text /\ size = input.field.size
    OBVIOUS
  <2>2. size \in Nat /\ size > 0 /\ IsText(text)
    <3>1. input.field.text \in Message /\ input.field.size \in Nat
      BY MetadataAssumption, SMT
    <3>2. DOMAIN text = 1..Len(text)
      BY <2>1, <3>1, SMT DEF Message
    <3>3. \A i \in DOMAIN input.field.text : IsRune(input.field.text[i])
      BY MetadataAssumption, Zenon
    <3>4. QED
      BY <2>1, <3>1, <3>2, <3>3, Zenon DEF IsText
  <2>3. PICK k \in 0..Len(text) :
          /\ CopyUIText(size, text)
               = FirstRunes(text, k) \o [i \in 1..size - Len(FirstRunes(text, k)) |-> 0]
          /\ Len(FirstRunes(text, k)) < size
          /\ \A i \in 1..Len(FirstRunes(text, k)) : FirstRunes(text, k)[i] \notin Controls
          /\ k < Len(text) /\ k < MaxText => Len(FirstRunes(text, k + 1)) >= size
    BY <2>2, CopyWhole, Zenon
  <2>4. DOMAIN FirstRunes(text, k) = 1..Len(FirstRunes(text, k))
    <3>1. Len(text) \in Nat
      BY <2>2, SMT DEF IsText, Message
    <3>2. k \in Nat /\ k <= Len(text)
      BY <3>1
    <3>3. PICK a \in Message : a = FirstRunes(text, k)
      BY <2>2, <3>2, FirstRunesSteps, Zenon
    <3>4. DOMAIN a = 1..Len(a)
      BY DEF Message
    <3>5. QED
      BY <3>3, <3>4, Zenon
  <2>5. QED
    BY <2>1, <2>3, <2>4, Zenon DEF FieldWhole, FirstRunes
<1>2. QED
  BY <1>1, ReadOfHolds, PTL
=============================================================================
