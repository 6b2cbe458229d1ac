------------------------------ MODULE MCMetadata ------------------------------
(* Inputs for the AgentMetadata run: every encoding of a small vocabulary    *)
(* and every message one edit away from one; every command line of up to     *)
(* four words.                                                               *)
EXTENDS AgentMetadata, TLC

\* Letters 100 and 101, a control 7, a symbol no text may show 200.
MCUnprintable == 0..32 \cup {200}
MCInvisible == 0..31 \cup {200}

Comments == {<<>>, <<100>>, <<7, 100>>, <<100, 200, 101>>, <<101, 100, 101, 7>>}
Blobs == {<<1, 100, 9>>, <<2, 100, 101, 0>>, <<1, 101, 1, 7>>}
Entries == [blob : Blobs, comment : Comments]
MCKeyLists == {<<>>} \cup {<<e>> : e \in Entries}
  \cup {<<e, [blob |-> <<1, 100, 9>>, comment |-> t]>> : e \in Entries, t \in {<<>>, <<101>>}}

Auths(key) ==
  [session : {<<0>>, <<50, 1>>}, username : {<<100>>, <<7, 101>>, <<100, 101, 100>>},
   method : {<<PublicKey>>}, algorithm : {<<101>>}, key : {key}, hostKey : {<<>>}]
  \cup [session : {<<1>>}, username : {<<101>>, <<101, 100, 200>>},
        method : {<<HostBound>>}, algorithm : {<<100>>}, key : {key}, hostKey : {<<9>>, <<1>>}]
MCSignRequests ==
  UNION {[blob : {b}, auth : Auths(b), flags : {0, 2}] : b \in {<<1, 100, 9>>, <<2, 100, 101, 0>>}}

\* One symbol changed, dropped or added; with the frame's own length rewritten
\* or left as it was.
Symbols == {0, 1, 2, 3, 4, 5, 7, 11, 12, 13, 27, 50, 100, 200, 111, 112, 113}
Changed(f) == {[f EXCEPT ![i] = x] : i \in DOMAIN f, x \in Symbols}
Dropped(f) == {RemoveAt(f, i) : i \in DOMAIN f}
Added(f) == {InsertAt(f, i, x) : i \in 1..Len(f) + 1, x \in Symbols}
Reframed(f) == IF f = <<>> THEN f ELSE [f EXCEPT ![1] = Len(f) - 1]
Edits(f) == LET g == Changed(f) \cup Dropped(f) \cup Added(f) IN
            {f} \cup g \cup {Reframed(x) : x \in g}

\* A payload for one key under another, and a generic signature.
Strays == {EncodeSign(<<1, 100, 9>>, EncodeUserauth([s.auth EXCEPT !.key = k]), 0) :
             s \in MCSignRequests, k \in {<<1, 101, 9>>, <<1, 100, 9, 9>>, <<>>}}
  \cup {EncodeSign(<<1, 100, 9>>, t, 0) : t \in Comments}
Bindings == {Frame(<<Extension>> \o Str(<<name>>) \o more) :
               name \in {SessionBind, 100}, more \in {<<>>, <<1>>, <<100, 2>>}}

\* What is edited: lists of every length, payloads of both methods.
EditedLists ==
  {keys \in MCKeyLists : \A i \in DOMAIN keys :
     keys[i].blob # <<1, 101, 1, 7>> /\ keys[i].comment \in {<<>>, <<7, 100>>, <<101>>}}
EditedSigns == {s \in MCSignRequests : s.flags = 0 /\ Len(s.auth.username) = 1 /\ s.blob[1] = 1}

MCReplies == {EncodeKeys(keys) : keys \in MCKeyLists} \cup Edits(<<1, Failure>>)
  \cup UNION {Edits(EncodeKeys(keys)) : keys \in EditedLists}
SignFrame(s) == EncodeSign(s.blob, EncodeUserauth(s.auth), s.flags)
MCRequests == {SignFrame(s) : s \in MCSignRequests} \cup {<<>>, <<1>>} \cup Strays
  \cup UNION {Edits(SignFrame(s)) : s \in EditedSigns}
  \cup UNION {Edits(f) : f \in Bindings}

-----------------------------------------------------------------------------
SshWords == {"--", "-A", "-vvv", "-z", "-l", "-lann", "-p", "-o", "2222", "bob@beta",
             "ssh://cat@gamma:2022", "User=dan", "HostName=delta"}
SshMore == SshWords \cup {"Port=0", "-p2222", "alpha", "two words", "ssh://beta/path", "ssh://beta:0",
                       "-A -a", "-O -o"}
PuttyWords == {"--", "-A", "-z", "-l", "-P", "-load", "2222", "bob@beta", "work", "telnet"}
PuttyMore == PuttyWords \cup {"-lann", "alpha", "two words", "ssh://cat@gamma:2022", "locked", "-l -P", "-A -P"}
Words == SshMore \cup PuttyMore

Lines(apps, words, lengths) ==
  [app : apps, args : UNION {[1..n -> words] : n \in lengths}]
MCCommandLines ==
  Lines({"ssh.exe"}, SshMore, 0..3) \cup Lines({"ssh.exe"}, SshWords, {4})
  \cup Lines(Apps \ {"ssh.exe"}, PuttyMore, 0..3)
  \cup Lines({"putty.exe", "plink.exe"}, PuttyWords, {4})
  \cup Lines({"other.exe"}, {"bob@beta"}, {1})

MCDashed == {"--", "-A", "-vvv", "-z", "-l", "-lann", "-p", "-p2222", "-o", "-P", "-load",
             "-A -a", "-O -o", "-l -P", "-A -P"}
MCJoined == "-lann" :> [option |-> "-l", value |-> "ann"]
         @@ "-p2222" :> [option |-> "-p", value |-> "2222"]
         @@ "-load" :> [option |-> "-l", value |-> "oad"]
         @@ "-l -P" :> [option |-> "-l", value |-> " -P"]
MCVerboseRuns == {"-vvv"}
\* Neighbours in a list of ssh or PuTTY, but for "-A -P".
MCQuoted == "two words" :> <<"two", "words">> @@ "-A -a" :> <<"-A", "-a">>
         @@ "-O -o" :> <<"-O", "-o">> @@ "-l -P" :> <<"-l", "-P">> @@ "-A -P" :> <<"-A", "-P">>
MCPortOf == [w \in Words \cup {"", "0", "ann", "oad", " -P", "dan", "delta"} |-> IF w = "2222" THEN 2222 ELSE NoPort]
MCSettings == "User=dan" :> [key |-> "user", text |-> "dan"]
           @@ "HostName=delta" :> [key |-> "hostname", text |-> "delta"]
           @@ "Port=0" :> [key |-> "port", text |-> "0"]

Uri(refused, user, host, port) ==
  [uri |-> TRUE, refused |-> refused, user |-> user, host |-> host, port |-> port]
MCPlaces ==
  [w \in Words |->
     CASE w = "ssh://cat@gamma:2022" -> Uri(FALSE, "cat", "gamma", 2022)
       [] w = "ssh://beta/path"      -> Uri(TRUE, "", "beta", NoPort)
       [] w = "ssh://beta:0"         -> Uri(FALSE, "", "beta", BadPort)
       [] w = "bob@beta" -> [uri |-> FALSE, refused |-> FALSE, user |-> "bob",
                             host |-> "beta", port |-> NoPort]
       [] OTHER          -> [uri |-> FALSE, refused |-> FALSE, user |-> "",
                             host |-> w, port |-> NoPort]]
MCUnsafeFields == DOMAIN MCQuoted \cup {" -P"}
MCUnsafeHosts == MCDashed

Saved(opens, protocol, user, port) ==
  [opens |-> opens, protocol |-> protocol, host |-> "omega", user |-> user, port |-> port]
MCSessions == "work" :> Saved(TRUE, "ssh", "eve", 2200)
           @@ "telnet" :> Saved(TRUE, "telnet", "", 23)
           @@ "locked" :> Saved(FALSE, "", "eve", NoPort)

-----------------------------------------------------------------------------
\* A letter, a line end, a character of two units, and an invisible one of two.
MCControls == {0, 10, 917505}
MCFields ==
  [text : UNION {[1..n -> {97, 10, 128512, 917505}] : n \in 0..5}, size : 0..6]
=============================================================================
