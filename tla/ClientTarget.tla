----------------------------- MODULE ClientTarget -----------------------------
(***************************************************************************)
(* The destination a client's command line names, as the bridge infers it  *)
(* for a notice (pageant/client_windows.go 173-367), and what a line that  *)
(* leaves no choice says. The clients read more than the parser does: ssh  *)
(* takes options after its destination, and the first of two that set the  *)
(* same thing. Lines on which that would matter are not called clear here. *)
(*                                                                         *)
(* A word of a command line is a string. What the library functions find   *)
(* in it (an at sign, a URI, a number, an unsafe character) is a constant. *)
(***************************************************************************)
EXTENDS Naturals, SequencesExt

CONSTANTS Dashed,        \* the words that start with "-"
          Joined,        \* ssh: [option, value] of words such as "-lann"
          VerboseRuns,   \* ssh: "-vvv" and longer
          Quoted,        \* the parts of words with blanks, at the blanks
          PortOf,        \* strconv.ParseUint of a word, 0 when it fails
          Settings,      \* [key, text] of the words "Key=text" of -o
          Places,        \* destinations: [uri, refused, user, host, port] of a word
          UnsafeFields, UnsafeHosts,
          Sessions       \* PuTTY's registry: [opens, protocol, host, user, port] of a name,
                         \* "" or NoPort for a value that is not stored

NoPort == 0
BadPort == 65536

NoTarget == [user |-> "", host |-> "", port |-> NoPort, source |-> "", session |-> ""]

Apps == {"ssh.exe", "putty.exe", "plink.exe", "tortoisegitplink.exe"}

SafeTargetField(text) == IF text \in UnsafeFields THEN "" ELSE text

SafeHost(text) == IF text \in UnsafeFields \cup UnsafeHosts THEN "" ELSE text

SshNoValue ==
  <<"-4", "-6", "-A", "-a", "-C", "-f", "-G", "-g", "-K", "-k", "-M", "-N", "-n", "-q",
    "-s", "-T", "-t", "-V", "-v", "-X", "-x", "-Y", "-y">>
PuttyNoValue ==
  <<"-ssh", "-2", "-4", "-6", "-batch", "-agent", "-noagent", "-A", "-a", "-C", "-N", "-T",
    "-t", "-v", "-x", "-X", "-share", "-noshare", "-no-antispoof">>
SshValueFlags ==
  <<"-B", "-b", "-c", "-D", "-E", "-e", "-F", "-I", "-i", "-J", "-L", "-l", "-m", "-O",
    "-o", "-P", "-p", "-Q", "-R", "-S", "-W", "-w">>
PuttyValueFlags ==
  <<"-l", "-P", "-load", "-pw", "-pwfile", "-i", "-m", "-L", "-R", "-D", "-nc",
    "-proxycmd", "-hostkey", "-loghost", "-sercfg", "-sessionlog", "-sshlog",
    "-sshrawlog">>

\* strings.Contains in a list with blanks around: a word of the list, or several
\* that stand side by side in it, quoted as one word.
Accepted(list) ==
  Range(list) \cup
  {w \in DOMAIN Quoted :
     \E k \in 0..Len(list) - Len(Quoted[w]) :
       \A i \in DOMAIN Quoted[w] : list[k + i] = Quoted[w][i]}

SshAlone == Accepted(SshNoValue)
SshValued == Accepted(SshValueFlags)
PuttyAlone == Accepted(PuttyNoValue)
PuttyValued == Accepted(PuttyValueFlags)

NoValue(app) == IF app = "ssh.exe" THEN SshAlone ELSE PuttyAlone
ValueFlags(app) == IF app = "ssh.exe" THEN SshValued ELSE PuttyValued

\* The words of command lines, and every text one of them holds.
Vocabulary == DOMAIN Places
Texts == Vocabulary \cup {Joined[w].value : w \in DOMAIN Joined}
                    \cup {Settings[w].text : w \in DOMAIN Settings}

ASSUME TargetAssumption ==
  /\ Vocabulary \cup Dashed \subseteq STRING
  /\ "--" \in Dashed /\ "" \notin Dashed
  /\ DOMAIN Joined \subseteq Dashed
  /\ \A w \in DOMAIN Joined : Joined[w] \in [option : {"-l", "-p"}, value : STRING \ {""}]
  /\ \A w \in DOMAIN Quoted :
       /\ Quoted[w] \in Seq(STRING) /\ Len(Quoted[w]) >= 2
       /\ w \notin Range(SshNoValue) \cup Range(PuttyNoValue)
                  \cup Range(SshValueFlags) \cup Range(PuttyValueFlags)
  /\ VerboseRuns \subseteq Dashed \ (DOMAIN Joined \cup ValueFlags("ssh.exe"))
  /\ \A t \in Texts : PortOf[t] \in Nat
  /\ PortOf[""] = NoPort
  /\ \A w \in DOMAIN Settings : Settings[w] \in [key : {"user", "hostname", "port"}, text : STRING]
  /\ \A w \in Vocabulary :
       /\ Places[w] \in [uri : BOOLEAN, refused : BOOLEAN, user : STRING, host : STRING, port : Nat]
       /\ ~Places[w].uri => Places[w].port = NoPort
  /\ "" \notin UnsafeFields \cup UnsafeHosts
  /\ DOMAIN Sessions \subseteq STRING \ {""}
  /\ \A name \in DOMAIN Sessions :
       Sessions[name] \in [opens : BOOLEAN, protocol : STRING, host : STRING, user : STRING,
                           port : Nat]

\* An option with the value joined to it, if any.
OptionIn(app, word) ==
  IF app = "ssh.exe" /\ word \in DOMAIN Joined
    THEN Joined[word] ELSE [option |-> word, value |-> ""]

-----------------------------------------------------------------------------
(* The parser: a loop over the words *)

\* What the destination adds to what options have set.
ParseDestination(target, word) ==
  LET place == Places[word]
      named == [target EXCEPT !.user = IF @ = "" THEN SafeTargetField(place.user) ELSE @,
                              !.host = IF @ = "" THEN SafeHost(place.host) ELSE @]
  IN IF ~place.uri THEN named
     ELSE IF place.refused THEN target
     ELSE IF place.port = BadPort THEN [named EXCEPT !.host = ""]
     ELSE [named EXCEPT !.port = IF @ = NoPort THEN place.port ELSE @]

\* "words": reading options; "value": the value of .option comes next;
\* "dash": after "--"; "done": the rest is not looked at.
Scan0 == [phase |-> "words", option |-> "", placed |-> FALSE,
          target |-> [NoTarget EXCEPT !.source = "inferred client arguments"]]

Returned(target) == [phase |-> "done", option |-> "", placed |-> TRUE, target |-> target]
Refused == Returned(NoTarget)

PortSet(s, port) ==
  IF port = NoPort THEN Refused ELSE [s EXCEPT !.target.port = port]

SetOption(app, s, option, value) ==
  LET ssh == app = "ssh.exe" IN
  CASE option = "-l" -> [s EXCEPT !.target.user = SafeTargetField(value)]
    [] option = (IF ssh THEN "-p" ELSE "-P") -> PortSet(s, PortOf[value])
    [] ~ssh /\ option = "-load" -> [s EXCEPT !.target.session = value]
    [] ssh /\ option = "-o" /\ value \in DOMAIN Settings ->
         LET setting == Settings[value] IN
         CASE setting.key = "user" -> [s EXCEPT !.target.user = SafeTargetField(setting.text)]
           [] setting.key = "hostname" -> [s EXCEPT !.target.host = SafeHost(setting.text)]
           [] setting.key = "port" -> PortSet(s, PortOf[setting.text])
           [] OTHER -> s
    [] OTHER -> s

\* Mutant: options after the destination are read for every client.
ReadsOn(app) == TRUE

\* Only PuTTY's GUI accepts options after the host name.
GoesOn(app) == app = "putty.exe"

\* A destination: the last word that is read, but for PuTTY's GUI.
ReadDestination(app, s, word) ==
  LET placed == ParseDestination(s.target, word) IN
  IF s.placed THEN Refused
  ELSE IF GoesOn(app) THEN [s EXCEPT !.target = placed, !.placed = TRUE]
  ELSE Returned(placed)

ReadOption(app, s, word) ==
  LET split == OptionIn(app, word) IN
  IF (app = "ssh.exe" /\ word \in VerboseRuns) \/ split.option \in NoValue(app) THEN s
  ELSE IF split.option \notin ValueFlags(app) THEN Refused
  ELSE IF split.value # "" THEN SetOption(app, s, split.option, split.value)
  ELSE [s EXCEPT !.phase = "value", !.option = split.option]

ScanWord(app, s, word) ==
  CASE s.phase = "done"  -> s
    [] s.phase = "dash"  -> Returned(ParseDestination(s.target, word))
    [] s.phase = "value" -> SetOption(app, [s EXCEPT !.phase = "words"], s.option, word)
    [] s.phase = "words" ->
         IF word = "--" THEN [s EXCEPT !.phase = "dash"]
         ELSE IF word \in Dashed THEN ReadOption(app, s, word)
         ELSE ReadDestination(app, s, word)

\* What the loop has made of all words.
Scan(app, args) ==
  LET scan[n \in 0..Len(args)] ==
        IF n = 0 THEN Scan0 ELSE ScanWord(app, scan[n - 1], args[n])
  IN scan[Len(args)]

ParseClientTarget(app, args) ==
  LET s == Scan(app, args) IN
  IF app \notin Apps \/ s.phase = "value" THEN NoTarget ELSE s.target

\* What a saved session adds: nothing if the registry does not have it.
ResolvePuttySession(target) ==
  IF target.session \notin DOMAIN Sessions \/ ~Sessions[target.session].opens THEN target
  ELSE LET saved == Sessions[target.session] IN
       IF saved.protocol \notin {"", "ssh"} THEN NoTarget
       ELSE [user    |-> IF target.user = "" THEN SafeTargetField(saved.user) ELSE target.user,
             host    |-> IF target.host = "" THEN SafeHost(saved.host) ELSE target.host,
             port    |-> IF target.port = NoPort THEN saved.port ELSE target.port,
             source  |-> "inferred PuTTY session",
             session |-> target.session]

\* clientFromProcess: there is nothing to read in a command line without arguments.
TargetOf(app, args) ==
  LET target == IF args = <<>> THEN NoTarget ELSE ParseClientTarget(app, args) IN
  IF target.session # "" THEN ResolvePuttySession(target) ELSE target

-----------------------------------------------------------------------------
(* What a command line says, by position *)

TakesNext(app, word) ==
  /\ word \in Dashed \ {"--"}
  /\ OptionIn(app, word).option \in ValueFlags(app)
  /\ OptionIn(app, word).value = ""

\* The positions of words that are values of the option before them.
Values(app, args) ==
  CHOOSE V \in SUBSET DOMAIN args :
    \A i \in DOMAIN args :
      i \in V <=> i > 1 /\ i - 1 \notin V /\ TakesNext(app, args[i - 1])

\* Options end at "--" and, but for PuTTY's GUI, at the destination, unless more
\* options follow it directly, which Clear leaves out.
End(app, args) ==
  Min({Len(args) + 1} \cup
      {i \in DOMAIN args \ Values(app, args) :
         args[i] = "--" \/ (app # "putty.exe" /\ args[i] \notin Dashed)})

Options(app, args) ==
  {i \in DOMAIN args \ Values(app, args) : i < End(app, args) /\ args[i] \in Dashed}

Destinations(app, args) ==
  LET end == End(app, args) IN
  {i \in DOMAIN args \ Values(app, args) : i <= end /\ args[i] \notin Dashed}
    \cup {i \in DOMAIN args : i = end + 1 /\ args[end] = "--"}

\* The settings the options make, by position: [key, text].
SettingAt(app, args, i) ==
  LET split == OptionIn(app, args[i])
      text  == IF split.value # "" THEN split.value ELSE args[i + 1]
      ssh   == app = "ssh.exe"
  IN CASE split.option \notin ValueFlags(app) -> [key |-> "none", text |-> ""]
       [] split.option = "-l" -> [key |-> "user", text |-> text]
       [] split.option = (IF ssh THEN "-p" ELSE "-P") -> [key |-> "port", text |-> text]
       [] ~ssh /\ split.option = "-load" -> [key |-> "session", text |-> text]
       [] ssh /\ split.option = "-o" /\ text \in DOMAIN Settings -> Settings[text]
       [] OTHER -> [key |-> "none", text |-> ""]

Complete(app, args) ==
  \A i \in Options(app, args) :
    /\ \/ OptionIn(app, args[i]).option \in NoValue(app) \cup ValueFlags(app)
       \/ app = "ssh.exe" /\ args[i] \in VerboseRuns
    /\ TakesNext(app, args[i]) => i < Len(args)

\* Where a key is set, and the setting, "" if there is none.
Set(app, args, key) == {i \in Options(app, args) : SettingAt(app, args, i).key = key}
Setting(app, args, key) ==
  LET at == Set(app, args, key) IN
  IF at = {} THEN "" ELSE SettingAt(app, args, CHOOSE i \in at : TRUE).text

\* A command line of another program, or with options on neither list, a value
\* missing, a port that is none, or two destinations among its options.
Broken(app, args) ==
  \/ app \notin Apps
  \/ ~Complete(app, args)
  \/ \E i \in Options(app, args) :
       SettingAt(app, args, i).key = "port" /\ PortOf[SettingAt(app, args, i).text] = NoPort
  \/ \E i, j \in Destinations(app, args) : i < j /\ j < End(app, args)

\* One whose names and numbers are all fit for display.
FitToShow(app, args) ==
  /\ \A i \in Options(app, args) :
       LET setting == SettingAt(app, args, i) IN
       CASE setting.key = "user"     -> SafeTargetField(setting.text) # ""
         [] setting.key = "hostname" -> SafeHost(setting.text) # ""
         [] setting.key = "port"     -> PortOf[setting.text] # NoPort
         [] OTHER                    -> TRUE
  /\ \A i \in Destinations(app, args) :
       LET place == Places[args[i]] IN
       /\ ~place.refused /\ place.port # BadPort
       /\ SafeHost(place.host) # "" /\ SafeTargetField(place.user) = place.user

\* One that every client of its kind reads the same way: it sets nothing twice, no
\* option follows the destination where ssh and plink would still take it, and no
\* word holds several options.
Unambiguous(app, args) ==
  /\ \A key \in {"user", "hostname", "port", "session"} :
       \A i, j \in Set(app, args, key) : i = j
  /\ \A i, j \in Destinations(app, args) : i = j
  /\ app # "putty.exe" =>
       \A i \in Destinations(app, args) : i < Len(args) => args[i + 1] \notin Dashed
  /\ \A i \in Options(app, args) : args[i] \notin DOMAIN Quoted

\* PuTTY's programs: the destination is no URI and no saved session's name, it comes
\* without "-load" and "--", and does not name a user beside "-l".
PlainPutty(app, args) ==
  /\ \A i \in DOMAIN args : i = End(app, args) => args[i] # "--"
  /\ \A i \in Destinations(app, args) :
       /\ ~Places[args[i]].uri /\ args[i] \notin DOMAIN Sessions
       /\ Set(app, args, "session") = {}
       /\ Set(app, args, "user") # {} => Places[args[i]].user = ""

\* A command line that leaves no choice.
Clear(app, args) ==
  /\ app \in Apps
  /\ Complete(app, args) /\ FitToShow(app, args) /\ Unambiguous(app, args)
  /\ app # "ssh.exe" => PlainPutty(app, args)
  /\ LET saved == Setting(app, args, "session") IN
       saved \in DOMAIN Sessions => Sessions[saved].protocol \in {"", "ssh"}

\* The first of two that is there.
OrElse(first, second, none) == IF first # none THEN first ELSE second

\* The place a clear line names: explicit options first, then the destination, then
\* the saved session. (An alias or a proxy of the client's own configuration may
\* still take the connection elsewhere.)
Meant(app, args) ==
  LET at      == Destinations(app, args)
      nowhere == [user |-> "", host |-> "", port |-> NoPort]
      place   == IF at = {} THEN nowhere ELSE Places[args[CHOOSE i \in at : TRUE]]
      name    == Setting(app, args, "session")
      saved   == IF name \in DOMAIN Sessions /\ Sessions[name].opens
                   THEN Sessions[name] ELSE nowhere
      port    == Setting(app, args, "port")
  IN [user |-> OrElse(Setting(app, args, "user"),
                      OrElse(place.user, SafeTargetField(saved.user), ""), ""),
      host |-> OrElse(Setting(app, args, "hostname"),
                      OrElse(place.host, SafeHost(saved.host), ""), ""),
      port |-> OrElse(IF port = "" THEN NoPort ELSE PortOf[port],
                      OrElse(place.port, saved.port, NoPort), NoPort)]
=============================================================================
