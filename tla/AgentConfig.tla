------------------------------- MODULE AgentConfig -------------------------------
(***************************************************************************)
(* How .jalon/agent.toml becomes what a job may do and spend: parseTOML    *)
(* reads the file line by line (agent/toml.go), loadConfig holds its keys  *)
(* against the table, validate its values against their bounds             *)
(* (agent/config.go).  One action is one line of the file, then one of the *)
(* two passes.                                                             *)
(***************************************************************************)
EXTENDS Integers, FiniteSets, FiniteSetsExt, TomlText

CONSTANTS Files,           \* the files that are read
          Width, Second,   \* a time.Duration: nanoseconds in 64 bits
          ShellMeta,       \* words with a character of shellMeta
          Padded,          \* words with blanks around them
          NotInBranch,     \* words with a character no branch has
          RunsDoctor       \* words that hold "jalon doctor"

\* A line is blank, a header with its name, a key with its name and its value, an
\* element of an array, the ] of an array, or junk; a value is text, a number, the
\* [ that opens an array, or junk.
IsValue(v) ==
  \/ v.form \in {"open", "junk"}
  \/ v.form = "text" /\ v.text \in Seq(STRING)
  \/ v.form \in {"int", "float"} /\ v.n \in Int
IsLine(l) ==
  \/ l.is \in {"blank", "close", "junk"}
  \/ l.is = "header" /\ l.name # ""
  \/ l.is = "key" /\ IsValue(l.value)
  \/ l.is = "item" /\ l.value.form = "text" /\ l.value.text \in Seq(STRING)

ASSUME FilesAssumption ==
  \A f \in Files : f \in Seq({f[n] : n \in DOMAIN f}) /\ \A n \in DOMAIN f : IsLine(f[n])

\* A duration reaches Half of its bits each way, and an hour fits.
Half == 2^(Width - 1)
ASSUME DurationAssumption ==
  /\ Width \in Nat \ {0} /\ Second \in Nat \ {0}
  /\ Half \in Nat /\ 3600 * Second < Half

VARIABLES
  file,      \* the lines
  at,        \* the next line to read
  section,   \* the header above it, "" at first
  open,      \* the array being read
  doc,       \* what each key was set to
  config,    \* the configuration
  outcome    \* reading, parsed, assigned, then loaded or refused

vars == <<file, at, section, open, doc, config, outcome>>

Key(s, n) == [section |-> s, name |-> n]
NoArray == [key |-> Key("", ""), line |-> 0, arr |-> <<>>]
Value(kind, line, n, arr) == [kind |-> kind, line |-> line, n |-> n, arr |-> arr]
Set(f, k, v) == [x \in DOMAIN f \cup {k} |-> IF x = k THEN v ELSE f[x]]

\* The table: the kind of each key, and the one that may be left out.
configKeys ==
  LET text == {Key("agent", n) : n \in {"model_triage", "model_review", "model_work",
                                        "counter_file"}}
              \cup {Key("review", n) : n \in {"default_branch", "worktrees"}}
              \cup {Key("criterion", "command"), Key("notify", "command")}
      whole == {Key("agent", "daily_job_cap"), Key("agent", "timeout_seconds")}
      number == Key("agent", "max_budget_usd_per_job")
      list == Key("probes", "allowed")
  IN [k \in text \cup whole \cup {number, list} |->
        CASE k \in text -> "string"
          [] k \in whole -> "int"
          [] k = number -> "float"
          [] k = list -> "array"]
Optional == {Key("notify", "command")}

Init ==
  /\ file \in Files
  /\ at = 1
  /\ section = ""
  /\ open = NoArray
  /\ doc = <<>>
  /\ config = <<>>
  /\ outcome = "reading"

-----------------------------------------------------------------------------
(* parseTOML, one line at a time *)

Readable(v) ==
  \/ v.form \in {"int", "float"}
  \/ v.form = "text" /\ ~ Unreadable(v.text)

\* MUTANT of Fits: a key set again replaces what it was.
FitsAgain(line) ==
  CASE line.is = "blank" -> TRUE
    [] line.is = "header" -> open = NoArray
    [] line.is = "key" ->
         /\ open = NoArray /\ section # ""
         /\ line.value.form = "open" \/ Readable(line.value)
    [] line.is = "item" -> open # NoArray /\ Readable(line.value)
    [] line.is = "close" -> open # NoArray
    [] OTHER -> FALSE

\* What may stand on the next line; a key set twice is seen once its value is read,
\* which for an array is at its ].
Fits(line) ==
  CASE line.is = "blank" -> TRUE
    [] line.is = "header" -> open = NoArray
    [] line.is = "key" ->
         /\ open = NoArray /\ section # ""
         /\ \/ line.value.form = "open"
            \/ Readable(line.value) /\ Key(section, line.name) \notin DOMAIN doc
    [] line.is = "item" -> open # NoArray /\ Readable(line.value)
    [] line.is = "close" -> open # NoArray /\ open.key \notin DOMAIN doc
    [] OTHER -> FALSE

Reading == outcome = "reading" /\ at <= Len(file)

Reads(what) ==
  /\ Reading
  /\ file[at].is = what
  /\ Fits(file[at])
  /\ at' = at + 1
  /\ UNCHANGED <<file, config, outcome>>

BlankLine == Reads("blank") /\ UNCHANGED <<section, open, doc>>

Header ==
  /\ Reads("header")
  /\ section' = file[at].name
  /\ UNCHANGED <<open, doc>>

Setting ==
  /\ Reads("key")
  /\ LET key == Key(section, file[at].name)
         v == file[at].value
     IN IF v.form = "open"
          THEN /\ open' = [key |-> key, line |-> at, arr |-> <<>>]
               /\ UNCHANGED doc
          ELSE /\ doc' = Set(doc, key, IF v.form = "text"
                                        THEN Value("string", at, 0, ReadString(v.text))
                                        ELSE Value(v.form, at, v.n, <<>>))
               /\ UNCHANGED open
  /\ UNCHANGED section

\* MUTANT of Element: each element goes before the ones above it.
ElementBefore ==
  /\ Reads("item")
  /\ open' = [open EXCEPT !.arr = <<ReadString(file[at].value.text)>> \o @]
  /\ UNCHANGED <<section, doc>>

Element ==
  /\ Reads("item")
  /\ open' = [open EXCEPT !.arr = Append(@, ReadString(file[at].value.text))]
  /\ UNCHANGED <<section, doc>>

\* MUTANT of CloseArray: an array is said to be on the line of its ].
CloseArrayAtEnd ==
  /\ Reads("close")
  /\ doc' = Set(doc, open.key, Value("array", at, 0, open.arr))
  /\ open' = NoArray
  /\ UNCHANGED section

CloseArray ==
  /\ Reads("close")
  /\ doc' = Set(doc, open.key, Value("array", open.line, 0, open.arr))
  /\ open' = NoArray
  /\ UNCHANGED section

RefuseLine ==
  /\ Reading
  /\ ~ Fits(file[at])
  /\ outcome' = "refused"
  /\ UNCHANGED <<file, at, section, open, doc, config>>

EndOfFile ==
  /\ outcome = "reading" /\ at > Len(file)
  /\ outcome' = IF open = NoArray THEN "parsed" ELSE "refused"
  /\ UNCHANGED <<file, at, section, open, doc, config>>

-----------------------------------------------------------------------------
(* loadConfig *)

Known == DOMAIN doc \subseteq DOMAIN configKeys

\* A whole number is taken where a number is expected.
RightKind(k) ==
  \/ doc[k].kind = configKeys[k]
  \/ doc[k].kind = "int" /\ configKeys[k] = "float"

\* time.Duration(v.i) * time.Second, in Width bits.
Duration(n) ==
  LET bits == (n * Second) % (2 * Half)
  IN IF bits >= Half THEN bits - 2 * Half ELSE bits

Complete ==
  /\ Known
  /\ \A k \in DOMAIN configKeys : k \in DOMAIN doc \cup Optional
  /\ \A k \in DOMAIN doc \cap DOMAIN configKeys : RightKind(k)

Assigned ==
  [k \in DOMAIN doc \cap DOMAIN configKeys |->
     IF k = Key("agent", "timeout_seconds") THEN [doc[k] EXCEPT !.n = Duration(@)] ELSE doc[k]]

LoadConfig ==
  /\ outcome = "parsed"
  /\ outcome' = IF Complete THEN "assigned" ELSE "refused"
  /\ config' = IF Complete THEN Assigned ELSE config
  /\ UNCHANGED <<file, at, section, open, doc>>

-----------------------------------------------------------------------------
(* validate *)

\* A path is the sequence of its elements, "/" first when it is absolute.
Walk(done, e) ==
  IF e = "." THEN done
  ELSE IF e = ".." /\ done # <<>> /\ done[Len(done)] # ".." THEN Front(done)
  ELSE Append(done, e)

\* The path cleaned down to each of its elements.
Cleaned(path) ==
  LET upto[n \in 0..Len(path)] ==
        IF n = 0 THEN <<>> ELSE Walk(upto[n - 1], path[n])
  IN upto

Clean(path) == Cleaned(path)[Len(path)]

\* MUTANT of insideRepo: the path is looked at as it was written.
insideRepoAsWritten(path) ==
  /\ path # <<>> /\ path[1] # "/"
  /\ ~ (Len(path) > 1 /\ path[1] = "..")

\* The cleaned path must not begin with "../".
insideRepo(path) ==
  /\ path # <<>> /\ path[1] # "/"
  /\ ~ (Len(Clean(path)) > 1 /\ Clean(path)[1] = "..")

HasWord(words, text) == \E n \in DOMAIN text : text[n] \in words

\* What a string read with escapes holds: a newline or a tab.
Space == {Char("n"), Char("t")}

Shell == ShellMeta \cup Quote \cup {Escape} \cup Space

Probes(arr) ==
  /\ arr # <<>>
  /\ \A n \in DOMAIN arr : arr[n] # <<>> /\ ~ HasWord(Padded \cup Shell, arr[n])
  /\ \A n, m \in DOMAIN arr : arr[n] = arr[m] => n = m

Timeout(d) == d >= Second /\ d <= 3600 * Second

Valid ==
  LET at_(s, n) == config[Key(s, n)]
      criterion == at_("criterion", "command").arr
      branch == at_("review", "default_branch").arr
  IN /\ Timeout(at_("agent", "timeout_seconds").n)
     /\ at_("agent", "max_budget_usd_per_job").n > 0
     /\ at_("agent", "daily_job_cap").n >= 1
     /\ insideRepo(at_("agent", "counter_file").arr)
     /\ insideRepo(at_("review", "worktrees").arr)
     /\ branch # <<>> /\ ~ HasWord(NotInBranch \cup {Escape, Char("t")}, branch)
     /\ \E n \in DOMAIN criterion : criterion[n] \notin Space
     /\ ~ HasWord(RunsDoctor, criterion)
     /\ Probes(at_("probes", "allowed").arr)

Validate ==
  /\ outcome = "assigned"
  /\ outcome' = IF Valid THEN "loaded" ELSE "refused"
  /\ UNCHANGED <<file, at, section, open, doc, config>>

-----------------------------------------------------------------------------
Next ==
  \/ BlankLine \/ Header \/ Setting \/ Element \/ CloseArray
  \/ RefuseLine
  \/ EndOfFile
  \/ LoadConfig
  \/ Validate

Spec == Init /\ [][Next]_vars

-----------------------------------------------------------------------------
(* What the file says, read off its lines without the parser *)

Lines(what) == {i \in DOMAIN file : file[i].is = what}

Above(i) == {h \in Lines("header") : h < i}
SectionOf(i) ==
  IF Above(i) = {} THEN "" ELSE file[Max(Above(i))].name
KeyOf(i) == Key(SectionOf(i), file[i].name)
LineOf(k) == CHOOSE i \in Lines("key") : KeyOf(i) = k

Arrays == {i \in Lines("key") : file[i].value.form = "open"}
Ends(i, e) == i < e /\ \A j \in i + 1..e - 1 : file[j].is \in {"blank", "item"}
Elements(i) ==
  {j \in Lines("item") : i < j /\ \A e \in Lines("close") : i < e => j < e}

\* The texts that are read without being in the grammar: a basic string that closes
\* and opens again, like "a" "b".
Reopened(text) ==
  /\ text[1] = Basic
  /\ \E n \in 2..Len(text) - 1 :
       Inside(text)[n].quote = "" /\ \A m \in Comments(text) : n + 1 < m

\* A duration that does not fit its 64 bits.
TooLong(n) == n * Second \notin -Half..Half - 1

WrittenAt(i) == IF file[i].value.form = "text" THEN Meanings(file[i].value.text) ELSE {}

\* That v is what the lines from i on say; of a text that is Reopened they say nothing.
Says(i, v) ==
  /\ WrittenAt(i) \subseteq {v.arr}
  /\ \/ file[i].value.form \notin {"int", "float"}
     \/ KeyOf(i) # Key("agent", "timeout_seconds") /\ v.n = file[i].value.n
     \/ v.n = file[i].value.n * Second \/ TooLong(file[i].value.n)
  /\ i \in Arrays =>
       /\ Len(v.arr) = Cardinality(Elements(i))
       /\ \A j \in Elements(i) :
            WrittenAt(j) \subseteq {v.arr[Cardinality({g \in Elements(i) : g <= j})]}

\* The layout the grammar asks for.
LaidOut ==
  /\ Lines("junk") = {}
  /\ \A i \in Lines("key") : Above(i) # {} /\ file[i].value.form # "junk"
  /\ \A i, j \in Lines("key") : KeyOf(i) = KeyOf(j) => i = j
  /\ \A i \in Arrays : \E e \in Lines("close") : Ends(i, e)
  /\ \A e \in Lines("close") : \E i \in Arrays : Ends(i, e)
  /\ \A j \in Lines("item") : \E i \in Arrays : j \in Elements(i)

\* The strings the grammar has, or the ones it does not have and is read with.
Spelled(odd) ==
  \A i \in Lines("key") \cup Lines("item") :
    file[i].value.form = "text" =>
      \/ WrittenAt(i) # {}
      \/ odd /\ Reopened(file[i].value.text)

Keyed ==
  /\ {KeyOf(i) : i \in Lines("key")} \subseteq DOMAIN configKeys
  /\ DOMAIN configKeys \ Optional \subseteq {KeyOf(i) : i \in Lines("key")}
  /\ \A i \in Lines("key") :
       LET kind == CASE file[i].value.form = "text" -> "string"
                     [] file[i].value.form = "open" -> "array"
                     [] OTHER -> file[i].value.form
       IN \/ kind = configKeys[KeyOf(i)]
          \/ kind = "int" /\ configKeys[KeyOf(i)] = "float"

\* A path that stays inside: no beginning of it climbs further than it went down.
StaysInside(path) ==
  /\ path # <<>> /\ path[1] # "/"
  /\ \A n \in DOMAIN path :
       LET count(S) == Cardinality({m \in 1..n : path[m] \in S})
       IN 2 * count({".."}) + count({"."}) <= n

\* The one path outside that is taken: the parent of the repository itself.
TheParent(path) == Clean(path) = <<"..">>

\* The seconds a job may last.
Hour == 1..3600

\* The values an owner may give, odd for the two the checks let through besides.
Bounded(odd) ==
  LET number(s, n) == file[LineOf(Key(s, n))].value.n
      \* the texts that are not Reopened
      texts(s, n) == WrittenAt(LineOf(Key(s, n)))
      probes == Elements(LineOf(Key("probes", "allowed")))
  IN /\ \/ number("agent", "timeout_seconds") \in Hour
        \/ odd /\ TooLong(number("agent", "timeout_seconds"))
     /\ number("agent", "max_budget_usd_per_job") > 0
     /\ number("agent", "daily_job_cap") > 0
     /\ \A path \in texts("agent", "counter_file") \cup texts("review", "worktrees") :
          \/ StaysInside(path)
          \/ odd /\ TheParent(path)
     /\ \A t \in texts("review", "default_branch") :
          t # <<>> /\ ~ HasWord(NotInBranch \cup {Escape, Char("t")}, t)
     /\ \A t \in texts("criterion", "command") :
          ~ (\A n \in DOMAIN t : t[n] \in Space) /\ ~ HasWord(RunsDoctor, t)
     /\ probes # {}
     /\ \A j \in probes : \A t \in WrittenAt(j) :
          /\ t # <<>> /\ ~ HasWord(Padded \cup Shell, t)
          /\ \A g \in probes \ {j} : t \notin WrittenAt(g)

Sound(odd) == LaidOut /\ Spelled(odd) /\ Keyed /\ Bounded(odd)

-----------------------------------------------------------------------------
TypeOK ==
  /\ at \in 1..Len(file) + 1
  /\ \A k \in DOMAIN doc : doc[k].line \in Lines("key") /\ doc[k].line < at
  /\ DOMAIN config \subseteq DOMAIN doc \cap DOMAIN configKeys
  /\ outcome \in {"reading", "parsed", "assigned", "loaded", "refused"}
  /\ config # <<>> => outcome \notin {"reading", "parsed"}

\* No line of a file that loads is passed over: every key it holds is in the
\* configuration, from that line, and every element is in the array it stands in
\* (toml.go parseTOML, array; config.go loadConfig, which walks its table both ways).
EveryLineCounts ==
  outcome = "loaded" =>
    /\ \A i \in Lines("key") : KeyOf(i) \in DOMAIN config /\ config[KeyOf(i)].line = i
    /\ \A j \in Lines("item") : \E i \in Arrays : j \in Elements(i)

\* And it says what was written: every text what the grammar makes of it, every
\* array its elements in order, every number itself, and nothing besides (toml.go:
\* "a configuration file that silently means something other than what it looks
\* like is worse than one that refuses to load").
AsWritten ==
  outcome = "loaded" =>
    /\ \A i \in Lines("key") : Says(i, config[KeyOf(i)])
    /\ Cardinality(DOMAIN config) = Cardinality(Lines("key"))

\* What loads is laid out, spelled, keyed and bounded as the owner was told, but for
\* three readings that are let through: a string that reopens, a timeout that
\* overflows, and the parent directory as a path.
OnlySoundIsLoaded == outcome = "loaded" => Sound(TRUE)

\* And nothing that is sound is refused: a refusal is always due.
RefusalsAreDue == outcome = "refused" => ~ Sound(FALSE)
=============================================================================
