---------------------------- MODULE MCAgentConfig ----------------------------
(* Every file one edit away from the template of docs/agent.md, with or    *)
(* without its [notify], and the template with every short text as its      *)
(* criterion: quoted or not, followed by a comment or not.                  *)
EXTENDS AgentConfig

CONSTANT MaxText   \* the length of those texts

line(is, name, value) == [is |-> is, name |-> name, value |-> value]
None == [form |-> "none"]
blank == line("blank", "", None)
junk == line("junk", "", None)
close == line("close", "", None)
header(name) == line("header", name, None)
raw(text) == [form |-> "text", text |-> text]
quoted(words) == raw(<<Basic>> \o words \o <<Basic>>)
number(n) == [form |-> "int", n |-> n]
float(n) == [form |-> "float", n |-> n]
key(name, value) == line("key", name, value)
item(words) == line("item", "", quoted(words))

Template == <<
  header("agent"),
  key("model_triage", quoted(<<"haiku">>)),
  key("model_review", quoted(<<"opus">>)),
  key("model_work", quoted(<<"opus">>)),
  key("max_budget_usd_per_job", float(3)),
  key("daily_job_cap", number(10)),
  key("counter_file", quoted(<<"jalon", "today">>)),
  key("timeout_seconds", number(900)),
  header("review"),
  key("default_branch", quoted(<<"main">>)),
  key("worktrees", quoted(<<"jalon", "worktrees">>)),
  header("criterion"),
  key("command", raw(<<Literal, "make", Literal, Hash, "why">>)),
  header("probes"),
  key("allowed", [form |-> "open"]),
  item(<<"jalon digest">>),
  item(<<"git log">>),
  close,
  header("notify"),
  key("command", quoted(<<"ntfy", Hash, "send">>))>>

Paths == {<<>>, <<"/", "tmp">>, <<"..">>, <<"..", "up">>, <<"a", "..", "..", "up">>,
          <<"a", ".", "..", "b">>, <<".">>, <<"..", ".">>}

Edits ==
  {Template[n] : n \in DOMAIN Template}
  \cup {blank, junk, header("other"),
        key("other", number(1)), key("max_budget_usd_per_job", number(3)),
        key("max_budget_usd_per_job", number(0)), key("daily_job_cap", number(0)),
        key("daily_job_cap", float(3)), key("model_work", number(1)),
        key("model_work", quoted(<<>>)), key("model_work", [form |-> "junk"]),
        key("command", quoted(<<Escape, "t">>)), key("command", quoted(<<"jalon doctor">>)),
        item(<<>>), item(<<" git log">>), item(<<"ls | sh">>), item(<<Escape, Basic>>),
        item(<<"ls", Basic, "pwd", Basic, "ls">>), item(<<Escape, "a">>)}
  \cup {key("timeout_seconds", number(n)) : n \in {-1, 0, 1, 3600, 3601, 16779}}
  \cup {key(name, quoted(p)) : name \in {"counter_file", "worktrees"}, p \in Paths}
  \cup {key("default_branch", quoted(b)) : b \in {<<>>, <<"ma in">>, <<Escape, Escape>>}}

\* One edit of a template.
Put(t, n, l) == [t EXCEPT ![n] = l]
Insert(t, n, l) == SubSeq(t, 1, n) \o <<l>> \o SubSeq(t, n + 1, Len(t))
Drop(t, n) == SubSeq(t, 1, n - 1) \o SubSeq(t, n + 1, Len(t))
Exchange(t, n, m) == [t EXCEPT ![n] = t[m], ![m] = t[n]]

OneEdit(t) ==
  {t} \cup {Drop(t, n) : n \in DOMAIN t} \cup {Exchange(t, n, m) : n, m \in DOMAIN t}
  \cup {Put(t, n, l) : n \in DOMAIN t, l \in Edits}
  \cup {Insert(t, n, l) : n \in DOMAIN t, l \in Edits}

Marks == {Basic, Literal, Escape, Hash, "n", "make"}
CriterionTexts ==
  LET texts == BoundedSeq(Marks, MaxText)
  IN (texts \ {<<>>})
     \cup {<<q>> \o t \o <<q>> \o c : q \in Quote, t \in texts, c \in {<<>>, <<Hash, Basic>>}}

MCFiles ==
  OneEdit(Template) \cup OneEdit(SubSeq(Template, 1, 18))
  \cup {Put(Template, 13, key("command", raw(t))) : t \in CriterionTexts}
=============================================================================
