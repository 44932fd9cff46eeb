-------------------------------- MODULE TaskFile --------------------------------
(***************************************************************************)
(* The body of a task file and what the verbs do to it (task.go).  A body  *)
(* is its lines; a line is its kind and the one thing about it that counts. *)
(***************************************************************************)
EXTENDS Naturals, FiniteSets, Sequences

Context == 1
Decisions == 2
Log == 3
Name == {Context, Decisions, Log}

Kind == {"title", "section", "entry", "marker", "prose", "blank", "fence"}
Line == [is : Kind, of : Nat]

Section(name) == [is |-> "section", of |-> name]
Entry(n) == [is |-> "entry", of |-> n]
Marker(n) == [is |-> "marker", of |-> n]
Plain(kind) == [is |-> kind, of |-> 0]
Blank == Plain("blank")

\* The marker is a list item like the entries.
IsEntry(line) == line.is \in {"entry", "marker"}

\* An entry wrapped by hand goes on until a blank line, a heading or an entry.
Wraps(line) == line.is \in {"prose", "fence"}

\* taskTemplate
Template ==
  <<Blank, Plain("title"), Blank, Section(Context), Blank, Section(Decisions),
    Blank, Section(Log), Blank>>

-----------------------------------------------------------------------------
(* sectionLines *)

Earliest(S) == CHOOSE i \in S : \A j \in S : i <= j
Latest(S) == CHOOSE i \in S : \A j \in S : j <= i

\* Line i is a fence or between two.
InCode(b, i) ==
  b[i].is = "fence" \/ Cardinality({j \in 1..(i - 1) : b[j].is = "fence"}) % 2 = 1

Heads(b, name) == {i \in DOMAIN b : b[i] = Section(name) /\ ~ InCode(b, i)}
HasSection(b, name) == Heads(b, name) # {}
HeadOf(b, name) == Earliest(Heads(b, name))

\* The line just past the section.
EndOf(b, name) ==
  Earliest({Len(b) + 1} \cup
           {i \in DOMAIN b : /\ i > HeadOf(b, name)
                             /\ b[i].is \in {"section", "title"}
                             /\ ~ InCode(b, i)})

Inside(b, name) == (HeadOf(b, name) + 1)..(EndOf(b, name) - 1)
Content(b, name) == SubSeq(b, HeadOf(b, name) + 1, EndOf(b, name) - 1)
Entries(b, name) == SelectSeq(Content(b, name), IsEntry)

-----------------------------------------------------------------------------
(* The three rewrites *)

SetSection(b, name, content) ==
  SubSeq(b, 1, HeadOf(b, name)) \o <<Blank>> \o content \o <<Blank>>
    \o SubSeq(b, EndOf(b, name), Len(b))

\* MUTANT of AppendEntry: after the last line of the file.
AppendEntryAtTheEnd(b, name, entry) == b \o <<entry>>

AppendEntry(b, name, entry) ==
  LET head == HeadOf(b, name)
      last == Latest({head} \cup {i \in Inside(b, name) : b[i].is # "blank"})
  IN  SubSeq(b, 1, last) \o (IF last = head THEN <<Blank>> ELSE <<>>)
        \o <<entry>> \o SubSeq(b, last + 1, Len(b))

\* The entries older than the last keep.
Older(b, name, keep) ==
  LET all == {i \in Inside(b, name) : IsEntry(b[i])} IN
  {i \in all : Cardinality({j \in all : i <= j}) > keep}

\* MUTANT of Dropped: a wrapped line takes the entry after it along.
DroppedWithTheNext(b, name, keep) ==
  LET old == Older(b, name, keep) IN
  old \cup {j \in Inside(b, name) : j - 1 \in old /\ b[j].is # "blank"}

\* They go with the lines they are wrapped over.
Dropped(b, name, keep) ==
  LET old == Older(b, name, keep) IN
  old \cup {j \in Inside(b, name) :
              \E i \in old : i < j /\ \A k \in (i + 1)..j : Wraps(b[k])}

\* The members of a set of numbers, from the least to the greatest.
Ascending(K) ==
  LET place == [i \in K |-> Cardinality({j \in K : j <= i})]
  IN  [k \in 1..Cardinality(K) |-> CHOOSE i \in K : place[i] = k]

\* One marker where the first of them was; it counts lines.
TruncateSection(b, name, keep) ==
  LET drop == Dropped(b, name, keep)
      first == Earliest(drop)
      kept == Ascending(DOMAIN b \ (drop \ {first}))
  IN  IF drop = {} THEN b
      ELSE [k \in DOMAIN kept |->
              IF kept[k] = first THEN Marker(Cardinality(drop)) ELSE b[kept[k]]]
=============================================================================
