-------------------------------- MODULE TaskPage --------------------------------
(***************************************************************************)
(* The page jalon render makes of a task's body (render.go mdToHTML), which *)
(* reads the lines the verbs of TaskFile write.  A page is the tags it     *)
(* opens and closes and the lines it shows, by their number; what a line   *)
(* looks like inside is left out.                                          *)
(***************************************************************************)
EXTENDS TaskFile, SequencesExt

Opens(tag) == [is |-> "open", tag |-> tag, line |-> 0]
Closes(tag) == [is |-> "close", tag |-> tag, line |-> 0]
Shows(i) == [is |-> "line", tag |-> "", line |-> i]
Block(tag, shown) == <<Opens(tag)>> \o shown \o <<Closes(tag)>>

Top == [out |-> <<>>, para |-> <<>>, inList |-> FALSE, inCode |-> FALSE]
Put(s, tokens) == [s EXCEPT !.out = @ \o tokens]

flushPara(s) ==
  IF s.para = <<>> THEN s ELSE [Put(s, Block("p", s.para)) EXCEPT !.para = <<>>]
closeList(s) ==
  IF s.inList THEN [Put(s, <<Closes("ul")>>) EXCEPT !.inList = FALSE] ELSE s

\* MUTANT of ListItem: the paragraph above is left for later.
ListItemFirst(s, i) ==
  [Put(s, (IF s.inList THEN <<>> ELSE <<Opens("ul")>>) \o Block("li", <<Shows(i)>>))
     EXCEPT !.inList = TRUE]

ListItem(s, i) ==
  LET t == flushPara(s)
  IN [Put(t, (IF t.inList THEN <<>> ELSE <<Opens("ul")>>) \o Block("li", <<Shows(i)>>))
        EXCEPT !.inList = TRUE]

\* Of code every line is shown as it is, up to a fence.
CodeLine(s, line, i) ==
  IF line.is = "fence" THEN [Put(s, <<Closes("pre")>>) EXCEPT !.inCode = FALSE]
  ELSE Put(s, <<Shows(i)>>)

TextLine(s, line, i) ==
  LET done == closeList(flushPara(s))
  IN CASE line.is = "fence" -> [Put(done, <<Opens("pre")>>) EXCEPT !.inCode = TRUE]
       [] line.is = "blank" -> done
       [] line.is \in {"title", "section"} -> Put(done, Block("h", <<Shows(i)>>))
       [] IsEntry(line) -> ListItem(s, i)
       [] OTHER -> [closeList(s) EXCEPT !.para = Append(@, Shows(i))]

NextLine(s, line, i) == IF s.inCode THEN CodeLine(s, line, i) ELSE TextLine(s, line, i)

AfterLine(b) ==
  LET after[n \in 0..Len(b)] == IF n = 0 THEN Top ELSE NextLine(after[n - 1], b[n], n)
  IN after

AtTheEnd(s) ==
  closeList(flushPara(IF s.inCode THEN Put(s, <<Closes("pre")>>) ELSE s))

mdToHTML(b) == AtTheEnd(AfterLine(b)[Len(b)]).out

-----------------------------------------------------------------------------
(* A page read back as a browser does, without knowing the lines *)

\* The tags open after a token; <<"broken">> once a tag closes that was not the last
\* one opened, or a block opens in another.
Now(open, token) ==
  CASE token.is = "line" -> open
    [] token.is = "open" /\ open = (IF token.tag = "li" THEN <<"ul">> ELSE <<>>) ->
         Append(open, token.tag)
    [] token.is = "close" /\ open # <<>> /\ Last(open) = token.tag -> Front(open)
    [] OTHER -> <<"broken">>

Nesting(page) ==
  LET open[n \in 0..Len(page)] == IF n = 0 THEN <<>> ELSE Now(open[n - 1], page[n])
  IN open

\* Where the verbs see line i.
Place(b, i) ==
  CASE InCode(b, i) -> <<"pre">>
    [] ~ InCode(b, i) /\ b[i].is \in {"title", "section"} -> <<"h">>
    [] ~ InCode(b, i) /\ IsEntry(b[i]) -> <<"ul", "li">>
    [] OTHER -> <<"p">>

\* Every line that holds something is on the page, once, in the file's order, and
\* stands where the verbs take it to stand.
ShowsTheBody(b) ==
  LET page == mdToHTML(b)
      open == Nesting(page)
      shown == {n \in DOMAIN page : page[n].is = "line"}
      holds == {i \in DOMAIN b : b[i].is # "fence" /\ (b[i].is # "blank" \/ InCode(b, i))}
  IN /\ open[Len(page)] = <<>>
     /\ {page[n].line : n \in shown} = holds
     /\ Cardinality(shown) = Cardinality(holds)
     /\ \A n \in shown : open[n] = Place(b, page[n].line)
     /\ \A n, m \in shown : n < m => page[n].line < page[m].line
=============================================================================
