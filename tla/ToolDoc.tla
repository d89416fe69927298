------------------------------- MODULE ToolDoc -------------------------------
(***************************************************************************)
(* The page of a server's tools and the test that keeps it current:        *)
(* RenderDoc and RenderServerDoc over the server of ToolDesc, and          *)
(* tooldesctest's AssertDoc and AssertServerDoc, which write the page to a *)
(* file, or compare the file with it.                                      *)
(*                                                                         *)
(* A page is a sequence of lines, an indented schema counting as one.      *)
(***************************************************************************)
EXTENDS ToolDesc

CONSTANTS
    Header,      \* the runes of the caller's header
    DocTools,    \* bounds: tools on a server whose page is asserted,
    DocSchemas,  \* their schemas,
    MaxAsserts   \* and assertions in a behaviour

ASSUME HeaderAssumption == Header \in Texts

VARIABLES
    file,     \* the file: [is, lines]
    verdict,  \* what the last assertion said: [says, at, listed, page]
    wrote,    \* what became of its write: "nothing" (there was none), "page", "failed"
    asserts   \* assertions so far

docVars == <<file, verdict, wrote, asserts>>

Text(lines) == [is |-> "text", lines |-> lines]
Missing == [is |-> "missing", lines |-> <<>>]
Unreadable == [is |-> "unreadable", lines |-> <<>>]   \* a directory, say

Verdict(says, at, listed, page) == [says |-> says, at |-> at, listed |-> listed, page |-> page]
NoVerdict == Verdict("nothing", 0, <<>>, <<>>)

Backtick == 96

-----------------------------------------------------------------------------
(* Plausible bugs of the definitions below.                                *)

\* A fence as long as markdown's own, whatever is inside.
FenceOfThree(s) == 3

-----------------------------------------------------------------------------
(* The page.                                                               *)

\* strings.Split(s, "\n"), each line a text of its own.
Lines(s) ==
    LET ends == {i \in 1..Len(s) : s[i] = Newline} \cup {Len(s) + 1}
        End(k) == IF k = 0 THEN 0
                  ELSE CHOOSE i \in ends : Cardinality({j \in ends : j < i}) = k - 1
    IN  [k \in 1..Cardinality(ends) |-> [text |-> SubSeq(s, End(k - 1) + 1, End(k) - 1)]]

Blank == [text |-> <<>>]
TableHead == <<Blank, [text |-> <<"| Tool | Kind |">>], [text |-> <<"|---|---|">>]>>

TrimRight(s) ==
    LET last == SelectLastInSeq(s, LAMBDA r : r # Newline) IN SubSeq(s, 1, last)

kind(hints) ==
    CASE hints.readOnly = "true" -> "read-only"
      [] hints.readOnly # "true" /\ hints.destructive # "false" -> "write, destructive"
      [] OTHER -> "write"

\* The longest run of backticks in s.
Longest(s) ==
    LET runs == {i \in (1..Len(s)) \X (1..Len(s)) : \A j \in i[1]..i[2] : s[j] = Backtick}
    IN  Max({0} \cup {i[2] - i[1] + 1 : i \in runs})

FenceLength(s) == Max({3, Longest(s) + 1})

fenced(s) ==
    LET n == FenceLength(s)
    IN  <<[open |-> n]>> \o Lines(s) \o <<[text |-> [i \in 1..n |-> Backtick]]>>

Row(t) == [row |-> t.name, kind |-> kind(t.hints)]
Section(t) ==
    <<Blank, [tool |-> t.name], Blank>> \o fenced(t.description) \o <<Blank, [json |-> t.schema]>>

RenderFails(listed) == \E i \in 1..Len(listed) : ~Indents(listed[i].schema)

RenderDoc(listed, header) ==
    LET sorted == sortedByName(listed)
    IN  Lines(TrimRight(header)) \o TableHead
        \o [i \in 1..Len(sorted) |-> Row(sorted[i])]
        \o FlattenSeq([i \in 1..Len(sorted) |-> Section(sorted[i])])
        \o <<Blank>>

-----------------------------------------------------------------------------
(* The assertion.                                                          *)

firstDiff(a, b) ==
    LET differ == {i \in 1..Len(a) : i <= Len(b) /\ a[i] # b[i]}
    IN  Min(differ \cup {Min({Len(a), Len(b)}) + 1})

\* What a write may leave: the page, the file as it was, or, since it is
\* truncated first, the start of the page.
WriteFile(page) ==
    {[failed |-> TRUE, file |-> file]}
    \cup IF file = Unreadable THEN {}
         ELSE {[failed |-> FALSE, file |-> Text(page)], [failed |-> TRUE, file |-> Text(<<Blank>>)],
               [failed |-> TRUE, file |-> Text(Front(page))]}

Compared(f, listed, page) ==
    CASE f.is # "text" -> Verdict(f.is, 0, listed, page)
      [] f.is = "text" /\ f.lines = page -> Verdict("current", 0, listed, page)
      [] OTHER -> Verdict("stale", firstDiff(f.lines, page), listed, page)

RenderError(listed) ==
    /\ RenderFails(listed)
    /\ verdict' = Verdict("unrendered", 0, listed, <<>>)
    /\ wrote' = "nothing"
    /\ UNCHANGED file

Compare(listed, page) ==
    /\ ~RenderFails(listed)
    /\ verdict' = Compared(file, listed, page)
    /\ wrote' = "nothing"
    /\ UNCHANGED file

Wrote(w) == IF w.failed THEN "failed" ELSE "page"

\* A plausible bug of the next definition: the write's error is dropped and
\* the file compared all the same.
UpdateUnchecked(listed, page) ==
    /\ ~RenderFails(listed)
    /\ \E w \in WriteFile(page) :
          /\ file' = w.file /\ wrote' = Wrote(w)
          /\ verdict' = Compared(w.file, listed, page)

\* With TOOLS_DOC_UPDATE set.
Update(listed, page) ==
    /\ ~RenderFails(listed)
    /\ \E w \in WriteFile(page) :
          /\ file' = w.file /\ wrote' = Wrote(w)
          /\ verdict' = IF w.failed THEN Verdict("unwritten", 0, listed, page)
                        ELSE Compared(w.file, listed, page)

Bounded(S) == Cardinality(S) <= DocTools /\ \A t \in S : t.schema \in DocSchemas

assertDoc(listed) ==
    /\ phase = "building" /\ Bounded(tools) /\ asserts < MaxAsserts
    /\ asserts' = asserts + 1
    /\ \/ RenderError(listed)
       \/ Compare(listed, RenderDoc(listed, Header))
       \/ Update(listed, RenderDoc(listed, Header))
    /\ UNCHANGED vars

AssertServerDoc == \E listed \in SetToSeqs(tools) : assertDoc(listed)

\* The caller's own list: the server's one tool and one more, a session's,
\* that goes by the same name.
AssertDoc ==
    \E t \in tools, raw \in PlainTools :
        LET session == [name |-> t.name, description |-> raw.description, schema |-> raw.schema,
                        hints |-> raw.hints, summary |-> NoSummary]
        IN  /\ tools = {t} /\ session # t
            /\ asserts = 0 \/ Range(verdict.listed) = {t, session}   \* bound: the same two again
            /\ assertDoc(<<t, session>>) \/ assertDoc(<<session, t>>)

\* Bound: what only a page shows is not brought before Check.
NothingForThePage(S) == \A t \in S : t.hints = NoHints /\ Backtick \notin Range(t.description)

\* Bound: a behaviour checks the budget or asserts the page, and changes one
\* tool at most after a page was found current.
Building ==
    /\ asserts = 0 \/ verdict.says = "current"
    /\ Next
    /\ \/ phase' = "building" /\ Bounded(tools')
       \/ asserts = 0 /\ file = Missing /\ NothingForThePage(tools')
    /\ verdict' = NoVerdict /\ wrote' = "nothing"
    /\ UNCHANGED <<file, asserts>>

DocInit ==
    /\ Init
    /\ file \in {Missing, Unreadable, Text(Lines(Header))}
    /\ verdict = NoVerdict /\ wrote = "nothing" /\ asserts = 0

DocNext == Building \/ AssertServerDoc \/ AssertDoc

DocSpec == DocInit /\ [][DocNext]_<<vars, docVars>>

-----------------------------------------------------------------------------
(* Properties.                                                             *)

\* A reader of the page: a text block ends at the first line that is nothing
\* but backticks, as many as opened it or more.
Closes(line, n) ==
    /\ DOMAIN line = {"text"}
    /\ Len(line.text) >= n
    /\ \A i \in 1..Len(line.text) : line.text[i] = Backtick

Unreadably == <<[name |-> 0, description |-> <<>>, schema |-> 0]>>

\* What is read from each line of the page on.
ReadSections(p) ==
    LET read[i \in 1..Len(p)] ==
          IF i = Len(p) /\ p[i] = Blank THEN <<>>
          ELSE IF Len(p) < i + 6 \/ DOMAIN p[i + 1] # {"tool"} \/ DOMAIN p[i + 3] # {"open"} THEN Unreadably
          ELSE LET closing == {j \in i + 4..Len(p) - 3 : Closes(p[j], p[i + 3].open)}
                   c == Min(closing)
               IN  IF closing = {} \/ DOMAIN p[c + 2] # {"json"} THEN Unreadably
                   ELSE <<[name |-> p[i + 1].tool, description |-> SubSeq(p, i + 4, c - 1), schema |-> p[c + 2].json]>>
                        \o read[c + 3]
    IN  read[1]

Listed(t) == [name |-> t.name, description |-> Lines(t.description), schema |-> t.schema]
Tie(t, u) == t.name = u.name /\ t.description = u.description

\* A reader of the page finds every tool listed, with its description and
\* schema to the letter, whatever backticks and newlines are in them, and no
\* other; in one order whatever order they were listed in, but for tools of
\* one name and one description (render.go:14-23, 57-58, 82-83).
PageReadsBack ==
    verdict.page # <<>> =>
        LET listed == verdict.listed
            start == Len(Lines(TrimRight(Header))) + Len(TableHead) + Len(listed)
            read == ReadSections(SubSeq(verdict.page, start + 1, Len(verdict.page)))
        IN  /\ Len(read) = Len(listed)
            /\ \E order \in [1..Len(listed) -> 1..Len(listed)] :
                 /\ Range(order) = 1..Len(listed)
                 /\ \A i \in 1..Len(listed) : read[i] = Listed(listed[order[i]])
                 /\ \A i, j \in 1..Len(listed) :
                      LET t == listed[order[i]]  u == listed[order[j]]
                      IN  i < j => /\ t.name <= u.name
                                   /\ t.name = u.name => ~TextLess(u.description, t.description)
                                   /\ Tie(t, u) => order[i] < order[j]
            /\ \A i \in 1..Len(listed) :
                 LET row == verdict.page[start - Len(listed) + i]
                 IN  \E t \in Range(listed) :
                       /\ row.row = t.name /\ t.name = read[i].name
                       /\ (row.kind = "read-only") = (t.hints.readOnly = "true")
                       /\ row.kind = "write" => t.hints.destructive = "false"

\* An assertion passes exactly when its page was rendered, the file holds it
\* and no write of it failed; a write that failed always fails it, also when
\* the file held the page all along.  A stale file is reported at the first
\* line where the two part, also when one of them just ends
\* (tooldesctest.go:47-71).
AssertIsExact ==
    verdict # NoVerdict =>
        /\ verdict.says = "current" <=>
             /\ ~RenderFails(verdict.listed) /\ wrote # "failed"
             /\ file.is = "text" /\ file.lines = verdict.page
        /\ verdict.says = "unwritten" <=> wrote = "failed"
        /\ verdict.says = "stale" =>
             LET n == verdict.at - 1
             IN  /\ n <= Len(file.lines) /\ n <= Len(verdict.page)
                 /\ SubSeq(file.lines, 1, n) = SubSeq(verdict.page, 1, n)
                 /\ \/ n = Len(file.lines) \/ n = Len(verdict.page)
                    \/ file.lines[verdict.at] # verdict.page[verdict.at]

\* The same tools, none of them twice.
Relisted(one, other) ==
    /\ Range(one) = Range(other)
    /\ \A i, j \in 1..Len(one) : Tie(one[i], one[j]) => i = j
    /\ \A i, j \in 1..Len(other) : Tie(other[i], other[j]) => i = j

\* A page found current stays current: the next assertion of the same tools,
\* in whatever order a map or a caller lists them this time, passes unless it
\* is told to write and cannot (render.go:57-68).
PageIsStable ==
    [][verdict.says = "current" /\ asserts' # asserts /\ Relisted(verdict.listed, verdict'.listed) =>
         verdict'.says = IF wrote' = "failed" THEN "unwritten" ELSE "current"]_<<vars, docVars>>

-----------------------------------------------------------------------------
(* What the file may be, for AssertIsExact, and the page, for              *)
(* PageReadsBack.                                                          *)
FileInv ==
    /\ file.is \in {"text", "missing", "unreadable"}
    /\ file.lines \in Seq(Range(file.lines))
    /\ file.is # "text" => file.lines = <<>>

PageInv ==
    verdict.page # <<>> =>
        /\ verdict.listed \in Seq(Range(verdict.listed))
        /\ \A t \in Range(verdict.listed) : t.name \in Int /\ t.description \in Texts
        /\ verdict.page = RenderDoc(verdict.listed, Header)
=============================================================================
