------------------------------- MODULE ToolDesc -------------------------------
(***************************************************************************)
(* tooldesc: tools are put on a server, some with Describe and some with a *)
(* description of their own, and CheckServer holds them to a Budget.       *)
(*                                                                         *)
(* A text is a sequence of runes, a rune its code point.                   *)
(***************************************************************************)
EXTENDS ToolSchema, FiniteSets

CONSTANTS
    Names,        \* the names of tools, numbers for their order
    Summaries,    \* the texts given to Describe
    Details,
    RawTools,     \* tools made without Describe: [description, schema, hints]
    Budgets,      \* the budgets of the test: [description, param, prefix]
    SummaryMax,
    MaxTools      \* bound: tools on the server

Texts == Seq(Int)

ASSUME NamesAssumption == Names \subseteq Int
ASSUME TextsAssumption ==
    /\ Summaries \subseteq Texts /\ Details \subseteq Texts
    /\ \A raw \in RawTools : raw.description \in Texts
ASSUME RawToolsAssumption == \A raw \in RawTools : raw.schema \in RawSchemas
ASSUME BudgetsAssumption ==
    /\ \A b \in Budgets : b.description \in Int /\ b.param \in Int /\ b.prefix \in Int
    /\ SummaryMax \in Nat /\ MaxTools \in Nat

VARIABLES
    tools,      \* tools on the server: [name, description, schema, hints, summary]
    phase,      \* "building", "panicked", "checking", "done"
    budget,
    todo,       \* Check's sorted copy of the tools, what is left of it
    prefixes,   \* Check's map: the name of the tool by its opening
    errs        \* Check's errors: [tool, kind, at], at the path of a parameter
                \* or the other tool's name

vars == <<tools, phase, budget, todo, prefixes, errs>>

Newline == 10
Blanks == {Newline, 32}
Lower(r) == IF r \in 65..90 THEN r + 32 ELSE r

\* A tool that was not made with Describe has no summary.
NoSummary == <<-1>>

\* The annotations the page shows; a hint is "unset", "true" or "false".
Hints(readOnly, destructive) == [readOnly |-> readOnly, destructive |-> destructive]
NoHints == Hints("unset", "unset")

NoBudget == [description |-> 0, param |-> 0, prefix |-> 0]

TypeOK ==
    /\ \A t \in tools : t.name \in Names /\ \A u \in tools : u.name = t.name => u = t
    /\ Cardinality(tools) <= MaxTools
    /\ phase \in {"building", "panicked", "checking", "done"}
    /\ budget \in Budgets \cup {NoBudget}
    /\ \A i \in 1..Len(todo) : todo[i] \in tools
    /\ \A p \in DOMAIN prefixes :
         /\ p # <<>> /\ Len(p) <= budget.prefix
         /\ \E t \in tools : prefixes[p] = t.name
    /\ \A e \in Range(errs) : e.kind \in {"summary", "description", "prefix", "param", "schema"}

Init ==
    /\ tools = {} /\ phase = "building"
    /\ budget = NoBudget
    /\ todo = <<>> /\ prefixes = <<>> /\ errs = <<>>

-----------------------------------------------------------------------------
(* Plausible bugs of the definitions below.                                *)

\* Check walks the tools in the order of the server's map.
CheckUnsorted(b) ==
    /\ phase = "building" /\ phase' = "checking"
    /\ budget' = b /\ todo' \in SetToSeqs(tools)
    /\ UNCHANGED <<tools, prefixes, errs>>

\* Description joins the summary as it came.
DescriptionUntrimmed(summary, details) ==
    summary \o (IF details = <<>> THEN <<>> ELSE <<Newline, Newline>> \o details)

-----------------------------------------------------------------------------
(* Texts.                                                                  *)

Inner(s) == {i \in 1..Len(s) : s[i] \notin Blanks}

TrimSpace(s) ==
    IF Inner(s) = {} THEN <<>>
    ELSE SubSeq(s, CHOOSE i \in Inner(s) : \A j \in Inner(s) : i <= j,
                   CHOOSE i \in Inner(s) : \A j \in Inner(s) : i >= j)

\* strings.Cut at the first newline.
FirstLine(s) == LET i == SelectInSeq(s, LAMBDA r : r = Newline)
                IN  IF i = 0 THEN s ELSE SubSeq(s, 1, i - 1)

TextLess(s, t) ==
    \E k \in 1..Len(t) :
        /\ k - 1 <= Len(s) /\ SubSeq(s, 1, k - 1) = SubSeq(t, 1, k - 1)
        /\ Len(s) < k \/ s[k] < t[k]

\* The summary as trimmedSummary returns it is refused.
Refused(summary) ==
    LET s == TrimSpace(summary)
    IN  s = <<>> \/ Newline \in Range(s) \/ Len(s) > SummaryMax

Description(summary, details) ==
    LET d == TrimSpace(details)
    IN  TrimSpace(summary) \o (IF d = <<>> THEN <<>> ELSE <<Newline, Newline>> \o d)

\* A plausible bug of the next definition: the loop takes a rune before it
\* looks at the count.
prefixOneMore(d, n) ==
    LET s == TrimSpace(d)
        k == IF n < Len(s) THEN n + 1 ELSE Len(s)
    IN  IF n <= 0 THEN <<>> ELSE [i \in 1..k |-> Lower(s[i])]

\* The first n runes that two tools may not share; <<>> stands for none.
prefix(d, n) ==
    LET s == TrimSpace(d)
        k == IF n < Len(s) THEN n ELSE Len(s)
    IN  IF n <= 0 THEN <<>> ELSE [i \in 1..k |-> Lower(s[i])]

-----------------------------------------------------------------------------
(* Building the server.                                                    *)

\* Bound: a tool with parameters is alone on its server.
Plain(schema) == schema = NoParams \/ ~Decodes(schema)
PlainTools == {raw \in RawTools : Plain(raw.schema)}
Addable == IF tools = {} THEN RawTools ELSE PlainTools

AddTool(tool) ==
    /\ phase = "building"
    /\ \A t \in tools : Plain(t.schema)   \* bound: see Addable
    /\ tools' = {t \in tools : t.name # tool.name} \cup {tool}
    /\ Cardinality(tools') <= MaxTools

AddRawTool(name, raw) ==
    /\ AddTool([name |-> name, description |-> raw.description, schema |-> raw.schema,
                hints |-> raw.hints, summary |-> NoSummary])
    /\ UNCHANGED <<phase, budget, todo, prefixes, errs>>

\* Describe panics on a summary that does not fit, as the tool is built.
Describe(name, summary, details) ==
    /\ IF Refused(summary)
       THEN /\ phase = "building" /\ phase' = "panicked"
            /\ UNCHANGED tools
       ELSE /\ AddTool([name |-> name, description |-> Description(summary, details),
                        schema |-> NoParams, hints |-> NoHints, summary |-> summary])
            /\ UNCHANGED phase
    /\ UNCHANGED <<budget, todo, prefixes, errs>>

-----------------------------------------------------------------------------
(* Check.                                                                  *)

Before(t, u) ==
    \/ t.name < u.name
    \/ t.name = u.name /\ TextLess(t.description, u.description)

\* A plausible bug of the next definition: a sort by name alone.
sortedByNameOnly(listed) ==
    LET places == 1..Len(listed)
        First(i, j) == \/ listed[i].name < listed[j].name
                       \/ listed[i].name = listed[j].name /\ i < j
        At(k) == CHOOSE i \in places : Cardinality({j \in places : First(j, i)}) = k - 1
    IN  [k \in places |-> listed[At(k)]]

\* A stable sort: tools that tie keep the order they were listed in.
sortedByName(listed) ==
    LET places == 1..Len(listed)
        First(i, j) == \/ Before(listed[i], listed[j])
                       \/ ~Before(listed[j], listed[i]) /\ i < j
        At(k) == CHOOSE i \in places : Cardinality({j \in places : First(j, i)}) = k - 1
    IN  [k \in places |-> listed[At(k)]]

\* The server lists its tools in any order: ListTools returns a map.
CheckServer(b) ==
    /\ phase = "building" /\ phase' = "checking"
    /\ budget' = b
    /\ \E listed \in SetToSeqs(tools) : todo' = sortedByName(listed)
    /\ UNCHANGED <<tools, prefixes, errs>>

Err(t, kind, at) == [tool |-> t.name, kind |-> kind, at |-> at]

SummaryErr(t) ==
    LET n == Len(TrimSpace(FirstLine(t.description)))
    IN  Only(Err(t, "summary", <<>>), n = 0 \/ n > SummaryMax)

DescriptionErr(t) ==
    Only(Err(t, "description", <<>>), budget.description > 0 /\ Len(t.description) > budget.description)

PrefixErr(t, p) == Only(Err(t, "prefix", <<[tool |-> prefixes[p]]>>), p \in DOMAIN prefixes)

Remember(p, name) ==
    IF p \in DOMAIN prefixes THEN prefixes
    ELSE [q \in DOMAIN prefixes \cup {p} |-> IF q = p THEN name ELSE prefixes[q]]

ParamErrs(t) ==
    IF budget.param <= 0 THEN <<>>
    ELSE IF ~Decodes(t.schema) THEN <<Err(t, "schema", <<>>)>>
    ELSE LET paths == checkSchema(t, budget.param)
         IN  [i \in DOMAIN paths |-> Err(t, "param", paths[i])]

\* One tool of Check's loop.
CheckTool ==
    /\ phase = "checking" /\ todo # <<>>
    /\ LET t == Head(todo)
           p == prefix(t.description, budget.prefix)
       IN  /\ errs' = errs \o SummaryErr(t) \o DescriptionErr(t)
                        \o (IF p = <<>> THEN <<>> ELSE PrefixErr(t, p)) \o ParamErrs(t)
           /\ prefixes' = IF p = <<>> THEN prefixes ELSE Remember(p, t.name)
    /\ todo' = Tail(todo)
    /\ UNCHANGED <<tools, phase, budget>>

CheckReturns ==
    /\ phase = "checking" /\ todo = <<>>
    /\ phase' = "done"
    /\ UNCHANGED <<tools, budget, todo, prefixes, errs>>

Next ==
    \/ \E name \in Names, raw \in Addable : AddRawTool(name, raw)
    \/ \E name \in Names, summary \in Summaries, details \in Details : Describe(name, summary, details)
    \/ \E b \in Budgets : CheckServer(b)
    \/ CheckTool
    \/ CheckReturns

Spec == Init /\ [][Next]_vars

-----------------------------------------------------------------------------
(* Properties.                                                             *)

\* Two descriptions open alike: as far as the budget looks, or, the shorter
\* of them, to its end (Budget.Prefix, tooldesc.go:72-75).
OpenAlike(b, t, u) ==
    LET s == TrimSpace(t.description)
        r == TrimSpace(u.description)
        upTo == IF Len(s) < b.prefix THEN Len(s) ELSE b.prefix
    IN  /\ b.prefix > 0 /\ s # <<>>
        /\ Len(s) = Len(r) \/ (Len(s) >= b.prefix /\ Len(r) >= b.prefix)
        /\ \A i \in 1..upTo : Lower(s[i]) = Lower(r[i])

\* Pairs of S that open alike, the later name first.
AlikeIn(b, S) == {tu \in S \X S : tu[2].name < tu[1].name /\ OpenAlike(b, tu[1], tu[2])}

Fault(kind, S) == {[tool |-> t.name, kind |-> kind, at |-> <<>>] : t \in S}

FaultsIn(b, S) ==
    Fault("summary", {t \in S : Len(TrimSpace(FirstLine(t.description))) \notin 1..SummaryMax})
    \cup Fault("description", {t \in S : b.description > 0 /\ Len(t.description) > b.description})
    \cup Fault("schema", {t \in S : b.param > 0 /\ ~Decodes(t.schema)})
    \cup {[tool |-> tu[1].name, kind |-> "prefix", at |-> <<[tool |-> tu[2].name]>>] :
            tu \in {tu \in AlikeIn(b, S) : \A w \in AlikeIn(b, S) : w[1] # tu[2]}}
    \cup UNION {{[tool |-> t.name, kind |-> "param", at |-> at] : at \in Range(checkSchema(t, b.param))} :
            t \in {t \in S : b.param > 0 /\ Decodes(t.schema)}}

\* Check reports every tool that breaks the budget and no other, sorted by
\* name, the same on every run whatever order the server lists its tools in;
\* of the tools that open alike, all but the first by name, each with the
\* first.  Only a path that leads to two descriptions is named twice
\* (tooldesc.go:82-115).
ReportIsExact ==
    phase = "done" =>
        /\ Range(errs) = FaultsIn(budget, tools)
        /\ \A i, j \in 1..Len(errs) : i < j =>
             errs[i].tool <= errs[j].tool /\ (errs[i].kind = "param" \/ errs[i] # errs[j])

\* A tool that Describe let through shows its whole summary as its first
\* line, and Check has nothing to say against it (tooldesc.go:19-28, 92-97).
DescribedToolsFit ==
    \A t \in tools : t.summary # NoSummary =>
        /\ FirstLine(t.description) = TrimSpace(t.summary)
        /\ Len(FirstLine(t.description)) \in 1..SummaryMax
        /\ \A e \in Range(errs) : ~(e.tool = t.name /\ e.kind = "summary")

\* "Param caps every description in the input schema: each parameter's, and
\* those of nested properties and array items" (tooldesc.go:69-71): each is
\* reported at its path when it is over, and nothing else is, but for a
\* "description" in what is no schema, such as a default or an example.
EveryDescriptionCapped ==
    phase = "done" /\ budget.param > 0 => \A t \in {t \in tools : Decodes(t.schema)} :
        LET reported == {e.at : e \in {e \in Range(errs) : e.kind = "param" /\ e.tool = t.name}}
            described == {p.at : p \in Overlong(inputSchema(t), budget.param)}
        IN  /\ described \subseteq reported
            /\ \A at \in reported \ described : \E u \in NoSchemasIn(inputSchema(t)) : IsPrefix(u, at)

\* The descriptions over the budget in one schema are reported from its top
\* down, keys in their order and elements in theirs, so that the report is the
\* same on every run; two of them at one path are reported twice
\* (tooldesc.go:162-189).
ParamsInOrder ==
    phase = "done" /\ budget.param > 0 => \A t \in {t \in tools : Decodes(t.schema)} :
        LET over == Overlong(inputSchema(t), budget.param)
            reports == {i \in 1..Len(errs) : errs[i].tool = t.name /\ errs[i].kind = "param"}
        IN  \E report \in [over -> reports] :
              /\ \A p \in over : errs[report[p]].at = p.at
              /\ \A p, q \in over : TextLess(p.where, q.where) => report[p] < report[q]

-----------------------------------------------------------------------------
(* The inductive invariant.  Check's loop has said what is wrong with Done *)
(* and nothing else; its map holds the first of Done, by name, of every    *)
(* opening met so far.                                                     *)

Done == tools \ Range(todo)
Opening(t) == prefix(t.description, budget.prefix)

\* A tool with a summary has the description that Describe gives it.
ToolsInv ==
    /\ IsFiniteSet(tools)
    /\ \A t \in tools :
         /\ t.name \in Names /\ t.description \in Texts /\ t.schema \in RawSchemas
         /\ t.summary # NoSummary =>
              \E summary \in Summaries, details \in Details :
                 /\ t.summary = summary /\ ~Refused(summary)
                 /\ t.description = Description(summary, details)

TodoInv ==
    /\ todo \in Seq(tools)
    /\ \A i, j \in 1..Len(todo) : i < j => todo[i].name < todo[j].name
    /\ \A t \in Done : \A i \in 1..Len(todo) : t.name < todo[i].name
    /\ phase \in {"building", "panicked"} => todo = <<>> /\ prefixes = <<>> /\ errs = <<>>
    /\ phase = "done" => todo = <<>>

PrefixesInv ==
    /\ \A p \in DOMAIN prefixes : \E u \in Done :
         /\ p = Opening(u) /\ p # <<>> /\ prefixes[p] = u.name
         /\ \A w \in Done : Opening(w) = p => u.name <= w.name
    /\ \A u \in Done : Opening(u) # <<>> => Opening(u) \in DOMAIN prefixes

ErrsInv ==
    /\ errs \in Seq(FaultsIn(budget, Done)) /\ Range(errs) = FaultsIn(budget, Done)
    /\ \A i, j \in 1..Len(errs) : i < j =>
         errs[i].tool <= errs[j].tool /\ (errs[i].kind = "param" \/ errs[i] # errs[j])

CheckInv ==
    /\ TypeOK /\ ToolsInv /\ TodoInv
    /\ phase \in {"checking", "done"} => PrefixesInv /\ ErrsInv
=============================================================================
