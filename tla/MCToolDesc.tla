----------------------------- MODULE MCToolDesc -----------------------------
(* Texts of up to three runes, chosen to meet every rule; up to three tools  *)
(* listed in every order; schemas of depth two, whose properties may bear    *)
(* the name of a keyword.  Descriptions in a schema have length 1 or 2, the  *)
(* limit is 1.                                                               *)
EXTENDS ToolDoc, TLC

CONSTANT DefNames   \* the names used under $defs

\* 65, 97 and 98 are letters, 32 is a blank, 10 a newline.
MCSummaries == {<<>>, <<97>>, <<32, 97>>, <<65, 98>>, <<97, 10, 98>>, <<97, 98, 97>>}
MCDetails == {<<>>, <<10>>, <<98, 32>>}
\* 96 is a backtick.
MCHeader == <<35, 10>>
Fenced == {<<96, 96, 96>>, <<97, 10, 96, 96, 96>>, <<96, 96, 96, 10, 96, 96, 96, 96>>}
MCHints == {Hints("true", "unset"), Hints("false", "false"), Hints("true", "true"), Hints("unset", "true")}
MCTexts == {<<>>, <<10, 97>>, <<97>>, <<65>>, <<97, 98>>, <<32, 65, 98>>, <<97, 98, 97>>}

None == <<>>   \* no properties, items, anyOf or $defs
Field(k, given, v) == IF given THEN k :> v ELSE <<>>
Schema(desc, props, items, anyOf, defs) ==
    Object(Field("description", desc > 0, String(desc)) @@ Field("properties", props # None, Object(props))
           @@ (IF items = None THEN <<>> ELSE "items" :> items[1])
           @@ Field("anyOf", anyOf # None, Array(anyOf)) @@ Field("$defs", defs # None, Object(defs)))
Leaves == {Schema(d, None, None, None, None) : d \in 0..2}
Long == Schema(2, None, None, None, None)
MCNoParams == Object("properties" :> Object(<<>>) @@ "type" :> String(6))

\* What a raw schema may hold besides: values that are no schemas, keywords
\* with a value they cannot have, and one path to two descriptions.
Odd == {Object("default" :> Long), Object("default" :> Array(<<Long, String(9)>>)),
        Object("not" :> Long @@ "properties" :> Object("not" :> Long)),
        Object("default" :> Long @@ "not" :> Long @@ "properties" :> Object("default" :> Long)),
        Object("not" :> Other), Object("not" :> Array(<<Long>>)), Object("anyOf" :> Long),
        Object("items" :> Array(<<Long, Other, Long>>)), Object("items" :> String(9)),
        Object("properties" :> Array(<<Long>>)), Object("properties" :> Object("a" :> Array(<<Long>>))),
        Object("description" :> Long), Object("description" :> Object("a" :> Long)),
        Object("patternProperties" :> Object("a" :> Long)), Object("patternProperties" :> Array(<<Long>>)),
        Array(<<Long>>), String(9), Other}

\* UNION rather than \cup: TLC lists it without comparing the elements.
Around(d, S) == UNION {
    {Schema(d, [n \in names |-> s], None, None, None) : names \in {{"a"}, {"description"}, {"items"}}, s \in S},
    {Schema(d, None, <<s>>, None, None) : s \in S},
    {Schema(d, None, None, <<s>>, None) : s \in S},
    {Schema(d, None, None, None, n :> s) : n \in DefNames, s \in S}}
Pairs(S) == UNION {
    {Schema(0, ("a" :> s @@ "description" :> t), None, None, None) : s, t \in S},
    {Schema(0, None, None, <<s, t>>, None) : s, t \in S},
    {Schema(0, ("a" :> s), <<t>>, None, None) : s, t \in S}}

Depth1 == UNION {Leaves, Odd, Around(0, Leaves), Around(1, Leaves), Around(2, Leaves)}
Depth2 == UNION {Depth1, Pairs(UNION {Leaves, Around(2, {Long})}), Around(0, Depth1), Around(2, Depth1)}

\* What is in a schema of Depth2 is of Depth1, or in the schema.  Names of
\* their own, as TLC lists a set once only for a name that it meets in a
\* definition.
AllSchemas == {s : s \in Depth2}
AllValues == {v : v \in UNION {AllSchemas, {MCNoParams}, UNION {Children(s) : s \in UNION {AllSchemas, {MCNoParams}}}}}
MCSchemas == AllSchemas
MCValues == AllValues

MCKeys == <<"$defs", "a", "anyOf", "default", "description", "items", "not", "patternProperties",
            "properties", "type">>

RECURSIVE Levels(_)
Levels(node) ==
    LET below == {Levels(child) : child \in Children(node)}
    IN  IF below = {} THEN 0 ELSE 1 + CHOOSE n \in below : \A k \in below : k <= n

Raw(t, s, hints) == [description |-> t, schema |-> s, hints |-> hints]
MCRawTools ==
    {Raw(t, MCNoParams, NoHints) : t \in MCTexts}
    \cup {Raw(t, MCNoParams, NoHints) : t \in Fenced}
    \cup {Raw(<<97>>, MCNoParams, h) : h \in MCHints}
    \cup {Raw(<<97>>, s, NoHints) : s \in MCSchemas \cup {BrokenSchema, Trailed(Long)}}

MCDocSchemas == {MCNoParams, BrokenSchema, Trailed(Long),
                 Schema(0, [n \in {"a"} |-> Schema(1, None, None, None, None)], None, None, None)}

Budget(d, p, n) == [description |-> d, param |-> p, prefix |-> n]
MCBudgets == {Budget(0, 0, 0), Budget(2, 1, 2), Budget(0, 1, 1), Budget(4, -1, 3)}
=============================================================================
