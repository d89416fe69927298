---------------------------- MODULE MCToolCall ----------------------------
(* Stacks of up to three layers; limits that are negative, zero, below the   *)
(* size of a rejection, and above it; content of up to two items, texts      *)
(* exactly at each limit and one over them all.                              *)
EXTENDS ToolCall

LayerOf(kind, limit, exempt, overridable) ==
    [kind |-> kind, limit |-> limit, exempt |-> exempt, overridable |-> overridable]
Caps == {LayerOf("cap", limit, FALSE, FALSE) : limit \in {-1, 0, 2, 4}}
Excused == {LayerOf("cap", 4, TRUE, FALSE), LayerOf("cap", 4, FALSE, TRUE)}
Timeout == LayerOf("timeout", 0, FALSE, FALSE)
Layers == Caps \cup Excused \cup {Timeout}
MCStacks == (UNION {[1..n -> Layers] : n \in 0..2}) \cup {<<l, m, l>> : l, m \in {Timeout} \cup Caps}

Tool(kind, size) == Item(kind, size, "tool", 0, 0)
ToolItems == {Tool("image", 9)} \cup {Tool("text", size) : size \in {2, 4, 6, 7}}
PairItems == {Tool("image", 9), Tool("text", 4), Tool("text", 7)}
Contents == {<<>>} \cup [1..1 -> ToolItems] \cup [1..2 -> PairItems]

Answer(errs, made, content, isError) == [errs |-> errs, made |-> made, content |-> content, isError |-> isError]
MCAnswers ==
    {Answer(FALSE, TRUE, content, FALSE) : content \in Contents}
    \cup {Answer(FALSE, TRUE, <<t>>, TRUE) : t \in ToolItems}
    \cup {Answer(TRUE, made, <<Tool("text", 7)>>, FALSE) : made \in BOOLEAN}
    \cup {Answer(FALSE, FALSE, <<>>, FALSE)}
=============================================================================
