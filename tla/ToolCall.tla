------------------------------ MODULE ToolCall ------------------------------
(***************************************************************************)
(* Calls of one tool through a stack of responsecap and timeout layers,    *)
(* the first one outermost, on the way out: a responsecap layer            *)
(* (src/middleware/responsecap/responsecap.go) edits the result in place,  *)
(* item by item; of a timeout layer, which ToolTimeout has in full, only   *)
(* what it does to the result is kept.                                     *)
(*                                                                         *)
(* The package asks handlers for a fresh result on every call; nothing     *)
(* enforces it.  A handler that returns one result each time, or a fresh   *)
(* one around the same content slice, is modelled too: its calls then edit *)
(* the same memory, a step at a time.                                      *)
(***************************************************************************)
EXTENDS Integers, Sequences

CONSTANTS
    Calls,          \* calls under way at once, named by positive numbers
    Stacks,         \* the stacks of layers: sequences of caps and timeouts
    Answers,        \* what the handler may return, each time the same
    DefaultLimit,   \* responsecap.DefaultLimit
    RejectionSize,  \* bytes of a rejection payload, its hint included
    TimeoutSize     \* bytes of the timeout layer's text

ASSUME CallsAssumption == Calls \subseteq Nat \ {0} /\ 1 \in Calls
ASSUME SizesAssumption == DefaultLimit \in Nat \ {0} /\ RejectionSize \in Nat /\ TimeoutSize \in Nat

LayerRecord == [kind : {"cap", "timeout"}, limit : Int, exempt : BOOLEAN, overridable : BOOLEAN]
ItemRecord == [kind : {"text", "image"}, size : Nat, by : {"tool", "cap", "timeout"}, bytes : Nat, limit : Int]

ASSUME StacksAssumption == Stacks \subseteq Seq(LayerRecord)
ASSUME AnswersAssumption == \A a \in Answers :
    /\ a.errs \in BOOLEAN /\ a.made \in BOOLEAN /\ a.isError \in BOOLEAN
    /\ a.content \in Seq({t \in ItemRecord : t.by = "tool"})

VARIABLES
    stack,      \* the layers: [kind, limit, exempt, overridable]
    answer,     \* [errs, made, content, isError]: an error or not, a result or nil
    share,      \* what the handler's results share: "nothing", "content", "result"
    overrides,  \* the calls whose arguments AllowOverride accepts
    contents,   \* contents[k]: the Content slice at cell k, 0 the shared cell
    flagged,    \* the cells whose IsError is set
    call        \* call[c]: [pc, layer, item, seen, failed, content, result]

config == <<stack, answer, share, overrides>>
vars == <<config, contents, flagged, call>>

Cells == Calls \cup {0}
NoResult == -1

\* One item of a result: text or not, its size, who wrote it, and what a
\* rejection says: the size it turned away and the limit.
Item(kind, size, by, bytes, limit) == [kind |-> kind, size |-> size, by |-> by, bytes |-> bytes, limit |-> limit]
Error(bytes, limit) == Item("text", RejectionSize, "cap", bytes, limit)
TimedOut == Item("text", TimeoutSize, "timeout", 0, 0)

Items(k) == {contents[k][j] : j \in 1..Len(contents[k])}

\* Calls that share nothing are independent, so one stands for all.
Active == IF share = "nothing" THEN {1} ELSE Calls

TypeOK ==
    /\ stack \in Stacks /\ answer \in Answers
    /\ share \in {"nothing", "content", "result"}
    /\ overrides \subseteq Calls /\ flagged \subseteq Cells
    /\ contents \in [Cells -> Seq(ItemRecord)]
    /\ \A k \in Cells : \A t \in Items(k) : t.by = "cap" => t.limit > 0 /\ t.bytes > t.limit
    /\ call \in [Calls -> [pc : {"handler", "layer", "loop", "replace", "flag", "done"},
                           layer : 0..Len(stack), item : Nat \ {0}, seen : Nat, failed : BOOLEAN,
                           content : Cells \cup {NoResult}, result : Cells \cup {NoResult}]]
    /\ \A c \in Calls : call[c].pc \in {"replace", "flag"} => call[c].item <= Len(contents[call[c].content])

Init ==
    /\ stack \in Stacks /\ answer \in Answers
    /\ share \in IF answer.made THEN {"nothing", "content", "result"} ELSE {"nothing"}
    /\ overrides \in SUBSET Active
    /\ contents = [k \in Cells |-> IF k = 0 /\ answer.made THEN answer.content ELSE <<>>]
    /\ flagged = IF answer.isError THEN {0} ELSE {}
    /\ call = [c \in Calls |-> [pc |-> "handler", layer |-> Len(stack), item |-> 1, seen |-> 0, failed |-> FALSE,
                                content |-> NoResult, result |-> NoResult]]

Goto(c, pc) == call' = [call EXCEPT ![c].pc = pc]
Layer(c) == stack[call[c].layer]
NextLayer(c) == call' = [call EXCEPT ![c].pc = "layer", ![c].layer = @ - 1]
At(c, pc, kind) == call[c].pc = pc /\ call[c].layer > 0 /\ Layer(c).kind = kind

-----------------------------------------------------------------------------
(* Plausible bugs of the definitions below.                                *)

\* Zero is handed through as a limit of nothing.
LimitAsGiven(layer) == layer.limit

\* A negative limit is compared like any other.
AppliesUnlessExcused(c, layer) ==
    ~layer.exempt /\ ~(layer.overridable /\ c \in overrides)

\* The override is asked for before, and instead of, the exemption.
AppliesForgetsExempt(c, layer) ==
    layer.limit >= 0 /\ ~(layer.overridable /\ c \in overrides)

\* The loop is left at the first item that was replaced.
AfterItemLeaves(c) ==
    call' = [call EXCEPT ![c].pc = "layer", ![c].layer = @ - 1]

-----------------------------------------------------------------------------
(* The handler, innermost.                                                 *)

HandlerReturns(c) ==
    /\ call[c].pc = "handler"
    /\ LET body == IF share = "nothing" THEN c ELSE 0
           head == IF share = "result" THEN 0 ELSE c
       IN  /\ call' = [call EXCEPT ![c].pc = "layer", ![c].failed = answer.errs,
                                   ![c].content = IF answer.made THEN body ELSE NoResult,
                                   ![c].result = IF answer.made THEN head ELSE NoResult]
           /\ contents' = IF answer.made /\ body = c THEN [contents EXCEPT ![c] = answer.content] ELSE contents
           /\ flagged' = IF answer.isError /\ head = c THEN flagged \cup {c} ELSE flagged
    /\ UNCHANGED config

-----------------------------------------------------------------------------
(* A timeout layer: an error of the handler may be its deadline's doing.   *)

TimeoutReplaces(c) ==
    /\ At(c, "layer", "timeout") /\ call[c].failed
    /\ contents' = [contents EXCEPT ![c] = <<TimedOut>>]
    /\ flagged' = flagged \cup {c}
    /\ call' = [call EXCEPT ![c].layer = @ - 1, ![c].failed = FALSE, ![c].content = c, ![c].result = c]
    /\ UNCHANGED config

TimeoutPasses(c) ==
    /\ At(c, "layer", "timeout")
    /\ NextLayer(c)
    /\ UNCHANGED <<config, contents, flagged>>

-----------------------------------------------------------------------------
(* A responsecap layer.                                                    *)

Limit(layer) == IF layer.limit = 0 THEN DefaultLimit ELSE layer.limit

\* The limit caps, the tool is not exempt, and the caller did not override.
Applies(c, layer) ==
    /\ Limit(layer) >= 0
    /\ ~layer.exempt
    /\ ~(layer.overridable /\ c \in overrides)

Unread(c) == call[c].failed \/ call[c].content = NoResult

CapPasses(c) ==
    /\ At(c, "layer", "cap")
    /\ Unread(c) \/ ~Applies(c, Layer(c))
    /\ NextLayer(c)
    /\ UNCHANGED <<config, contents, flagged>>

CapLooks(c) ==
    /\ At(c, "layer", "cap")
    /\ ~Unread(c) /\ Applies(c, Layer(c))
    /\ call' = [call EXCEPT ![c].pc = "loop", ![c].item = 1]
    /\ UNCHANGED <<config, contents, flagged>>

\* The item the loop has come to; the length was read when the loop began.
Current(c) == contents[call[c].content][call[c].item]
More(c) == call[c].item <= Len(contents[call[c].content])
Oversized(t, layer) == t.kind = "text" /\ t.size > Limit(layer)

KeepItem(c) ==
    /\ At(c, "loop", "cap") /\ More(c) /\ ~Oversized(Current(c), Layer(c))
    /\ call' = [call EXCEPT ![c].item = @ + 1]
    /\ UNCHANGED <<config, contents, flagged>>

\* The item is read here; the payload is written a moment later.
RejectItem(c) ==
    /\ At(c, "loop", "cap") /\ More(c) /\ Oversized(Current(c), Layer(c))
    /\ call' = [call EXCEPT ![c].pc = "replace", ![c].seen = Current(c).size]
    /\ UNCHANGED <<config, contents, flagged>>

ReplaceItem(c) ==
    /\ At(c, "replace", "cap")
    /\ contents' = [contents EXCEPT ![call[c].content][call[c].item] = Error(call[c].seen, Limit(Layer(c)))]
    /\ Goto(c, "flag")
    /\ UNCHANGED <<config, flagged>>

AfterItem(c) == call' = [call EXCEPT ![c].pc = "loop", ![c].item = @ + 1]

SetIsError(c) ==
    /\ At(c, "flag", "cap")
    /\ flagged' = flagged \cup {call[c].result}
    /\ AfterItem(c)
    /\ UNCHANGED <<config, contents>>

CapReturns(c) ==
    /\ At(c, "loop", "cap") /\ ~More(c)
    /\ NextLayer(c)
    /\ UNCHANGED <<config, contents, flagged>>

Return(c) ==
    /\ call[c].pc = "layer" /\ call[c].layer = 0
    /\ Goto(c, "done")
    /\ UNCHANGED <<config, contents, flagged>>

Next ==
    \E c \in Active :
        \/ HandlerReturns(c)
        \/ TimeoutReplaces(c) \/ TimeoutPasses(c)
        \/ CapPasses(c) \/ CapLooks(c)
        \/ KeepItem(c) \/ RejectItem(c) \/ ReplaceItem(c) \/ SetIsError(c)
        \/ CapReturns(c) \/ Return(c)

Spec == Init /\ [][Next]_vars

-----------------------------------------------------------------------------
(* Properties.  A layer's cap and its excuses are spelt out again here, in *)
(* the words of the Options (responsecap.go:28-45).                        *)

Cap(i) == IF stack[i].limit = 0 THEN DefaultLimit ELSE stack[i].limit
Capping(c) ==
    {i \in 1..Len(stack) :
        /\ stack[i].kind = "cap" /\ stack[i].limit >= 0 /\ ~stack[i].exempt
        /\ ~(stack[i].overridable /\ c \in overrides)}

\* No text of the tool's own reaches the caller over the limit of a layer
\* that caps the call, whatever the order of the layers, also when calls edit
\* one content slice at once (responsecap.go:95-111).
NothingOversized ==
    \A c \in Calls : call[c].pc = "done" /\ ~Unread(c) =>
        \A t \in Items(call[c].content) : \A i \in Capping(c) :
            t.by = "tool" /\ t.kind = "text" => t.size <= Cap(i)

\* Layer i would turn t away.
Over(t, i) == t.kind = "text" /\ t.size > Cap(i)

\* u is what the layers within layer k make of the item t of the tool's answer:
\* t itself, or the verdict of the innermost one whose limit it exceeds.
ShownAs(c, t, u, k) ==
    LET over == {i \in Capping(c) : i > k /\ Over(t, i)}
    IN  \/ over = {} /\ u = t
        \/ \E i \in over : (\A m \in over : m <= i) /\ u = Error(t.size, Cap(i))

\* The items that are not the tool's any more.
Changed(c) == {j \in 1..Len(answer.content) : contents[c][j] # answer.content[j]}

\* Every layer that caps the call leaves room for what other layers write.
Roomy(c) == \A i \in Capping(c) : Cap(i) >= RejectionSize /\ Cap(i) >= TimeoutSize

\* With fresh results and limits that leave room for a rejection, a call
\* yields exactly: the tool's error or nil, untouched; a timeout, untouched; or
\* the tool's items, each that is too big replaced by a rejection that tells
\* the tool's size and the innermost limit, and IsError set just when the tool
\* set it or an item was replaced (responsecap.go:25-31, 73-75, 84-112).
ResultIsExact ==
    \A c \in Calls : call[c].pc = "done" /\ share = "nothing" /\ Roomy(c) =>
        \/ /\ call[c].failed = answer.errs /\ (answer.errs \/ ~answer.made)
           /\ call[c].content = (IF answer.made THEN c ELSE NoResult)
           /\ answer.made => contents[c] = answer.content /\ (c \in flagged <=> answer.isError)
        \/ /\ answer.errs /\ ~call[c].failed
           /\ contents[c] = <<TimedOut>> /\ c \in flagged
        \/ /\ ~answer.errs /\ answer.made /\ ~call[c].failed
           /\ Len(contents[c]) = Len(answer.content)
           /\ \A j \in 1..Len(answer.content) : ShownAs(c, answer.content[j], contents[c][j], 0)
           /\ c \in flagged <=> (answer.isError \/ Changed(c) # {})

-----------------------------------------------------------------------------
(* What makes the properties inductive.                                    *)

\* A call edits the shared cell or its own, and only where a layer caps it.
PlaceInv ==
    \A c \in Calls :
        /\ call[c].content \in {0, c, NoResult}
        /\ call[c].result = NoResult => call[c].content = NoResult
        /\ call[c].pc = "handler" => call[c].content = NoResult /\ call[c].layer = Len(stack)
        /\ call[c].pc = "done" => call[c].layer = 0
        /\ call[c].pc \in {"loop", "replace", "flag"} =>
              call[c].layer \in Capping(c) /\ ~Unread(c)
        /\ call[c].pc = "replace" => call[c].seen > Cap(call[c].layer)

Looked(c, j) ==
    /\ call[c].pc \in {"loop", "replace", "flag"}
    /\ j < call[c].item \/ (call[c].pc = "flag" /\ j = call[c].item)

Within(t, i) == t.by = "tool" /\ t.kind = "text" => t.size <= Cap(i)

\* What the layers already passed would turn away is gone, and what the layer
\* at work would turn away is gone up to the item it looks at.
PassedInv ==
    \A c \in Calls : ~Unread(c) =>
        \A i \in Capping(c) : \A j \in 1..Len(contents[call[c].content]) :
            i > call[c].layer \/ (i = call[c].layer /\ Looked(c, j)) =>
                Within(contents[call[c].content][j], i)

IInv == TypeOK /\ PlaceInv /\ PassedInv

\* The layers within Past(c, j) have had their say on item j.
Past(c, j) == IF Looked(c, j) THEN call[c].layer - 1 ELSE call[c].layer

\* Where a call with a fresh result is on the way out: the tool's error or nil
\* is passed on;
PassedOn(c) ==
    /\ call[c].failed = answer.errs /\ (answer.errs \/ ~answer.made)
    /\ call[c].content = (IF answer.made THEN c ELSE NoResult)
    /\ answer.made => contents[c] = answer.content /\ (c \in flagged <=> answer.isError)

\* or a timeout has taken the error's place, and fits every limit;
GivenUp(c) ==
    /\ answer.errs /\ ~call[c].failed
    /\ call[c].content = c /\ contents[c] = <<TimedOut>> /\ c \in flagged
    /\ call[c].pc \notin {"replace", "flag"}

\* or each item is what the layers make of the tool's, those passed and, for
\* the items looked at, the one at work; IsError tells of every item replaced but
\* the one whose flag is still to come.
Edited(c) ==
    LET layer == call[c].layer
        item == call[c].item
    IN  /\ ~answer.errs /\ answer.made /\ ~call[c].failed
        /\ call[c].content = c /\ call[c].result = c
        /\ Len(contents[c]) = Len(answer.content)
        /\ \A j \in 1..Len(answer.content) :
              ShownAs(c, answer.content[j], contents[c][j], Past(c, j))
        /\ call[c].pc = "replace" =>
              /\ contents[c][item] = answer.content[item]
              /\ ShownAs(c, answer.content[item], Error(call[c].seen, Cap(layer)), layer - 1)
        /\ call[c].pc = "flag" => item \in Changed(c)
        /\ c \in flagged <=> answer.isError \/ \E j \in Changed(c) : call[c].pc = "flag" => j # item

ExactCall(c) ==
    /\ {call[c].content, call[c].result} \subseteq {c, NoResult}
    /\ call[c].pc = "handler" => c \notin flagged
    /\ call[c].pc # "handler" /\ Roomy(c) => PassedOn(c) \/ GivenUp(c) \/ Edited(c)

ExactInv == share = "nothing" => \A c \in Calls : ExactCall(c)
=============================================================================
