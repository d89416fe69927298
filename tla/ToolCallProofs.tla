--------------------------- MODULE ToolCallProofs ---------------------------
(***************************************************************************)
(* What holds of any number of calls at once through any stack of caps and *)
(* timeouts, whatever the handler's results share: the inductive invariant *)
(* IInv of ToolCall and what follows from it.                              *)
(***************************************************************************)
EXTENDS ToolCall, SequenceTheorems, TLAPS

Pcs == {"handler", "layer", "loop", "replace", "flag", "done"}
CallRecord == [pc : Pcs, layer : 0..Len(stack), item : Nat \ {0}, seen : Nat, failed : BOOLEAN,
               content : Cells \cup {NoResult}, result : Cells \cup {NoResult}]

(* The facts about one call and one cell that TypeOK packs together. *)
LEMMA Types ==
  ASSUME IInv
  PROVE  /\ call \in [Calls -> CallRecord] /\ contents \in [Cells -> Seq(ItemRecord)]
         /\ stack \in Seq(LayerRecord) /\ Len(stack) \in Nat
         /\ \A k \in Cells : Len(contents[k]) \in Nat
         /\ \A c \in Calls : c # 0 /\ c # NoResult /\ c \in Cells /\ 0 \in Cells /\ NoResult \notin Cells
<1>1. call \in [Calls -> CallRecord] /\ contents \in [Cells -> Seq(ItemRecord)]
  BY DEF IInv, TypeOK, CallRecord, Pcs
<1>2. stack \in Seq(LayerRecord)
  BY StacksAssumption DEF IInv, TypeOK
<1>3. \A c \in Calls : c # 0 /\ c # NoResult /\ c \in Cells /\ 0 \in Cells /\ NoResult \notin Cells
  BY CallsAssumption DEF Cells, NoResult
<1>4. \A k \in Cells : Len(contents[k]) \in Nat
  BY <1>1
<1>5. Len(stack) \in Nat
  BY <1>2
<1> QED
  BY <1>1, <1>2, <1>3, <1>4, <1>5

(* The layer a call has come to. *)
LEMMA LayerType ==
  ASSUME IInv, NEW c \in Calls, call[c].layer > 0
  PROVE  /\ call[c].layer \in 1..Len(stack) /\ Layer(c) \in LayerRecord
         /\ call[c].layer - 1 \in 0..Len(stack)
<1>1. call[c].layer \in 0..Len(stack) /\ Len(stack) \in Nat
  BY Types DEF CallRecord
<1>2. call[c].layer \in 1..Len(stack)
  BY <1>1
<1>3. stack[call[c].layer] \in LayerRecord
  BY <1>2, Types
<1> QED
  BY <1>1, <1>2, <1>3 DEF Layer

(* The code's test and the words of the Options agree on who is capped. *)
LEMMA AppliesIsCapping ==
  ASSUME IInv, NEW c \in Calls, call[c].layer > 0
  PROVE  /\ Layer(c).kind = "cap" => (Applies(c, Layer(c)) <=> call[c].layer \in Capping(c))
         /\ Layer(c).kind = "timeout" => call[c].layer \notin Capping(c)
         /\ Limit(Layer(c)) = Cap(call[c].layer) /\ Cap(call[c].layer) \in Int
         /\ call[c].layer \in Capping(c) => Cap(call[c].layer) > 0
  BY LayerType, SizesAssumption DEF Applies, Limit, Capping, Cap, Layer, LayerRecord

-----------------------------------------------------------------------------
LEMMA InitIInv == Init => IInv
<1> SUFFICES ASSUME Init PROVE IInv
  OBVIOUS
<1>1. stack \in Seq(LayerRecord) /\ Len(stack) \in 0..Len(stack)
  <2>1. stack \in Seq(LayerRecord)
    BY StacksAssumption DEF Init
  <2> QED
    BY <2>1
<1>2. answer \in Answers /\ answer.content \in Seq({t \in ItemRecord : t.by = "tool"})
  BY AnswersAssumption DEF Init
<1>3. 0 \in Cells /\ NoResult \notin Cells /\ \A c \in Calls : c \in Cells
  BY CallsAssumption DEF Cells, NoResult
<1> DEFINE ToolItems == {t \in ItemRecord : t.by = "tool"}
<1>a. ToolItems \subseteq ItemRecord /\ \A t \in ToolItems : t.by = "tool"
  OBVIOUS
<1>b. answer.content \in Seq(ToolItems)
  BY <1>2
<1> HIDE DEF ToolItems
<1>4. \A k \in Cells : contents[k] \in Seq(ToolItems)
  <2>1. <<>> \in Seq(ToolItems)
    BY EmptySeq
  <2> QED
    BY <1>b, <2>1 DEF Init
<1>5. \A k \in Cells : contents[k] \in Seq(ItemRecord)
  BY <1>a, <1>4, SeqMonotonic
<1>6. \A k \in Cells : \A t \in Items(k) : t.by = "tool"
  BY <1>a, <1>4, ElementOfSeq DEF Items
<1>7. \A c \in Calls : call[c].pc = "handler" /\ call[c].layer = Len(stack) /\ call[c].content = NoResult
  BY DEF Init
<1>8. TypeOK
  <2>1. contents \in [Cells -> Seq(ItemRecord)]
    BY <1>5 DEF Init
  <2>2. \A k \in Cells : \A t \in Items(k) : t.by = "cap" => t.limit > 0 /\ t.bytes > t.limit
    BY <1>6
  <2>3. call \in [Calls -> CallRecord]
    <3>1. Len(stack) \in 0..Len(stack) /\ 1 \in Nat \ {0} /\ 0 \in Nat
      BY <1>1
    <3>2. [pc |-> "handler", layer |-> Len(stack), item |-> 1, seen |-> 0,
           failed |-> FALSE, content |-> NoResult, result |-> NoResult] \in CallRecord
      BY <3>1 DEF CallRecord, Pcs
    <3> QED
      BY <3>2 DEF Init
  <2>4. stack \in Stacks /\ answer \in Answers /\ share \in {"nothing", "content", "result"}
    BY DEF Init
  <2>5. overrides \subseteq Calls /\ flagged \subseteq Cells
    BY <1>3, CallsAssumption DEF Init, Active
  <2> QED
    BY <1>7, <2>1, <2>2, <2>3, <2>4, <2>5 DEF TypeOK, CallRecord, Pcs
<1>9. PlaceInv
  BY <1>7, Zenon DEF PlaceInv
<1>10. PassedInv
  BY <1>7 DEF PassedInv, Unread
<1> QED
  BY <1>8, <1>9, <1>10 DEF IInv

LEMMA StutterIInv == ASSUME IInv, UNCHANGED vars PROVE IInv'
  BY DEF vars, config, IInv, TypeOK, PlaceInv, PassedInv, Items, Unread, Capping, Cap, Looked, Within

(* A step of one call in which no content changes: what remains to be      *)
(* shown is about that call alone.                                         *)
LEMMA OwnStep ==
  ASSUME IInv, NEW c \in Calls,
         call' \in [Calls -> CallRecord], \A b \in Calls : b # c => call'[b] = call[b],
         UNCHANGED <<config, contents>>, flagged' \subseteq Cells,
         call'[c].content = call[c].content, call'[c].result = call[c].result,
         call'[c].failed = call[c].failed,
         call'[c].pc # "handler", call'[c].pc = "done" => call'[c].layer = 0,
         call'[c].pc \in {"loop", "replace", "flag"} => call'[c].layer \in Capping(c) /\ ~Unread(c),
         call'[c].pc = "replace" => call'[c].seen > Cap(call'[c].layer),
         call'[c].pc \in {"replace", "flag"} => call'[c].item <= Len(contents[call[c].content]),
         ~Unread(c) =>
             \A i \in Capping(c) : \A j \in 1..Len(contents[call[c].content]) :
                 i > call'[c].layer \/ (i = call'[c].layer /\ Looked(c, j)') =>
                     Within(contents[call[c].content][j], i)
  PROVE  IInv'
<1>1. Unread(c)' = Unread(c) /\ \A b \in Calls : b # c => Unread(b)' = Unread(b)
  BY DEF Unread
<1>2. TypeOK'
  <2>1. \A b \in Calls : call'[b].pc \in {"replace", "flag"} =>
            call'[b].item <= Len(contents[call'[b].content])
    BY DEF IInv, TypeOK
  <2> QED
    BY <2>1 DEF IInv, TypeOK, CallRecord, Pcs, Items, config
<1>3. PlaceInv'
  <2> SUFFICES ASSUME NEW b \in Calls
               PROVE  /\ call'[b].content \in {0, b, NoResult}
                      /\ call'[b].result = NoResult => call'[b].content = NoResult
                      /\ call'[b].pc = "handler" => call'[b].content = NoResult /\ call'[b].layer = Len(stack)
                      /\ call'[b].pc = "done" => call'[b].layer = 0
                      /\ call'[b].pc \in {"loop", "replace", "flag"} =>
                            call'[b].layer \in Capping(b) /\ ~Unread(b)'
                      /\ call'[b].pc = "replace" => call'[b].seen > Cap(call'[b].layer)
    BY DEF PlaceInv, Capping, Cap, config
  <2> QED
    BY <1>1 DEF IInv, PlaceInv
<1>4. PassedInv'
  <2> SUFFICES ASSUME NEW b \in Calls, ~Unread(b)', NEW i \in Capping(b),
                      NEW j \in 1..Len(contents[call'[b].content]),
                      i > call'[b].layer \/ (i = call'[b].layer /\ Looked(b, j)')
               PROVE  Within(contents[call'[b].content][j], i)
    BY DEF PassedInv, Capping, Cap, Within, config
  <2>1. CASE b = c
    BY <1>1, <2>1
  <2>2. CASE b # c
    BY <1>1, <2>2 DEF IInv, PassedInv, Looked
  <2> QED
    BY <2>1, <2>2
<1> QED
  BY <1>2, <1>3, <1>4 DEF IInv

-----------------------------------------------------------------------------
(* A layer that does not cap the call is passed with nothing to show. *)
LEMMA PassLayer ==
  ASSUME IInv, NEW c \in Calls, call[c].pc = "layer", call[c].layer > 0, NextLayer(c),
         UNCHANGED <<config, contents, flagged>>,
         ~Unread(c) => call[c].layer \notin Capping(c)
  PROVE  IInv'
<1>1. /\ call[c].layer - 1 \in 0..Len(stack) /\ call[c].layer \in Int
      /\ call \in [Calls -> CallRecord]
  BY LayerType, Types
<1>2. /\ call' \in [Calls -> CallRecord] /\ \A b \in Calls : b # c => call'[b] = call[b]
      /\ call'[c].pc = "layer" /\ call'[c].layer = call[c].layer - 1
      /\ call'[c].content = call[c].content /\ call'[c].result = call[c].result
      /\ call'[c].failed = call[c].failed
  BY <1>1 DEF NextLayer, CallRecord, Pcs
<1>3. flagged' \subseteq Cells
  BY DEF IInv, TypeOK
<1>4. ASSUME ~Unread(c), NEW i \in Capping(c), NEW j \in 1..Len(contents[call[c].content]),
             i > call'[c].layer \/ (i = call'[c].layer /\ Looked(c, j)')
      PROVE  Within(contents[call[c].content][j], i)
  <2>1. i \in Int /\ i # call[c].layer
    BY <1>4, Types DEF Capping
  <2>2. i > call[c].layer
    BY <1>1, <1>2, <1>4, <2>1 DEF Looked
  <2> QED
    BY <1>4, <2>2 DEF IInv, PassedInv
<1> QED
  BY <1>2, <1>3, <1>4, OwnStep

LEMMA PassesIInv == ASSUME IInv, NEW c \in Calls, TimeoutPasses(c) \/ CapPasses(c) PROVE IInv'
<1>1. /\ call[c].pc = "layer" /\ call[c].layer > 0 /\ NextLayer(c)
      /\ UNCHANGED <<config, contents, flagged>>
  BY DEF TimeoutPasses, CapPasses, At
<1>2. ~Unread(c) => call[c].layer \notin Capping(c)
  BY <1>1, AppliesIsCapping DEF TimeoutPasses, CapPasses, At
<1> QED
  BY <1>1, <1>2, PassLayer

LEMMA CapLooksIInv == ASSUME IInv, NEW c \in Calls, CapLooks(c) PROVE IInv'
<1>1. /\ call[c].pc = "layer" /\ call[c].layer > 0 /\ ~Unread(c) /\ call[c].layer \in Capping(c)
      /\ UNCHANGED <<config, contents, flagged>>
  BY AppliesIsCapping DEF CapLooks, At
<1>2. call \in [Calls -> CallRecord]
  BY Types
<1>3. /\ call' \in [Calls -> CallRecord] /\ \A b \in Calls : b # c => call'[b] = call[b]
      /\ call'[c].pc = "loop" /\ call'[c].layer = call[c].layer /\ call'[c].item = 1
      /\ call'[c].content = call[c].content /\ call'[c].result = call[c].result
      /\ call'[c].failed = call[c].failed
  <2>1. call' = [call EXCEPT ![c].pc = "loop", ![c].item = 1] /\ 1 \in Nat \ {0}
    BY DEF CapLooks
  <2> QED
    BY <1>2, <2>1 DEF CallRecord, Pcs
<1>4. flagged' \subseteq Cells
  BY <1>1 DEF IInv, TypeOK
<1>5. ASSUME NEW i \in Capping(c), NEW j \in 1..Len(contents[call[c].content]),
             i > call'[c].layer \/ (i = call'[c].layer /\ Looked(c, j)')
      PROVE  Within(contents[call[c].content][j], i)
  <2>1. ~Looked(c, j)'
    BY <1>3 DEF Looked
  <2> QED
    BY <1>1, <1>3, <1>5, <2>1 DEF IInv, PassedInv
<1> QED
  BY <1>1, <1>3, <1>4, <1>5, OwnStep

(* The item is within the limit: the loop may leave it behind. *)
LEMMA KeepItemIInv == ASSUME IInv, NEW c \in Calls, KeepItem(c) PROVE IInv'
<1>1. /\ call[c].pc = "loop" /\ call[c].layer > 0 /\ ~Oversized(Current(c), Layer(c))
      /\ UNCHANGED <<config, contents, flagged>>
  BY DEF KeepItem, At
<1>2. call \in [Calls -> CallRecord] /\ call[c].item \in Nat \ {0}
  BY Types DEF CallRecord
<1>3. /\ call' \in [Calls -> CallRecord] /\ \A b \in Calls : b # c => call'[b] = call[b]
      /\ call'[c].pc = "loop" /\ call'[c].layer = call[c].layer /\ call'[c].item = call[c].item + 1
      /\ call'[c].content = call[c].content /\ call'[c].result = call[c].result
      /\ call'[c].failed = call[c].failed
  <2>1. call' = [call EXCEPT ![c].item = @ + 1] /\ call[c].item + 1 \in Nat \ {0}
    BY <1>2 DEF KeepItem
  <2> QED
    BY <1>1, <1>2, <2>1 DEF CallRecord, Pcs
<1>4. flagged' \subseteq Cells
  BY <1>1 DEF IInv, TypeOK
<1>5. ~Unread(c) /\ call[c].layer \in Capping(c) /\ call[c].content \in Cells
  BY <1>1, <1>2 DEF IInv, PlaceInv, Unread, CallRecord
<1>6. Within(Current(c), call[c].layer)
  <2>1. Limit(Layer(c)) = Cap(call[c].layer) /\ Cap(call[c].layer) \in Int
    BY <1>1, AppliesIsCapping
  <2>2. Current(c) \in ItemRecord
    BY <1>2, <1>5, Types DEF KeepItem, More, Current
  <2> QED
    BY <1>1, <2>1, <2>2 DEF Oversized, Within, ItemRecord
<1>7. ASSUME NEW i \in Capping(c), NEW j \in 1..Len(contents[call[c].content]),
             i > call'[c].layer \/ (i = call'[c].layer /\ Looked(c, j)')
      PROVE  Within(contents[call[c].content][j], i)
  <2>1. CASE i = call[c].layer /\ j = call[c].item
    BY <1>6, <2>1 DEF Current
  <2>2. CASE i > call[c].layer \/ (i = call[c].layer /\ j # call[c].item)
    <3>1. i = call[c].layer => j < call[c].item
      <4>1. call[c].layer \in Int
        BY <1>2 DEF CallRecord
      <4> QED
        BY <1>2, <1>3, <1>7, <2>2, <4>1 DEF Looked
    <3> QED
      BY <1>1, <1>5, <2>2, <3>1 DEF IInv, PassedInv, Looked
  <2> QED
    BY <1>3, <1>7, <2>1, <2>2
<1> QED
  BY <1>1, <1>3, <1>4, <1>5, <1>7, OwnStep

LEMMA RejectItemIInv == ASSUME IInv, NEW c \in Calls, RejectItem(c) PROVE IInv'
<1>1. /\ call[c].pc = "loop" /\ call[c].layer > 0 /\ Oversized(Current(c), Layer(c)) /\ More(c)
      /\ UNCHANGED <<config, contents, flagged>>
  BY DEF RejectItem, At
<1>2. call \in [Calls -> CallRecord] /\ call[c].item \in Nat \ {0}
  BY Types DEF CallRecord
<1>3. ~Unread(c) /\ call[c].layer \in Capping(c) /\ call[c].content \in Cells
  BY <1>1, <1>2 DEF IInv, PlaceInv, Unread, CallRecord
<1>4. Current(c) \in ItemRecord
  BY <1>1, <1>2, <1>3, Types DEF More, Current
<1>5. /\ call' \in [Calls -> CallRecord] /\ \A b \in Calls : b # c => call'[b] = call[b]
      /\ call'[c].pc = "replace" /\ call'[c].layer = call[c].layer /\ call'[c].item = call[c].item
      /\ call'[c].content = call[c].content /\ call'[c].result = call[c].result
      /\ call'[c].failed = call[c].failed /\ call'[c].seen = Current(c).size
  <2>1. Current(c).size \in Nat
    BY <1>4 DEF ItemRecord
  <2> QED
    BY <1>2, <2>1 DEF RejectItem, CallRecord, Pcs
<1>6. flagged' \subseteq Cells
  BY <1>1 DEF IInv, TypeOK
<1>7. call'[c].seen > Cap(call[c].layer)
  BY <1>1, <1>5, AppliesIsCapping DEF Oversized
<1>8. call[c].item <= Len(contents[call[c].content])
  BY <1>1 DEF More
<1>9. ASSUME NEW i \in Capping(c), NEW j \in 1..Len(contents[call[c].content]),
             i > call'[c].layer \/ (i = call'[c].layer /\ Looked(c, j)')
      PROVE  Within(contents[call[c].content][j], i)
  BY <1>1, <1>3, <1>5, <1>9 DEF IInv, PassedInv, Looked
<1> QED
  BY <1>1, <1>3, <1>5, <1>6, <1>7, <1>8, <1>9, OwnStep

LEMMA SetIsErrorIInv == ASSUME IInv, NEW c \in Calls, SetIsError(c) PROVE IInv'
<1>1. /\ call[c].pc = "flag" /\ call[c].layer > 0 /\ AfterItem(c)
      /\ UNCHANGED <<config, contents>> /\ flagged' = flagged \cup {call[c].result}
  BY DEF SetIsError, At
<1>2. call \in [Calls -> CallRecord] /\ call[c].item \in Nat \ {0}
  BY Types DEF CallRecord
<1>3. ~Unread(c) /\ call[c].layer \in Capping(c) /\ call[c].content # NoResult /\ call[c].result # NoResult
  BY <1>1 DEF IInv, PlaceInv, Unread
<1>4. /\ call' \in [Calls -> CallRecord] /\ \A b \in Calls : b # c => call'[b] = call[b]
      /\ call'[c].pc = "loop" /\ call'[c].layer = call[c].layer /\ call'[c].item = call[c].item + 1
      /\ call'[c].content = call[c].content /\ call'[c].result = call[c].result
      /\ call'[c].failed = call[c].failed
  BY <1>1, <1>2 DEF AfterItem, CallRecord, Pcs
<1>5. flagged' \subseteq Cells
  BY <1>1, <1>2, <1>3 DEF IInv, TypeOK, CallRecord
<1>6. ASSUME NEW i \in Capping(c), NEW j \in 1..Len(contents[call[c].content]),
             i > call'[c].layer \/ (i = call'[c].layer /\ Looked(c, j)')
      PROVE  Within(contents[call[c].content][j], i)
  <2>1. Looked(c, j)' => Looked(c, j)
    BY <1>1, <1>2, <1>4 DEF Looked
  <2> QED
    BY <1>3, <1>4, <1>6, <2>1 DEF IInv, PassedInv
<1> QED
  BY <1>1, <1>3, <1>4, <1>5, <1>6, OwnStep

(* The loop has come to the end: every item has been looked at. *)
LEMMA CapReturnsIInv == ASSUME IInv, NEW c \in Calls, CapReturns(c) PROVE IInv'
<1>1. /\ call[c].pc = "loop" /\ call[c].layer > 0 /\ ~More(c) /\ NextLayer(c)
      /\ UNCHANGED <<config, contents, flagged>>
  BY DEF CapReturns, At
<1>2. /\ call \in [Calls -> CallRecord] /\ call[c].item \in Nat \ {0}
      /\ call[c].layer - 1 \in 0..Len(stack) /\ call[c].layer \in Int
  BY <1>1, Types, LayerType DEF CallRecord
<1>3. ~Unread(c) /\ call[c].content \in Cells
  BY <1>1, <1>2 DEF IInv, PlaceInv, Unread, CallRecord
<1>4. /\ call' \in [Calls -> CallRecord] /\ \A b \in Calls : b # c => call'[b] = call[b]
      /\ call'[c].pc = "layer" /\ call'[c].layer = call[c].layer - 1
      /\ call'[c].content = call[c].content /\ call'[c].result = call[c].result
      /\ call'[c].failed = call[c].failed
  BY <1>1, <1>2 DEF NextLayer, CallRecord, Pcs
<1>5. flagged' \subseteq Cells
  BY <1>1 DEF IInv, TypeOK
<1>6. ASSUME NEW i \in Capping(c), NEW j \in 1..Len(contents[call[c].content]),
             i > call'[c].layer \/ (i = call'[c].layer /\ Looked(c, j)')
      PROVE  Within(contents[call[c].content][j], i)
  <2>1. Looked(c, j)
    BY <1>1, <1>2, <1>3, Types DEF More, Looked
  <2>2. i \in Int /\ i >= call[c].layer
    BY <1>2, <1>4, <1>6, Types DEF Capping, Looked
  <2> QED
    BY <1>2, <1>3, <2>1, <2>2 DEF IInv, PassedInv
<1> QED
  BY <1>1, <1>3, <1>4, <1>5, <1>6, OwnStep

LEMMA ReturnIInv == ASSUME IInv, NEW c \in Calls, Return(c) PROVE IInv'
<1>1. call[c].pc = "layer" /\ call[c].layer = 0 /\ UNCHANGED <<config, contents, flagged>>
  BY DEF Return
<1>2. call \in [Calls -> CallRecord]
  BY Types
<1>3. /\ call' \in [Calls -> CallRecord] /\ \A b \in Calls : b # c => call'[b] = call[b]
      /\ call'[c].pc = "done" /\ call'[c].layer = call[c].layer
      /\ call'[c].content = call[c].content /\ call'[c].result = call[c].result
      /\ call'[c].failed = call[c].failed
  BY <1>2 DEF Return, Goto, CallRecord, Pcs
<1>4. flagged' \subseteq Cells
  BY <1>1 DEF IInv, TypeOK
<1>5. ASSUME ~Unread(c), NEW i \in Capping(c), NEW j \in 1..Len(contents[call[c].content]),
             i > call'[c].layer \/ (i = call'[c].layer /\ Looked(c, j)')
      PROVE  Within(contents[call[c].content][j], i)
  BY <1>3, <1>5 DEF IInv, PassedInv, Looked
<1> QED
  BY <1>1, <1>3, <1>4, <1>5, OwnStep

-----------------------------------------------------------------------------
(* A step of one call that puts a new content into its own cell: no other  *)
(* call reads that cell.                                                   *)
LEMMA PrivateStep ==
  ASSUME IInv, NEW c \in Calls, UNCHANGED config, flagged' \subseteq Cells,
         call' \in [Calls -> CallRecord], \A b \in Calls : b # c => call'[b] = call[b],
         contents' \in [Cells -> Seq(ItemRecord)],
         \A k \in Cells : k # c => contents'[k] = contents[k],
         \A j \in 1..Len(contents'[c]) :
             contents'[c][j].by = "cap" => contents'[c][j].limit > 0 /\ contents'[c][j].bytes > contents'[c][j].limit,
         call'[c].pc = "layer", call'[c].content \in {0, c, NoResult},
         call'[c].result = NoResult => call'[c].content = NoResult,
         ~Unread(c)' => \A i \in Capping(c) : \A j \in 1..Len(contents'[call'[c].content]) :
             i > call'[c].layer => Within(contents'[call'[c].content][j], i)
  PROVE  IInv'
<1>1. \A b \in Calls : b # c => (Unread(b)' = Unread(b) /\ \A j : Looked(b, j)' = Looked(b, j))
  BY DEF Unread, Looked
<1>2. ASSUME NEW b \in Calls, b # c, ~Unread(b)
      PROVE  contents'[call[b].content] = contents[call[b].content]
  <2>1. call[b].content \in {0, b} /\ 0 \in Cells /\ b \in Cells /\ c # 0
    BY <1>2, Types DEF IInv, PlaceInv, Unread
  <2> QED
    BY <1>2, <2>1
<1>3. TypeOK'
  <2>1. ASSUME NEW b \in Calls, call'[b].pc \in {"replace", "flag"}
        PROVE  call'[b].item <= Len(contents'[call'[b].content])
    <3>1. b # c /\ call'[b] = call[b]
      BY <2>1
    <3>2. ~Unread(b)
      BY <2>1, <3>1 DEF IInv, PlaceInv
    <3>3. call[b].item <= Len(contents[call[b].content])
      BY <2>1, <3>1 DEF IInv, TypeOK
    <3>4. contents'[call[b].content] = contents[call[b].content]
      BY <1>2, <3>1, <3>2
    <3> QED
      BY <3>1, <3>3, <3>4
  <2>2. ASSUME NEW k \in Cells, NEW t \in Items(k)', t.by = "cap" PROVE t.limit > 0 /\ t.bytes > t.limit
    <3>1. CASE k = c
      BY <2>2, <3>1 DEF Items
    <3>2. CASE k # c
      <4>1. t \in Items(k)
        BY <2>2, <3>2 DEF Items
      <4> QED
        BY <2>2, <4>1 DEF IInv, TypeOK
    <3> QED
      BY <3>1, <3>2
  <2> QED
    BY <2>1, <2>2 DEF IInv, TypeOK, CallRecord, Pcs, config
<1>4. PlaceInv'
  <2> SUFFICES ASSUME NEW b \in Calls
               PROVE  /\ call'[b].content \in {0, b, NoResult}
                      /\ call'[b].result = NoResult => call'[b].content = NoResult
                      /\ call'[b].pc = "handler" => call'[b].content = NoResult /\ call'[b].layer = Len(stack)
                      /\ call'[b].pc = "done" => call'[b].layer = 0
                      /\ call'[b].pc \in {"loop", "replace", "flag"} =>
                            call'[b].layer \in Capping(b) /\ ~Unread(b)'
                      /\ call'[b].pc = "replace" => call'[b].seen > Cap(call'[b].layer)
    BY DEF PlaceInv, Capping, Cap, config
  <2> QED
    BY <1>1 DEF IInv, PlaceInv
<1>5. PassedInv'
  <2> SUFFICES ASSUME NEW b \in Calls, ~Unread(b)', NEW i \in Capping(b),
                      NEW j \in 1..Len(contents'[call'[b].content]),
                      i > call'[b].layer \/ (i = call'[b].layer /\ Looked(b, j)')
               PROVE  Within(contents'[call'[b].content][j], i)
    BY DEF PassedInv, Capping, Cap, Within, config
  <2>1. CASE b = c
    BY <2>1 DEF Looked
  <2>2. CASE b # c
    <3>1. contents'[call[b].content] = contents[call[b].content] /\ call'[b] = call[b] /\ ~Unread(b)
      BY <1>1, <1>2, <2>2
    <3> QED
      BY <1>1, <2>2, <3>1 DEF IInv, PassedInv
  <2> QED
    BY <2>1, <2>2
<1> QED
  BY <1>3, <1>4, <1>5 DEF IInv

LEMMA HandlerReturnsIInv == ASSUME IInv, NEW c \in Calls, HandlerReturns(c) PROVE IInv'
<1> DEFINE body == IF share = "nothing" THEN c ELSE 0
           head == IF share = "result" THEN 0 ELSE c
<1>1. /\ call[c].pc = "handler" /\ UNCHANGED config /\ call[c].layer = Len(stack)
      /\ call' = [call EXCEPT ![c].pc = "layer", ![c].failed = answer.errs,
                             ![c].content = IF answer.made THEN body ELSE NoResult,
                             ![c].result = IF answer.made THEN head ELSE NoResult]
      /\ contents' = IF answer.made /\ body = c THEN [contents EXCEPT ![c] = answer.content] ELSE contents
      /\ flagged' = IF answer.isError /\ head = c THEN flagged \cup {c} ELSE flagged
  BY DEF HandlerReturns, IInv, PlaceInv
<1>2. /\ answer.errs \in BOOLEAN /\ answer.content \in Seq({t \in ItemRecord : t.by = "tool"})
  BY AnswersAssumption DEF IInv, TypeOK
<1>3. {t \in ItemRecord : t.by = "tool"} \subseteq ItemRecord
  OBVIOUS
<1>4. /\ answer.content \in Seq(ItemRecord)
      /\ \A j \in 1..Len(answer.content) : answer.content[j].by = "tool"
  <2>1. answer.content \in Seq(ItemRecord)
    BY <1>2, <1>3, SeqMonotonic
  <2>2. \A j \in 1..Len(answer.content) : answer.content[j] \in {t \in ItemRecord : t.by = "tool"}
    BY <1>2, ElementOfSeq
  <2> QED
    BY <2>1, <2>2
<1>5. /\ call \in [Calls -> CallRecord] /\ contents \in [Cells -> Seq(ItemRecord)]
      /\ c # 0 /\ c # NoResult /\ c \in Cells /\ 0 \in Cells /\ NoResult # 0
  BY Types
<1>6. /\ call' \in [Calls -> CallRecord] /\ \A b \in Calls : b # c => call'[b] = call[b]
      /\ call'[c].pc = "layer" /\ call'[c].layer = Len(stack)
      /\ call'[c].content \in {0, c, NoResult}
      /\ call'[c].result = NoResult => call'[c].content = NoResult
  <2> DEFINE content == IF answer.made THEN body ELSE NoResult
             result == IF answer.made THEN head ELSE NoResult
             r == [call[c] EXCEPT !.pc = "layer", !.failed = answer.errs, !.content = content, !.result = result]
  <2>1. content \in {0, c, NoResult} /\ result \in {0, c, NoResult} /\ (result = NoResult => content = NoResult)
    BY <1>5
  <2>2. call' = [call EXCEPT ![c] = r]
    BY <1>1, Zenon
  <2> HIDE DEF content, result
  <2>3. call[c] \in CallRecord /\ call[c].layer = Len(stack)
    BY <1>1, <1>5
  <2>4. content \in Cells \cup {NoResult} /\ result \in Cells \cup {NoResult}
    BY <1>5, <2>1
  <2>5. r \in CallRecord
    BY <1>2, <2>3, <2>4 DEF CallRecord, Pcs
  <2>6. r.pc = "layer" /\ r.layer = Len(stack) /\ r.content = content /\ r.result = result
    BY <2>3 DEF CallRecord
  <2> HIDE DEF r
  <2> QED
    BY <1>5, <2>1, <2>2, <2>5, <2>6
<1>7. /\ contents' \in [Cells -> Seq(ItemRecord)]
      /\ \A k \in Cells : k # c => contents'[k] = contents[k]
      /\ contents'[c] = answer.content \/ contents'[c] = contents[c]
  BY <1>1, <1>4, <1>5
<1>8. \A j \in 1..Len(contents'[c]) :
          contents'[c][j].by = "cap" => contents'[c][j].limit > 0 /\ contents'[c][j].bytes > contents'[c][j].limit
  BY <1>4, <1>5, <1>7 DEF IInv, TypeOK, Items
<1>9. flagged' \subseteq Cells
  BY <1>1, <1>5 DEF IInv, TypeOK
<1>10. \A i \in Capping(c) : ~(i > call'[c].layer)
  BY <1>6, Types DEF Capping
<1> QED
  BY <1>1, <1>6, <1>7, <1>8, <1>9, <1>10, PrivateStep

LEMMA TimeoutReplacesIInv == ASSUME IInv, NEW c \in Calls, TimeoutReplaces(c) PROVE IInv'
<1>1. /\ call[c].layer > 0 /\ call[c].pc = "layer" /\ UNCHANGED config
      /\ call' = [call EXCEPT ![c].layer = @ - 1, ![c].failed = FALSE, ![c].content = c, ![c].result = c]
      /\ contents' = [contents EXCEPT ![c] = <<TimedOut>>] /\ flagged' = flagged \cup {c}
  BY DEF TimeoutReplaces, At
<1>2. /\ call \in [Calls -> CallRecord] /\ contents \in [Cells -> Seq(ItemRecord)]
      /\ c # NoResult /\ c \in Cells /\ call[c].layer - 1 \in 0..Len(stack)
  BY <1>1, Types, LayerType
<1>3. TimedOut \in ItemRecord /\ TimedOut.by = "timeout"
  BY SizesAssumption DEF TimedOut, Item, ItemRecord
<1>4. <<TimedOut>> \in Seq(ItemRecord) /\ \A j \in 1..Len(<<TimedOut>>) : <<TimedOut>>[j] = TimedOut
  BY <1>3
<1>5. /\ contents' \in [Cells -> Seq(ItemRecord)] /\ contents'[c] = <<TimedOut>>
      /\ \A k \in Cells : k # c => contents'[k] = contents[k]
  BY <1>1, <1>2, <1>4
<1>6. /\ call' \in [Calls -> CallRecord] /\ \A b \in Calls : b # c => call'[b] = call[b]
      /\ call'[c].pc = "layer" /\ call'[c].content = c /\ call'[c].result = c
  <2> DEFINE r == [call[c] EXCEPT !.layer = @ - 1, !.failed = FALSE, !.content = c, !.result = c]
  <2>1. call' = [call EXCEPT ![c] = r]
    BY <1>1, Zenon
  <2>2. call[c] \in CallRecord /\ c \in Cells \cup {NoResult} /\ FALSE \in BOOLEAN
    BY <1>2
  <2>3. r \in CallRecord
    BY <1>2, <2>2 DEF CallRecord, Pcs
  <2>4. r.pc = "layer" /\ r.content = c /\ r.result = c
    BY <1>1, <2>2 DEF CallRecord
  <2> HIDE DEF r
  <2> QED
    BY <1>2, <2>1, <2>3, <2>4
<1>7. flagged' \subseteq Cells
  BY <1>1, <1>2 DEF IInv, TypeOK
<1>8. \A j \in 1..Len(contents'[c]) : contents'[c][j].by = "timeout"
  BY <1>3, <1>4, <1>5
<1> QED
  BY <1>1, <1>2, <1>5, <1>6, <1>7, <1>8, PrivateStep DEF Within

(* The rejection takes the item's place under every call that reads it. *)
LEMMA ReplaceItemIInv == ASSUME IInv, NEW c \in Calls, ReplaceItem(c) PROVE IInv'
<1> DEFINE k == call[c].content
           j == call[c].item
           e == Error(call[c].seen, Limit(Layer(c)))
<1>1. /\ call[c].pc = "replace" /\ call[c].layer > 0 /\ Goto(c, "flag") /\ UNCHANGED <<config, flagged>>
      /\ contents' = [contents EXCEPT ![k][j] = e]
  BY DEF ReplaceItem, At
<1>2. /\ call \in [Calls -> CallRecord] /\ contents \in [Cells -> Seq(ItemRecord)]
      /\ j \in Nat \ {0} /\ call[c].seen \in Nat
  BY Types DEF CallRecord
<1>3. ~Unread(c) /\ call[c].layer \in Capping(c) /\ call[c].seen > Cap(call[c].layer) /\ k \in Cells
  BY <1>1, <1>2 DEF IInv, PlaceInv, Unread, CallRecord
<1>4. j \in 1..Len(contents[k])
  BY <1>1, <1>2, <1>3, Types DEF IInv, TypeOK
<1>5. e \in ItemRecord /\ e.by = "cap" /\ e.limit > 0 /\ e.bytes > e.limit
  <2>1. Limit(Layer(c)) = Cap(call[c].layer) /\ Cap(call[c].layer) \in Int /\ Cap(call[c].layer) > 0
    BY <1>1, <1>3, AppliesIsCapping
  <2> QED
    BY <1>2, <1>3, <2>1, SizesAssumption DEF Error, Item, ItemRecord
<1> HIDE DEF e
<1>6. [contents[k] EXCEPT ![j] = e] \in Seq(ItemRecord)
      /\ Len([contents[k] EXCEPT ![j] = e]) = Len(contents[k])
      /\ \A m \in 1..Len(contents[k]) : [contents[k] EXCEPT ![j] = e][m] = IF m = j THEN e ELSE contents[k][m]
  BY <1>2, <1>3, <1>4, <1>5, ExceptSeq
<1>7. contents' = [contents EXCEPT ![k] = [contents[k] EXCEPT ![j] = e]]
  BY <1>1
<1>8. /\ contents' \in [Cells -> Seq(ItemRecord)]
      /\ \A x \in Cells : Len(contents'[x]) = Len(contents[x])
      /\ \A x \in Cells : \A m \in 1..Len(contents[x]) : contents'[x][m] = contents[x][m] \/ contents'[x][m] = e
      /\ contents'[k][j] = e
  BY <1>2, <1>3, <1>4, <1>6, <1>7
<1>9. /\ call' \in [Calls -> CallRecord] /\ \A b \in Calls : b # c => call'[b] = call[b]
      /\ call'[c].pc = "flag" /\ call'[c].layer = call[c].layer /\ call'[c].item = call[c].item
      /\ call'[c].content = call[c].content /\ call'[c].result = call[c].result
      /\ call'[c].failed = call[c].failed
  BY <1>1, <1>2 DEF Goto, CallRecord, Pcs
<1>10. \A b \in Calls : Unread(b)' = Unread(b) /\ call'[b].content = call[b].content
                        /\ call'[b].layer = call[b].layer /\ call'[b].item = call[b].item
  BY <1>9 DEF Unread
<1>11. \A b \in Calls : ~Unread(b) => call[b].content \in Cells
  BY <1>2 DEF Unread, CallRecord
<1>12. TypeOK'
  <2>1. ASSUME NEW b \in Calls, call'[b].pc \in {"replace", "flag"}
        PROVE  call'[b].item <= Len(contents'[call'[b].content])
    <3>1. call[b].pc \in {"replace", "flag"}
      BY <1>1, <1>9, <2>1
    <3>2. ~Unread(b)
      BY <3>1 DEF IInv, PlaceInv
    <3> QED
      BY <1>8, <1>10, <1>11, <3>1, <3>2 DEF IInv, TypeOK
  <2>2. ASSUME NEW x \in Cells, NEW t \in Items(x)', t.by = "cap" PROVE t.limit > 0 /\ t.bytes > t.limit
    <3>1. t = e \/ t \in Items(x)
      BY <1>8, <2>2 DEF Items
    <3> QED
      BY <1>5, <2>2, <3>1 DEF IInv, TypeOK
  <2> QED
    BY <1>1, <1>8, <1>9, <2>1, <2>2 DEF IInv, TypeOK, CallRecord, Pcs, config
<1>13. PlaceInv'
  <2> SUFFICES ASSUME NEW b \in Calls
               PROVE  /\ call'[b].content \in {0, b, NoResult}
                      /\ call'[b].result = NoResult => call'[b].content = NoResult
                      /\ call'[b].pc = "handler" => call'[b].content = NoResult /\ call'[b].layer = Len(stack)
                      /\ call'[b].pc = "done" => call'[b].layer = 0
                      /\ call'[b].pc \in {"loop", "replace", "flag"} =>
                            call'[b].layer \in Capping(b) /\ ~Unread(b)'
                      /\ call'[b].pc = "replace" => call'[b].seen > Cap(call'[b].layer)
    BY <1>1 DEF PlaceInv, Capping, Cap, config
  <2> QED
    BY <1>1, <1>9, <1>10 DEF IInv, PlaceInv
<1>14. PassedInv'
  <2> SUFFICES ASSUME NEW b \in Calls, ~Unread(b), NEW i \in Capping(b),
                      NEW m \in 1..Len(contents[call[b].content]),
                      i > call[b].layer \/ (i = call[b].layer /\ Looked(b, m)')
               PROVE  Within(contents'[call[b].content][m], i)
    BY <1>1, <1>8, <1>10, <1>11 DEF PassedInv, Capping, Cap, Within, config
  <2>1. CASE contents'[call[b].content][m] = e
    BY <1>5, <2>1 DEF Within
  <2>2. CASE contents'[call[b].content][m] # e
    <3>1. contents'[call[b].content][m] = contents[call[b].content][m]
      BY <1>8, <1>11, <2>2
    <3>2. Looked(b, m)' => Looked(b, m)
      BY <1>1, <1>8, <1>9, <2>2 DEF Looked
    <3> QED
      BY <3>1, <3>2 DEF IInv, PassedInv
  <2> QED
    BY <2>1, <2>2
<1> QED
  BY <1>12, <1>13, <1>14 DEF IInv

-----------------------------------------------------------------------------
LEMMA NextIInv == ASSUME IInv, [Next]_vars PROVE IInv'
<1>1. CASE UNCHANGED vars
  BY <1>1, StutterIInv
<1>2. CASE Next
  <2> PICK c \in Calls : \/ HandlerReturns(c)
                        \/ TimeoutReplaces(c) \/ TimeoutPasses(c)
                        \/ CapPasses(c) \/ CapLooks(c)
                        \/ KeepItem(c) \/ RejectItem(c) \/ ReplaceItem(c) \/ SetIsError(c)
                        \/ CapReturns(c) \/ Return(c)
    BY <1>2, CallsAssumption DEF Next, Active
  <2> QED
    BY HandlerReturnsIInv, TimeoutReplacesIInv, PassesIInv, CapLooksIInv, KeepItemIInv, RejectItemIInv,
       ReplaceItemIInv, SetIsErrorIInv, CapReturnsIInv, ReturnIInv
<1> QED
  BY <1>1, <1>2

(* The invariant holds in every reachable state. *)
THEOREM Invariance == Spec => []IInv
  BY InitIInv, NextIInv, PTL DEF Spec

(* Every variable keeps its type; a rejection always tells a size over a   *)
(* limit that is not zero (responsecap.go:47-71, 78-81).                   *)
THEOREM TypeCorrect == Spec => []TypeOK
<1>1. IInv => TypeOK  BY DEF IInv
<1> QED
  BY Invariance, <1>1, PTL

(* No text of the tool's own gets past the limit of a layer that caps the  *)
(* call, whatever the order of the layers and however many calls edit one  *)
(* content slice at once (responsecap.go:95-111).                          *)
THEOREM OversizedNeverPasses == Spec => []NothingOversized
<1>1. ASSUME IInv PROVE NothingOversized
  <2> SUFFICES ASSUME NEW c \in Calls, call[c].pc = "done", ~Unread(c),
                      NEW j \in 1..Len(contents[call[c].content]), NEW i \in Capping(c)
               PROVE  Within(contents[call[c].content][j], i)
    BY DEF NothingOversized, Items, Within
  <2>1. call[c].layer = 0 /\ i > 0
    BY <1>1, Types DEF IInv, PlaceInv, Capping
  <2> QED
    BY <1>1, <2>1 DEF IInv, PassedInv
<1> QED
  BY Invariance, <1>1, PTL

-----------------------------------------------------------------------------
(* What the caller of a tool is shown, exactly: the invariant ExactInv of  *)
(* ToolCall, on top of IInv, and ResultIsExact.                            *)

(* What the layers make of an item, layer by layer. *)
LEMMA ShownAtFirst ==
  ASSUME IInv, NEW c \in Calls, NEW t
  PROVE  ShownAs(c, t, t, Len(stack))
<1>1. \A i \in Capping(c) : ~(i > Len(stack))
  BY Types DEF Capping
<1> QED
  BY <1>1 DEF ShownAs

(* A layer that does not cap the call, or whose limit the tool's item does *)
(* not exceed, changes nothing of what is shown.                           *)
LEMMA ShownPassed ==
  ASSUME IInv, NEW c \in Calls, NEW t, NEW u, NEW k \in 1..Len(stack), ShownAs(c, t, u, k),
         k \notin Capping(c) \/ ~Over(t, k)
  PROVE  ShownAs(c, t, u, k - 1)
<1>1. Capping(c) \subseteq Int /\ k \in Int
  BY Types DEF Capping
<1>2. {i \in Capping(c) : i > k - 1 /\ Over(t, i)} = {i \in Capping(c) : i > k /\ Over(t, i)}
  BY <1>1
<1> QED
  BY <1>2, Zenon DEF ShownAs

(* A rejection fits a roomy layer, so the innermost verdict stays. *)
LEMMA ShownKept ==
  ASSUME IInv, NEW c \in Calls, NEW t, NEW u, NEW k \in Capping(c), Roomy(c), ShownAs(c, t, u, k), ~Over(u, k)
  PROVE  ShownAs(c, t, u, k - 1)
<1>1. Capping(c) \subseteq Int /\ k \in 1..Len(stack)
  BY Types DEF Capping
<1>2. CASE u = t
  BY <1>1, <1>2, ShownPassed
<1>3. CASE \E i \in Capping(c) : /\ i > k /\ Over(t, i) /\ u = Error(t.size, Cap(i))
                                 /\ \A m \in Capping(c) : m > k /\ Over(t, m) => m <= i
  <2>1. PICK i \in Capping(c) : /\ i > k /\ Over(t, i) /\ u = Error(t.size, Cap(i))
                                /\ \A m \in Capping(c) : m > k /\ Over(t, m) => m <= i
    BY <1>3
  <2>2. i > k - 1 /\ \A m \in Capping(c) : m > k - 1 /\ Over(t, m) => m <= i
    BY <1>1, <2>1
  <2> QED
    BY <2>1, <2>2 DEF ShownAs
<1> QED
  BY <1>2, <1>3 DEF ShownAs

(* Only an item that no layer has touched is rejected, by its own size. *)
LEMMA ShownRejected ==
  ASSUME IInv, NEW c \in Calls, NEW t, NEW u, NEW k \in Capping(c), Roomy(c), ShownAs(c, t, u, k), Over(u, k)
  PROVE  u = t /\ ShownAs(c, t, Error(t.size, Cap(k)), k - 1)
<1>1. Capping(c) \subseteq Int /\ k \in 1..Len(stack) /\ Cap(k) \in Int
  <2>1. k \in 1..Len(stack)
    BY DEF Capping
  <2>2. stack[k] \in LayerRecord
    BY <2>1, Types
  <2> QED
    BY <2>1, <2>2, Types, SizesAssumption DEF Capping, Cap, LayerRecord
<1>2. \A n, l : u # Error(n, l)
  BY <1>1, SizesAssumption DEF Roomy, Over, Error, Item
<1>3. u = t /\ \A i \in Capping(c) : ~(i > k /\ Over(t, i))
  BY <1>2 DEF ShownAs
<1>4. \A i \in Capping(c) : i > k - 1 /\ Over(t, i) => i <= k
  BY <1>1, <1>3
<1>5. k > k - 1 /\ Over(t, k)
  BY <1>1, <1>3
<1> QED
  BY <1>3, <1>4, <1>5 DEF ShownAs

(* The configuration stays, and with it what would be shown. *)
LEMMA ConfigStays ==
  ASSUME UNCHANGED config, NEW c
  PROVE  /\ stack' = stack /\ answer' = answer /\ share' = share /\ Capping(c)' = Capping(c)
         /\ Roomy(c)' = Roomy(c) /\ \A i : Cap(i)' = Cap(i)
         /\ \A t, u, k : ShownAs(c, t, u, k)' = ShownAs(c, t, u, k)
<1>1. stack' = stack /\ answer' = answer /\ share' = share /\ overrides' = overrides
  BY DEF config
<1>2. \A i : Cap(i)' = Cap(i)
  BY <1>1 DEF Cap
<1>3. Capping(c)' = Capping(c)
  BY <1>1 DEF Capping
<1>4. Roomy(c)' = Roomy(c)
  BY <1>2, <1>3 DEF Roomy
<1>5. ASSUME NEW t, NEW u, NEW k PROVE ShownAs(c, t, u, k)' = ShownAs(c, t, u, k)
  <2>1. \A i : Over(t, i)' = Over(t, i)
    BY <1>2 DEF Over
  <2> QED
    BY <1>2, <1>3, <2>1 DEF ShownAs
<1> QED
  BY <1>1, <1>2, <1>3, <1>4, <1>5

(* The calls that do not take the step keep what they have. *)
LEMMA OthersStay ==
  ASSUME NEW c \in Calls, ExactCall(c), UNCHANGED config, call'[c] = call[c], contents'[c] = contents[c],
         c \in flagged' <=> c \in flagged
  PROVE  ExactCall(c)'
<1>1. Changed(c)' = Changed(c)
  BY ConfigStays DEF Changed
<1>2. \A j : Past(c, j)' = Past(c, j)
  BY DEF Past, Looked
<1>3. PassedOn(c) => PassedOn(c)'
  BY ConfigStays DEF PassedOn
<1>4. GivenUp(c) => GivenUp(c)'
  BY ConfigStays DEF GivenUp, TimedOut, Item
<1>5. Edited(c) => Edited(c)'
  <2>1. \A n, l : Error(n, l)' = Error(n, l)
    BY DEF Error, Item
  <2> SUFFICES ASSUME Edited(c) PROVE Edited(c)'
    OBVIOUS
  <2>2. \A j \in 1..Len(answer'.content) : ShownAs(c, answer.content[j], contents[c][j], Past(c, j))'
    <3>1. ASSUME NEW j \in 1..Len(answer.content)
          PROVE  ShownAs(c, answer.content[j], contents[c][j], Past(c, j))'
      <4>1. ShownAs(c, answer.content[j], contents[c][j], Past(c, j))
        BY DEF Edited
      <4>2. /\ answer'.content[j] = answer.content[j] /\ contents'[c][j] = contents[c][j]
            /\ Past(c, j)' = Past(c, j)
        BY <1>2, ConfigStays
      <4> QED
        BY <4>1, <4>2, ConfigStays
    <3> QED
      BY <3>1, ConfigStays
  <2>3. call'[c].pc = "replace" =>
          /\ contents'[c][call'[c].item] = answer'.content[call'[c].item]
          /\ ShownAs(c, answer.content[call[c].item], Error(call[c].seen, Cap(call[c].layer)), call[c].layer - 1)'
    <3> SUFFICES ASSUME call[c].pc = "replace"
                 PROVE  /\ contents[c][call[c].item] = answer.content[call[c].item]
                        /\ ShownAs(c, answer.content[call[c].item],
                                   Error(call[c].seen, Cap(call[c].layer)), call[c].layer - 1)'
      BY ConfigStays
    <3>1. /\ contents[c][call[c].item] = answer.content[call[c].item]
          /\ ShownAs(c, answer.content[call[c].item],
                     Error(call[c].seen, Cap(call[c].layer)), call[c].layer - 1)
      BY DEF Edited
    <3>2. /\ answer'.content[call'[c].item] = answer.content[call[c].item]
          /\ Error(call[c].seen, Cap(call[c].layer))' = Error(call[c].seen, Cap(call[c].layer))
      BY <2>1, ConfigStays
    <3> QED
      BY <3>1, <3>2, ConfigStays
  <2>4. c \in flagged' <=> answer'.isError \/ \E j \in Changed(c)' : call'[c].pc = "flag" => j # call'[c].item
    BY <1>1, ConfigStays DEF Edited
  <2> QED
    BY <1>1, <2>1, <2>2, <2>3, <2>4, ConfigStays DEF Edited
<1> QED
  BY <1>3, <1>4, <1>5, ConfigStays DEF ExactCall

LEMMA ExactStep ==
  ASSUME ExactInv, share = "nothing", NEW c \in Calls, UNCHANGED config, ExactCall(c)',
         \A b \in Calls : b # c => /\ call'[b] = call[b] /\ contents'[b] = contents[b]
                                   /\ b \in flagged' <=> b \in flagged
  PROVE  ExactInv'
<1>1. ASSUME NEW b \in Calls, b # c PROVE ExactCall(b)'
  BY <1>1, OthersStay DEF ExactInv
<1> QED
  BY <1>1 DEF ExactInv

-----------------------------------------------------------------------------
LEMMA InitExact == Init => ExactInv
<1> SUFFICES ASSUME Init, NEW c \in Calls PROVE ExactCall(c)
  BY DEF ExactInv
<1> QED
  BY CallsAssumption DEF Init, ExactCall

(* A step of one call that leaves its result as it is. *)
LEMMA QuietStep ==
  ASSUME IInv, ExactInv, share = "nothing", NEW c \in Calls,
         call' \in [Calls -> CallRecord], \A b \in Calls : b # c => call'[b] = call[b],
         UNCHANGED <<config, contents, flagged>>,
         call'[c].content = call[c].content, call'[c].result = call[c].result,
         call'[c].failed = call[c].failed,
         call[c].pc \notin {"handler", "flag"}, call'[c].pc \notin {"handler", "flag"},
         call'[c].pc = "replace" /\ Roomy(c) => ~GivenUp(c),
         Roomy(c) /\ Edited(c) =>
            /\ \A j \in 1..Len(answer.content) : ShownAs(c, answer.content[j], contents[c][j], Past(c, j)')
            /\ call'[c].pc = "replace" =>
                 /\ contents[c][call'[c].item] = answer.content[call'[c].item]
                 /\ ShownAs(c, answer.content[call'[c].item],
                            Error(call'[c].seen, Cap(call'[c].layer)), call'[c].layer - 1)
  PROVE  ExactInv'
<1>1. ExactCall(c)
  BY DEF ExactInv
<1>2. Changed(c)' = Changed(c) /\ UNCHANGED config
  BY ConfigStays DEF Changed
<1>3. PassedOn(c) => PassedOn(c)'
  BY <1>2, ConfigStays DEF PassedOn
<1>4. Roomy(c) /\ GivenUp(c) => GivenUp(c)'
  BY <1>2, ConfigStays DEF GivenUp, TimedOut, Item
<1>5. Roomy(c) /\ Edited(c) => Edited(c)'
  <2> SUFFICES ASSUME Roomy(c), Edited(c) PROVE Edited(c)'
    OBVIOUS
  <2>1. \A j \in 1..Len(answer.content) : ShownAs(c, answer.content[j], contents[c][j], Past(c, j)')
    OBVIOUS
  <2>2. c \in flagged <=> answer.isError \/ \E j \in Changed(c) : TRUE
    BY DEF Edited
  <2>3. \A n, l : Error(n, l)' = Error(n, l)
    BY DEF Error, Item
  <2> QED
    BY <1>2, <2>1, <2>2, <2>3, ConfigStays DEF Edited
<1>6. ExactCall(c)'
  BY <1>1, <1>2, <1>3, <1>4, <1>5, ConfigStays DEF ExactCall
<1> QED
  BY <1>2, <1>6, ExactStep

-----------------------------------------------------------------------------
(* The steps that only look, or leave a layer. *)

(* What a call that is being edited is, in every layer. *)
LEMMA EditedFacts ==
  ASSUME IInv, NEW c \in Calls, Edited(c)
  PROVE  /\ ~Unread(c) /\ call[c].content = c /\ call[c].result = c
         /\ contents[c] \in Seq(ItemRecord) /\ Len(contents[c]) = Len(answer.content)
         /\ \A j \in 1..Len(answer.content) :
               ShownAs(c, answer.content[j], contents[c][j], Past(c, j))
<1>1. c \in Cells /\ c # NoResult /\ contents \in [Cells -> Seq(ItemRecord)]
  BY Types
<1> QED
  BY <1>1 DEF Edited, Unread

LEMMA PassesExact ==
  ASSUME IInv, ExactInv, share = "nothing", NEW c \in Calls, TimeoutPasses(c) \/ CapPasses(c)
  PROVE  ExactInv'
<1>1. /\ call[c].pc = "layer" /\ call[c].layer > 0 /\ NextLayer(c)
      /\ UNCHANGED <<config, contents, flagged>>
  BY DEF TimeoutPasses, CapPasses, At
<1>2. ~Unread(c) => call[c].layer \notin Capping(c)
  BY <1>1, AppliesIsCapping DEF TimeoutPasses, CapPasses, At
<1>3. call[c].layer \in 1..Len(stack) /\ call[c].layer - 1 \in 0..Len(stack) /\ call \in [Calls -> CallRecord]
  BY <1>1, LayerType, Types
<1>4. /\ call' \in [Calls -> CallRecord] /\ \A b \in Calls : b # c => call'[b] = call[b]
      /\ call'[c].pc = "layer" /\ call'[c].layer = call[c].layer - 1
      /\ call'[c].content = call[c].content /\ call'[c].result = call[c].result
      /\ call'[c].failed = call[c].failed
  BY <1>1, <1>3 DEF NextLayer, CallRecord, Pcs
<1>5. ASSUME Edited(c), NEW j \in 1..Len(answer.content)
      PROVE  ShownAs(c, answer.content[j], contents[c][j], Past(c, j)')
  <2>1. ShownAs(c, answer.content[j], contents[c][j], call[c].layer)
    BY <1>1, <1>5, EditedFacts DEF Past, Looked
  <2>2. ShownAs(c, answer.content[j], contents[c][j], call[c].layer - 1)
    BY <1>2, <1>3, <1>5, <2>1, EditedFacts, ShownPassed
  <2>3. Past(c, j)' = call[c].layer - 1
    BY <1>4 DEF Past, Looked
  <2> QED
    BY <2>2, <2>3
<1> QED
  BY <1>1, <1>4, <1>5, QuietStep

LEMMA CapLooksExact ==
  ASSUME IInv, ExactInv, share = "nothing", NEW c \in Calls, CapLooks(c)
  PROVE  ExactInv'
<1>1. /\ call[c].pc = "layer" /\ call[c].layer > 0
      /\ UNCHANGED <<config, contents, flagged>>
      /\ call' = [call EXCEPT ![c].pc = "loop", ![c].item = 1]
  BY DEF CapLooks, At
<1>2. call \in [Calls -> CallRecord] /\ 1 \in Nat \ {0}
  BY Types
<1>3. /\ call' \in [Calls -> CallRecord] /\ \A b \in Calls : b # c => call'[b] = call[b]
      /\ call'[c].pc = "loop" /\ call'[c].layer = call[c].layer /\ call'[c].item = 1
      /\ call'[c].content = call[c].content /\ call'[c].result = call[c].result
      /\ call'[c].failed = call[c].failed
  BY <1>1, <1>2 DEF CallRecord, Pcs
<1>4. ASSUME Edited(c), NEW j \in 1..Len(answer.content)
      PROVE  ShownAs(c, answer.content[j], contents[c][j], Past(c, j)')
  <2>1. Past(c, j) = call[c].layer /\ Past(c, j)' = call[c].layer
    BY <1>1, <1>3 DEF Past, Looked
  <2> QED
    BY <1>4, <2>1, EditedFacts
<1> QED
  BY <1>1, <1>3, <1>4, QuietStep

LEMMA ReturnExact ==
  ASSUME IInv, ExactInv, share = "nothing", NEW c \in Calls, Return(c)
  PROVE  ExactInv'
<1>1. /\ call[c].pc = "layer" /\ UNCHANGED <<config, contents, flagged>>
      /\ call' = [call EXCEPT ![c].pc = "done"]
  BY DEF Return, Goto
<1>2. call \in [Calls -> CallRecord]
  BY Types
<1>3. /\ call' \in [Calls -> CallRecord] /\ \A b \in Calls : b # c => call'[b] = call[b]
      /\ call'[c].pc = "done" /\ call'[c].layer = call[c].layer
      /\ call'[c].content = call[c].content /\ call'[c].result = call[c].result
      /\ call'[c].failed = call[c].failed
  BY <1>1, <1>2 DEF CallRecord, Pcs
<1>4. ASSUME Edited(c), NEW j \in 1..Len(answer.content)
      PROVE  ShownAs(c, answer.content[j], contents[c][j], Past(c, j)')
  <2>1. Past(c, j) = call[c].layer /\ Past(c, j)' = call[c].layer
    BY <1>1, <1>3 DEF Past, Looked
  <2> QED
    BY <1>4, <2>1, EditedFacts
<1> QED
  BY <1>1, <1>3, <1>4, QuietStep

(* The loop is over: every item has been looked at. *)
LEMMA CapReturnsExact ==
  ASSUME IInv, ExactInv, share = "nothing", NEW c \in Calls, CapReturns(c)
  PROVE  ExactInv'
<1>1. /\ call[c].pc = "loop" /\ call[c].layer > 0 /\ ~More(c) /\ NextLayer(c)
      /\ UNCHANGED <<config, contents, flagged>>
  BY DEF CapReturns, At
<1>2. call[c].layer - 1 \in 0..Len(stack) /\ call \in [Calls -> CallRecord] /\ call[c].item \in Nat
  BY <1>1, LayerType, Types DEF CallRecord
<1>3. /\ call' \in [Calls -> CallRecord] /\ \A b \in Calls : b # c => call'[b] = call[b]
      /\ call'[c].pc = "layer" /\ call'[c].layer = call[c].layer - 1
      /\ call'[c].content = call[c].content /\ call'[c].result = call[c].result
      /\ call'[c].failed = call[c].failed
  BY <1>1, <1>2 DEF NextLayer, CallRecord, Pcs
<1>4. ASSUME Edited(c), NEW j \in 1..Len(answer.content)
      PROVE  ShownAs(c, answer.content[j], contents[c][j], Past(c, j)')
  <2>1. /\ call[c].content = c /\ contents[c] \in Seq(ItemRecord) /\ Len(contents[c]) = Len(answer.content)
        /\ ShownAs(c, answer.content[j], contents[c][j], Past(c, j))
    BY <1>4, EditedFacts
  <2>2. j < call[c].item
    BY <1>1, <1>2, <2>1 DEF More
  <2>3. Past(c, j) = call[c].layer - 1 /\ Past(c, j)' = call[c].layer - 1
    BY <1>1, <1>3, <2>2 DEF Past, Looked
  <2> QED
    BY <2>1, <2>3
<1> QED
  BY <1>1, <1>3, <1>4, QuietStep

(* The item the loop has come to, and its layer. *)
LEMMA CurrentFacts ==
  ASSUME IInv, NEW c \in Calls, Edited(c), call[c].pc \in {"loop", "replace", "flag"}, call[c].layer > 0
  PROVE  /\ call[c].layer \in Capping(c) /\ call[c].layer \in Int /\ call[c].item \in Nat \ {0}
         /\ Current(c) = contents[c][call[c].item]
         /\ Limit(Layer(c)) = Cap(call[c].layer)
         /\ Oversized(Current(c), Layer(c)) <=> Over(Current(c), call[c].layer)
<1>1. call[c].layer \in Capping(c) /\ call[c].layer \in Int /\ call[c].item \in Nat \ {0}
  BY Types DEF IInv, PlaceInv, CallRecord, Capping
<1>2. Limit(Layer(c)) = Cap(call[c].layer)
  BY AppliesIsCapping
<1>3. Current(c) = contents[c][call[c].item]
  BY EditedFacts DEF Current
<1> QED
  BY <1>1, <1>2, <1>3 DEF Oversized, Over

LEMMA KeepItemExact ==
  ASSUME IInv, ExactInv, share = "nothing", NEW c \in Calls, KeepItem(c)
  PROVE  ExactInv'
<1>1. /\ call[c].pc = "loop" /\ call[c].layer > 0 /\ ~Oversized(Current(c), Layer(c))
      /\ UNCHANGED <<config, contents, flagged>> /\ call' = [call EXCEPT ![c].item = @ + 1]
  BY DEF KeepItem, At
<1>2. call \in [Calls -> CallRecord] /\ call[c].item \in Nat \ {0} /\ call[c].item + 1 \in Nat \ {0}
  BY Types DEF CallRecord
<1>3. /\ call' \in [Calls -> CallRecord] /\ \A b \in Calls : b # c => call'[b] = call[b]
      /\ call'[c].pc = "loop" /\ call'[c].layer = call[c].layer /\ call'[c].item = call[c].item + 1
      /\ call'[c].content = call[c].content /\ call'[c].result = call[c].result
      /\ call'[c].failed = call[c].failed
  BY <1>1, <1>2 DEF CallRecord, Pcs
<1>4. ASSUME Roomy(c), Edited(c), NEW j \in 1..Len(answer.content)
      PROVE  ShownAs(c, answer.content[j], contents[c][j], Past(c, j)')
  <2>1. ShownAs(c, answer.content[j], contents[c][j], Past(c, j))
    BY <1>4, EditedFacts
  <2>2. CASE j = call[c].item
    <3>1. Past(c, j) = call[c].layer /\ Past(c, j)' = call[c].layer - 1
      BY <1>1, <1>2, <1>3, <2>2 DEF Past, Looked
    <3>2. call[c].layer \in Capping(c) /\ ~Over(contents[c][j], call[c].layer)
      BY <1>1, <1>4, <2>2, CurrentFacts
    <3> QED
      BY <1>4, <2>1, <3>1, <3>2, ShownKept
  <2>3. CASE j # call[c].item
    <3>1. Past(c, j)' = Past(c, j)
      BY <1>1, <1>2, <1>3, <2>3 DEF Past, Looked
    <3> QED
      BY <2>1, <3>1
  <2> QED
    BY <2>2, <2>3
<1> QED
  BY <1>1, <1>3, <1>4, QuietStep

(* Only a text of the tool's own is turned away, not yet touched by any    *)
(* layer; what is to be written is what it is shown as.                    *)
LEMMA RejectItemExact ==
  ASSUME IInv, ExactInv, share = "nothing", NEW c \in Calls, RejectItem(c)
  PROVE  ExactInv'
<1> DEFINE layer == call[c].layer
           item == call[c].item
<1>1. /\ call[c].pc = "loop" /\ layer > 0 /\ Oversized(Current(c), Layer(c)) /\ More(c)
      /\ UNCHANGED <<config, contents, flagged>>
      /\ call' = [call EXCEPT ![c].pc = "replace", ![c].seen = Current(c).size]
  BY DEF RejectItem, At
<1>2. call \in [Calls -> CallRecord] /\ item \in Nat \ {0} /\ contents \in [Cells -> Seq(ItemRecord)]
  BY Types DEF CallRecord
<1>3. ~Unread(c) /\ layer \in Capping(c) /\ call[c].content \in Cells
  BY <1>1, <1>2 DEF IInv, PlaceInv, Unread, CallRecord
<1>4. Current(c) \in ItemRecord /\ item \in 1..Len(contents[call[c].content])
  BY <1>1, <1>2, <1>3, Types DEF More, Current
<1>5. /\ call' \in [Calls -> CallRecord] /\ \A b \in Calls : b # c => call'[b] = call[b]
      /\ call'[c].pc = "replace" /\ call'[c].layer = layer /\ call'[c].item = item
      /\ call'[c].content = call[c].content /\ call'[c].result = call[c].result
      /\ call'[c].failed = call[c].failed /\ call'[c].seen = Current(c).size
  <2>1. Current(c).size \in Nat
    BY <1>4 DEF ItemRecord
  <2> QED
    BY <1>1, <1>2, <2>1 DEF CallRecord, Pcs
<1>6. ASSUME Roomy(c), GivenUp(c) PROVE FALSE
  <2>1. call[c].content = c /\ contents[c] = <<TimedOut>>
    BY <1>6 DEF GivenUp
  <2>2. Current(c) = TimedOut
    BY <1>4, <2>1 DEF Current
  <2>3. TimeoutSize > Limit(Layer(c)) /\ Limit(Layer(c)) = Cap(layer) /\ Cap(layer) \in Int
    BY <1>1, <2>2, AppliesIsCapping DEF Oversized, TimedOut, Item
  <2> QED
    BY <1>3, <1>6, <2>3, SizesAssumption DEF Roomy
<1>7. ASSUME Roomy(c), Edited(c)
      PROVE  /\ \A j \in 1..Len(answer.content) : ShownAs(c, answer.content[j], contents[c][j], Past(c, j)')
             /\ contents[c][item] = answer.content[item]
             /\ ShownAs(c, answer.content[item], Error(call'[c].seen, Cap(layer)), layer - 1)
  <2>1. \A j : Past(c, j)' = Past(c, j)
    BY <1>1, <1>5 DEF Past, Looked
  <2>2. item \in 1..Len(answer.content) /\ ShownAs(c, answer.content[item], contents[c][item], Past(c, item))
    BY <1>4, <1>7, EditedFacts
  <2>3. Past(c, item) = layer
    BY <1>1, <1>2 DEF Past, Looked
  <2>4. Current(c) = contents[c][item] /\ Over(contents[c][item], layer)
    BY <1>1, <1>7, CurrentFacts
  <2>5. /\ contents[c][item] = answer.content[item]
        /\ ShownAs(c, answer.content[item], Error(answer.content[item].size, Cap(layer)), layer - 1)
    BY <1>3, <1>7, <2>2, <2>3, <2>4, ShownRejected
  <2> QED
    BY <1>5, <1>7, <2>1, <2>4, <2>5, EditedFacts
<1> QED
  BY <1>1, <1>5, <1>6, <1>7, QuietStep

-----------------------------------------------------------------------------
(* The steps that change the result. *)

LEMMA HandlerReturnsExact ==
  ASSUME IInv, ExactInv, share = "nothing", NEW c \in Calls, HandlerReturns(c)
  PROVE  ExactInv'
<1>1. /\ call[c].pc = "handler" /\ UNCHANGED config /\ call[c].layer = Len(stack)
      /\ call' = [call EXCEPT ![c].pc = "layer", ![c].failed = answer.errs,
                             ![c].content = IF answer.made THEN c ELSE NoResult,
                             ![c].result = IF answer.made THEN c ELSE NoResult]
      /\ contents' = IF answer.made THEN [contents EXCEPT ![c] = answer.content] ELSE contents
      /\ flagged' = IF answer.isError THEN flagged \cup {c} ELSE flagged
  BY DEF HandlerReturns, IInv, PlaceInv
<1>a. UNCHANGED config
  BY <1>1
<1>2. /\ call \in [Calls -> CallRecord] /\ contents \in [Cells -> Seq(ItemRecord)] /\ c \in Cells
      /\ answer.errs \in BOOLEAN /\ answer.made \in BOOLEAN
  BY Types, AnswersAssumption DEF IInv, TypeOK
<1>3. /\ call'[c].pc = "layer" /\ call'[c].layer = Len(stack) /\ call'[c].failed = answer.errs
      /\ call'[c].content = (IF answer.made THEN c ELSE NoResult) /\ call'[c].result = call'[c].content
  BY <1>1, <1>2 DEF CallRecord
<1>4. c \notin flagged
  BY <1>1 DEF ExactInv, ExactCall
<1>5. /\ answer.made => contents'[c] = answer.content
      /\ c \in flagged' <=> answer.isError
  BY <1>1, <1>2, <1>4
<1>6. ASSUME answer.errs \/ ~answer.made PROVE ExactCall(c)'
  <2>1. PassedOn(c)'
    BY <1>3, <1>5, <1>6, <1>a, ConfigStays DEF PassedOn
  <2> QED
    BY <1>3, <2>1 DEF ExactCall
<1>7. ASSUME ~answer.errs, answer.made PROVE ExactCall(c)'
  <2>1. \A j \in 1..Len(answer.content) : ShownAs(c, answer.content[j], contents[c][j], Past(c, j))'
    <3>1. \A j : Past(c, j)' = Len(stack)
      BY <1>3 DEF Past, Looked
    <3>2. ASSUME NEW j \in 1..Len(answer.content)
          PROVE  ShownAs(c, answer.content[j], contents[c][j], Past(c, j))'
      <4>1. /\ answer'.content[j] = answer.content[j] /\ contents'[c][j] = answer.content[j]
            /\ Past(c, j)' = Len(stack)
        BY <1>1, <1>5, <1>7, <3>1, ConfigStays
      <4> QED
        <5>1. ShownAs(c, answer.content[j], answer.content[j], Len(stack))
          BY ShownAtFirst
        <5> QED
          BY <1>a, <4>1, <5>1, ConfigStays
    <3> QED
      BY <3>2
  <2>2. Changed(c)' = {}
    BY <1>1, <1>5, <1>7, ConfigStays DEF Changed
  <2>3. Edited(c)'
    BY <1>1, <1>3, <1>5, <1>7, <2>1, <2>2, ConfigStays DEF Edited
  <2> QED
    BY <1>3, <2>3 DEF ExactCall
<1>8. ExactCall(c)'
  BY <1>2, <1>6, <1>7
<1>9. \A b \in Calls : b # c => /\ call'[b] = call[b] /\ contents'[b] = contents[b]
                                /\ b \in flagged' <=> b \in flagged
  <2>1. \A b \in Calls : b \in Cells
    BY Types
  <2> QED
    BY <1>1, <1>2, <2>1
<1> QED
  BY <1>a, <1>8, <1>9, ExactStep

LEMMA TimeoutReplacesExact ==
  ASSUME IInv, ExactInv, share = "nothing", NEW c \in Calls, TimeoutReplaces(c)
  PROVE  ExactInv'
<1>1. /\ call[c].pc = "layer" /\ UNCHANGED config /\ call[c].failed
      /\ call' = [call EXCEPT ![c].layer = @ - 1, ![c].failed = FALSE, ![c].content = c, ![c].result = c]
      /\ contents' = [contents EXCEPT ![c] = <<TimedOut>>] /\ flagged' = flagged \cup {c}
  BY DEF TimeoutReplaces, At
<1>a. UNCHANGED config
  BY <1>1
<1>2. call \in [Calls -> CallRecord] /\ contents \in [Cells -> Seq(ItemRecord)] /\ c \in Cells
  BY Types
<1>3. call'[c].pc = "layer" /\ ~call'[c].failed /\ call'[c].content = c /\ call'[c].result = c
  BY <1>1, <1>2 DEF CallRecord
<1>4. contents'[c] = <<TimedOut>> /\ c \in flagged'
  BY <1>1, <1>2
<1>5. Roomy(c) => answer.errs
  BY <1>1 DEF ExactInv, ExactCall, PassedOn, GivenUp, Edited
<1>6. ExactCall(c)'
  BY <1>1, <1>3, <1>4, <1>5, ConfigStays DEF ExactCall, GivenUp, TimedOut, Item
<1>7. \A b \in Calls : b # c => /\ call'[b] = call[b] /\ contents'[b] = contents[b]
                                /\ b \in flagged' <=> b \in flagged
  <2>1. \A b \in Calls : b \in Cells
    BY Types
  <2> QED
    BY <1>1, <1>2, <2>1
<1> QED
  BY <1>a, <1>6, <1>7, ExactStep

(* The rejection is written: the item is shown as it should be, and its    *)
(* flag is still to come.                                                  *)
LEMMA ReplaceItemExact ==
  ASSUME IInv, ExactInv, share = "nothing", NEW c \in Calls, ReplaceItem(c)
  PROVE  ExactInv'
<1> DEFINE layer == call[c].layer
           item == call[c].item
           k == call[c].content
           e == Error(call[c].seen, Limit(Layer(c)))
<1>1. /\ call[c].pc = "replace" /\ layer > 0
      /\ call' = [call EXCEPT ![c].pc = "flag"] /\ flagged' = flagged
      /\ contents' = [contents EXCEPT ![k][item] = e]
  BY DEF ReplaceItem, At, Goto
<1>2. UNCHANGED config
  BY DEF ReplaceItem
<1>3. /\ call \in [Calls -> CallRecord] /\ contents \in [Cells -> Seq(ItemRecord)] /\ c \in Cells /\ c # NoResult
      /\ item \in Nat \ {0}
  BY Types DEF CallRecord
<1>4. ~Unread(c) /\ ExactCall(c) /\ k = c
  BY <1>1, <1>3 DEF IInv, PlaceInv, Unread, ExactInv, ExactCall
<1>5. item \in 1..Len(contents[c])
  BY <1>1, <1>3, <1>4, Types DEF IInv, TypeOK
<1>6. /\ call'[c].pc = "flag" /\ call'[c].layer = layer /\ call'[c].item = item
      /\ call'[c].content = c /\ call'[c].result = call[c].result /\ call'[c].failed = call[c].failed
      /\ \A b \in Calls : b # c => call'[b] = call[b]
  BY <1>1, <1>3, <1>4 DEF CallRecord
<1>7. /\ Len(contents'[c]) = Len(contents[c]) /\ contents'[c][item] = e
      /\ \A j \in 1..Len(contents[c]) : j # item => contents'[c][j] = contents[c][j]
      /\ \A b \in Calls : b # c => contents'[b] = contents[b]
  <2>1. contents' = [contents EXCEPT ![c] = [contents[c] EXCEPT ![item] = e]]
    BY <1>1, <1>4
  <2>2. contents'[c] = [contents[c] EXCEPT ![item] = e] /\ contents[c] \in Seq(ItemRecord)
    BY <1>3, <2>1
  <2>3. \A b \in Calls : b # c => contents'[b] = contents[b]
    <3>1. \A b \in Calls : b \in Cells
      BY Types
    <3> QED
      BY <1>3, <2>1, <3>1
  <2> HIDE DEF e
  <2> QED
    BY <1>5, <2>2, <2>3
<1>8. ASSUME Roomy(c) PROVE Edited(c)'
  <2>1. Edited(c)
    BY <1>1, <1>4, <1>8 DEF ExactCall, PassedOn, GivenUp, Unread
  <2>2. e = Error(call[c].seen, Cap(layer)) /\ layer \in Int
    BY <1>1, <2>1, CurrentFacts
  <2>3. /\ contents[c][item] = answer.content[item] /\ Len(contents[c]) = Len(answer.content)
        /\ ShownAs(c, answer.content[item], e, layer - 1)
        /\ c \in flagged <=> answer.isError \/ \E j \in Changed(c) : TRUE
    BY <1>1, <2>1, <2>2 DEF Edited
  <2>4. ASSUME NEW j \in 1..Len(answer.content)
        PROVE  ShownAs(c, answer.content[j], contents[c][j], Past(c, j))'
    <3>1. CASE j = item
      <4>1. answer'.content[j] = answer.content[item] /\ contents'[c][j] = e /\ Past(c, j)' = layer - 1
        BY <1>2, <1>6, <1>7, <3>1, ConfigStays DEF Past, Looked
      <4> QED
        BY <1>2, <2>3, <4>1, ConfigStays
    <3>2. CASE j # item
      <4>1. answer'.content[j] = answer.content[j] /\ contents'[c][j] = contents[c][j]
        BY <1>2, <1>7, <2>3, <3>2, ConfigStays
      <4>2. Past(c, j)' = Past(c, j)
        BY <1>1, <1>6, <3>2 DEF Past, Looked
      <4>3. ShownAs(c, answer.content[j], contents[c][j], Past(c, j))
        BY <2>1, EditedFacts
      <4> QED
        BY <1>2, <4>1, <4>2, <4>3, ConfigStays
    <3> QED
      BY <3>1, <3>2
  <2>5. item \in Changed(c)'
    <3>1. answer.content \in Seq({t \in ItemRecord : t.by = "tool"})
      BY AnswersAssumption DEF IInv, TypeOK
    <3>2. answer.content[item].by = "tool"
      BY <1>5, <2>3, <3>1, ElementOfSeq
    <3>3. e.by = "cap"
      BY DEF Error, Item
    <3>4. e # answer.content[item]
      BY <3>2, <3>3
    <3>5. item \in 1..Len(answer.content) /\ contents'[c][item] = e
      BY <1>5, <1>7, <2>3
    <3>6. answer' = answer
      BY <1>2, ConfigStays
    <3> HIDE DEF e
    <3> QED
      BY <3>4, <3>5, <3>6 DEF Changed
  <2>6. Changed(c)' \ {item} = Changed(c)
    BY <1>2, <1>5, <1>7, <2>3, ConfigStays DEF Changed
  <2>7. c \in flagged' <=> answer'.isError \/ \E j \in Changed(c)' : call'[c].pc = "flag" => j # call'[c].item
    BY <1>1, <1>2, <1>6, <2>3, <2>6, ConfigStays
  <2>8. /\ ~call'[c].failed /\ call'[c].content = c /\ call'[c].result = c
        /\ Len(contents'[c]) = Len(answer.content) /\ ~answer.errs /\ answer.made
    BY <1>6, <1>7, <2>1, <2>3 DEF Edited
  <2> HIDE DEF e, layer, item
  <2> QED
    BY <1>2, <1>6, <2>4, <2>5, <2>7, <2>8, ConfigStays DEF Edited
<1>9. ExactCall(c)'
  BY <1>2, <1>4, <1>6, <1>8, ConfigStays DEF ExactCall
<1>10. \A b \in Calls : b # c => /\ call'[b] = call[b] /\ contents'[b] = contents[b]
                                 /\ b \in flagged' <=> b \in flagged
  BY <1>1, <1>6, <1>7
<1> QED
  BY <1>2, <1>9, <1>10, ExactStep

LEMMA SetIsErrorExact ==
  ASSUME IInv, ExactInv, share = "nothing", NEW c \in Calls, SetIsError(c)
  PROVE  ExactInv'
<1> DEFINE layer == call[c].layer
           item == call[c].item
<1>1. /\ call[c].pc = "flag" /\ layer > 0 /\ contents' = contents
      /\ call' = [call EXCEPT ![c].pc = "loop", ![c].item = @ + 1]
      /\ flagged' = flagged \cup {call[c].result}
  BY DEF SetIsError, At, AfterItem
<1>2. UNCHANGED config
  BY DEF SetIsError
<1>3. call \in [Calls -> CallRecord] /\ item \in Nat \ {0} /\ c # NoResult
  BY Types DEF CallRecord
<1>4. ~Unread(c) /\ ExactCall(c) /\ call[c].content = c
  BY <1>1, <1>3 DEF IInv, PlaceInv, Unread, ExactInv, ExactCall
<1>5. /\ call'[c].pc = "loop" /\ call'[c].layer = layer /\ call'[c].item = item + 1
      /\ call'[c].content = c /\ call'[c].result = call[c].result /\ call'[c].failed = call[c].failed
      /\ \A b \in Calls : b # c => call'[b] = call[b]
  BY <1>1, <1>3, <1>4 DEF CallRecord
<1>6. ASSUME Roomy(c) PROVE Edited(c)'
  <2>1. Edited(c)
    BY <1>1, <1>4, <1>6 DEF ExactCall, PassedOn, GivenUp, Unread
  <2>2. ASSUME NEW j \in 1..Len(answer.content)
        PROVE  ShownAs(c, answer.content[j], contents[c][j], Past(c, j))'
    <3>1. /\ answer'.content[j] = answer.content[j] /\ contents'[c][j] = contents[c][j]
          /\ Past(c, j)' = Past(c, j)
      BY <1>1, <1>2, <1>3, <1>5, ConfigStays DEF Past, Looked
    <3>2. ShownAs(c, answer.content[j], contents[c][j], Past(c, j))
      BY <2>1, EditedFacts
    <3> QED
      BY <1>2, <3>1, <3>2, ConfigStays
  <2>3. Changed(c)' = Changed(c) /\ item \in Changed(c)
    BY <1>1, <1>2, <2>1, ConfigStays DEF Changed, Edited
  <2>4. c \in flagged' /\ \E j \in Changed(c)' : call'[c].pc = "flag" => j # call'[c].item
    BY <1>1, <1>5, <2>1, <2>3 DEF Edited
  <2>5. /\ ~call'[c].failed /\ call'[c].content = c /\ call'[c].result = c
        /\ Len(contents'[c]) = Len(answer.content) /\ ~answer.errs /\ answer.made
    BY <1>1, <1>5, <2>1 DEF Edited
  <2> QED
    BY <1>2, <1>5, <2>2, <2>4, <2>5, ConfigStays DEF Edited
<1>7. ExactCall(c)'
  BY <1>2, <1>4, <1>5, <1>6, ConfigStays DEF ExactCall
<1>8. \A b \in Calls : b # c => /\ call'[b] = call[b] /\ contents'[b] = contents[b]
                                /\ b \in flagged' <=> b \in flagged
  <2>1. call[c].result \in {c, NoResult} /\ \A b \in Calls : b # NoResult
    BY <1>4, Types DEF ExactCall
  <2> QED
    BY <1>1, <1>5, <2>1
<1> QED
  BY <1>2, <1>7, <1>8, ExactStep

-----------------------------------------------------------------------------
LEMMA NextExact == ASSUME IInv, ExactInv, [Next]_vars PROVE ExactInv'
<1>1. CASE share # "nothing"
  <2>1. share' = share
    BY DEF Next, vars, config, HandlerReturns, TimeoutReplaces, TimeoutPasses, CapPasses, CapLooks,
           KeepItem, RejectItem, ReplaceItem, SetIsError, CapReturns, Return
  <2> QED
    BY <1>1, <2>1 DEF ExactInv
<1>2. CASE UNCHANGED vars
  <2>1. UNCHANGED config
    BY <1>2 DEF vars
  <2>2. \A c \in Calls : ExactCall(c) => ExactCall(c)'
    BY <1>2, <2>1, OthersStay DEF vars
  <2> QED
    BY <2>1, <2>2, ConfigStays DEF ExactInv
<1>3. CASE share = "nothing" /\ Next
  <2> PICK c \in Calls : \/ HandlerReturns(c)
                        \/ TimeoutReplaces(c) \/ TimeoutPasses(c)
                        \/ CapPasses(c) \/ CapLooks(c)
                        \/ KeepItem(c) \/ RejectItem(c) \/ ReplaceItem(c) \/ SetIsError(c)
                        \/ CapReturns(c) \/ Return(c)
    BY <1>3, CallsAssumption DEF Next, Active
  <2> QED
    BY <1>3, HandlerReturnsExact, TimeoutReplacesExact, PassesExact, CapLooksExact, KeepItemExact,
       RejectItemExact, ReplaceItemExact, SetIsErrorExact, CapReturnsExact, ReturnExact
<1> QED
  BY <1>1, <1>2, <1>3

(* With fresh results and limits that leave room for a rejection, a call   *)
(* yields the tool's error or nil untouched, a timeout, or the tool's      *)
(* items, each that is too big replaced by a rejection that tells its own  *)
(* size and the innermost limit, and IsError set just when the tool set it *)
(* or an item was replaced (responsecap.go:25-31, 73-75, 84-112).          *)
THEOREM ResultsAreExact == Spec => []ResultIsExact
<1>1. ASSUME IInv, ExactInv PROVE ResultIsExact
  <2> SUFFICES ASSUME NEW c \in Calls, call[c].pc = "done", share = "nothing", Roomy(c),
                      PassedOn(c) \/ GivenUp(c) \/ Edited(c)
               PROVE  \/ PassedOn(c) \/ GivenUp(c)
                      \/ /\ ~answer.errs /\ answer.made /\ ~call[c].failed
                         /\ Len(contents[c]) = Len(answer.content)
                         /\ \A j \in 1..Len(answer.content) : ShownAs(c, answer.content[j], contents[c][j], 0)
                         /\ c \in flagged <=> (answer.isError \/ Changed(c) # {})
    BY <1>1 DEF ResultIsExact, ExactInv, ExactCall, PassedOn, GivenUp
  <2>1. \A j : Past(c, j) = 0
    BY <1>1 DEF IInv, PlaceInv, Past, Looked
  <2> QED
    BY <2>1 DEF Edited
<1> QED
  BY <1>1, Invariance, InitExact, NextExact, PTL DEF Spec
=============================================================================
