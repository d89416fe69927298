------------------------- MODULE ToolTimeoutProofs -------------------------
(***************************************************************************)
(* What holds of the timeout middleware for a stack of any depth, with any *)
(* durations and any deadline of the caller: the inductive invariant IInv  *)
(* of ToolTimeout and the properties that follow from it.                  *)
(***************************************************************************)
EXTENDS ToolTimeout, TLAPS

(* Zero never disables a layer: only a negative duration does. *)
LEMMA ZeroWraps ==
  ASSUME NEW i \in 1..N, d \in [1..N -> Durations], d[i] >= 0 PROVE Wraps(i)
  BY DurationsAssumption, DefaultTimeoutAssumption DEF Wraps, Effective

(* A layer that wraps adds a time that is not negative to the clock. *)
LEMMA OwnDeadline ==
  ASSUME NEW i \in 1..N, d \in [1..N -> Durations], now \in Nat, Wraps(i)
  PROVE  now + Effective(i) \in Nat
<1>1. d[i] \in Int
  BY DurationsAssumption
<1>2. Effective(i) \in Int
  BY <1>1, DefaultTimeoutAssumption DEF Effective
<1> QED
  BY <1>2 DEF Wraps

LEMMA InitIInv == Init => IInv
<1> SUFFICES ASSUME Init PROVE IInv
  OBVIOUS
<1>1. TypeOK
  <2>1. honours \in BOOLEAN  BY Zenon DEF Init
  <2>2. timers \subseteq Contexts  BY DepthAssumption DEF Init, Contexts
  <2>3. due \in [Contexts -> Nat] /\ layer \in Contexts /\ blamed \in Contexts /\ now \in Nat
    BY ClockAssumption, DepthAssumption DEF Init, Contexts
  <2>4. /\ ctx \in [Contexts -> Contexts] /\ cause \in [Contexts -> Contexts]
        /\ err \in [Contexts -> {"none", "deadline", "canceled"}]
    BY DepthAssumption DEF Init, Contexts
  <2> QED
    BY <2>1, <2>2, <2>3, <2>4, Zenon DEF Init, TypeOK
<1>2. ShapeInv
  BY DepthAssumption DEF Init, ShapeInv, Entered, Contexts
<1>3. CauseInv
  <2>1. \A i \in 1..N : i \in Contexts
    BY DepthAssumption DEF Contexts
  <2>2. \A i \in Contexts : err[i] = "none" /\ cause[i] = i
    BY DEF Init
  <2>3. \A i \in Contexts : i <= i
    BY DepthAssumption DEF Contexts
  <2> QED
    BY <2>1, <2>2, <2>3 DEF CauseInv
<1>4. VerdictInv
  BY DepthAssumption DEF Init, VerdictInv, Contexts
<1> QED
  BY <1>1, <1>2, <1>3, <1>4 DEF IInv

LEMMA StutterIInv == ASSUME IInv, UNCHANGED vars PROVE IInv'
  BY DEF vars, config, contexts, IInv, TypeOK, ShapeInv, CauseInv, VerdictInv, Entered, Parent,
         Wraps, Effective, Expired, IsError

(* Layers and the caller are numbered 0..N. *)
LEMMA Indices ==
  /\ 0 \in Contexts /\ N \in Nat
  /\ \A i \in 1..N : i \in Contexts /\ i - 1 \in Contexts /\ i # 0 /\ i - 1 # i
  /\ \A i \in Contexts : i \in 0..N /\ i <= i
  BY DepthAssumption DEF Contexts

LEMMA ContextOrder ==
  ASSUME NEW x \in Contexts, NEW y \in Contexts, NEW z \in Contexts, x <= y, y < z
  PROVE  x < z /\ x <= z /\ x # z
  BY DepthAssumption DEF Contexts

(* The parent of a layer's context is the caller's or an outer layer's. *)
LEMMA ParentIsOuter ==
  ASSUME IInv, NEW i \in 1..N PROVE Parent(i) \in Contexts /\ Parent(i) < i
<1>1. i - 1 \in Contexts /\ i - 1 < i
  BY DepthAssumption DEF Contexts
<1>2. ctx[i - 1] \in Contexts
  BY <1>1 DEF IInv, TypeOK
<1>3. ctx[i - 1] <= i - 1
  BY <1>1 DEF IInv, ShapeInv
<1> QED
  BY <1>1, <1>2, <1>3, DepthAssumption DEF Parent, Contexts

LEMMA NextTypeOK == ASSUME IInv, Next PROVE TypeOK'
<1> USE DEF IInv, TypeOK, config, contexts
<1>0. 0 \in Contexts /\ \A i \in 1..N : i \in Contexts
  BY DepthAssumption DEF Contexts
<1>1. ASSUME NEW i \in 1..N, EnterWrapped(i) PROVE TypeOK'
  <2>1. Parent(i) \in Contexts /\ i \in Contexts  BY <1>0, ParentIsOuter
  <2>2. now + Effective(i) \in Nat  BY <1>1, OwnDeadline DEF EnterWrapped
  <2>3. due' \in [Contexts -> Nat]  BY <1>1, <2>1, <2>2 DEF EnterWrapped
  <2>4. timers' \subseteq Contexts  BY <1>1, <2>1 DEF EnterWrapped
  <2>5. err' \in [Contexts -> {"none", "deadline", "canceled"}]
    BY <1>1, <2>1 DEF EnterWrapped
  <2>6. cause' \in [Contexts -> Contexts]  BY <1>1, <2>1 DEF EnterWrapped
  <2>7. layer' \in Contexts /\ ctx' \in [Contexts -> Contexts]  BY <1>1, <2>1 DEF EnterWrapped
  <2> QED
    BY <1>1, <2>3, <2>4, <2>5, <2>6, <2>7 DEF EnterWrapped
<1>2. ASSUME NEW i \in 1..N, EnterDisabled(i) PROVE TypeOK'
  BY <1>0, <1>2, ParentIsOuter DEF EnterDisabled
<1>3. CASE CallHandler \/ HandlerGivesUp \/ HandlerFinishes
  BY <1>3 DEF CallHandler, HandlerGivesUp, HandlerFinishes, HandlerReturns
<1>4. ASSUME layer > 0 PROVE layer - 1 \in Contexts
  BY <1>4, DepthAssumption DEF Contexts
<1>5. CASE LeaveDisabled \/ Suspect \/ Return
  BY <1>4, <1>5 DEF LeaveDisabled, Suspect, Return
<1>6. CASE Keep \/ Blame \/ Absolve
  <2>1. layer - 1 \in Contexts
    BY <1>4, <1>6 DEF Keep, Blame, Absolve, ShapeInv
  <2> QED
    BY <1>6, <2>1 DEF Keep, Blame, Absolve, Release
<1>7. CASE Tick  BY <1>7 DEF Tick
<1>8. ASSUME NEW i \in Contexts, NEW e \in {"deadline", "canceled"}, NEW k \in Contexts, End(i, e, k)
      PROVE  TypeOK'
  BY <1>8 DEF End
<1>9. ASSUME NEW i \in 1..N, Propagate(i) PROVE TypeOK'
  <2>1. Parent(i) \in Contexts /\ i \in Contexts  BY <1>0, ParentIsOuter
  <2> QED
    BY <1>8, <1>9, <2>1 DEF Propagate
<1>10. CASE (\E i \in Contexts : TimerFires(i)) \/ CallerCancels
  BY <1>0, <1>8, <1>10 DEF TimerFires, CallerCancels
<1> QED
  BY <1>1, <1>2, <1>3, <1>5, <1>6, <1>7, <1>9, <1>10 DEF Next

LEMMA NextShapeInv == ASSUME IInv, Next PROVE ShapeInv'
<1>0. /\ 0 \in Contexts /\ layer \in 0..N /\ N \in Nat
      /\ ctx \in [Contexts -> Contexts] /\ err \in [Contexts -> {"none", "deadline", "canceled"}]
      /\ \A i \in 1..N : i \in Contexts /\ i - 1 \in Contexts /\ i # 0 /\ i - 1 # i
      /\ \A i \in Contexts : i \in 0..N
  <2>1. layer \in 0..N
    BY DEF Contexts, IInv, TypeOK
  <2>2. ctx \in [Contexts -> Contexts] /\ err \in [Contexts -> {"none", "deadline", "canceled"}]
    BY DEF IInv, TypeOK
  <2>3. /\ 0 \in Contexts
        /\ \A i \in 1..N : i \in Contexts /\ i - 1 \in Contexts /\ i # 0 /\ i - 1 # i
        /\ \A i \in Contexts : i \in 0..N
    BY DepthAssumption DEF Contexts
  <2> QED
    BY <2>1, <2>2, <2>3, DepthAssumption
<1> USE DEF ShapeInv, Entered, Expired, IsError, Wraps, Effective, config, contexts
<1>1. ASSUME NEW i \in 1..N, EnterWrapped(i) \/ EnterDisabled(i) PROVE ShapeInv'
  <2>1. /\ pc = "enter" /\ pc' = "enter" /\ layer' = i /\ i = layer + 1
        /\ outcome' = outcome /\ d' = d
    BY <1>1 DEF EnterWrapped, EnterDisabled
  <2>2. ctx' = [ctx EXCEPT ![i] = IF Wraps(i) THEN i ELSE ctx[i - 1]]
    BY <1>1 DEF EnterWrapped, EnterDisabled, Parent
  <2>3. ctx[i - 1] < i
    BY ParentIsOuter DEF Parent
  <2>4. ctx'[0] = 0 /\ \A j \in Contexts : ctx'[j] <= j
    BY <1>0, <2>2, <2>3 DEF IInv
  <2>5. \A j \in 1..N : j <= i => ctx'[j] = IF Wraps(j) THEN j ELSE ctx'[j - 1]
    <3> SUFFICES ASSUME NEW j \in 1..N, j <= i PROVE ctx'[j] = IF Wraps(j) THEN j ELSE ctx'[j - 1]
      OBVIOUS
    <3>1. CASE j = i
      BY <1>0, <2>2, <3>1
    <3>2. CASE j < i
      <4>1. j <= layer /\ j - 1 # i /\ j # i
        BY <1>0, <2>1, <3>2
      <4> QED
        BY <1>0, <2>1, <2>2, <4>1 DEF IInv
    <3> QED
      BY <3>1, <3>2
  <2> QED
    BY <2>1, <2>4, <2>5 DEF IInv
<1>2. CASE CallHandler \/ HandlerGivesUp \/ HandlerFinishes
  BY <1>0, <1>2 DEF CallHandler, HandlerGivesUp, HandlerFinishes, HandlerReturns, IInv
<1>3. CASE LeaveDisabled \/ Suspect \/ Return
  BY <1>0, <1>3 DEF LeaveDisabled, Suspect, Return, IInv
<1>4. CASE Keep \/ Blame \/ Absolve
  BY <1>0, <1>4 DEF Keep, Blame, Absolve, Release, IInv
<1>5. CASE Tick  BY <1>5 DEF Tick, IInv
<1>6. ASSUME NEW i \in Contexts, NEW e, NEW k, End(i, e, k) PROVE ShapeInv'
  <2>1. UNCHANGED <<d, ctx, pc, layer, outcome>>
    BY <1>6 DEF End
  <2>2. pc = "parent" => err'[layer] = err[layer]
    BY <1>0, <1>6 DEF End, IInv
  <2> QED
    BY <2>1, <2>2 DEF IInv
<1>7. CASE (\E i \in Contexts : TimerFires(i)) \/ (\E i \in 1..N : Propagate(i)) \/ CallerCancels
  BY <1>0, <1>6, <1>7 DEF TimerFires, Propagate, CallerCancels
<1> QED
  BY <1>1, <1>2, <1>3, <1>4, <1>5, <1>7 DEF Next

(* An ended context never comes back; only a layer that is being entered   *)
(* gets a fresh one.                                                       *)
LEMMA EndedStaysEnded ==
  ASSUME IInv, Next, NEW j \in Contexts, err[j] # "none", ~(pc = "enter" /\ j = layer + 1)
  PROVE  err'[j] = err[j] /\ cause'[j] = cause[j]
<1>0. /\ err \in [Contexts -> {"none", "deadline", "canceled"}]
      /\ cause \in [Contexts -> Contexts]
  BY DEF IInv, TypeOK
<1>1. ASSUME NEW i \in 1..N, EnterWrapped(i) \/ EnterDisabled(i)
      PROVE  err'[j] = err[j] /\ cause'[j] = cause[j]
  BY <1>0, <1>1, Indices DEF EnterWrapped, EnterDisabled
<1>2. CASE CallHandler \/ HandlerGivesUp \/ HandlerFinishes \/ LeaveDisabled \/ Suspect \/ Return \/ Tick
  BY <1>2 DEF CallHandler, HandlerGivesUp, HandlerFinishes, HandlerReturns, LeaveDisabled, Suspect,
              Return, Tick
<1>3. CASE Keep \/ Blame \/ Absolve
  BY <1>0, <1>3 DEF Keep, Blame, Absolve, Release
<1>4. ASSUME NEW i \in Contexts, NEW e, NEW k, End(i, e, k)
      PROVE  err'[j] = err[j] /\ cause'[j] = cause[j]
  BY <1>0, <1>4 DEF End
<1>5. CASE (\E i \in Contexts : TimerFires(i)) \/ (\E i \in 1..N : Propagate(i)) \/ CallerCancels
  BY <1>4, <1>5, Indices DEF TimerFires, Propagate, CallerCancels
<1> QED
  BY <1>1, <1>2, <1>3, <1>4, <1>5 DEF Next

LEMMA NextCauseInv == ASSUME IInv, Next PROVE CauseInv'
<1>0. /\ err \in [Contexts -> {"none", "deadline", "canceled"}]
      /\ cause \in [Contexts -> Contexts] /\ due \in [Contexts -> Nat] /\ ctx \in [Contexts -> Contexts]
      /\ layer \in 0..N /\ now \in Nat /\ timers \subseteq Contexts
  BY DEF IInv, TypeOK, Contexts
<1>1. /\ \A i \in Contexts : cause[i] <= i
      /\ \A i \in Contexts : err[i] = "none" => cause[i] = i
      /\ \A i \in Contexts : err[i] = "deadline" /\ cause[i] = i => i \in timers /\ now >= due[i]
      /\ \A i \in 1..N :
          Wraps(i) /\ Entered(i) /\ err[i] # "none" /\ cause[i] # i => err[Parent(i)] # "none"
      /\ \A i \in 1..N : i <= layer /\ Wraps(i) /\ err[i] = "canceled" => cause[i] # i
  BY DEF IInv, CauseInv
<1>2. \A i \in 1..N : Parent(i) \in Contexts /\ Parent(i) < i
  BY ParentIsOuter
<1>3. ASSUME NEW i \in 1..N, EnterWrapped(i) PROVE CauseInv'
  <2> DEFINE p == Parent(i)
  <2>1. p \in Contexts /\ p < i /\ i \in Contexts /\ cause[p] < i /\ cause[p] # i
    <3>1. p \in Contexts /\ p < i /\ i \in Contexts /\ cause[p] <= p /\ cause[p] \in Contexts
      BY <1>0, <1>1, <1>2, Indices
    <3> QED
      BY <3>1, ContextOrder
  <2>2. /\ pc = "enter" /\ i = layer + 1 /\ layer' = i
        /\ err' = [err EXCEPT ![i] = err[p]]
        /\ cause' = [cause EXCEPT ![i] = IF err[p] = "none" THEN i ELSE cause[p]]
        /\ ctx' = [ctx EXCEPT ![i] = i]
        /\ UNCHANGED <<d, now, pc>>
    BY <1>3 DEF EnterWrapped, config
  <2>3. /\ \A j \in Contexts : j \in timers => j \in timers'
        /\ \A j \in Contexts \ {i} : due'[j] = due[j]
    BY <1>0, <1>3 DEF EnterWrapped
  <2> HIDE DEF p
  <2>4. \A j \in Contexts : cause'[j] <= j
    <3>1. \A j \in Contexts : j # i => cause'[j] = cause[j]
      BY <1>0, <2>2
    <3>2. cause'[i] = i \/ cause'[i] = cause[p]
      BY <1>0, <2>1, <2>2
    <3>3. i <= i /\ cause[p] <= i
      BY <1>0, <1>1, <2>1, Indices, ContextOrder
    <3> QED
      BY <1>1, <2>1, <3>1, <3>2, <3>3
  <2>5. \A j \in Contexts : err'[j] = "none" => cause'[j] = j
    BY <1>0, <1>1, <2>1, <2>2
  <2>6. \A j \in Contexts : err'[j] = "deadline" /\ cause'[j] = j => j \in timers' /\ now' >= due'[j]
    BY <1>0, <1>1, <2>1, <2>2, <2>3
  <2>7. ASSUME NEW j \in 1..N, j <= i, Wraps(j), err'[j] # "none", cause'[j] # j
        PROVE  err'[ctx'[j - 1]] # "none"
    <3>1. ctx'[j - 1] = Parent(j) /\ Parent(j) < i /\ Parent(j) # i
      <4>1. j - 1 # i /\ j - 1 \in Contexts
        BY <2>2, <2>7, Indices, <1>0
      <4>2. ctx'[j - 1] = Parent(j)
        BY <1>0, <2>2, <4>1 DEF Parent
      <4> QED
        BY <1>2, <2>7, <4>2, Indices
    <3>2. CASE j = i
      BY <1>0, <1>2, <2>1, <2>2, <2>7, <3>1, <3>2 DEF p
    <3>3. CASE j # i
      <4>1. j <= layer /\ err'[j] = err[j] /\ cause'[j] = cause[j]
        BY <1>0, <2>2, <2>7, <3>3, Indices
      <4>2. err[Parent(j)] # "none"
        BY <1>1, <2>2, <2>7, <4>1 DEF Entered
      <4> QED
        BY <1>0, <1>2, <2>2, <3>1, <4>2
    <3> QED
      BY <3>2, <3>3
  <2>8. ASSUME NEW j \in 1..N, j <= i, Wraps(j), err'[j] = "canceled" PROVE cause'[j] # j
    <3>1. CASE j = i
      BY <1>0, <2>1, <2>2, <2>8, <3>1
    <3>2. CASE j # i
      <4>1. j <= layer /\ err'[j] = err[j] /\ cause'[j] = cause[j]
        BY <1>0, <2>2, <2>8, <3>2, Indices
      <4> QED
        BY <1>1, <2>8, <4>1
    <3> QED
      BY <3>1, <3>2
  <2> QED
    BY <2>2, <2>4, <2>5, <2>6, <2>7, <2>8 DEF CauseInv, Entered, Parent, Wraps, Effective
<1>4. ASSUME NEW i \in 1..N, EnterDisabled(i) PROVE CauseInv'
  <2>1. /\ pc = "enter" /\ i = layer + 1 /\ layer' = i /\ ~Wraps(i)
        /\ ctx' = [ctx EXCEPT ![i] = Parent(i)]
        /\ UNCHANGED <<d, now, pc, due, timers, err, cause>>
    BY <1>4 DEF EnterDisabled, config
  <2>2. ASSUME NEW j \in 1..N, j <= i, Wraps(j)
        PROVE  j <= layer /\ ctx'[j - 1] = Parent(j)
    <3>1. j <= layer /\ j - 1 # i /\ j - 1 \in Contexts
      BY <1>0, <2>1, <2>2, Indices
    <3> QED
      BY <1>0, <2>1, <3>1 DEF Parent
  <2> QED
    BY <1>1, <2>1, <2>2 DEF CauseInv, Entered, Parent, Wraps, Effective
<1>5. CASE CallHandler
  BY <1>1, <1>5, <1>0 DEF CallHandler, config, contexts, CauseInv, Entered, Parent, Wraps, Effective
<1>6. CASE HandlerGivesUp \/ HandlerFinishes \/ Suspect \/ Return \/ Tick
  BY <1>0, <1>1, <1>6 DEF HandlerGivesUp, HandlerFinishes, HandlerReturns, Suspect, Return, Tick,
     config, contexts, CauseInv, Entered, Parent, Wraps, Effective
<1>7. CASE LeaveDisabled
  BY <1>0, <1>1, <1>7 DEF LeaveDisabled, config, contexts, CauseInv, Entered, Parent, Wraps, Effective
<1>8. CASE Keep \/ Blame \/ Absolve
  <2>1. /\ layer' = layer - 1 /\ pc # "enter" /\ layer > 0
        /\ err' = [err EXCEPT ![layer] = IF @ = "none" THEN "canceled" ELSE @]
        /\ UNCHANGED <<d, now, ctx, due, timers, cause>>
    BY <1>8 DEF Keep, Blame, Absolve, Release, config, contexts, IInv, ShapeInv
  <2>2. layer \in Contexts
    BY <1>0 DEF Contexts
  <2>3. \A j \in Contexts : err[j] # "none" => err'[j] = err[j]
    BY <1>0, <2>1, <2>2
  <2>4. \A j \in Contexts : err[j] = "none" => cause'[j] = j /\ err'[j] \in {"none", "canceled"}
    <3> SUFFICES ASSUME NEW j \in Contexts, err[j] = "none"
                 PROVE  cause'[j] = j /\ err'[j] \in {"none", "canceled"}
      OBVIOUS
    <3>1. CASE j = layer
      BY <1>0, <1>1, <2>1, <2>2, <3>1
    <3>2. CASE j # layer
      BY <1>0, <1>1, <2>1, <2>2, <3>2
    <3> QED
      BY <3>1, <3>2
  <2>10. \A j \in Contexts : err[j] = "none" /\ j # layer => err'[j] = "none"
    BY <1>0, <2>1, <2>2
  <2>5. \A j \in 1..N : j <= layer' => j <= layer /\ j # layer /\ j \in Contexts
    BY <1>0, <2>1, Indices
  <2>6. \A j \in Contexts : err'[j] = "none" => cause'[j] = j
    BY <1>0, <2>3, <2>4
  <2>7. \A j \in Contexts : err'[j] = "deadline" => err[j] = "deadline"
    BY <1>0, <2>3, <2>4
  <2>8. \A j \in 1..N : Wraps(j) /\ err'[j] # "none" /\ cause[j] # j => err'[Parent(j)] # "none"
    <3> SUFFICES ASSUME NEW j \in 1..N, Wraps(j), err'[j] # "none", cause[j] # j
                 PROVE  err'[Parent(j)] # "none"
      OBVIOUS
    <3>1. err[j] # "none"
      BY <1>1, Indices
    <3>2. err[Parent(j)] # "none"
      BY <1>1, <2>1, <3>1 DEF Entered
    <3> QED
      BY <1>2, <2>3, <3>2
  <2>9. \A j \in 1..N : j <= layer' /\ Wraps(j) /\ err'[j] = "canceled" => cause[j] # j
    BY <1>0, <1>1, <2>3, <2>4, <2>5, <2>10
  <2> QED
    BY <1>1, <2>1, <2>6, <2>7, <2>8, <2>9 DEF CauseInv, Parent, Wraps, Effective
<1>9. ASSUME NEW i \in Contexts, NEW e \in {"deadline", "canceled"}, NEW k \in Contexts, End(i, e, k),
             k <= i,
             e = "deadline" /\ k = i => i \in timers /\ now >= due[i],
             k # i => i > 0 /\ err[Parent(i)] # "none",
             i > 0 /\ e = "canceled" => k # i
      PROVE  CauseInv'
  <2>1. /\ err[i] = "none"
        /\ err' = [err EXCEPT ![i] = e]
        /\ cause' = [cause EXCEPT ![i] = k]
        /\ UNCHANGED <<d, now, pc, layer, ctx, due, timers>>
    BY <1>9 DEF End, config, contexts
  <2>2. \A j \in Contexts : j # i => err'[j] = err[j] /\ cause'[j] = cause[j]
    BY <1>0, <2>1
  <2>3. err'[i] = e /\ cause'[i] = k /\ e # "none"
    BY <1>0, <2>1
  <2>4. ASSUME NEW j \in 1..N, Wraps(j), Entered(j), err'[j] # "none", cause'[j] # j
        PROVE  err'[Parent(j)] # "none"
    <3>1. err[Parent(j)] # "none"
      BY <1>1, <1>9, <2>2, <2>3, <2>4, Indices
    <3> QED
      BY <1>2, <2>2, <2>3, <3>1
  <2>5. \A j \in 1..N : j <= layer /\ Wraps(j) /\ err'[j] = "canceled" => cause'[j] # j
    BY <1>1, <1>9, <2>2, <2>3, Indices
  <2>6. \A j \in Contexts : cause'[j] <= j
    BY <1>1, <1>9, <2>2, <2>3
  <2>7. \A j \in Contexts : err'[j] = "none" => cause'[j] = j
    BY <1>1, <2>2, <2>3
  <2>8. \A j \in Contexts : err'[j] = "deadline" /\ cause'[j] = j => j \in timers /\ now >= due[j]
    BY <1>1, <1>9, <2>2, <2>3
  <2> QED
    BY <2>1, <2>4, <2>5, <2>6, <2>7, <2>8 DEF CauseInv, Entered, Parent, Wraps, Effective
<1>10. ASSUME NEW i \in Contexts, TimerFires(i) PROVE CauseInv'
  BY <1>9, <1>10, Indices DEF TimerFires
<1>11. ASSUME NEW i \in 1..N, Propagate(i) PROVE CauseInv'
  <2>1. Parent(i) \in Contexts /\ Parent(i) < i /\ i \in Contexts /\ i > 0
    BY <1>2, Indices
  <2>2. /\ err[Parent(i)] \in {"deadline", "canceled"} /\ err[Parent(i)] # "none"
        /\ End(i, err[Parent(i)], cause[Parent(i)])
    BY <1>0, <1>11, <2>1 DEF Propagate
  <2>3. cause[Parent(i)] \in Contexts /\ cause[Parent(i)] < i
    <3>1. cause[Parent(i)] \in Contexts /\ cause[Parent(i)] <= Parent(i)
      BY <1>0, <1>1, <2>1
    <3> QED
      BY <2>1, <3>1, ContextOrder
  <2>4. cause[Parent(i)] <= i /\ cause[Parent(i)] # i
    <3>1. cause[Parent(i)] <= Parent(i)
      BY <1>1, <2>1
    <3> QED
      BY <2>1, <2>3, <3>1, ContextOrder
  <2> QED
    BY <1>9, <2>1, <2>2, <2>3, <2>4
<1>12. CASE CallerCancels
  BY <1>9, <1>12, Indices DEF CallerCancels
<1> QED
  BY <1>3, <1>4, <1>5, <1>6, <1>7, <1>8, <1>10, <1>11, <1>12 DEF Next

(* What is said of a call on its way out stays true while contexts go on   *)
(* ending behind its back.                                                 *)
LEMMA NextVerdictInv == ASSUME IInv, Next PROVE VerdictInv'
<1>0. /\ err \in [Contexts -> {"none", "deadline", "canceled"}]
      /\ cause \in [Contexts -> Contexts] /\ ctx \in [Contexts -> Contexts]
      /\ layer \in Contexts /\ blamed \in Contexts
  BY DEF IInv, TypeOK
<1>1. /\ pc \in {"enter", "handler"} => outcome = "none"
      /\ pc = "handler" => layer = N
      /\ pc = "parent" => layer > 0 /\ Wraps(layer) /\ Expired(layer)
      /\ pc # "enter" => \A i \in 1..N : ctx[i] = IF Wraps(i) THEN i ELSE Parent(i)
  BY DEF IInv, ShapeInv, Entered, Parent
<1>2. /\ pc # "enter" => \A i \in 1..N :
            Wraps(i) /\ err[i] # "none" /\ cause[i] # i => err[Parent(i)] # "none"
      /\ \A i \in 1..N : i <= layer /\ Wraps(i) /\ err[i] = "canceled" => cause[i] # i
  BY DEF IInv, CauseInv, Entered
<1>3. VerdictInv
  BY DEF IInv
<1>4. \A j \in Contexts : pc # "enter" /\ err[j] # "none" => err'[j] = err[j] /\ cause'[j] = cause[j]
  BY EndedStaysEnded
<1>5. ASSUME layer > 0
      PROVE  layer \in 1..N /\ layer <= layer /\ layer - 1 \in Contexts /\ Parent(layer) \in Contexts
  <2>1. layer \in 1..N /\ layer <= layer
    BY <1>0, <1>5, DepthAssumption DEF Contexts
  <2> QED
    BY <2>1, Indices, ParentIsOuter
<1>6. CASE (\E i \in 1..N : EnterWrapped(i) \/ EnterDisabled(i)) \/ CallHandler
  BY <1>1, <1>6 DEF EnterWrapped, EnterDisabled, CallHandler, VerdictInv
<1>7. CASE HandlerGivesUp \/ HandlerFinishes
  <2>1. \A i \in 1..N : ~(i > N)
    BY DepthAssumption
  <2>2. layer' = N /\ outcome' \in {"ok", "boom", "ctxerr"} /\ UNCHANGED <<d, ctx, err>>
    BY <1>1, <1>7 DEF HandlerGivesUp, HandlerFinishes, HandlerReturns, config, contexts
  <2>3. outcome' = "ctxerr" => err[ctx[N]] # "none"
    BY <1>7 DEF HandlerGivesUp, HandlerFinishes, HandlerReturns
  <2> QED
    BY <2>1, <2>2, <2>3 DEF VerdictInv
<1>8. CASE Suspect \/ Return \/ Tick
  BY <1>3, <1>8 DEF Suspect, Return, Tick, config, contexts, VerdictInv, Wraps, Effective
<1>9. CASE LeaveDisabled
  <2>1. /\ layer > 0 /\ pc = "leave" /\ ~Wraps(layer) /\ layer' = layer - 1
        /\ UNCHANGED <<d, ctx, err, cause, outcome, blamed>>
    BY <1>9 DEF LeaveDisabled, config, contexts
  <2>2. ctx[layer'] = ctx[layer]
    BY <1>1, <1>5, <2>1 DEF Parent
  <2>3. \A i \in 1..N : i > layer' => i > layer \/ i = layer
    BY <1>0, <2>1, DepthAssumption DEF Contexts
  <2> QED
    BY <1>3, <2>1, <2>2, <2>3 DEF VerdictInv, Wraps, Effective
<1>10. ASSUME layer > 0, pc # "enter", layer' = layer - 1, Wraps(layer), UNCHANGED <<d, ctx>>,
              err' = [err EXCEPT ![layer] = IF @ = "none" THEN "canceled" ELSE @],
              pc \in {"leave", "parent"},
              outcome' = "ctxerr" => err[Parent(layer)] # "none",
              outcome' = "timeout" =>
                 \/ outcome = "timeout" /\ blamed' = blamed
                 \/ blamed' = layer /\ err[layer] = "deadline" /\ cause[layer] = layer
       PROVE  VerdictInv'
  <2>1. layer \in 1..N /\ layer \in Contexts /\ layer' \in Contexts /\ Parent(layer) = ctx[layer']
    BY <1>0, <1>5, <1>10 DEF Parent
  <2>2. outcome' = "timeout" =>
           Wraps(blamed') /\ blamed' > 0 /\ err'[blamed'] = "deadline" /\ cause'[blamed'] = blamed'
    BY <1>0, <1>3, <1>4, <1>10, <2>1 DEF VerdictInv
  <2>3. outcome' = "ctxerr" => err'[ctx'[layer']] # "none"
    BY <1>0, <1>4, <1>10, <2>1
  <2>4. \A i \in 1..N : i > layer' /\ Wraps(i) => err'[i] # "none"
    <3> SUFFICES ASSUME NEW i \in 1..N, i > layer', Wraps(i) PROVE err'[i] # "none"
      OBVIOUS
    <3>1. CASE i = layer
      BY <1>0, <1>10, <2>1, <3>1
    <3>2. CASE i # layer
      <4>1. i > layer /\ i \in Contexts
        BY <1>0, <1>10, <3>2, DepthAssumption DEF Contexts
      <4> QED
        BY <1>3, <1>4, <1>10, <4>1 DEF VerdictInv
    <3> QED
      BY <3>1, <3>2
  <2> QED
    BY <1>10, <2>2, <2>3, <2>4 DEF VerdictInv, Wraps, Effective
<1>11. CASE Keep
  <2>1. layer > 0 /\ pc = "leave" /\ Wraps(layer) /\ ~Expired(layer) /\ UNCHANGED <<outcome, blamed>>
    BY <1>11 DEF Keep
  <2>2. layer \in 1..N /\ layer <= layer /\ ctx[layer] = layer /\ layer \in Contexts
    BY <1>0, <1>1, <1>5, <2>1
  <2>3. outcome = "ctxerr" => err[Parent(layer)] # "none"
    <3> SUFFICES ASSUME outcome = "ctxerr" PROVE err[Parent(layer)] # "none"
      OBVIOUS
    <3>1. err[layer] # "none"
      BY <1>3, <2>2 DEF VerdictInv
    <3>2. err[layer] = "canceled"
      BY <1>0, <2>1, <2>2, <3>1 DEF Expired, IsError
    <3> QED
      BY <1>2, <2>1, <2>2, <3>1, <3>2
  <2> QED
    BY <1>10, <1>11, <2>1, <2>3 DEF Keep, Release, config, contexts
<1>12. CASE Blame
  <2>1. layer > 0 /\ pc = "parent" /\ Wraps(layer) /\ err[layer] = "deadline"
    BY <1>1, <1>12 DEF Blame, Expired
  <2>2. cause[layer] = layer
    BY <1>2, <1>5, <1>12, <2>1 DEF Blame
  <2> QED
    BY <1>10, <1>12, <2>1, <2>2 DEF Blame, Release, config, contexts
<1>13. CASE Absolve
  BY <1>1, <1>10, <1>13 DEF Absolve, Release, config, contexts
<1>14. CASE (\E i \in Contexts : TimerFires(i)) \/ (\E i \in 1..N : Propagate(i)) \/ CallerCancels
  <2>1. UNCHANGED <<d, ctx, pc, layer, outcome, blamed>>
    BY <1>14 DEF TimerFires, Propagate, CallerCancels, End, config, contexts
  <2>2. CASE pc \in {"enter", "handler"}
    BY <1>1, <2>1, <2>2 DEF VerdictInv
  <2>3. CASE pc \notin {"enter", "handler"}
    <3>1. \A i \in 1..N : i \in Contexts
      BY Indices
    <3> QED
      BY <1>0, <1>3, <1>4, <2>1, <2>3, <3>1 DEF VerdictInv, Wraps, Effective
  <2> QED
    BY <2>2, <2>3
<1> QED
  BY <1>6, <1>7, <1>8, <1>9, <1>11, <1>12, <1>13, <1>14 DEF Next

(* IInv holds in every reachable state, for a stack of any depth. *)
THEOREM Invariance == Spec => []IInv
<1>1. IInv /\ [Next]_vars => IInv'
  <2> SUFFICES ASSUME IInv, [Next]_vars PROVE IInv'
    OBVIOUS
  <2>1. CASE Next
    BY <2>1, NextTypeOK, NextShapeInv, NextCauseInv, NextVerdictInv DEF IInv
  <2>2. CASE UNCHANGED vars
    BY <2>2, StutterIInv
  <2> QED
    BY <2>1, <2>2
<1> QED
  BY InitIInv, <1>1, PTL DEF Spec

(* Every variable keeps its type, whatever the durations. *)
THEOREM TypeCorrect == Spec => []TypeOK
<1>1. IInv => TypeOK  BY DEF IInv
<1> QED
  BY Invariance, <1>1, PTL

(* A layer's "exceeded timeout" result is true of that layer, whatever the *)
(* depth of the stack and the order in which contexts end                  *)
(* (timeout.go:45-57).                                                     *)
THEOREM BlameIsHonest == Spec => []HonestBlame
<1>1. IInv => HonestBlame
  <2> SUFFICES ASSUME IInv, outcome = "timeout" PROVE HonestBlame
    BY DEF HonestBlame
  <2>1. blamed \in Contexts
    BY DEF IInv, TypeOK
  <2> QED
    BY <2>1 DEF IInv, CauseInv, VerdictInv, HonestBlame
<1> QED
  BY Invariance, <1>1, PTL

(* With a healthy caller's context the caller never sees the context error *)
(* of a layer (timeout.go:51-57).                                          *)
THEOREM BareErrorIsTheCallers == Spec => []NoBareContextError
<1>1. IInv => NoBareContextError
  BY DEF IInv, ShapeInv, VerdictInv, NoBareContextError
<1> QED
  BY Invariance, <1>1, PTL

(* No context outlives its call (timeout.go:41). *)
THEOREM NothingLeaks == Spec => []ContextsReleased
<1>1. IInv => ContextsReleased
  <2> SUFFICES ASSUME IInv, pc = "done" PROVE ContextsReleased
    BY DEF ContextsReleased
  <2>1. layer = 0 /\ \A i \in 1..N : i > layer
    BY DepthAssumption DEF IInv, ShapeInv
  <2> QED
    BY <2>1 DEF IInv, VerdictInv, ContextsReleased
<1> QED
  BY Invariance, <1>1, PTL

(* An answer is never replaced once given (timeout.go:51). *)
THEOREM AnswersAreFinal == Spec => SettledIsFinal
<1>1. ASSUME IInv, [Next]_vars PROVE outcome \in {"ok", "timeout"} => UNCHANGED <<outcome, blamed>>
  <2> SUFFICES ASSUME outcome \in {"ok", "timeout"} PROVE UNCHANGED <<outcome, blamed>>
    OBVIOUS
  <2>1. pc # "handler" /\ pc # "parent"
    BY <1>1 DEF IInv, ShapeInv, Expired, IsError
  <2> QED
    BY <1>1, <2>1 DEF Next, vars, EnterWrapped, EnterDisabled, CallHandler, HandlerGivesUp,
       HandlerFinishes, HandlerReturns, LeaveDisabled, Keep, Suspect, Blame, Absolve, Return, Tick,
       TimerFires, Propagate, CallerCancels, End
<1>2. ASSUME IInv, [Next]_vars
      PROVE  [(outcome \in {"ok", "timeout"}) => UNCHANGED <<outcome, blamed>>]_vars
  BY <1>1, <1>2
<1> QED
  BY Invariance, <1>2, PTL DEF Spec, SettledIsFinal
=============================================================================
